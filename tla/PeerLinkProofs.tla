--------------------------- MODULE PeerLinkProofs ---------------------------
(***************************************************************************)
(* For all values of the constants of PeerLink: its types, and the count   *)
(* of the uploads each end holds.  First what the operators of module Link *)
(* preserve, one lemma for each; then the step of every action of          *)
(* PeerLink, by the lemma of the operator that it applies to one end.      *)
(*                                                                         *)
(* The second half is about what is under way between the end that asks    *)
(* and the end that holds: one want, one upload or one response at a time, *)
(* whatever is lost on the way.  Chunks carry no request id, so what       *)
(* PayloadIsWhole and CleanBoundary say rests on this.                     *)
(***************************************************************************)
EXTENDS PeerLink, FiniteSetTheorems, TLAPS

Uploads(L) == Len(L.queue) + (IF L.active.stage = "idle" THEN 0 ELSE 1)

\* A link at rest, between two calls.
Sound(L) == L \in LinkState /\ L.inFlight = Uploads(L)

\* A link whose active upload has been taken out and is still counted.
Owing(L) == /\ L \in LinkState
            /\ L.active.stage = "idle"
            /\ L.inFlight = Len(L.queue) + 1

-----------------------------------------------------------------------------
\* start_next passes over at most the whole queue.
LEMMA SkippedInQueue ==
    ASSUME NEW L \in LinkState
    PROVE  Skipped(L) \in 0 .. Len(L.queue)
<1> DEFINE S == {i \in DOMAIN L.queue :
                    \A j \in 1 .. i : L.closed \/ L.queue[j].cancelled}
<1>1. L.queue \in Seq(Upload) /\ Len(L.queue) \in Nat
  BY DEF LinkState
<1>2. DOMAIN L.queue = 1 .. Len(L.queue)
  BY <1>1
<1>3. IsFiniteSet(1 .. Len(L.queue)) /\ Cardinality(1 .. Len(L.queue)) = Len(L.queue)
  BY SMTT(30), <1>1, FS_Interval
<1>4. S \subseteq 1 .. Len(L.queue)
  BY <1>2
<1>5. Cardinality(S) \in Nat /\ Cardinality(S) <= Len(L.queue)
  BY <1>3, <1>4, FS_Subset, FS_CardinalityType
<1> QED
  BY <1>1, <1>5 DEF Skipped

LEMMA NoPendingType == NoPending \in Pending
<1>1. AnyKey \in Key
  BY KeyAssumption DEF AnyKey
<1>2. None \in Payload
  BY DEF None, Payload
<1>3. Whole \in PieceRange
  BY DEF Whole, PieceRange
<1>4. "" \in Reason
  BY DEF Reason
<1> QED
  BY <1>1, <1>2, <1>3, <1>4 DEF NoPending, Pending

LEMMA NoActiveType == NoActive \in Active
<1>1. AnyKey \in Key
  BY KeyAssumption DEF AnyKey
<1>2. None \in Payload
  BY DEF None, Payload
<1>3. Whole \in PieceRange
  BY DEF Whole, PieceRange
<1>4. NoUpload \in Upload
  BY <1>1, <1>3 DEF NoUpload, Upload
<1>5. Len(None) = 0
  BY DEF None
<1> QED
  BY <1>2, <1>4, <1>5 DEF NoActive, Active

LEMMA FinishType ==
    ASSUME NEW L \in LinkState, NEW bytes \in Payload, NEW outcome \in Outcome,
           NEW now \in BOOLEAN
    PROVE  LET F == Finish(L, bytes, outcome, now) IN
           /\ F \in LinkState
           /\ F.closed = L.closed /\ F.queue = L.queue
           /\ F.active = L.active /\ F.inFlight = L.inFlight
<1>1. L.pending.id \in Nat
  BY DEF LinkState, Pending
<1>2. Append(L.resolved, [id |-> L.pending.id, bytes |-> bytes])
        \in Seq([id : Nat, bytes : Payload])
  BY <1>1 DEF LinkState
<1>3. Append(L.reported, [id |-> L.pending.id, outcome |-> outcome])
        \in Seq([id : Nat, outcome : Outcome])
  BY <1>1 DEF LinkState
<1>4. CASE ~Busy(L)
  BY <1>4 DEF Finish
<1>5. CASE Busy(L)
  <2> DEFINE answered == IF L.pending.resolved THEN L.resolved
                         ELSE Append(L.resolved, [id |-> L.pending.id, bytes |-> bytes])
             told == IF L.pending.reported \/ ~now THEN L.reported
                     ELSE Append(L.reported, [id |-> L.pending.id, outcome |-> outcome])
  <2>1. /\ answered \in Seq([id : Nat, bytes : Payload])
        /\ told \in Seq([id : Nat, outcome : Outcome])
    BY <1>2, <1>3 DEF LinkState
  <2>2. Finish(L, bytes, outcome, now) =
          [L EXCEPT !.pending = NoPending, !.resolved = answered, !.reported = told]
    BY <1>5 DEF Finish
  <2> HIDE DEF answered, told
  <2> QED
    BY ZenonT(60), <2>1, <2>2, NoPendingType DEF LinkState
<1> QED
  BY <1>4, <1>5

LEMMA SendTextType ==
    ASSUME NEW L \in LinkState, NEW frame \in Frame
    PROVE  LET F == SendText(L, frame) IN
           /\ F \in LinkState
           /\ F.closed = L.closed /\ F.queue = L.queue
           /\ F.active = L.active /\ F.inFlight = L.inFlight
<1>1. Append(L.wire, frame) \in Seq(Frame)
  BY DEF LinkState
<1> QED
  BY <1>1 DEF SendText, LinkState

-----------------------------------------------------------------------------
LEMMA StartNextSound ==
    ASSUME NEW L, Sound(L)
    PROVE  Sound(StartNext(L))
<1>1. CASE L.active.stage # "idle"
  BY <1>1 DEF StartNext
<1>2. CASE L.active.stage = "idle"
  <2> DEFINE n == Skipped(L)
             q == L.queue
             nones == [i \in 1 .. n |-> NoneFrame(q[i].id)]
             sent == IF CanSend(L) THEN L.wire \o nones ELSE L.wire
             flight == Less(L.inFlight, n)
             rest == SubSeq(q, n + 2, Len(q))
             next == IF n < Len(q) THEN Awaiting(q[n + 1]) ELSE L.active
  <2>1. q \in Seq(Upload) /\ Len(q) \in Nat /\ n \in 0 .. Len(q)
    <3>1. L \in LinkState
      BY DEF Sound
    <3>2. q \in Seq(Upload)
      BY <3>1 DEF LinkState
    <3> QED
      BY <3>1, <3>2, SkippedInQueue
  <2>2. sent \in Seq(Frame)
    <3>1. ASSUME NEW i \in 1 .. n PROVE NoneFrame(q[i].id) \in Frame
      <4>1. q[i] \in Upload
        BY <2>1
      <4> QED
        BY <4>1 DEF Upload, NoneFrame, Frame
    <3>2. nones \in Seq(Frame)
      BY <2>1, <3>1
    <3> QED
      BY <3>2 DEF Sound, LinkState
  <2>3. L.inFlight = Len(q) /\ flight = Len(q) - n /\ flight \in Nat
    BY <1>2, <2>1 DEF Sound, Uploads, Less
  <2>4. rest \in Seq(Upload)
        /\ Len(rest) = IF n < Len(q) THEN Len(q) - n - 1 ELSE 0
    BY <2>1
  <2>5. next \in Active
        /\ (next.stage = "idle" <=> n = Len(q))
    <3>1. CASE n < Len(q)
      <4>1. q[n + 1] \in Upload /\ None \in Payload /\ Len(None) = 0
        BY <2>1, <3>1 DEF None, Payload
      <4> QED
        BY <2>1, <3>1, <4>1 DEF Awaiting, Active
    <3>2. CASE ~(n < Len(q))
      BY <1>2, <2>1, <3>2 DEF Sound, LinkState
    <3> QED
      BY <3>1, <3>2
  <2>6. StartNext(L) = [L EXCEPT !.wire = sent, !.inFlight = flight,
                                 !.queue = rest, !.active = next]
    BY <1>2 DEF StartNext
  <2> HIDE DEF sent, flight, rest, next, n, q
  <2>7. [L EXCEPT !.wire = sent, !.inFlight = flight,
                  !.queue = rest, !.active = next] \in LinkState
    BY <2>2, <2>3, <2>4, <2>5 DEF Sound, LinkState
  <2>8. flight = Len(rest) + (IF next.stage = "idle" THEN 0 ELSE 1)
    <3>1. CASE n < Len(q)
      BY <2>1, <2>3, <2>4, <2>5, <3>1
    <3>2. CASE n = Len(q)
      BY <2>1, <2>3, <2>4, <2>5, <3>2
    <3>3. n \in Nat /\ n <= Len(q)
      BY <2>1
    <3> QED
      BY <2>1, <3>1, <3>2, <3>3
  <2> QED
    BY <2>6, <2>7, <2>8 DEF Sound, Uploads, LinkState
<1> QED
  BY <1>1, <1>2

LEMMA FinishUploadSound ==
    ASSUME NEW L, Owing(L)
    PROVE  Sound(FinishUpload(L))
<1> DEFINE M == [L EXCEPT !.inFlight = Less(L.inFlight, 1)]
<1>1. Len(L.queue) \in Nat /\ Less(L.inFlight, 1) = Len(L.queue)
  BY DEF Owing, LinkState, Less
<1>2. M \in LinkState /\ M.inFlight = Len(L.queue) /\ M.queue = L.queue
      /\ M.active = L.active
  <2>1. L \in LinkState /\ Less(L.inFlight, 1) \in Nat
    BY <1>1 DEF Owing
  <2> QED
    BY <1>1, <2>1 DEF LinkState
<1>3. Sound(M)
  <2> HIDE DEF M
  <2>1. M.active.stage = "idle" /\ M.inFlight = Len(M.queue)
        /\ Len(M.queue) \in Nat
    BY <1>1, <1>2 DEF Owing
  <2> QED
    BY <1>2, <2>1 DEF Sound, Uploads
<1> QED
  BY <1>3, StartNextSound DEF FinishUpload

-----------------------------------------------------------------------------
LEMMA CloseSound ==
    ASSUME NEW L, Sound(L), NEW reason \in Reason
    PROVE  Sound(Close(L, reason)) /\ Close(L, reason).closed
<1>1. CASE L.closed
  BY <1>1 DEF Close
<1>2. CASE ~L.closed
  <2> DEFINE M == [L EXCEPT !.closed = TRUE, !.reason = reason]
             F == Finish(M, None, "closed", TRUE)
             G == [F EXCEPT !.active = NoActive]
  <2>1. M \in LinkState /\ M.active = L.active /\ M.queue = L.queue
        /\ M.inFlight = L.inFlight /\ M.closed
    BY DEF Sound, LinkState
  <2>2. None \in Payload /\ "closed" \in Outcome
    BY DEF None, Payload, Outcome
  <2>3. F \in LinkState /\ F.closed /\ F.active = L.active
        /\ F.queue = L.queue /\ F.inFlight = L.inFlight
    BY <2>1, <2>2, FinishType
  <2>4. Sound(F)
    BY <2>3 DEF Sound, Uploads
  <2> HIDE DEF F
  <2>5. CASE F.active.stage = "draining"
    <3>1. G \in LinkState /\ G.active.stage = "idle" /\ G.queue = F.queue
          /\ G.inFlight = F.inFlight /\ G.closed
      BY <2>3, NoActiveType DEF LinkState, NoActive
    <3>2. F.inFlight = Len(F.queue) + 1
      BY <2>4, <2>5 DEF Sound, Uploads
    <3>3. Owing(G)
      BY <3>1, <3>2 DEF Owing
    <3>4. FinishUpload(G).closed
      BY <3>1 DEF FinishUpload, StartNext, LinkState
    <3>5. Close(L, reason) = FinishUpload(G)
      BY <1>2, <2>5 DEF Close, F
    <3> QED
      BY <3>3, <3>4, <3>5, FinishUploadSound
  <2>6. CASE F.active.stage # "draining"
    BY <1>2, <2>3, <2>4, <2>6 DEF Close, F
  <2> QED
    BY <2>5, <2>6
<1> QED
  BY <1>1, <1>2

LEMMA CloseOwing ==
    ASSUME NEW L, Owing(L), NEW reason \in Reason
    PROVE  Owing(Close(L, reason))
<1>1. CASE L.closed
  BY <1>1 DEF Close
<1>2. CASE ~L.closed
  <2> DEFINE M == [L EXCEPT !.closed = TRUE, !.reason = reason]
             F == Finish(M, None, "closed", TRUE)
  <2>1. M \in LinkState /\ M.active = L.active /\ M.queue = L.queue
        /\ M.inFlight = L.inFlight
    BY DEF Owing, LinkState
  <2>2. None \in Payload /\ "closed" \in Outcome
    BY DEF None, Payload, Outcome
  <2>3. F \in LinkState /\ F.active = L.active
        /\ F.queue = L.queue /\ F.inFlight = L.inFlight
    BY <2>1, <2>2, FinishType
  <2>4. Close(L, reason) = F
    BY <1>2, <2>3 DEF Close, Owing
  <2> QED
    BY <2>3, <2>4 DEF Owing
<1> QED
  BY <1>1, <1>2

LEMMA ShellSound ==
    ASSUME NEW L, Sound(L)
    PROVE  Sound(Shell(L))
  BY CloseSound DEF Shell, Reason

-----------------------------------------------------------------------------
\* A step that leaves the uploads alone keeps a link sound.
LEMMA SoundUnlessUploads ==
    ASSUME NEW L, Sound(L), NEW M \in LinkState,
           M.queue = L.queue, M.active = L.active, M.inFlight = L.inFlight
    PROVE  Sound(M)
  BY DEF Sound, Uploads

LEMMA FinishSound ==
    ASSUME NEW L, Sound(L), NEW bytes \in Payload, NEW outcome \in Outcome,
           NEW now \in BOOLEAN
    PROVE  Sound(Finish(L, bytes, outcome, now))
  BY FinishType, SoundUnlessUploads DEF Sound

LEMMA SendTextSound ==
    ASSUME NEW L, Sound(L), NEW frame \in Frame
    PROVE  Sound(SendText(L, frame))
  BY SendTextType, SoundUnlessUploads DEF Sound

LEMMA NonePayload == None \in Payload
  BY DEF None, Payload

LEMMA StartRequestSound ==
    ASSUME NEW L, Sound(L), NEW k \in Key, NEW r \in PieceRange,
           NEW expected \in Nat
    PROVE  Sound(StartRequest(L, k, r, expected))
<1> DEFINE p == [NoPending EXCEPT !.id = L.nextId, !.key = k, !.range = r,
                                  !.expected = expected,
                                  !.abandonReason = "request-timeout"]
           M == [L EXCEPT !.nextId = L.nextId + 1, !.pending = p]
<1>1. L \in LinkState /\ L.nextId \in Nat \ {0} /\ L.nextId + 1 \in Nat \ {0}
  BY DEF Sound, LinkState
<1>2. "request-timeout" \in Reason /\ "send-error" \in Outcome
  BY DEF Reason, Outcome
<1>3. p \in Pending
  BY <1>1, <1>2, NoPendingType DEF Pending
<1>4. M \in LinkState /\ M.queue = L.queue /\ M.active = L.active
      /\ M.inFlight = L.inFlight
  <2> HIDE DEF p
  <2> QED
    BY <1>1, <1>3 DEF LinkState
<1>5. Sound(M)
  <2> HIDE DEF M
  <2> QED
    BY <1>4, SoundUnlessUploads
<1>6. WantFrame(L.nextId, k, r) \in Frame
  BY <1>1 DEF WantFrame, Frame
<1>7. StartRequest(L, k, r, expected) =
        IF CanSend(L) THEN SendText(M, WantFrame(L.nextId, k, r))
        ELSE Finish(M, None, "send-error", TRUE)
  BY DEF StartRequest
<1> HIDE DEF M
<1> QED
  BY <1>2, <1>5, <1>6, <1>7, SendTextSound, FinishSound, NonePayload

LEMMA AbandonSound ==
    ASSUME NEW L, Sound(L), NEW reason \in Reason, NEW outcome \in Outcome
    PROVE  Sound(Abandon(L, reason, outcome))
<1> DEFINE id == L.pending.id
           settled == Append(L.resolved, [id |-> id, bytes |-> None])
           p == [L.pending EXCEPT
                   !.draining = TRUE, !.parts = None, !.abandonReason = reason,
                   !.resolved = TRUE, !.reported = TRUE, !.cancelled = CanSend(L)]
<1>1. L \in LinkState /\ L.pending \in Pending /\ id \in Nat
  BY DEF Sound, LinkState, Pending
<1>2. settled \in Seq([id : Nat, bytes : Payload])
  BY <1>1, NonePayload DEF LinkState
<1>3. CASE ~(Reliable /\ L.open)
  <2> DEFINE F == Close(Finish(L, None, outcome, FALSE), reason)
             told == Append(F.reported, [id |-> id, outcome |-> outcome])
             M == [F EXCEPT !.reported = told]
  <2>1. Sound(F)
    BY FinishSound, CloseSound, NonePayload
  <2>2. Abandon(L, reason, outcome) = M
    BY <1>3 DEF Abandon
  <2> HIDE DEF F
  <2>3. told \in Seq([id : Nat, outcome : Outcome])
    BY <1>1, <2>1 DEF Sound, LinkState
  <2>4. M \in LinkState /\ M.queue = F.queue /\ M.active = F.active
        /\ M.inFlight = F.inFlight
    BY <2>1, <2>3 DEF Sound, LinkState
  <2> HIDE DEF M
  <2> QED
    BY <2>1, <2>2, <2>4, SoundUnlessUploads
<1>4. CASE Reliable /\ L.open
  <2> DEFINE told == Append(L.reported, [id |-> id, outcome |-> outcome])
             M == [L EXCEPT !.resolved = settled, !.reported = told, !.pending = p]
  <2>1. told \in Seq([id : Nat, outcome : Outcome])
    BY <1>1 DEF LinkState
  <2>2. CanSend(L) \in BOOLEAN
    BY <1>1 DEF CanSend, LinkState
  <2>3. p \in Pending
    BY <1>1, <2>2, NonePayload DEF Pending
  <2>4. M \in LinkState /\ M.queue = L.queue /\ M.active = L.active
        /\ M.inFlight = L.inFlight
    <3> HIDE DEF p, told, settled
    <3> QED
      BY <1>1, <1>2, <2>1, <2>3 DEF LinkState
  <2>5. CancelFrame(id) \in Frame
    BY <1>1 DEF CancelFrame, Frame
  <2>6. Abandon(L, reason, outcome) = SendText(M, CancelFrame(id))
    BY <1>4 DEF Abandon
  <2> HIDE DEF M
  <2>7. Sound(M)
    BY <2>4, SoundUnlessUploads
  <2> QED
    BY <2>5, <2>6, <2>7, SendTextSound
<1> QED
  BY <1>3, <1>4

LEMMA AbortSound ==
    ASSUME NEW L, Sound(L), NEW outcome \in Outcome
    PROVE  Sound(Abort(L, outcome))
  BY AbandonSound DEF Abort, Reason

LEMMA RequestTimeoutSound ==
    ASSUME NEW L, Sound(L)
    PROVE  Sound(RequestTimeout(L))
<1>1. L.pending.abandonReason \in Reason
  BY DEF Sound, LinkState, Pending
<1>2. "request-timeout" \in Reason /\ "timeout" \in Outcome
  BY DEF Reason, Outcome
<1> QED
  BY <1>1, <1>2, CloseSound, AbandonSound DEF RequestTimeout

-----------------------------------------------------------------------------
(* Frames from the far end.                                                *)

LEMMA MisnamedSound ==
    ASSUME NEW L, Sound(L)
    PROVE  Sound(Misnamed(L))
  BY CloseSound DEF Misnamed, Reason

\* What the tag of a frame says of its fields.
LEMMA FrameFields ==
    ASSUME NEW frame \in Frame
    PROVE  /\ frame.t \in {"want", "meta", "chunk", "eof", "none", "cancel"}
           /\ frame.t # "chunk" => frame.id \in Nat
           /\ frame.t = "want" => frame.key \in Key /\ frame.range \in PieceRange
           /\ frame.t = "meta" => frame.size \in Nat
           /\ frame.t = "chunk" => frame.chunk \in Chunk
  BY DEF Frame

LEMMA OnMetaSound ==
    ASSUME NEW L, Sound(L), NEW frame \in Frame, frame.t = "meta"
    PROVE  Sound(OnMeta(L, frame))
<1> DEFINE p == [L.pending EXCEPT !.size = frame.size]
           M == [L EXCEPT !.pending = p]
<1>1. L \in LinkState /\ frame.size \in Nat
  BY FrameFields DEF Sound
<1>2. p \in Pending
  BY <1>1 DEF LinkState, Pending
<1>3. M \in LinkState /\ M.queue = L.queue /\ M.active = L.active
      /\ M.inFlight = L.inFlight
  <2> HIDE DEF p
  <2> QED
    BY <1>1, <1>2 DEF LinkState
<1>4. OnMeta(L, frame) \in {Misnamed(L), Close(L, "protocol"), M}
  BY <1>1 DEF OnMeta, LinkState
<1> HIDE DEF M
<1>5. Sound(M)
  BY <1>3, SoundUnlessUploads
<1>6. "protocol" \in Reason
  BY DEF Reason
<1> QED
  BY <1>4, <1>5, <1>6, MisnamedSound, CloseSound

LEMMA OnEofSound ==
    ASSUME NEW L, Sound(L), NEW frame \in Frame
    PROVE  Sound(OnEof(L, frame))
<1>1. "protocol" \in Reason /\ "none" \in Outcome /\ "payload" \in Outcome
  BY DEF Reason, Outcome
<1>2. L.pending.parts \in Payload
  BY DEF Sound, LinkState, Pending
<1> QED
  BY <1>1, <1>2, NonePayload, MisnamedSound, CloseSound, FinishSound DEF OnEof

LEMMA OnNoneSound ==
    ASSUME NEW L, Sound(L), NEW frame \in Frame
    PROVE  Sound(OnNone(L, frame))
<1>1. "protocol" \in Reason /\ "none" \in Outcome
  BY DEF Reason, Outcome
<1> QED
  BY <1>1, NonePayload, MisnamedSound, CloseSound, FinishSound DEF OnNone

LEMMA HandleBinarySound ==
    ASSUME NEW L, Sound(L), NEW frame \in Frame, frame.t = "chunk"
    PROVE  Sound(HandleBinary(L, frame))
<1> DEFINE received == L.pending.received + 1
           counted == [L.pending EXCEPT !.received = received]
           kept == [L.pending EXCEPT !.received = received,
                                     !.parts = Append(L.pending.parts, frame.chunk)]
           M == [L EXCEPT !.pending = counted]
           N == [L EXCEPT !.pending = kept]
<1>1. L \in LinkState /\ L.pending \in Pending /\ frame.chunk \in Chunk
  BY FrameFields DEF Sound, LinkState
<1>2. received \in Nat /\ Append(L.pending.parts, frame.chunk) \in Payload
  BY <1>1 DEF Pending, Payload
<1>3. counted \in Pending /\ kept \in Pending
  BY <1>1, <1>2 DEF Pending
<1> HIDE DEF counted, kept
<1>4. /\ M \in LinkState /\ M.queue = L.queue /\ M.active = L.active
      /\ M.inFlight = L.inFlight
      /\ N \in LinkState /\ N.queue = L.queue /\ N.active = L.active
      /\ N.inFlight = L.inFlight
  BY <1>1, <1>3 DEF LinkState
<1>5. HandleBinary(L, frame) \in {L, Close(L, "protocol"), Close(M, "protocol"), M, N}
  BY <1>1 DEF HandleBinary, LinkState, counted, kept
<1> HIDE DEF M, N
<1>6. Sound(M) /\ Sound(N)
  BY <1>4, SoundUnlessUploads
<1>7. "protocol" \in Reason
  BY DEF Reason
<1> QED
  BY <1>5, <1>6, <1>7, CloseSound

-----------------------------------------------------------------------------
(* The serving side.                                                       *)

LEMMA OnWantSound ==
    ASSUME NEW L, Sound(L), NEW frame \in Frame, frame.t = "want"
    PROVE  Sound(OnWant(L, frame))
<1> DEFINE u == [id |-> frame.id, key |-> frame.key,
                 range |-> frame.range, cancelled |-> FALSE]
           M == [L EXCEPT !.inFlight = L.inFlight + 1, !.queue = Append(L.queue, u)]
<1>1. L \in LinkState /\ u \in Upload
  <2>1. frame.id \in Nat /\ frame.key \in Key /\ frame.range \in PieceRange
    BY FrameFields
  <2> QED
    BY <2>1 DEF Sound, Upload
<1>2. /\ L.queue \in Seq(Upload) /\ L.inFlight \in Nat
      /\ Append(L.queue, u) \in Seq(Upload)
      /\ Len(Append(L.queue, u)) = Len(L.queue) + 1
  BY <1>1 DEF LinkState
<1> HIDE DEF u
<1>3. /\ M \in LinkState /\ M.active = L.active
      /\ M.inFlight = L.inFlight + 1 /\ Len(M.queue) = Len(L.queue) + 1
  <2> DEFINE flight == L.inFlight + 1
             queue == Append(L.queue, u)
  <2>1. flight \in Nat
    BY <1>2
  <2> HIDE DEF flight, queue
  <2>2. LET N == [L EXCEPT !.inFlight = flight, !.queue = queue] IN
        N \in LinkState /\ N.active = L.active /\ N.inFlight = flight
        /\ N.queue = queue
    BY <1>1, <1>2, <2>1 DEF LinkState, queue
  <2> QED
    BY <1>2, <2>2 DEF flight, queue
<1>4. OnWant(L, frame) \in {Close(L, "upload-queue"), StartNext(M)}
  BY DEF OnWant, u
<1> HIDE DEF M
<1>5. Sound(M)
  <2>1. Len(L.queue) \in Nat /\ L.inFlight = Uploads(L)
    BY <1>2 DEF Sound
  <2>2. CASE L.active.stage = "idle"
    BY <1>2, <1>3, <2>1, <2>2 DEF Sound, Uploads
  <2>3. CASE L.active.stage # "idle"
    BY <1>2, <1>3, <2>1, <2>3 DEF Sound, Uploads
  <2> QED
    BY <2>2, <2>3
<1>6. "upload-queue" \in Reason
  BY DEF Reason
<1> QED
  BY <1>4, <1>5, <1>6, CloseSound, StartNextSound

\* Owing is about the uploads only, too.
LEMMA OwingUnlessUploads ==
    ASSUME NEW L, Owing(L), NEW M \in LinkState,
           M.queue = L.queue, M.active = L.active, M.inFlight = L.inFlight
    PROVE  Owing(M)
  BY DEF Owing

LEMMA SendBinaryOwing ==
    ASSUME NEW L, Owing(L), NEW bytes \in Payload,
           NEW first \in Nat \ {0}, NEW last \in 0 .. Len(bytes)
    PROVE  Owing(SendBinary(L, bytes, first, last))
<1>1. CASE first > last
  BY <1>1 DEF SendBinary
<1>2. CASE ~(first > last)
  <2> DEFINE n == (last - first) + 1
             frames == [i \in 1 .. n |-> ChunkFrame(bytes[first + i - 1])]
             buffer == L.buffered + (last - first) + 1
             failed == L.failed \/ ~L.open
             wire == IF L.open THEN L.wire \o frames ELSE L.wire
             M == [L EXCEPT !.buffered = buffer, !.failed = failed, !.wire = wire]
  <2>1. bytes \in Seq(Chunk) /\ Len(bytes) \in Nat /\ L \in LinkState
    BY DEF Payload, Owing
  <2>2. n \in Nat /\ buffer \in Nat /\ failed \in BOOLEAN
    BY <1>2, <2>1 DEF LinkState
  <2>3. ASSUME NEW i \in 1 .. n PROVE ChunkFrame(bytes[first + i - 1]) \in Frame
    <3>1. first + i - 1 \in 1 .. Len(bytes)
      BY <1>2, <2>1
    <3>2. bytes[first + i - 1] \in Chunk
      BY <2>1, <3>1
    <3> QED
      BY <3>2 DEF ChunkFrame, Frame
  <2>4. frames \in Seq(Frame)
    BY <2>2, <2>3
  <2>5. wire \in Seq(Frame)
    BY <2>1, <2>4 DEF LinkState
  <2>6. SendBinary(L, bytes, first, last) = M
    BY <1>2 DEF SendBinary
  <2> HIDE DEF buffer, failed, wire
  <2>7. M \in LinkState /\ M.queue = L.queue /\ M.active = L.active
        /\ M.inFlight = L.inFlight
    BY <2>1, <2>2, <2>5 DEF LinkState
  <2> HIDE DEF M
  <2> QED
    BY <2>6, <2>7, OwingUnlessUploads
<1> QED
  BY <1>1, <1>2

LEMMA BurstBound ==
    ASSUME NEW L \in LinkState, NEW u \in Upload, NEW left \in Nat,
           NEW resumed \in BOOLEAN
    PROVE  Burst(L, u, left, resumed) \in 0 .. left
<1>1. L.buffered \in Nat /\ HighWater \in Nat
  BY LimitAssumption DEF LinkState
<1>2. u.cancelled \in BOOLEAN
  BY DEF Upload
<1> QED
  BY <1>1, <1>2 DEF Burst

LEMMA SendChunksSound ==
    ASSUME NEW L, Owing(L), NEW u \in Upload, NEW bytes \in Payload,
           NEW sent \in 0 .. Len(bytes), NEW resumed \in BOOLEAN
    PROVE  Sound(SendChunks(L, u, bytes, sent, resumed))
<1> DEFINE left == Len(bytes) - sent
           n == Burst(L, u, left, resumed)
           pauses == /\ n < left
                     /\ ~(u.cancelled /\ (resumed \/ L.buffered <= HighWater))
           P == SendBinary(L, bytes, sent + 1, sent + n)
           paused == [stage |-> "draining", upload |-> u, bytes |-> bytes,
                      sent |-> sent + n]
           M == [P EXCEPT !.active = paused]
           out == P.bytesOut + (sent + n)
           back == P.refunded + (left - n)
           N == [P EXCEPT !.bytesOut = out, !.refunded = back]
<1>1. Len(bytes) \in Nat /\ left \in Nat
  BY DEF Payload
<1>2. n \in 0 .. left
  BY <1>1, BurstBound DEF Owing
<1>3. sent + 1 \in Nat \ {0} /\ sent + n \in 0 .. Len(bytes)
  BY <1>1, <1>2
<1>4. Owing(P) /\ P \in LinkState
  BY <1>3, SendBinaryOwing DEF Owing
<1>5. paused \in Active /\ paused.stage # "idle"
  BY <1>1, <1>3 DEF Active
<1>6. out \in Nat /\ back \in Nat
  <2>1. P.bytesOut \in Nat /\ P.refunded \in Nat
    BY <1>4 DEF LinkState
  <2>2. sent \in Nat /\ n \in Nat /\ left - n \in Nat
    BY <1>1, <1>2
  <2> HIDE DEF P, n, left
  <2> QED
    BY <2>1, <2>2
<1>7. u.id \in Nat /\ EofFrame(u.id) \in Frame
  BY DEF Upload, EofFrame, Frame
<1>8. SendChunks(L, u, bytes, sent, resumed)
        = IF L.closed /\ left > 0 THEN FinishUpload(L)
          ELSE IF pauses THEN M
          ELSE FinishUpload(SendText(N, EofFrame(u.id)))
  BY DEF SendChunks, EndResponse
<1> HIDE DEF P, paused, out, back, pauses
<1>9. Sound(M)
  <2>1. M \in LinkState /\ M.queue = P.queue /\ M.active = paused
        /\ M.inFlight = P.inFlight
    BY <1>4, <1>5 DEF LinkState
  <2> HIDE DEF M
  <2> QED
    BY <1>4, <1>5, <2>1 DEF Owing, Sound, Uploads
<1>10. Sound(FinishUpload(SendText(N, EofFrame(u.id))))
  <2>1. N \in LinkState /\ N.queue = P.queue /\ N.active = P.active
        /\ N.inFlight = P.inFlight
    BY <1>4, <1>6 DEF LinkState
  <2> HIDE DEF N
  <2>2. LET F == SendText(N, EofFrame(u.id)) IN
        F \in LinkState /\ F.queue = N.queue /\ F.active = N.active
        /\ F.inFlight = N.inFlight
    BY <1>7, <2>1, SendTextType
  <2>3. Owing(SendText(N, EofFrame(u.id)))
    BY <1>4, <2>1, <2>2 DEF Owing
  <2> QED
    BY <2>3, FinishUploadSound
<1> HIDE DEF M, N
<1> QED
  BY <1>8, <1>9, <1>10, FinishUploadSound

\* Taking the active upload out leaves a link that owes it.
LEMMA TakenOwing ==
    ASSUME NEW L, Sound(L), L.active.stage # "idle"
    PROVE  LET M == [L EXCEPT !.active = NoActive] IN
           Owing(M) /\ M.closed = L.closed
<1> DEFINE M == [L EXCEPT !.active = NoActive]
<1>1. M \in LinkState /\ M.queue = L.queue /\ M.active = NoActive
      /\ M.inFlight = L.inFlight /\ M.closed = L.closed
  BY NoActiveType DEF Sound, LinkState
<1>2. L.inFlight = Len(L.queue) + 1
  BY DEF Sound, Uploads
<1> HIDE DEF M
<1>3. Owing(M) /\ M.closed = L.closed
  BY <1>1, <1>2 DEF Owing, NoActive
<1> QED
  BY <1>3 DEF M

LEMMA ResumeSound ==
    ASSUME NEW L, Sound(L), L.active.stage # "idle"
    PROVE  Sound(Resume(L))
<1>1. L.active \in Active
  BY DEF Sound, LinkState
<1>2. L.active.upload \in Upload /\ L.active.bytes \in Payload
      /\ L.active.sent \in 0 .. Len(L.active.bytes)
  BY <1>1 DEF Active, Payload
<1> QED
  BY <1>2, TakenOwing, SendChunksSound DEF Resume

LEMMA BufferedAmountLowSound ==
    ASSUME NEW L, Sound(L), NEW buffered \in Nat
    PROVE  Sound(BufferedAmountLow(L, buffered))
<1> DEFINE M == [L EXCEPT !.buffered = buffered]
<1>1. M \in LinkState /\ M.queue = L.queue /\ M.active = L.active
      /\ M.inFlight = L.inFlight
  BY DEF Sound, LinkState
<1>2. BufferedAmountLow(L, buffered) \in {L, Resume(M)}
  BY DEF BufferedAmountLow
<1>3. BufferedAmountLow(L, buffered) = L \/ L.active.stage = "draining"
  BY DEF BufferedAmountLow
<1> HIDE DEF M
<1> QED
  BY <1>1, <1>2, <1>3, SoundUnlessUploads, ResumeSound

LEMMA UploadTimeoutSound ==
    ASSUME NEW L, Sound(L), L.active.stage = "draining"
    PROVE  Sound(UploadTimeout(L))
  BY TakenOwing, CloseOwing, FinishUploadSound DEF UploadTimeout, Reason

LEMMA ServeResponseSound ==
    ASSUME NEW L, Sound(L), NEW bytes \in Payload, NEW buffered \in Nat
    PROVE  Sound(ServeResponse(L, bytes, buffered))
<1>1. CASE L.active.stage # "awaiting"
  BY <1>1 DEF ServeResponse
<1>2. CASE L.active.stage = "awaiting"
  <2> DEFINE u == L.active.upload
             slice == Slice(bytes, u.range)
             M == [L EXCEPT !.active = NoActive]
             T == [L EXCEPT !.active = NoActive, !.buffered = buffered]
             given == T.granted + Len(slice)
             G == [T EXCEPT !.granted = given]
             back == G.refunded + Len(slice)
             B == [G EXCEPT !.refunded = back]
             fits == ~(bytes = None \/ (u.range # Whole /\ ~Fits(Len(bytes), u.range)))
  <2>1. u \in Upload /\ u.range \in PieceRange /\ u.id \in Nat /\ L \in LinkState
    BY DEF Sound, LinkState, Active, Upload
  <2>2. Owing(T) /\ T \in LinkState
    <3>1. Owing(M)
      BY <1>2, TakenOwing
    <3>2. T \in LinkState /\ T.queue = M.queue /\ T.active = M.active
          /\ T.inFlight = M.inFlight
      BY <2>1, NoActiveType DEF LinkState
    <3> QED
      BY <3>1, <3>2, OwingUnlessUploads
  <2>3. NoneFrame(u.id) \in Frame
    BY <2>1 DEF NoneFrame, Frame
  <2>4. ASSUME NEW O, Owing(O) PROVE Sound(FinishUpload(SendText(O, NoneFrame(u.id))))
    BY <2>3, <2>4, SendTextType, OwingUnlessUploads, FinishUploadSound DEF Owing
  <2>5. ASSUME fits PROVE slice \in Payload /\ Len(slice) \in Nat
    <3>1. CASE u.range = Whole
      BY <3>1 DEF Slice, Payload
    <3>2. CASE u.range # Whole
      <4>1. u.range.start \in Nat /\ u.range.end \in Nat /\ u.range.end <= Len(bytes)
        BY <2>1, <2>5, <3>2 DEF Fits, PieceRange
      <4>2. bytes \in Seq(Chunk) /\ Len(bytes) \in Nat
        BY DEF Payload
      <4>3. SubSeq(bytes, u.range.start + 1, u.range.end) \in Seq(Chunk)
        BY <4>1, <4>2
      <4> QED
        BY SMTT(30), <3>2, <4>3 DEF Slice, Payload
    <3> QED
      BY <3>1, <3>2
  <2> HIDE DEF T, slice, M
  <2>6. ASSUME fits PROVE Owing(G) /\ G \in LinkState /\ CanSend(G) = CanSend(T)
    <3>1. given \in Nat
      <4>1. T.granted \in Nat
        BY <2>2 DEF LinkState
      <4> QED
        BY <2>5, <2>6, <4>1
    <3> HIDE DEF given
    <3>2. G \in LinkState /\ G.queue = T.queue /\ G.active = T.active
          /\ G.inFlight = T.inFlight /\ CanSend(G) = CanSend(T)
      BY <2>2, <3>1 DEF LinkState, CanSend
    <3> QED
      BY <2>2, <3>2, OwingUnlessUploads
  <2>7. ASSUME fits PROVE Owing(B)
    <3>1. back \in Nat
      <4>1. G.refunded \in Nat
        BY <2>6, <2>7 DEF LinkState
      <4> QED
        BY <2>5, <2>7, <4>1
    <3> HIDE DEF back, G
    <3>2. B \in LinkState /\ B.queue = G.queue /\ B.active = G.active
          /\ B.inFlight = G.inFlight
      BY <2>6, <2>7, <3>1 DEF LinkState
    <3> QED
      BY <2>6, <2>7, <3>2, OwingUnlessUploads
  <2>8. ASSUME fits
        PROVE  Sound(SendChunks(SendText(G, MetaFrame(u.id, Len(slice), u.range)),
                                u, slice, 0, FALSE))
    <3>1. MetaFrame(u.id, Len(slice), u.range) \in Frame
      BY <2>1, <2>5, <2>8 DEF MetaFrame, Frame
    <3>2. Owing(SendText(G, MetaFrame(u.id, Len(slice), u.range)))
      BY <2>6, <2>8, <3>1, SendTextType, OwingUnlessUploads
    <3>3. 0 \in 0 .. Len(slice)
      BY <2>5, <2>8
    <3> QED
      BY <2>1, <2>5, <2>8, <3>2, <3>3, SendChunksSound
  <2>9. ServeResponse(L, bytes, buffered)
          = IF ~fits THEN FinishUpload(SendText(T, NoneFrame(u.id)))
            ELSE IF u.cancelled THEN FinishUpload(SendText(B, NoneFrame(u.id)))
            ELSE IF ~CanSend(L) THEN FinishUpload(G)
            ELSE SendChunks(SendText(G, MetaFrame(u.id, Len(slice), u.range)),
                            u, slice, 0, FALSE)
    BY <1>2 DEF ServeResponse, T, slice
  <2> HIDE DEF G, B, fits, u
  <2> QED
    BY <2>2, <2>4, <2>6, <2>7, <2>8, <2>9, FinishUploadSound
<1> QED
  BY <1>1, <1>2

LEMMA OnCancelSound ==
    ASSUME NEW L, Sound(L), NEW frame \in Frame, frame.t = "cancel"
    PROVE  Sound(OnCancel(L, frame))
<1> DEFINE queue == [i \in DOMAIN L.queue |->
                        IF L.queue[i].id = frame.id
                        THEN [L.queue[i] EXCEPT !.cancelled = TRUE]
                        ELSE L.queue[i]]
           off == \/ L.active.upload.cancelled
                  \/ /\ L.active.stage # "idle"
                     /\ L.active.upload.id = frame.id
           upload == [L.active.upload EXCEPT !.cancelled = off]
           active == [L.active EXCEPT !.upload = upload]
           M == [L EXCEPT !.queue = queue, !.active.upload.cancelled = off]
<1>1. /\ L \in LinkState /\ L.queue \in Seq(Upload)
      /\ L.active \in Active /\ L.active.upload \in Upload
  BY DEF Sound, LinkState, Active
<1>2. queue \in Seq(Upload) /\ Len(queue) = Len(L.queue)
  <2>1. DOMAIN L.queue = 1 .. Len(L.queue) /\ Len(L.queue) \in Nat
    BY <1>1
  <2>2. ASSUME NEW v \in Upload PROVE [v EXCEPT !.cancelled = TRUE] \in Upload
    BY DEF Upload
  <2>3. ASSUME NEW i \in 1 .. Len(L.queue) PROVE queue[i] \in Upload
    <3>1. L.queue[i] \in Upload
      BY <1>1
    <3>2. queue[i] = IF L.queue[i].id = frame.id
                     THEN [L.queue[i] EXCEPT !.cancelled = TRUE] ELSE L.queue[i]
      BY <2>1
    <3> QED
      BY <2>2, <3>1, <3>2
  <2>4. DOMAIN queue = 1 .. Len(L.queue)
    BY <2>1
  <2>5. queue = [i \in 1 .. Len(L.queue) |-> queue[i]]
    BY <2>1
  <2> HIDE DEF queue
  <2> QED
    BY <2>1, <2>3, <2>4, <2>5
<1>3. off \in BOOLEAN
  BY <1>1 DEF Upload
<1>4. upload \in Upload
  <2> HIDE DEF off
  <2> QED
    BY <1>1, <1>3 DEF Upload
<1>5. active \in Active /\ active.stage = L.active.stage
  <2> HIDE DEF upload
  <2> QED
    BY <1>1, <1>4 DEF Active
<1> HIDE DEF queue
<1>6a. M = [L EXCEPT !.queue = queue, !.active = active]
  BY <1>1 DEF LinkState
<1> HIDE DEF active
<1>6. M \in LinkState /\ M.queue = queue /\ M.active = active
      /\ M.inFlight = L.inFlight
  BY ZenonT(60), <1>1, <1>2, <1>5, <1>6a DEF LinkState
<1>7. OnCancel(L, frame) =
        IF L.active.stage = "draining" /\ L.active.upload.id = frame.id
        THEN Resume(M) ELSE M
  BY DEF OnCancel, queue
<1> HIDE DEF M
<1>8. Sound(M)
  BY <1>2, <1>5, <1>6 DEF Sound, Uploads
<1> QED
  BY <1>5, <1>6, <1>7, <1>8, ResumeSound

\* Whatever frame arrives, the link it leaves is sound.
LEMMA HandleSound ==
    ASSUME NEW L, Sound(L), NEW frame \in Frame
    PROVE  Sound(Handle(L, frame))
<1>1. CASE frame.t = "chunk"
  BY <1>1, HandleBinarySound DEF Handle
<1>2. CASE frame.t # "chunk"
  <2>1. Handle(L, frame) = HandleText(L, frame)
    BY <1>2 DEF Handle
  <2>2. CASE L.closed
    BY <2>1, <2>2 DEF HandleText
  <2>3. CASE ~L.closed
    <3>1. CASE frame.t = "want"
      BY <2>1, <2>3, <3>1, OnWantSound DEF HandleText
    <3>2. CASE frame.t = "cancel"
      BY <2>1, <2>3, <3>2, OnCancelSound DEF HandleText
    <3>3. CASE frame.t = "meta"
      BY <2>1, <2>3, <3>3, OnMetaSound DEF HandleText
    <3>4. CASE frame.t = "eof"
      BY <2>1, <2>3, <3>4, OnEofSound DEF HandleText
    <3>5. CASE frame.t = "none"
      BY <2>1, <2>3, <3>5, OnNoneSound DEF HandleText
    <3> QED
      BY <1>2, <3>1, <3>2, <3>3, <3>4, <3>5, FrameFields
  <2> QED
    BY <2>2, <2>3
<1> QED
  BY <1>1, <1>2

LEMMA NewLinkSound == Sound(NewLink)
<1> DEFINE empty == <<>>
<1>1. "" \in Reason
  BY DEF Reason
<1>2. /\ empty \in Seq(Upload) /\ empty \in Seq(Frame)
      /\ empty \in Seq([id : Nat, bytes : Payload])
      /\ empty \in Seq([id : Nat, outcome : Outcome])
      /\ Len(empty) = 0
  OBVIOUS
<1>3. NewLink = [open |-> TRUE, failed |-> FALSE, closed |-> FALSE, reason |-> "",
                 pending |-> NoPending, nextId |-> 1, queue |-> empty,
                 active |-> NoActive, inFlight |-> 0, buffered |-> 0,
                 wire |-> empty, resolved |-> empty, reported |-> empty,
                 granted |-> 0, bytesOut |-> 0, refunded |-> 0]
  BY DEF NewLink
<1> HIDE DEF empty
<1>4. NewLink \in LinkState
  <2>1. [open |-> TRUE, failed |-> FALSE, closed |-> FALSE, reason |-> "",
         pending |-> NoPending, nextId |-> 1, queue |-> empty,
         active |-> NoActive, inFlight |-> 0, buffered |-> 0,
         wire |-> empty, resolved |-> empty, reported |-> empty,
         granted |-> 0, bytesOut |-> 0, refunded |-> 0] \in LinkState
    <3>1. 1 \in Nat \ {0} /\ 0 \in Nat /\ TRUE \in BOOLEAN /\ FALSE \in BOOLEAN
      OBVIOUS
    <3> QED
      BY <1>1, <1>2, <3>1, NoPendingType, NoActiveType DEF LinkState
  <2> QED
    BY <1>3, <2>1
<1>5. NewLink.inFlight = 0 /\ Len(NewLink.queue) = 0 /\ NewLink.active.stage = "idle"
  BY <1>2, <1>3 DEF NoActive
<1> QED
  BY <1>4, <1>5 DEF Sound, Uploads
-----------------------------------------------------------------------------

\* The inductive invariant.  The types alone are not inductive: an end that
\* pauses a response keeps the place it got to, and Sound says that the
\* uploads an end counts are those it holds.
IInv == /\ link \in [Node -> LinkState]
        /\ \A n \in Node : Sound(link[n])
        /\ asked \in [Node -> Seq([key : Key, range : PieceRange, expected : Nat])]

\* There is another viewer.
LEMMA OtherNode ==
    ASSUME NEW n \in Node
    PROVE  Other(n) \in Node /\ Other(n) # n
<1>1. PICK a, b \in Node : a # b /\ Node = {a, b}
  BY NodeAssumption
<1>2. \E m \in Node : m # n
  BY <1>1
<1> QED
  BY <1>2 DEF Other

\* Fresh links are sound.
LEMMA InitIInv == Init => IInv
<1> SUFFICES ASSUME Init PROVE IInv
  OBVIOUS
<1>1. Sound(NewLink) /\ NewLink \in LinkState
  BY NewLinkSound DEF Sound
<1>2. <<>> \in Seq([key : Key, range : PieceRange, expected : Nat])
  OBVIOUS
<1> QED
  BY <1>1, <1>2 DEF Init, IInv

\* A step that puts a sound link in the place of one end.
LEMMA EndStep ==
    ASSUME IInv, NEW n \in Node, NEW L, Sound(L),
           link' = [link EXCEPT ![n] = L],
           asked' \in [Node -> Seq([key : Key, range : PieceRange, expected : Nat])]
    PROVE  IInv'
  BY DEF IInv, Sound

\* A call that leaves its link sound keeps both sound.
LEMMA CallStep ==
    ASSUME IInv, NEW n \in Node, NEW L, Sound(L), Call(n, L)
    PROVE  IInv'
<1>1. Sound(Shell(L))
  BY ShellSound
<1> QED
  BY <1>1, EndStep DEF Call, IInv

LEMMA RequestStep ==
    ASSUME IInv, NEW n \in Node, Request(n)
    PROVE  IInv'
<1>1. PICK q \in Ask[n] :
         /\ link' = [link EXCEPT ![n] =
                       StartRequest(link[n], q.key, q.range, q.expected)]
         /\ asked' = [asked EXCEPT ![n] = Append(asked[n], q)]
  BY DEF Request
<1>2. q \in [key : Key, range : PieceRange, expected : Nat]
  BY AskAssumption
<1>3. Sound(StartRequest(link[n], q.key, q.range, q.expected))
  BY <1>2, StartRequestSound DEF IInv
<1>4. asked' \in [Node -> Seq([key : Key, range : PieceRange, expected : Nat])]
  <2> DEFINE Q == [key : Key, range : PieceRange, expected : Nat]
  <2>1. asked \in [Node -> Seq(Q)] /\ q \in Q
    BY <1>2 DEF IInv
  <2> HIDE DEF Q
  <2>2. Append(asked[n], q) \in Seq(Q)
    BY <2>1
  <2>3. asked' \in [Node -> Seq(Q)]
    BY <1>1, <2>1, <2>2
  <2> QED
    BY <2>3 DEF Q
<1> QED
  BY <1>1, <1>3, <1>4, EndStep

\* What the host answers with is a payload.
LEMMA ObjectPayload ==
    ASSUME NEW n \in Node, NEW k \in Key
    PROVE  Object(k, HeldSize[n][k]) \in Payload
<1>1. HeldSize[n][k] \in Nat
  BY HeldAssumption
<1>2. ASSUME NEW i \in 1 .. HeldSize[n][k]
      PROVE  [key |-> k, at |-> i] \in Chunk
  BY <1>1 DEF Chunk
<1> QED
  BY <1>1, <1>2 DEF Object, Payload

LEMMA ServeStep ==
    ASSUME IInv, NEW n \in Node, Serve(n)
    PROVE  IInv'
<1> DEFINE k == link[n].active.upload.key
<1>1. k \in Key /\ link[n].buffered \in Nat
  BY DEF IInv, LinkState, Active, Upload
<1>2. PICK bytes \in {Object(k, HeldSize[n][k]), None},
           buffered \in 0 .. link[n].buffered :
             Call(n, ServeResponse(link[n], bytes, buffered))
  BY DEF Serve
<1>3. bytes \in Payload /\ buffered \in Nat
  BY <1>1, <1>2, ObjectPayload, NonePayload
<1>4. Sound(ServeResponse(link[n], bytes, buffered))
  BY <1>3, ServeResponseSound DEF IInv
<1> QED
  BY <1>2, <1>4, CallStep

LEMMA ServeFailsStep ==
    ASSUME IInv, NEW n \in Node, ServeFails(n)
    PROVE  IInv'
<1>1. link[n].buffered \in Nat /\ "serve-error" \in Reason
  BY DEF IInv, LinkState, Reason
<1>2. Sound(Close(link[n], "serve-error"))
  BY <1>1, CloseSound DEF IInv
<1>3. Sound(ServeResponse(Close(link[n], "serve-error"), None, link[n].buffered))
  BY <1>1, <1>2, NonePayload, ServeResponseSound
<1> QED
  BY <1>3, CallStep DEF ServeFails

\* The frames on their way are no part of what an end accounts for.
LEMMA WireSound ==
    ASSUME NEW x, Sound(x), NEW w \in Seq(Frame)
    PROVE  Sound([x EXCEPT !.wire = w])
<1> DEFINE M == [x EXCEPT !.wire = w]
<1>1. x \in LinkState
  BY DEF Sound
<1>2. M \in LinkState
  BY <1>1 DEF LinkState
<1>3. M.queue = x.queue /\ M.active = x.active /\ M.inFlight = x.inFlight
  BY <1>1 DEF LinkState
<1> HIDE DEF M
<1>4. Sound(M)
  BY <1>2, <1>3, SoundUnlessUploads
<1> QED
  BY <1>4 DEF M

\* Nor is whether its channel is open.
LEMMA OpenSound ==
    ASSUME NEW x, Sound(x), NEW o \in BOOLEAN
    PROVE  Sound([x EXCEPT !.open = o])
<1> DEFINE M == [x EXCEPT !.open = o]
<1>1. x \in LinkState
  BY DEF Sound
<1>2. M \in LinkState
  BY <1>1 DEF LinkState
<1>3. M.queue = x.queue /\ M.active = x.active /\ M.inFlight = x.inFlight
  BY <1>1 DEF LinkState
<1> HIDE DEF M
<1>4. Sound(M)
  BY <1>2, <1>3, SoundUnlessUploads
<1> QED
  BY <1>4 DEF M

LEMMA ReceiveStep ==
    ASSUME IInv, NEW n \in Node, Receive(n)
    PROVE  IInv'
<1> DEFINE m == Other(n)
           L == Shell(Handle(link[n], Head(link[m].wire)))
           M == [link[m] EXCEPT !.wire = Tail(link[m].wire)]
<1>1. m \in Node /\ m # n
  BY OtherNode
<1>2. link[m].wire \in Seq(Frame) /\ link[m].wire # <<>>
  BY <1>1 DEF IInv, LinkState, Receive
<1>3. Head(link[m].wire) \in Frame /\ Tail(link[m].wire) \in Seq(Frame)
  BY <1>2
<1>4. Sound(L)
  BY <1>3, HandleSound, ShellSound DEF IInv
<1>5. Sound(M)
  <2>1. Sound(link[m])
    BY <1>1 DEF IInv
  <2> QED
    BY <1>3, <2>1, WireSound
<1>6. link' = [link EXCEPT ![n] = L, ![m] = M] /\ asked' = asked
  BY <1>1 DEF Receive, IInv
<1> HIDE DEF L, M, m
<1> QED
  BY <1>1, <1>4, <1>5, <1>6 DEF IInv, Sound

LEMMA FrameLossStep ==
    ASSUME IInv, NEW n \in Node, LoseFrame(n)
    PROVE  IInv'
<1>1. PICK i \in DOMAIN link[n].wire :
         link' = [link EXCEPT ![n].wire =
                    SubSeq(link[n].wire, 1, i - 1)
                      \o SubSeq(link[n].wire, i + 1, Len(link[n].wire))]
  BY DEF LoseFrame
<1> DEFINE w == link[n].wire
           rest == SubSeq(w, 1, i - 1) \o SubSeq(w, i + 1, Len(w))
           M == [link[n] EXCEPT !.wire = rest]
<1>2. w \in Seq(Frame)
  BY DEF IInv, LinkState
<1>3. rest \in Seq(Frame)
  <2>1. i \in 1 .. Len(w) /\ Len(w) \in Nat
    BY <1>2
  <2>2. SubSeq(w, 1, i - 1) \in Seq(Frame) /\ SubSeq(w, i + 1, Len(w)) \in Seq(Frame)
    BY <1>2, <2>1
  <2> QED
    BY <2>2
<1>4. link' = [link EXCEPT ![n] = M] /\ asked' = asked
  BY <1>1 DEF LoseFrame, IInv
<1> HIDE DEF rest
<1>5. Sound(M)
  <2>1. Sound(link[n])
    BY DEF IInv
  <2> QED
    BY <1>3, <2>1, WireSound
<1> HIDE DEF M
<1> QED
  BY <1>4, <1>5, EndStep DEF IInv

LEMMA ChannelDownStep ==
    ASSUME IInv, NEW n \in Node, ChannelDown(n)
    PROVE  IInv'
<1> DEFINE M == [link[n] EXCEPT !.open = FALSE]
<1>1. link' = [link EXCEPT ![n] = M] /\ asked' = asked
  BY DEF ChannelDown, IInv
<1>2. Sound(M)
  <2>1. Sound(link[n])
    BY DEF IInv
  <2> QED
    BY <2>1, OpenSound
<1> HIDE DEF M
<1> QED
  BY <1>1, <1>2, EndStep DEF IInv

-----------------------------------------------------------------------------
\* Every step of the system keeps the inductive invariant.
LEMMA NextIInv == IInv /\ [Next]_vars => IInv'
<1> SUFFICES ASSUME IInv, [Next]_vars PROVE IInv'
  OBVIOUS
<1>1. CASE UNCHANGED vars
  BY <1>1 DEF vars, IInv, Sound, Uploads
<1>2. ASSUME NEW n \in Node, Request(n) PROVE IInv'
  BY <1>2, RequestStep
<1>3. ASSUME NEW n \in Node, AbortRequest(n) PROVE IInv'
  <2>1. PICK outcome \in {"abort", "abandoned"} : Call(n, Abort(link[n], outcome))
    BY <1>3 DEF AbortRequest
  <2>2. outcome \in Outcome /\ Sound(link[n])
    BY DEF IInv, Outcome
  <2>3. Sound(Abort(link[n], outcome))
    BY <2>2, AbortSound
  <2> QED
    BY <2>1, <2>3, CallStep
<1>4. ASSUME NEW n \in Node, Serve(n) PROVE IInv'
  BY <1>4, ServeStep
<1>5. ASSUME NEW n \in Node, ServeFails(n) PROVE IInv'
  BY <1>5, ServeFailsStep
<1>6. ASSUME NEW n \in Node, CloseLink(n) PROVE IInv'
  <2>1. Sound(Close(link[n], "host"))
    BY CloseSound DEF IInv, Reason
  <2> QED
    BY <1>6, <2>1, CallStep DEF CloseLink
<1>7. ASSUME NEW n \in Node, FireRequestTimer(n) PROVE IInv'
  <2>1. Sound(RequestTimeout(link[n]))
    BY RequestTimeoutSound DEF IInv
  <2> QED
    BY <1>7, <2>1, CallStep DEF FireRequestTimer
<1>8. ASSUME NEW n \in Node, FireUploadTimer(n) PROVE IInv'
  <2>1. Sound(UploadTimeout(link[n]))
    BY <1>8, UploadTimeoutSound DEF IInv, FireUploadTimer
  <2> QED
    BY <1>8, <2>1, CallStep DEF FireUploadTimer
<1>9. ASSUME NEW n \in Node, Receive(n) PROVE IInv'
  BY <1>9, ReceiveStep
<1>10. ASSUME NEW n \in Node, Drained(n) PROVE IInv'
  <2>1. PICK buffered \in 0 .. link[n].buffered :
          Call(n, BufferedAmountLow(link[n], buffered))
    BY <1>10 DEF Drained
  <2>2. buffered \in Nat
    BY DEF IInv, LinkState
  <2>3. Sound(BufferedAmountLow(link[n], buffered))
    BY <2>2, BufferedAmountLowSound DEF IInv
  <2> QED
    BY <2>1, <2>3, CallStep
<1>11. ASSUME NEW n \in Node, ChannelDown(n) PROVE IInv'
  BY <1>11, ChannelDownStep
<1>12. ASSUME NEW n \in Node, ChannelClosed(n) PROVE IInv'
  <2>1. Sound(Close(link[n], "channel-close"))
    BY CloseSound DEF IInv, Reason
  <2> QED
    BY <1>12, <2>1, CallStep DEF ChannelClosed
<1>13. ASSUME NEW n \in Node, LoseFrame(n) PROVE IInv'
  BY <1>13, FrameLossStep
<1> QED
  BY <1>1, <1>2, <1>3, <1>4, <1>5, <1>6, <1>7, <1>8, <1>9, <1>10, <1>11,
     <1>12, <1>13 DEF Next

\* Both links are sound for ever.
LEMMA SpecIInv == Spec => []IInv
  BY InitIInv, NextIInv, PTL DEF Spec

\* Every field of both ends keeps its type, whatever frames arrive, timers
\* fire and answers come: no handler of link.rs leaves a malformed link.
THEOREM TypeCorrect == Spec => []TypeOK
<1>1. IInv => TypeOK
  BY DEF IInv, TypeOK
<1> QED
  BY <1>1, SpecIInv, PTL

\* outboundInFlight is the number of uploads an end holds, on a closed link
\* and across every cancel, decline, early end and timeout of link.rs.
THEOREM UploadsCounted == Spec => []InFlightCounts
<1>1. IInv => InFlightCounts
  BY DEF IInv, InFlightCounts, Sound, Uploads
<1> QED
  BY <1>1, SpecIInv, PTL

-----------------------------------------------------------------------------
(* The asking side: whatever races with whatever, each request is settled  *)
(* and reported exactly once, and the chunks a host was charged for are    *)
(* all accounted for.                                                      *)
LinkFields ==
    {"open", "failed", "closed", "reason", "pending", "nextId", "queue", "active", "inFlight",
     "buffered", "wire", "resolved", "reported", "granted", "bytesOut", "refunded"}
IsLink(L) == DOMAIN L = LinkFields

\* M is L as far as the asking side and the accounts of the serving one go.
Unasked(L, M) ==
    /\ IsLink(M)
    /\ M.pending = L.pending /\ M.nextId = L.nextId
    /\ M.resolved = L.resolved /\ M.reported = L.reported
    /\ M.closed = L.closed /\ M.open = L.open
Untouched(L, M) ==
    /\ Unasked(L, M)
    /\ M.granted = L.granted /\ M.bytesOut = L.bytesOut /\ M.refunded = L.refunded

LEMMA LinkStateIsLink == \A L \in LinkState : IsLink(L)
BY DEF LinkState, IsLink, LinkFields

\* Two calls that leave the request alone make one.
LEMMA UnaskedTransitive ==
    ASSUME NEW L, NEW M, NEW N, Unasked(L, M), Unasked(M, N) PROVE Unasked(L, N)
BY DEF Unasked

-----------------------------------------------------------------------------
(* The serving side asks nothing and settles nothing.                      *)

\* A frame that is sent touches no account.
LEMMA SendTextUntouched ==
    ASSUME NEW L, IsLink(L), NEW frame
    PROVE  Untouched(L, SendText(L, frame)) /\ SendText(L, frame).active = L.active
BY DEF IsLink, LinkFields, Untouched, Unasked, SendText

\* Nor do chunks: their charge is entered elsewhere.
LEMMA SendBinaryUntouched ==
    ASSUME NEW L, IsLink(L), NEW bytes, NEW first, NEW last
    PROVE  Untouched(L, SendBinary(L, bytes, first, last))
           /\ SendBinary(L, bytes, first, last).active = L.active
<1> DEFINE b == L.buffered + (last - first) + 1  f == L.failed \/ ~L.open
           w == IF L.open
                THEN L.wire \o [i \in 1 .. (last - first) + 1 |-> ChunkFrame(bytes[first + i - 1])]
                ELSE L.wire
<1>1. SendBinary(L, bytes, first, last) =
        IF first > last THEN L ELSE [L EXCEPT !.buffered = b, !.failed = f, !.wire = w]
  BY DEF SendBinary
<1> HIDE DEF b, f, w
<1> QED
  BY <1>1 DEF IsLink, LinkFields, Untouched, Unasked

\* start_next takes the next upload, of which the host has granted nothing.
LEMMA StartNextUntouched ==
    ASSUME NEW L, IsLink(L)
    PROVE  LET M == StartNext(L) IN
           /\ Untouched(L, M)
           /\ M.active # L.active =>
                L.active.stage = "idle" /\ M.active.stage = "awaiting" /\ M.active.bytes = None
<1>1. CASE L.active.stage # "idle"
  BY <1>1 DEF StartNext, IsLink, Untouched, Unasked
<1>2. CASE L.active.stage = "idle"
  <2> DEFINE n == Skipped(L)
             nones == [i \in 1 .. n |-> NoneFrame(L.queue[i].id)]
             w == IF CanSend(L) THEN L.wire \o nones ELSE L.wire
             f == Less(L.inFlight, n)
             q == SubSeq(L.queue, n + 2, Len(L.queue))
             a == IF n < Len(L.queue) THEN Awaiting(L.queue[n + 1]) ELSE L.active
  <2>1. StartNext(L) = [L EXCEPT !.wire = w, !.inFlight = f, !.queue = q, !.active = a]
    BY <1>2 DEF StartNext
  <2>2. a # L.active => a.stage = "awaiting" /\ a.bytes = None
    BY DEF Awaiting
  <2> HIDE DEF w, f, q, a
  <2> QED
    BY <1>2, <2>1, <2>2 DEF IsLink, LinkFields, Untouched, Unasked
<1> QED
  BY <1>1, <1>2

\* Going on to the next upload touches no account.
LEMMA FinishUploadUntouched ==
    ASSUME NEW L, IsLink(L)
    PROVE  LET M == FinishUpload(L) IN
           /\ Untouched(L, M)
           /\ M.active # L.active =>
                L.active.stage = "idle" /\ M.active.stage = "awaiting" /\ M.active.bytes = None
<1> DEFINE f == Less(L.inFlight, 1)  M == [L EXCEPT !.inFlight = f]
<1>1. FinishUpload(L) = StartNext(M)
  BY DEF FinishUpload
<1> HIDE DEF f
<1>2. Untouched(L, M) /\ IsLink(M) /\ M.active = L.active
  BY DEF IsLink, LinkFields, Untouched, Unasked
<1> HIDE DEF M
<1> QED
  BY <1>1, <1>2, StartNextUntouched DEF Untouched, Unasked

-----------------------------------------------------------------------------
(* Where the chunks that the host granted are: ended, given back, or in the *)
(* response under way.                                                      *)
Accounted(L) ==
    /\ CanSend(L) => L.granted = L.bytesOut + L.refunded + Len(L.active.bytes)
    /\ L.active.stage # "draining" => L.active.bytes = None

\* Taking the next upload changes no account.
LEMMA FinishUploadAccounts ==
    ASSUME NEW L, IsLink(L), Accounted(L) PROVE Accounted(FinishUpload(L))
<1> DEFINE M == FinishUpload(L)
<1>1. Untouched(L, M) /\ (M.active # L.active =>
        L.active.stage = "idle" /\ M.active.stage = "awaiting" /\ M.active.bytes = None)
  BY FinishUploadUntouched
<1> HIDE DEF M
<1>2. Accounted(M)
  BY <1>1 DEF Accounted, Untouched, Unasked, CanSend
<1> QED
  BY <1>2 DEF M

\* A response that ends pays for what went out and gives back the rest.
LEMMA EndResponseAccounts ==
    ASSUME NEW L, L \in LinkState, NEW u, NEW sent \in Nat, NEW left \in Nat,
           L.active.stage = "idle", L.active.bytes = None,
           CanSend(L) => L.granted = L.bytesOut + L.refunded + sent + left
    PROVE  LET M == EndResponse(L, u, sent, left) IN Unasked(L, M) /\ Accounted(M)
<1> DEFINE o == L.bytesOut + sent  r == L.refunded + left
           P == [L EXCEPT !.bytesOut = o, !.refunded = r]
           T == SendText(P, EofFrame(u.id))
<1>1. EndResponse(L, u, sent, left) = FinishUpload(T)
  BY DEF EndResponse
<1>2. o \in Nat /\ r \in Nat /\ (CanSend(L) => L.granted = o + r + Len(None))
  <2>1. L.bytesOut \in Nat /\ L.refunded \in Nat
    BY DEF LinkState
  <2>2. Len(None) = 0
    BY DEF None
  <2> QED
    BY <2>1, <2>2
<1> HIDE DEF o, r
<1>3. Unasked(L, P) /\ P.active = L.active /\ P.bytesOut = o /\ P.refunded = r /\ P.granted = L.granted
  BY LinkStateIsLink DEF IsLink, LinkFields, Unasked
<1> HIDE DEF P
<1>4. Untouched(P, T) /\ T.active = P.active
  BY <1>3, SendTextUntouched DEF Unasked
<1> HIDE DEF T
<1>5. Accounted(T) /\ IsLink(T)
  BY <1>2, <1>3, <1>4 DEF Accounted, Untouched, Unasked, CanSend
<1>6. Unasked(T, FinishUpload(T)) /\ Accounted(FinishUpload(T))
  BY <1>5, FinishUploadUntouched, FinishUploadAccounts DEF Untouched
<1> QED
  BY <1>1, <1>3, <1>4, <1>6 DEF Unasked, Untouched

\* A response that goes on, pauses or ends accounts for all its chunks.
LEMMA SendChunksAccounts ==
    ASSUME NEW L, Owing(L), L.active.bytes = None, NEW u \in Upload, NEW bytes \in Payload,
           NEW sent \in 0 .. Len(bytes), NEW resumed \in BOOLEAN,
           CanSend(L) => L.granted = L.bytesOut + L.refunded + Len(bytes)
    PROVE  LET M == SendChunks(L, u, bytes, sent, resumed) IN Unasked(L, M) /\ Accounted(M)
<1> DEFINE left == Len(bytes) - sent
           n == Burst(L, u, left, resumed)
           pauses == /\ n < left
                     /\ ~(u.cancelled /\ (resumed \/ L.buffered <= HighWater))
           pushed == SendBinary(L, bytes, sent + 1, sent + n)
           a == [stage |-> "draining", upload |-> u, bytes |-> bytes, sent |-> sent + n]
           paused == [pushed EXCEPT !.active = a]
<1>1. SendChunks(L, u, bytes, sent, resumed) =
        IF L.closed /\ left > 0 THEN FinishUpload(L)
        ELSE IF pauses THEN paused ELSE EndResponse(pushed, u, sent + n, left - n)
  BY DEF SendChunks
<1>2. L \in LinkState /\ IsLink(L) /\ L.active.stage = "idle" /\ Len(bytes) \in Nat
      /\ sent \in Nat /\ sent <= Len(bytes)
  BY LinkStateIsLink DEF Owing, Payload
<1>3. left \in Nat /\ n \in 0 .. left
  <2>1. left \in Nat
    BY <1>2
  <2> QED
    BY <1>2, <2>1, BurstBound
<1>4. sent + 1 \in Nat \ {0} /\ sent + n \in 0 .. Len(bytes) /\ left - n \in Nat
      /\ (sent + n) + (left - n) = Len(bytes)
  BY <1>2, <1>3
<1> HIDE DEF left, n, pauses
<1>5. Owing(pushed) /\ Untouched(L, pushed) /\ pushed.active = L.active
  BY <1>2, <1>4, SendBinaryOwing, SendBinaryUntouched
<1> HIDE DEF pushed
<1>6. CASE L.closed /\ left > 0
  BY <1>1, <1>2, <1>6, FinishUploadUntouched, FinishUploadAccounts DEF Accounted, CanSend, Untouched
<1>7. CASE ~(L.closed /\ left > 0) /\ pauses
  <2>1. Unasked(pushed, paused) /\ paused.active = a /\ paused.granted = pushed.granted
        /\ paused.bytesOut = pushed.bytesOut /\ paused.refunded = pushed.refunded
    BY <1>5 DEF Untouched, Unasked, IsLink, LinkFields
  <2>2. a.stage = "draining" /\ a.bytes = bytes
    OBVIOUS
  <2> HIDE DEF a, paused
  <2>3. Accounted(paused) /\ Unasked(L, paused)
    BY <1>5, <2>1, <2>2 DEF Accounted, Untouched, Unasked, CanSend
  <2> QED
    BY <1>1, <1>7, <2>3
<1>8. CASE ~(L.closed /\ left > 0) /\ ~pauses
  <2>1. pushed \in LinkState /\ pushed.active.stage = "idle" /\ pushed.active.bytes = None
    BY <1>5 DEF Owing
  <2>2. CanSend(pushed) => pushed.granted = pushed.bytesOut + pushed.refunded + (sent + n) + (left - n)
    <3>1. pushed.bytesOut \in Nat /\ pushed.refunded \in Nat
      BY <2>1 DEF LinkState
    <3>2. CanSend(pushed) => pushed.granted = pushed.bytesOut + pushed.refunded + Len(bytes)
      BY <1>5 DEF Untouched, Unasked, CanSend
    <3> QED
      BY <1>2, <1>4, <3>1, <3>2
  <2>3. sent + n \in Nat
    BY <1>2, <1>4
  <2>4. Unasked(pushed, EndResponse(pushed, u, sent + n, left - n))
        /\ Accounted(EndResponse(pushed, u, sent + n, left - n))
    BY <1>4, <2>1, <2>2, <2>3, EndResponseAccounts
  <2> QED
    BY <1>1, <1>5, <1>8, <2>4, UnaskedTransitive DEF Untouched
<1> QED
  BY <1>6, <1>7, <1>8

\* What a call into the serving side does to the rest of a sound link.
Serves(L, M) == Unasked(L, M) /\ (Accounted(L) => Accounted(M))

\* A response that was paused goes on.
LEMMA ResumeServes ==
    ASSUME NEW L, Sound(L), Accounted(L), L.active.stage = "draining"
    PROVE  Serves(L, Resume(L))
<1> DEFINE M == [L EXCEPT !.active = NoActive]
           x == L.active
<1>1. Resume(L) = SendChunks(M, x.upload, x.bytes, x.sent, TRUE)
  BY DEF Resume
<1>2. x.upload \in Upload /\ x.bytes \in Payload /\ x.sent \in 0 .. Len(x.bytes) /\ L \in LinkState
  BY DEF Sound, LinkState, Active
<1>3. Owing(M)
  BY TakenOwing
<1>4. Unasked(L, M) /\ M.active = NoActive /\ M.granted = L.granted /\ M.bytesOut = L.bytesOut
      /\ M.refunded = L.refunded
  BY <1>2, LinkStateIsLink DEF IsLink, LinkFields, Unasked
<1> HIDE DEF M, x
<1>5. M.active.bytes = None
  BY <1>4 DEF NoActive
<1>6. CanSend(M) => M.granted = M.bytesOut + M.refunded + Len(x.bytes)
  BY <1>4 DEF Accounted, CanSend, Unasked, x
<1>7. Unasked(M, Resume(L)) /\ Accounted(Resume(L))
  BY <1>1, <1>2, <1>3, <1>5, <1>6, SendChunksAccounts
<1> QED
  BY <1>4, <1>7, UnaskedTransitive DEF Serves

\* A response that goes on keeps the account of its chunks.
LEMMA BufferedAmountLowServes ==
    ASSUME NEW L, Sound(L), Accounted(L), NEW buffered \in Nat
    PROVE  Serves(L, BufferedAmountLow(L, buffered))
<1> DEFINE M == [L EXCEPT !.buffered = buffered]
<1>0. L \in LinkState
  BY DEF Sound
<1>1. M \in LinkState /\ M.queue = L.queue /\ M.active = L.active /\ M.inFlight = L.inFlight
  BY <1>0 DEF LinkState
<1>2. Untouched(L, M)
  BY <1>0, LinkStateIsLink DEF IsLink, LinkFields, Untouched, Unasked
<1>3. BufferedAmountLow(L, buffered) = IF L.active.stage # "draining" THEN L ELSE Resume(M)
  BY DEF BufferedAmountLow
<1> HIDE DEF M
<1>4. Sound(M) /\ Accounted(M)
  BY <1>1, <1>2, SoundUnlessUploads DEF Accounted, CanSend, Untouched, Unasked
<1>5. CASE L.active.stage # "draining"
  BY <1>0, <1>3, <1>5, LinkStateIsLink DEF Serves, Unasked
<1>6. CASE L.active.stage = "draining"
  BY <1>1, <1>2, <1>3, <1>4, <1>6, ResumeServes, UnaskedTransitive DEF Serves, Untouched
<1> QED
  BY <1>5, <1>6

\* Marking some of the queued uploads keeps the queue's type and length.
LEMMA MarkedQueue ==
    ASSUME NEW q \in Seq(Upload), NEW id
    PROVE  LET Q == [i \in DOMAIN q |-> IF q[i].id = id THEN [q[i] EXCEPT !.cancelled = TRUE] ELSE q[i]]
           IN  Q \in Seq(Upload) /\ Len(Q) = Len(q)
<1> DEFINE Mark(v) == IF v.id = id THEN [v EXCEPT !.cancelled = TRUE] ELSE v
           Q == [i \in DOMAIN q |-> Mark(q[i])]
<1>1. \A v \in Upload : Mark(v) \in Upload
  BY DEF Upload
<1> HIDE DEF Mark
<1>2. DOMAIN q = 1 .. Len(q) /\ Len(q) \in Nat /\ \A i \in 1 .. Len(q) : q[i] \in Upload
  OBVIOUS
<1>3. Q \in [1 .. Len(q) -> Upload]
  BY <1>1, <1>2
<1>4. Q \in Seq(Upload) /\ Len(Q) = Len(q)
  BY <1>2, <1>3
<1> QED
  BY <1>4 DEF Mark

\* A cancel marks uploads; a paused one ends.
LEMMA OnCancelServes ==
    ASSUME NEW L, Sound(L), Accounted(L), NEW frame \in Frame, frame.t = "cancel"
    PROVE  Serves(L, OnCancel(L, frame))
<1> DEFINE Q == [i \in DOMAIN L.queue |->
                   IF L.queue[i].id = frame.id
                   THEN [L.queue[i] EXCEPT !.cancelled = TRUE] ELSE L.queue[i]]
           c == L.active.upload.cancelled
                  \/ (L.active.stage # "idle" /\ L.active.upload.id = frame.id)
           marked == [L EXCEPT !.queue = Q, !.active.upload.cancelled = c]
<1>0. L \in LinkState
  BY DEF Sound
<1>1. OnCancel(L, frame) = IF L.active.stage = "draining" /\ L.active.upload.id = frame.id
                           THEN Resume(marked) ELSE marked
  BY DEF OnCancel
<1>2. Q \in Seq(Upload) /\ Len(Q) = Len(L.queue)
  <2>1. L.queue \in Seq(Upload)
    BY <1>0 DEF LinkState
  <2> QED
    BY <2>1, MarkedQueue
<1>3. c \in BOOLEAN
  BY <1>0 DEF LinkState, Active, Upload
<1> HIDE DEF Q, c
<1>4. /\ marked.queue = Q /\ marked.inFlight = L.inFlight /\ marked.granted = L.granted
      /\ marked.bytesOut = L.bytesOut /\ marked.refunded = L.refunded /\ Unasked(L, marked)
      /\ marked.active = [L.active EXCEPT !.upload.cancelled = c]
  BY <1>0, LinkStateIsLink DEF IsLink, LinkFields, Unasked
<1>5. /\ marked.active \in Active /\ marked.active.stage = L.active.stage
      /\ marked.active.bytes = L.active.bytes
  BY <1>0, <1>3, <1>4 DEF LinkState, Active, Upload
<1>6. marked \in LinkState
  BY <1>0, <1>2, <1>3, <1>5 DEF LinkState
<1> HIDE DEF marked
<1>7. Sound(marked) /\ Accounted(marked)
  BY <1>2, <1>4, <1>5, <1>6 DEF Sound, Uploads, Accounted, CanSend, Unasked
<1>8. L.active.stage = "draining" => Serves(marked, Resume(marked))
  BY <1>5, <1>7, ResumeServes
<1> QED
  BY <1>1, <1>4, <1>7, <1>8, UnaskedTransitive DEF Serves

\* The part of an answer that fits its upload is a payload.
LEMMA SlicePayload ==
    ASSUME NEW bytes \in Payload, NEW r \in PieceRange, r = Whole \/ Fits(Len(bytes), r)
    PROVE  Slice(bytes, r) \in Payload /\ Len(Slice(bytes, r)) \in Nat
<1>1. CASE r = Whole
  BY <1>1 DEF Slice, Payload
<1>2. CASE r # Whole
  <2>1. r.start \in Nat /\ r.end \in Nat /\ r.end <= Len(bytes)
    BY <1>2 DEF Fits, PieceRange
  <2>2. bytes \in Seq(Chunk) /\ Len(bytes) \in Nat
    BY DEF Payload
  <2>3. SubSeq(bytes, r.start + 1, r.end) \in Seq(Chunk)
    BY <2>1, <2>2
  <2> QED
    BY <1>2, <2>3 DEF Slice, Payload
<1> QED
  BY <1>1, <1>2

\* An answer without chunks for an upload that has been taken out.
LEMMA DeclineServes ==
    ASSUME NEW L, IsLink(L), Accounted(L), NEW frame
    PROVE  LET M == FinishUpload(SendText(L, frame)) IN Unasked(L, M) /\ Accounted(M)
<1> DEFINE T == SendText(L, frame)
<1>1. Untouched(L, T) /\ T.active = L.active /\ IsLink(T)
  BY SendTextUntouched DEF Untouched, Unasked
<1> HIDE DEF T
<1>2. Accounted(T)
  BY <1>1 DEF Accounted, CanSend, Untouched, Unasked
<1>3. Accounted(FinishUpload(T)) /\ Unasked(T, FinishUpload(T))
  BY <1>1, <1>2, FinishUploadAccounts, FinishUploadUntouched DEF Untouched
<1>4. Unasked(L, FinishUpload(T))
  BY <1>1, <1>3, UnaskedTransitive DEF Untouched
<1> QED
  BY <1>3, <1>4 DEF T

\* The host's answer.
LEMMA ServeResponseServes ==
    ASSUME NEW L, Sound(L), Accounted(L), NEW bytes \in Payload, NEW buffered \in Nat
    PROVE  Serves(L, ServeResponse(L, bytes, buffered))
<1>0. L \in LinkState /\ IsLink(L)
  BY LinkStateIsLink DEF Sound
<1>1. CASE L.active.stage # "awaiting"
  BY <1>0, <1>1 DEF ServeResponse, Serves, Unasked
<1>2. CASE L.active.stage = "awaiting"
  <2> DEFINE u == L.active.upload
             slice == Slice(bytes, u.range)
             T == [L EXCEPT !.active = NoActive, !.buffered = buffered]
             given == T.granted + Len(slice)
             G == [T EXCEPT !.granted = given]
             back == G.refunded + Len(slice)
             B == [G EXCEPT !.refunded = back]
             none == bytes = None \/ (u.range # Whole /\ ~Fits(Len(bytes), u.range))
  <2>1. u \in Upload /\ u.range \in PieceRange /\ u.id \in Nat
    BY <1>0 DEF LinkState, Active, Upload
  <2>2. ServeResponse(L, bytes, buffered)
          = IF none THEN FinishUpload(SendText(T, NoneFrame(u.id)))
            ELSE IF u.cancelled THEN FinishUpload(SendText(B, NoneFrame(u.id)))
            ELSE IF ~CanSend(L) THEN FinishUpload(G)
            ELSE SendChunks(SendText(G, MetaFrame(u.id, Len(slice), u.range)), u, slice, 0, FALSE)
    BY <1>2 DEF ServeResponse
  <2>3. Untouched(L, T) /\ T.active = NoActive
    BY <1>0 DEF IsLink, LinkFields, Untouched, Unasked
  <2>4. Owing(T) /\ T \in LinkState /\ T.active.bytes = None /\ T.active.stage = "idle"
    <3> DEFINE M == [L EXCEPT !.active = NoActive]
    <3>1. Owing(M)
      BY <1>2, TakenOwing
    <3>2. T \in LinkState /\ T.queue = M.queue /\ T.active = M.active /\ T.inFlight = M.inFlight
      BY <1>0, NoActiveType DEF LinkState
    <3>3. NoActive.bytes = None /\ NoActive.stage = "idle"
      BY DEF NoActive
    <3> HIDE DEF M, T
    <3> QED
      BY <3>1, <3>2, <3>3, <2>3, OwingUnlessUploads
  <2>5. L.active.bytes = None /\ Len(None) = 0
    BY <1>2 DEF Accounted, None
  <2> HIDE DEF T, u, none
  <2>6. CanSend(T) => T.granted = T.bytesOut + T.refunded + 0
    BY <2>3, <2>5 DEF Accounted, Untouched, Unasked, CanSend
  <2>7. CASE none
    <3>1. IsLink(T) /\ Accounted(T)
      BY <2>3, <2>4, <2>5, <2>6, LinkStateIsLink DEF Accounted
    <3>2. Accounted(FinishUpload(SendText(T, NoneFrame(u.id))))
          /\ Unasked(T, FinishUpload(SendText(T, NoneFrame(u.id))))
      BY <3>1, DeclineServes
    <3> QED
      BY <2>2, <2>3, <2>7, <3>2, UnaskedTransitive DEF Serves, Untouched
  <2>8. CASE ~none
    <3>1. slice \in Payload /\ Len(slice) \in Nat
      BY <2>1, <2>8, SlicePayload DEF none
    <3> HIDE DEF slice
    <3>2. T.granted \in Nat /\ T.bytesOut \in Nat /\ T.refunded \in Nat
      BY <2>4 DEF LinkState
    <3>3. given \in Nat /\ (CanSend(T) => given = T.bytesOut + T.refunded + Len(slice))
      BY <2>6, <3>1, <3>2
    <3> HIDE DEF given
    <3>4. /\ G \in LinkState /\ IsLink(G) /\ G.queue = T.queue /\ G.active = T.active
          /\ G.inFlight = T.inFlight /\ Unasked(T, G) /\ G.granted = given
          /\ G.bytesOut = T.bytesOut /\ G.refunded = T.refunded
      BY <2>4, <3>3, LinkStateIsLink DEF LinkState, IsLink, LinkFields, Unasked
    <3> HIDE DEF G
    <3>5. Owing(G)
      BY <2>4, <3>4, OwingUnlessUploads
    <3>6. CASE u.cancelled
      <4>1. /\ IsLink(B) /\ Unasked(G, B) /\ B.active = G.active /\ B.granted = G.granted
            /\ B.bytesOut = G.bytesOut /\ B.refunded = G.refunded + Len(slice)
        BY <3>4 DEF IsLink, LinkFields, Unasked
      <4> HIDE DEF B
      <4>2. CanSend(B) => B.granted = B.bytesOut + B.refunded + 0
        BY <3>1, <3>2, <3>3, <3>4, <4>1 DEF Unasked, CanSend
      <4>3. Accounted(B)
        BY <2>4, <2>5, <3>4, <4>1, <4>2 DEF Accounted
      <4>4. Accounted(FinishUpload(SendText(B, NoneFrame(u.id))))
            /\ Unasked(B, FinishUpload(SendText(B, NoneFrame(u.id))))
        BY <4>1, <4>3, DeclineServes
      <4>5. Unasked(L, FinishUpload(SendText(B, NoneFrame(u.id))))
        BY <2>3, <3>4, <4>1, <4>4, UnaskedTransitive DEF Untouched
      <4> QED
        BY <2>2, <2>8, <3>6, <4>4, <4>5 DEF Serves
    <3>7. CASE ~u.cancelled /\ ~CanSend(L)
      <4>1. Accounted(G)
        BY <2>3, <2>4, <3>4, <3>7 DEF Accounted, CanSend, Unasked, Untouched
      <4>2. Accounted(FinishUpload(G)) /\ Unasked(G, FinishUpload(G))
        BY <3>4, <4>1, FinishUploadAccounts, FinishUploadUntouched DEF Untouched
      <4>3. Unasked(L, FinishUpload(G))
        BY <2>3, <3>4, <4>2, UnaskedTransitive DEF Untouched
      <4> QED
        BY <2>2, <2>8, <3>7, <4>2, <4>3 DEF Serves
    <3>8. CASE ~u.cancelled /\ CanSend(L)
      <4> DEFINE frame == MetaFrame(u.id, Len(slice), u.range)
                 S == SendText(G, frame)
      <4>1. frame \in Frame
        BY <2>1, <3>1 DEF MetaFrame, Frame
      <4> HIDE DEF frame
      <4>2. Owing(S) /\ Untouched(G, S) /\ S.active = G.active
        BY <3>4, <3>5, <4>1, SendTextType, OwingUnlessUploads, SendTextUntouched
      <4> HIDE DEF S
      <4>3. CanSend(S) => S.granted = S.bytesOut + S.refunded + Len(slice)
        BY <3>3, <3>4, <4>2 DEF Untouched, Unasked, CanSend
      <4>4. 0 \in 0 .. Len(slice) /\ S.active.bytes = None
        BY <2>4, <3>1, <3>4, <4>2
      <4>5. Unasked(S, SendChunks(S, u, slice, 0, FALSE)) /\ Accounted(SendChunks(S, u, slice, 0, FALSE))
        BY <2>1, <3>1, <4>2, <4>3, <4>4, SendChunksAccounts
      <4>6. Unasked(L, SendChunks(S, u, slice, 0, FALSE))
        BY <2>3, <3>4, <4>2, <4>5, UnaskedTransitive DEF Untouched
      <4> QED
        BY <2>2, <2>8, <3>8, <4>5, <4>6 DEF Serves, S, frame
    <3> QED
      BY <3>6, <3>7, <3>8
  <2> QED
    BY <2>7, <2>8
<1> QED
  BY <1>1, <1>2

-----------------------------------------------------------------------------
(* The asking side: every request but the one that waits has been settled   *)
(* and reported, in the order they were made.                               *)
SlotOf(L) == IF L.closed THEN "shut"
             ELSE IF ~Busy(L) THEN "free"
             ELSE IF L.pending.draining THEN "draining" ELSE "waiting"

Settled(L) == L.nextId - 1 - (IF BusyUnlessDraining(L) THEN 1 ELSE 0)
Written(L) ==
    /\ Busy(L) => /\ L.pending.id = L.nextId - 1
                  /\ L.pending.resolved = L.pending.draining
                  /\ L.pending.reported = L.pending.draining
    /\ Len(L.resolved) = Settled(L) /\ Len(L.reported) = Settled(L)
    /\ \A i \in 1 .. Settled(L) : L.resolved[i].id = i /\ L.reported[i].id = i
Ledger(L) == Written(L) /\ (L.closed => ~Busy(L))

\* What the request that waits can be answered with: nothing, or all of the
\* response that the meta frame announced.
Given(L) == {None} \cup {bytes \in {L.pending.parts} : /\ L.pending.size # 0
                                                     /\ L.pending.size = L.pending.received
                                                     /\ ~L.pending.draining}

\* A step of the port that starts no request (the actions of RequestPort).
Answers(L, M, bytes) ==
    M.resolved = Append(L.resolved, [id |-> L.pending.id, bytes |-> bytes])
Moves(L, M) ==
    /\ M.nextId = L.nextId
    /\ \/ /\ M.resolved = L.resolved
          /\ \/ SlotOf(M) = SlotOf(L)
             \/ SlotOf(L) = "draining" /\ SlotOf(M) = "free"
             \/ SlotOf(L) \in {"free", "draining"} /\ SlotOf(M) = "shut"
       \/ /\ SlotOf(L) = "waiting"
          /\ \/ SlotOf(M) = "free" /\ \E bytes \in Given(L) : Answers(L, M, bytes)
             \/ SlotOf(M) \in {"draining", "shut"} /\ Answers(L, M, None)

\* A link that closes may be judged by what it was before.
LEMMA ShutAfter ==
    ASSUME NEW L, NEW K, NEW M, Moves(K, M), M.closed, SlotOf(K) = SlotOf(L),
           K.pending.id = L.pending.id, K.resolved = L.resolved, K.nextId = L.nextId
    PROVE  Moves(L, M)
<1>1. SlotOf(M) = "shut"
  BY DEF SlotOf
<1> QED
  BY <1>1 DEF Moves, Answers

\* Nothing is an answer to any request.
LEMMA NoneGiven == \A L : None \in Given(L)
  BY DEF Given

Asks(L, M) ==
    Ledger(M) /\ Moves(L, M) /\ Accounted(M) /\ (M.failed => L.failed \/ M.closed)

\* Settling the request that waits, or freeing the port of one that drains.
LEMMA FinishWrites ==
    ASSUME NEW L \in LinkState, Written(L), NEW bytes \in Payload, NEW outcome \in Outcome
    PROVE  LET M == Finish(L, bytes, outcome, TRUE) IN
           /\ Written(M) /\ ~Busy(M) /\ M.nextId = L.nextId
           /\ M.failed = L.failed /\ M.closed = L.closed /\ M.open = L.open /\ M.active = L.active
           /\ M.granted = L.granted /\ M.bytesOut = L.bytesOut /\ M.refunded = L.refunded
           /\ IF BusyUnlessDraining(L) THEN Answers(L, M, bytes) ELSE M.resolved = L.resolved
<1>1. CASE ~Busy(L)
  BY <1>1 DEF Finish, BusyUnlessDraining, Busy
<1>2. CASE Busy(L)
  <2> DEFINE p == L.pending
             a == [id |-> p.id, bytes |-> bytes]
             o == [id |-> p.id, outcome |-> outcome]
             R == IF p.resolved THEN L.resolved ELSE Append(L.resolved, a)
             S == IF p.reported THEN L.reported ELSE Append(L.reported, o)
             M == [L EXCEPT !.pending = NoPending, !.resolved = R, !.reported = S]
  <2>1. Finish(L, bytes, outcome, TRUE) = M
    BY <1>2 DEF Finish
  <2>2. /\ M.pending = NoPending /\ M.resolved = R /\ M.reported = S /\ M.nextId = L.nextId
        /\ M.failed = L.failed /\ M.closed = L.closed /\ M.open = L.open /\ M.active = L.active
        /\ M.granted = L.granted /\ M.bytesOut = L.bytesOut /\ M.refunded = L.refunded
    BY DEF LinkState
  <2>3. ~Busy(M)
    <3>1. NoPending.id = 0
      BY DEF NoPending
    <3> HIDE DEF M
    <3> QED
      BY <2>2, <3>1 DEF Busy
  <2>4. /\ p.id \in Nat /\ p.resolved \in BOOLEAN /\ p.reported \in BOOLEAN /\ p.draining \in BOOLEAN
        /\ L.nextId \in Nat /\ p.id = L.nextId - 1 /\ p.resolved = p.draining /\ p.reported = p.draining
        /\ L.resolved \in Seq([id : Nat, bytes : Payload])
        /\ L.reported \in Seq([id : Nat, outcome : Outcome])
    BY <1>2 DEF LinkState, Pending, Written
  <2>5. a \in [id : Nat, bytes : Payload] /\ o \in [id : Nat, outcome : Outcome] /\ a.id = p.id /\ o.id = p.id
    BY <2>4
  <2>6. Settled(M) = L.nextId - 1
    BY <2>2, <2>3, <2>4 DEF Settled, BusyUnlessDraining, Busy
  <2> HIDE DEF M, a, o
  <2>7. CASE p.draining
    <3>1. R = L.resolved /\ S = L.reported /\ Settled(L) = L.nextId - 1
      BY <2>4, <2>7 DEF Settled, BusyUnlessDraining
    <3> HIDE DEF R, S
    <3>2. Written(M)
      BY <2>2, <2>3, <2>6, <3>1 DEF Written
    <3> QED
      BY <2>1, <2>2, <2>3, <2>7, <3>1, <3>2 DEF BusyUnlessDraining
  <2>8. CASE ~p.draining
    <3>1. R = Append(L.resolved, a) /\ S = Append(L.reported, o) /\ Settled(L) = L.nextId - 2
      BY SMTT(30), <1>2, <2>4, <2>8 DEF Settled, BusyUnlessDraining, Busy
    <3>2. Len(L.resolved) = L.nextId - 2 /\ Len(L.reported) = L.nextId - 2
          /\ \A i \in 1 .. L.nextId - 2 : L.resolved[i].id = i /\ L.reported[i].id = i
      BY <3>1 DEF Written
    <3> HIDE DEF R, S
    <3>3. Len(R) = L.nextId - 1 /\ Len(S) = L.nextId - 1
      BY <2>4, <2>5, <3>1, <3>2
    <3>4. \A i \in 1 .. L.nextId - 1 : R[i].id = i /\ S[i].id = i
      <4> SUFFICES ASSUME NEW i \in 1 .. L.nextId - 1 PROVE R[i].id = i /\ S[i].id = i
        OBVIOUS
      <4>1. CASE i = L.nextId - 1
        BY <2>4, <2>5, <3>1, <3>2, <4>1
      <4>2. CASE i # L.nextId - 1
        <5>1. i \in 1 .. L.nextId - 2
          BY <2>4, <4>2
        <5> QED
          BY <2>4, <2>5, <3>1, <3>2, <5>1
      <4> QED
        BY <4>1, <4>2
    <3>5. Written(M)
      BY <2>2, <2>3, <2>6, <3>3, <3>4 DEF Written
    <3> QED
      BY <1>2, <2>1, <2>2, <2>3, <2>8, <3>1, <3>5 DEF BusyUnlessDraining, Answers, Busy, a
  <2> QED
    BY <2>4, <2>7, <2>8
<1> QED
  BY <1>1, <1>2

\* Where an answer, or none, leaves the port.
LEMMA MovesTo ==
    ASSUME NEW L, NEW M, ~L.closed, M.nextId = L.nextId, ~Busy(M), NEW bytes \in Given(L),
           IF BusyUnlessDraining(L) THEN Answers(L, M, bytes) ELSE M.resolved = L.resolved,
           ~M.closed \/ bytes = None, Busy(L) \/ M.closed
    PROVE  Moves(L, M)
<1>1. SlotOf(M) = IF M.closed THEN "shut" ELSE "free"
  BY DEF SlotOf
<1>2. CASE BusyUnlessDraining(L)
  <2>1. SlotOf(L) = "waiting"
    BY <1>2 DEF SlotOf, BusyUnlessDraining, Busy
  <2>2. Answers(L, M, bytes)
    BY <1>2
  <2> QED
    BY <1>1, <2>1, <2>2 DEF Moves
<1>3. CASE ~BusyUnlessDraining(L)
  <2>1. SlotOf(L) \in {"free", "draining"} /\ (Busy(L) => SlotOf(L) = "draining")
    BY <1>3 DEF SlotOf, BusyUnlessDraining, Busy
  <2>2. M.resolved = L.resolved
    BY <1>3
  <2> QED
    BY <1>1, <2>1, <2>2 DEF Moves
<1> QED
  BY <1>2, <1>3

\* Close settles what waits, and a closed link stays as it is.
LEMMA CloseAsks ==
    ASSUME NEW L \in LinkState, Ledger(L), NEW reason \in Reason,
           L.active.stage # "draining" => L.active.bytes = None
    PROVE  Asks(L, Close(L, reason)) /\ Close(L, reason).closed
<1>0. L \in LinkState
  OBVIOUS
<1>1. CASE L.closed
  BY <1>1 DEF Close, Asks, Moves, Accounted, CanSend
<1>2. CASE ~L.closed
  <2> DEFINE C == [L EXCEPT !.closed = TRUE, !.reason = reason]
             S == Finish(C, None, "closed", TRUE)
             T == [S EXCEPT !.active = NoActive]
  <2>1. Close(L, reason) = IF S.active.stage = "draining" THEN FinishUpload(T) ELSE S
    BY <1>2 DEF Close
  <2>2. C \in LinkState /\ C.closed
    BY <1>0 DEF LinkState
  <2>3. /\ C.pending = L.pending /\ C.nextId = L.nextId /\ C.resolved = L.resolved
        /\ C.reported = L.reported /\ C.failed = L.failed /\ C.active = L.active
    BY <1>0 DEF LinkState
  <2> HIDE DEF C, S
  <2>4. Written(C)
    BY <2>3 DEF Ledger, Written, Settled, BusyUnlessDraining, Busy
  <2>5. /\ Written(S) /\ ~Busy(S) /\ S.nextId = L.nextId /\ S.failed = L.failed /\ S.closed
        /\ S.active = L.active /\ S \in LinkState
        /\ IF BusyUnlessDraining(L) THEN Answers(L, S, None) ELSE S.resolved = L.resolved
    <3>1. "closed" \in Outcome
      BY DEF Outcome
    <3>2. /\ Written(S) /\ ~Busy(S) /\ S.nextId = C.nextId /\ S.failed = C.failed /\ S.closed = C.closed
          /\ S.active = C.active /\ IF BusyUnlessDraining(C) THEN Answers(C, S, None) ELSE S.resolved = C.resolved
      BY ZenonT(60), <2>2, <2>4, <3>1, NonePayload, FinishWrites DEF S
    <3>3. S \in LinkState
      BY <2>2, <3>1, NonePayload, FinishType DEF S
    <3>4. BusyUnlessDraining(C) = BusyUnlessDraining(L) /\ (Answers(C, S, None) <=> Answers(L, S, None))
      BY <2>3 DEF BusyUnlessDraining, Answers
    <3> QED
      BY <2>2, <2>3, <3>2, <3>3, <3>4
  <2>6. CASE S.active.stage # "draining"
    <3>1. Accounted(S)
      BY <2>5, <2>6 DEF Accounted, CanSend
    <3>2. Moves(L, S)
      BY <1>2, <2>5, NoneGiven, MovesTo
    <3> QED
      BY <2>1, <2>5, <2>6, <3>1, <3>2 DEF Asks, Ledger
  <2>7. CASE S.active.stage = "draining"
    <3> DEFINE F == FinishUpload(T)
    <3>1. IsLink(T) /\ Unasked(S, T) /\ T.active = NoActive
      BY <2>5, LinkStateIsLink DEF IsLink, LinkFields, Unasked
    <3>2. Accounted(T)
      BY <2>5, <3>1 DEF Accounted, CanSend, NoActive, Unasked
    <3> HIDE DEF T
    <3>3. Unasked(S, F) /\ Accounted(F)
      BY <3>1, <3>2, FinishUploadAccounts, FinishUploadUntouched, UnaskedTransitive DEF Untouched
    <3> HIDE DEF F
    <3>4. Written(F) /\ ~Busy(F)
      BY <2>5, <3>3 DEF Unasked, Written, Settled, BusyUnlessDraining, Busy
    <3>5. IF BusyUnlessDraining(L) THEN Answers(L, F, None) ELSE F.resolved = L.resolved
      BY <2>5, <3>3 DEF Unasked, Answers
    <3>6. F.nextId = L.nextId /\ F.closed
      BY <2>5, <3>3 DEF Unasked
    <3>7. Moves(L, F)
      BY <1>2, <3>4, <3>5, <3>6, NoneGiven, MovesTo
    <3> QED
      BY <2>1, <2>7, <3>3, <3>4, <3>6, <3>7 DEF Asks, Ledger, F
  <2> QED
    BY <2>6, <2>7
<1> QED
  BY <1>1, <1>2

\* An answer that frees the port of an open link.
LEMMA FinishAsks ==
    ASSUME NEW L \in LinkState, Ledger(L), Accounted(L), ~L.closed, Busy(L),
           NEW bytes \in Payload, bytes \in Given(L), NEW outcome \in Outcome
    PROVE  Asks(L, Finish(L, bytes, outcome, TRUE))
<1> DEFINE M == Finish(L, bytes, outcome, TRUE)
<1>1. /\ Written(M) /\ ~Busy(M) /\ M.nextId = L.nextId
      /\ M.failed = L.failed /\ M.closed = L.closed /\ M.open = L.open /\ M.active = L.active
      /\ M.granted = L.granted /\ M.bytesOut = L.bytesOut /\ M.refunded = L.refunded
      /\ IF BusyUnlessDraining(L) THEN Answers(L, M, bytes) ELSE M.resolved = L.resolved
  BY FinishWrites DEF Ledger
<1> HIDE DEF M
<1>2. Accounted(M)
  BY <1>1 DEF Accounted, CanSend
<1>3. Moves(L, M)
  BY <1>1, MovesTo
<1>4. Asks(L, M)
  BY <1>1, <1>2, <1>3 DEF Asks, Ledger
<1> QED
  BY <1>4 DEF M

\* A request that is given up early counts as settled.
LEMMA OneMore ==
    ASSUME NEW L \in LinkState, Written(L), BusyUnlessDraining(L),
           NEW bytes \in Payload, NEW outcome \in Outcome, NEW k \in Nat, k = L.nextId - 1
    PROVE  LET R == Append(L.resolved, [id |-> L.pending.id, bytes |-> bytes])
               S == Append(L.reported, [id |-> L.pending.id, outcome |-> outcome])
           IN  Len(R) = k /\ Len(S) = k /\ \A i \in 1 .. k : R[i].id = i /\ S[i].id = i
<1> DEFINE a == [id |-> L.pending.id, bytes |-> bytes]
           o == [id |-> L.pending.id, outcome |-> outcome]
<1>1. /\ L.resolved \in Seq([id : Nat, bytes : Payload])
      /\ L.reported \in Seq([id : Nat, outcome : Outcome])
      /\ L.pending.id = k /\ L.nextId \in Nat
  BY DEF LinkState, Written, BusyUnlessDraining, Busy
<1>2. Len(L.resolved) = k - 1 /\ Len(L.reported) = k - 1
      /\ \A i \in 1 .. k - 1 : L.resolved[i].id = i /\ L.reported[i].id = i
  BY <1>1 DEF Written, Settled
<1>3. a \in [id : Nat, bytes : Payload] /\ o \in [id : Nat, outcome : Outcome] /\ a.id = k /\ o.id = k
  BY <1>1
<1> HIDE DEF a, o
<1> DEFINE R == Append(L.resolved, a)  S == Append(L.reported, o)
<1>4. Len(R) = k /\ Len(S) = k
  <2>1. Len(R) = Len(L.resolved) + 1
    BY <1>1, <1>3
  <2>2. Len(S) = Len(L.reported) + 1
    BY <1>1, <1>3
  <2> HIDE DEF R, S
  <2> QED
    BY <1>2, <2>1, <2>2
<1>5. ASSUME NEW i \in 1 .. k PROVE R[i].id = i /\ S[i].id = i
  <2>1. CASE i = k
    BY <1>1, <1>2, <1>3, <2>1
  <2>2. CASE i # k
    <3>1. i \in 1 .. k - 1
      BY <2>2
    <3> QED
      BY <1>1, <1>2, <1>3, <3>1
  <2> QED
    BY <2>1, <2>2
<1> QED
  BY <1>4, <1>5 DEF a, o

\* Close on a link where nothing is asked.
LEMMA CloseFree ==
    ASSUME NEW L \in LinkState, ~Busy(L), ~L.closed, NEW reason \in Reason
    PROVE  LET M == Close(L, reason) IN
           /\ M.pending = L.pending /\ M.nextId = L.nextId /\ M.resolved = L.resolved
           /\ M.reported = L.reported /\ M.closed /\ IsLink(M)
           /\ L.active.stage = "idle" => M.active.bytes = L.active.bytes \/ M.active.bytes = None
           /\ Accounted(L) => Accounted(M)
<1> DEFINE C == [L EXCEPT !.closed = TRUE, !.reason = reason]
           T == [C EXCEPT !.active = NoActive]
           F == FinishUpload(T)
<1>1. C.pending = L.pending /\ C.nextId = L.nextId /\ C.resolved = L.resolved
      /\ C.reported = L.reported /\ C.closed /\ C.active = L.active /\ IsLink(C)
  BY LinkStateIsLink DEF IsLink, LinkFields
<1>2. Finish(C, None, "closed", TRUE) = C
  BY <1>1 DEF Finish, Busy
<1>3. Close(L, reason) = IF C.active.stage = "draining" THEN F ELSE C
  BY <1>2 DEF Close
<1> HIDE DEF C
<1>4. Accounted(L) => C.active.stage = "draining" \/ Accounted(C)
  BY <1>1 DEF Accounted, CanSend
<1>5. Unasked(C, T) /\ T.active = NoActive
  BY <1>1 DEF IsLink, LinkFields, Unasked
<1> HIDE DEF T
<1>6. Accounted(T)
  BY <1>1, <1>5 DEF Accounted, CanSend, NoActive, Unasked
<1>7. Unasked(C, F) /\ Accounted(F)
  BY <1>5, <1>6, FinishUploadAccounts, FinishUploadUntouched, UnaskedTransitive DEF Untouched, Unasked
<1> HIDE DEF F
<1> QED
  BY <1>1, <1>3, <1>4, <1>7 DEF Unasked

\* Giving a request up settles it at once; on a reliable channel that is
\* open the port stays taken, on any other it shuts.
LEMMA AbandonAsks ==
    ASSUME NEW L, Sound(L), Ledger(L), Accounted(L), BusyUnlessDraining(L),
           NEW reason \in Reason, NEW outcome \in Outcome
    PROVE  Asks(L, Abandon(L, reason, outcome))
<1> DEFINE a == [id |-> L.pending.id, bytes |-> None]
           o == [id |-> L.pending.id, outcome |-> outcome]
           R == Append(L.resolved, a)
           S == Append(L.reported, o)
           k == L.nextId - 1
<1>0. L \in LinkState /\ k \in Nat /\ ~L.closed /\ SlotOf(L) = "waiting" /\ L.pending.id = k /\ L.pending.id # 0
      /\ ~L.pending.resolved /\ ~L.pending.reported
  BY DEF Sound, LinkState, Ledger, Written, BusyUnlessDraining, Busy, SlotOf
<1>1. Len(R) = k /\ Len(S) = k /\ \A i \in 1 .. k : R[i].id = i /\ S[i].id = i
  BY <1>0, NonePayload, OneMore DEF Ledger
<1>2. CASE ~(Reliable /\ L.open)
  <2> DEFINE P == Finish(L, None, outcome, FALSE)
             C == Close(P, reason)
             M == [C EXCEPT !.reported = Append(C.reported, o)]
  <2>0. NoPending.id = 0
    BY DEF NoPending
  <2>1. Abandon(L, reason, outcome) = M
    BY <1>2 DEF Abandon
  <2>2. P = [L EXCEPT !.pending = NoPending, !.resolved = R]
    <3>1. P = [L EXCEPT !.pending = NoPending, !.resolved = R, !.reported = L.reported]
      BY <1>0 DEF Finish, Busy, BusyUnlessDraining
    <3> QED
      BY <3>1, <1>0 DEF LinkState
  <2>3. P \in LinkState
    BY <1>0, NonePayload, FinishType
  <2> HIDE DEF a, o, R, S
  <2>4. P.pending = NoPending /\ P.nextId = L.nextId /\ P.resolved = R /\ P.reported = L.reported
        /\ P.closed = L.closed /\ P.open = L.open /\ P.active = L.active /\ P.granted = L.granted
        /\ P.bytesOut = L.bytesOut /\ P.refunded = L.refunded
    BY <1>0, <2>2 DEF LinkState
  <2> HIDE DEF P
  <2>5. ~Busy(P) /\ Accounted(P)
    <3>1. ~Busy(P)
      BY <2>4, <2>0 DEF Busy
    <3>2. Accounted(P)
      BY <2>4 DEF Accounted, CanSend
    <3> QED
      BY <3>1, <3>2
  <2>6. C.pending = NoPending /\ C.nextId = L.nextId /\ C.resolved = R
        /\ C.reported = L.reported /\ C.closed /\ Accounted(C) /\ IsLink(C)
    BY <1>0, <2>3, <2>4, <2>5, CloseFree
  <2> HIDE DEF C
  <2>7. M.pending = NoPending /\ M.nextId = L.nextId /\ M.resolved = R /\ M.reported = S /\ M.closed
        /\ M.active = C.active
    BY <2>6 DEF S, IsLink, LinkFields
  <2> HIDE DEF M
  <2>8. ~Busy(M) /\ Settled(M) = k
    <3>1. M.pending.id = 0 /\ M.nextId = L.nextId /\ L.nextId \in Nat
      BY <1>0, <2>0, <2>7 DEF LinkState
    <3> QED
      BY <3>1 DEF Busy, Settled, BusyUnlessDraining
  <2>9. Ledger(M)
    BY <1>1, <2>7, <2>8 DEF Ledger, Written
  <2>10. Accounted(M)
    BY <2>6, <2>7 DEF Accounted, CanSend
  <2>11. Moves(L, M)
    BY <1>0, <2>7 DEF Moves, SlotOf, Answers, R, a
  <2> QED
    BY <2>1, <2>7, <2>9, <2>10, <2>11 DEF Asks
<1>3. CASE Reliable /\ L.open
  <2> DEFINE p == [L.pending EXCEPT !.draining = TRUE, !.parts = None,
                     !.abandonReason = reason, !.resolved = TRUE,
                     !.reported = TRUE, !.cancelled = CanSend(L)]
             Q == [L EXCEPT !.resolved = R, !.reported = S, !.pending = p]
             M == SendText(Q, CancelFrame(L.pending.id))
  <2>1. Abandon(L, reason, outcome) = M
    BY <1>3 DEF Abandon
  <2>2. p.id = k /\ p.draining = TRUE /\ p.resolved = TRUE /\ p.reported = TRUE
    BY <1>0 DEF LinkState, Pending
  <2> HIDE DEF p, R, S
  <2>3. Q.pending = p /\ Q.nextId = L.nextId /\ Q.resolved = R /\ Q.reported = S /\ IsLink(Q)
        /\ Q.closed = L.closed /\ Q.open = L.open /\ Q.active = L.active /\ Q.granted = L.granted
        /\ Q.bytesOut = L.bytesOut /\ Q.refunded = L.refunded /\ Q.failed = L.failed
    BY <1>0, LinkStateIsLink DEF IsLink, LinkFields
  <2> HIDE DEF Q
  <2>4. Untouched(Q, M) /\ M.active = Q.active /\ M.failed = Q.failed
    <3>1. M.failed = Q.failed
      BY <2>3 DEF SendText, IsLink, LinkFields
    <3> QED
      BY <2>3, <3>1, SendTextUntouched
  <2> HIDE DEF M
  <2>5. Busy(M) /\ Settled(M) = k /\ ~M.closed
    <3>1. /\ M.pending.id # 0 /\ M.pending.draining = TRUE /\ M.nextId = L.nextId /\ ~M.closed
          /\ L.nextId \in Nat
      BY <1>0, <2>2, <2>3, <2>4 DEF LinkState, Untouched, Unasked
    <3> QED
      BY <3>1 DEF Busy, Settled, BusyUnlessDraining
  <2>6. Ledger(M)
    BY <1>1, <2>2, <2>3, <2>4, <2>5 DEF Ledger, Written, Untouched, Unasked
  <2>7. Accounted(M)
    BY <2>3, <2>4 DEF Accounted, CanSend, Untouched, Unasked
  <2>8. Moves(L, M)
    BY <1>0, <2>2, <2>3, <2>4, <2>5 DEF Moves, SlotOf, Answers, Untouched, Unasked, R
  <2> QED
    BY <2>1, <2>3, <2>4, <2>6, <2>7, <2>8 DEF Asks
<1> QED
  BY <1>2, <1>3

\* A call that changes nothing is a step of the port.
LEMMA AsksSelf ==
    ASSUME NEW L, Ledger(L), Accounted(L) PROVE Asks(L, L)
  BY DEF Asks, Moves

\* The host gives a request up.
LEMMA AbortAsks ==
    ASSUME NEW L, Sound(L), Ledger(L), Accounted(L), NEW outcome \in Outcome
    PROVE  Asks(L, Abort(L, outcome))
  BY AbandonAsks, AsksSelf DEF Abort, Reason, BusyUnlessDraining, Busy

\* The timer of a request fires.
LEMMA RequestTimeoutAsks ==
    ASSUME NEW L, Sound(L), Ledger(L), Accounted(L), Busy(L)
    PROVE  Asks(L, RequestTimeout(L))
<1>1. L.pending.abandonReason \in Reason
  BY DEF Sound, LinkState, Pending
<1>2. "request-timeout" \in Reason /\ "timeout" \in Outcome
  BY DEF Reason, Outcome
<1> QED
  BY <1>1, <1>2, AbandonAsks, CloseAsks DEF RequestTimeout, BusyUnlessDraining, Busy, Accounted, Sound

\* What is found in breach of the protocol closes the link.
LEMMA BreachAsks ==
    ASSUME NEW L, Sound(L), Ledger(L), Accounted(L), NEW reason \in Reason
    PROVE  Asks(L, Close(L, reason))
  BY CloseAsks DEF Sound, Accounted

\* A frame of the response settles nothing: only its end does.
LEMMA PartAsks ==
    ASSUME NEW L, Sound(L), Ledger(L), Accounted(L), NEW p \in Pending,
           p.id = L.pending.id, p.draining = L.pending.draining,
           p.resolved = L.pending.resolved, p.reported = L.pending.reported
    PROVE  LET M == [L EXCEPT !.pending = p] IN Asks(L, M)
<1> DEFINE M == [L EXCEPT !.pending = p]
<1>1. /\ M.pending = p /\ M.nextId = L.nextId /\ M.resolved = L.resolved /\ M.reported = L.reported
      /\ M.closed = L.closed /\ M.open = L.open /\ M.active = L.active /\ M.granted = L.granted
      /\ M.bytesOut = L.bytesOut /\ M.refunded = L.refunded /\ M.failed = L.failed
  BY DEF Sound, LinkState
<1> HIDE DEF M
<1>2. (Busy(M) <=> Busy(L)) /\ (BusyUnlessDraining(M) <=> BusyUnlessDraining(L))
  BY <1>1 DEF Busy, BusyUnlessDraining
<1>3. Settled(M) = Settled(L)
  BY <1>1, <1>2 DEF Settled
<1>4. Ledger(M)
  BY <1>1, <1>2, <1>3 DEF Ledger, Written
<1>5. Accounted(M)
  BY <1>1 DEF Accounted, CanSend
<1>6. SlotOf(M) = SlotOf(L)
  BY <1>1, <1>2 DEF SlotOf
<1>7. Asks(L, M)
  BY <1>1, <1>4, <1>5, <1>6 DEF Asks, Moves
<1> QED
  BY <1>7 DEF M

\* The reasons and outcomes the entry points name.
LEMMA ReasonsOutcomes ==
    /\ "protocol" \in Reason /\ "upload-queue" \in Reason /\ "upload-drain-timeout" \in Reason
    /\ "serve-error" \in Reason /\ "host" \in Reason /\ "channel-close" \in Reason
    /\ "none" \in Outcome /\ "payload" \in Outcome /\ "send-error" \in Outcome
  BY DEF Reason, Outcome

\* A frame for another request.
LEMMA MisnamedAsks ==
    ASSUME NEW L, Sound(L), Ledger(L), Accounted(L)
    PROVE  Asks(L, Misnamed(L))
  BY BreachAsks, AsksSelf, ReasonsOutcomes DEF Misnamed

\* A response is announced.
LEMMA OnMetaAsks ==
    ASSUME NEW L, Sound(L), Ledger(L), Accounted(L), NEW frame \in Frame, frame.t = "meta"
    PROVE  Asks(L, OnMeta(L, frame))
<1> DEFINE p == [L.pending EXCEPT !.size = frame.size]
           M == [L EXCEPT !.pending = p]
           breach == \/ L.pending.size # 0
                     \/ L.pending.range # Whole /\ frame.range # L.pending.range
                     \/ L.pending.expected # 0 /\ frame.size # L.pending.expected
                     \/ frame.size \notin 1 .. MaxSegment
<1>1. L.pending \in Pending /\ frame.size \in Nat /\ L \in LinkState
  BY FrameFields DEF Sound, LinkState
<1>2. p \in Pending /\ p.id = L.pending.id /\ p.draining = L.pending.draining
      /\ p.resolved = L.pending.resolved /\ p.reported = L.pending.reported
  BY <1>1 DEF Pending
<1>3. [L EXCEPT !.pending.size = frame.size] = M
  BY <1>1 DEF LinkState
<1>4. OnMeta(L, frame) = IF ~NamesPending(L, frame) THEN Misnamed(L)
                         ELSE IF breach THEN Close(L, "protocol")
                         ELSE [L EXCEPT !.pending.size = frame.size]
  BY DEF OnMeta
<1> HIDE DEF breach, p
<1>5. Asks(L, M)
  BY <1>2, PartAsks
<1> HIDE DEF M
<1> QED
  BY <1>3, <1>4, <1>5, MisnamedAsks, BreachAsks, ReasonsOutcomes

\* A response ends.
LEMMA OnEofAsks ==
    ASSUME NEW L, Sound(L), Ledger(L), Accounted(L), ~L.closed, NEW frame \in Frame
    PROVE  Asks(L, OnEof(L, frame))
<1>1. L \in LinkState /\ L.pending.parts \in Payload
  BY DEF Sound, LinkState, Pending
<1>2. CASE ~NamesPending(L, frame)
  BY <1>2, MisnamedAsks DEF OnEof
<1>3. CASE NamesPending(L, frame)
  <2>1. Busy(L)
    BY <1>3 DEF NamesPending
  <2>2. \/ OnEof(L, frame) \in {Finish(L, None, "none", TRUE), Close(L, "protocol")}
        \/ /\ OnEof(L, frame) = Finish(L, L.pending.parts, "payload", TRUE)
           /\ L.pending.parts \in Given(L)
    BY <1>3 DEF OnEof, Given
  <2>3. Asks(L, Finish(L, None, "none", TRUE))
    BY <1>1, <2>1, FinishAsks, NonePayload, NoneGiven, ReasonsOutcomes
  <2>4. L.pending.parts \in Given(L) => Asks(L, Finish(L, L.pending.parts, "payload", TRUE))
    BY <1>1, <2>1, FinishAsks, ReasonsOutcomes
  <2> QED
    BY <2>2, <2>3, <2>4, BreachAsks, ReasonsOutcomes
<1> QED
  BY <1>2, <1>3

\* A want is declined.
LEMMA OnNoneAsks ==
    ASSUME NEW L, Sound(L), Ledger(L), Accounted(L), ~L.closed, NEW frame \in Frame
    PROVE  Asks(L, OnNone(L, frame))
<1>1. L \in LinkState
  BY DEF Sound
<1>2. CASE ~NamesPending(L, frame)
  BY <1>2, MisnamedAsks DEF OnNone
<1>3. CASE NamesPending(L, frame)
  <2>1. Busy(L)
    BY <1>3 DEF NamesPending
  <2>2. OnNone(L, frame) \in {Finish(L, None, "none", TRUE), Close(L, "protocol")}
    BY <1>3 DEF OnNone
  <2>3. Asks(L, Finish(L, None, "none", TRUE))
    BY <1>1, <2>1, FinishAsks, NonePayload, NoneGiven, ReasonsOutcomes
  <2> QED
    BY <2>2, <2>3, BreachAsks, ReasonsOutcomes
<1> QED
  BY <1>2, <1>3

\* A chunk arrives.
LEMMA HandleBinaryAsks ==
    ASSUME NEW L, Sound(L), Ledger(L), Accounted(L), ~L.closed, NEW frame \in Frame, frame.t = "chunk"
    PROVE  Asks(L, HandleBinary(L, frame))
<1> DEFINE received == L.pending.received + 1
           counted == [L.pending EXCEPT !.received = received]
           kept == [L.pending EXCEPT !.received = received,
                                     !.parts = Append(L.pending.parts, frame.chunk)]
           M == [L EXCEPT !.pending = counted]
           N == [L EXCEPT !.pending = kept]
<1>1. L.pending \in Pending /\ frame.chunk \in Chunk /\ L \in LinkState
  BY FrameFields DEF Sound, LinkState
<1>2. /\ counted \in Pending /\ counted.id = L.pending.id /\ counted.draining = L.pending.draining
      /\ counted.resolved = L.pending.resolved /\ counted.reported = L.pending.reported
  BY <1>1 DEF Pending
<1>3. /\ kept \in Pending /\ kept.id = L.pending.id /\ kept.draining = L.pending.draining
      /\ kept.resolved = L.pending.resolved /\ kept.reported = L.pending.reported
  <2> DEFINE parts == Append(L.pending.parts, frame.chunk)
  <2>1. parts \in Payload /\ received \in Nat
    BY <1>1 DEF Pending, Payload
  <2>2. kept = [L.pending EXCEPT !.received = received, !.parts = parts]
    OBVIOUS
  <2> HIDE DEF parts, received, kept
  <2> QED
    BY <1>1, <2>1, <2>2 DEF Pending
<1>4. /\ [L EXCEPT !.pending.received = received] = M
      /\ [L EXCEPT !.pending.received = received, !.pending.parts = Append(@, frame.chunk)] = N
  BY <1>1 DEF LinkState, Pending
<1>5. HandleBinary(L, frame) \in {L, Close(L, "protocol"), Close(M, "protocol"), M, N}
  BY <1>4 DEF HandleBinary
<1> HIDE DEF counted, kept
<1>6. Asks(L, M) /\ Asks(L, N)
  BY <1>2, <1>3, PartAsks
<1>7. Asks(L, Close(M, "protocol"))
  <2>1. M \in LinkState /\ M.pending = counted
    BY <1>1, <1>2 DEF LinkState
  <2>2. M.closed = L.closed /\ M.resolved = L.resolved /\ M.nextId = L.nextId
    BY <1>1 DEF LinkState
  <2> HIDE DEF M
  <2>3. Asks(M, Close(M, "protocol")) /\ Close(M, "protocol").closed
    BY <1>6, <2>1, CloseAsks, ReasonsOutcomes DEF Asks, Accounted
  <2>4. SlotOf(M) = SlotOf(L) /\ M.pending.id = L.pending.id
    BY <1>2, <2>1, <2>2 DEF SlotOf, Busy
  <2>5. Moves(L, Close(M, "protocol"))
    BY <2>2, <2>3, <2>4, ShutAfter DEF Asks
  <2> QED
    BY <2>3, <2>5 DEF Asks
<1> HIDE DEF M, N
<1> QED
  BY <1>5, <1>6, <1>7, AsksSelf, BreachAsks, ReasonsOutcomes

\* Serving leaves the ledger as it is.
LEMMA UnaskedAsks ==
    ASSUME NEW L, NEW M, Ledger(L), Unasked(L, M), Accounted(M), M.failed => L.failed \/ M.closed
    PROVE  Asks(L, M)
<1>1. (Busy(M) <=> Busy(L)) /\ (BusyUnlessDraining(M) <=> BusyUnlessDraining(L))
  BY DEF Unasked, Busy, BusyUnlessDraining
<1>2. Settled(M) = Settled(L)
  BY <1>1 DEF Settled, Unasked
<1>3. Ledger(M)
  BY <1>1, <1>2 DEF Ledger, Written, Unasked
<1>4. SlotOf(M) = SlotOf(L)
  BY <1>1 DEF SlotOf, Unasked
<1> QED
  BY <1>3, <1>4 DEF Asks, Moves, Unasked

\* A call whose chunks the channel refuses ends with the link closed.
LEMMA ShellAsks ==
    ASSUME NEW L, Ledger(L), NEW M, Sound(M), Unasked(L, M), Accounted(M)
    PROVE  Asks(L, Shell(M))
<1>1. CASE ~M.failed
  BY <1>1, UnaskedAsks DEF Shell
<1>2. CASE M.failed
  <2>1. (Busy(M) <=> Busy(L)) /\ (BusyUnlessDraining(M) <=> BusyUnlessDraining(L))
    BY DEF Unasked, Busy, BusyUnlessDraining
  <2>2. Settled(M) = Settled(L)
    BY <2>1 DEF Settled, Unasked
  <2>3. Ledger(M)
    BY <2>1, <2>2 DEF Ledger, Written, Unasked
  <2>4. Asks(M, Close(M, "serve-error")) /\ Close(M, "serve-error").closed
    BY <2>3, CloseAsks, ReasonsOutcomes DEF Accounted, Sound
  <2>5. SlotOf(M) = SlotOf(L) /\ M.pending.id = L.pending.id /\ M.resolved = L.resolved /\ M.nextId = L.nextId
    BY <2>1 DEF SlotOf, Unasked
  <2>6. Moves(L, Close(M, "serve-error"))
    BY <2>4, <2>5, ShutAfter DEF Asks
  <2> QED
    BY <1>2, <2>4, <2>6 DEF Asks, Shell
<1> QED
  BY <1>1, <1>2

\* A want is queued and, when nothing is served, taken up.
LEMMA OnWantAsks ==
    ASSUME NEW L, Sound(L), Ledger(L), Accounted(L), NEW frame \in Frame, frame.t = "want"
    PROVE  Asks(L, Shell(OnWant(L, frame)))
<1>1. CASE L.inFlight >= MaxQueued
  <2>1. Asks(L, Close(L, "upload-queue")) /\ Close(L, "upload-queue").closed
    BY CloseAsks, ReasonsOutcomes DEF Accounted, Sound
  <2> QED
    BY <1>1, <2>1 DEF OnWant, Shell, Close
<1>2. CASE ~(L.inFlight >= MaxQueued)
  <2> DEFINE f == L.inFlight + 1
             q == Append(L.queue, [id |-> frame.id, key |-> frame.key,
                                   range |-> frame.range, cancelled |-> FALSE])
             T == [L EXCEPT !.inFlight = f, !.queue = q]
             M == StartNext(T)
  <2>1. OnWant(L, frame) = M
    BY <1>2 DEF OnWant
  <2> HIDE DEF f, q
  <2>2. IsLink(T) /\ Untouched(L, T) /\ T.active = L.active
    BY LinkStateIsLink DEF Sound, IsLink, LinkFields, Untouched, Unasked
  <2> HIDE DEF T
  <2>3. Untouched(T, M) /\ (M.active # T.active =>
          T.active.stage = "idle" /\ M.active.stage = "awaiting" /\ M.active.bytes = None)
    BY <2>2, StartNextUntouched
  <2>4. Sound(M)
    BY <2>1, OnWantSound
  <2> HIDE DEF M
  <2>5. Unasked(L, M) /\ Accounted(M)
    BY <2>2, <2>3 DEF Accounted, CanSend, Untouched, Unasked
  <2> QED
    BY <2>1, <2>4, <2>5, ShellAsks
<1> QED
  BY <1>1, <1>2

\* A link whose channel has not failed and that closes when it does.
LEMMA ShellAtRest ==
    ASSUME NEW L, ~L.failed, NEW M, Asks(L, M)
    PROVE  Shell(M) = M
  BY DEF Asks, Shell, Close

\* Every frame that arrives, and what the shell does after it.
LEMMA HandleAsks ==
    ASSUME NEW L, Sound(L), Ledger(L), Accounted(L), ~L.closed, ~L.failed, NEW frame \in Frame
    PROVE  Asks(L, Shell(Handle(L, frame)))
<1>1. frame.t \in {"want", "meta", "chunk", "eof", "none", "cancel"}
  BY FrameFields
<1>2. CASE frame.t = "chunk"
  BY <1>2, HandleBinaryAsks, ShellAtRest DEF Handle
<1>3. CASE frame.t = "want"
  BY <1>3, OnWantAsks DEF Handle, HandleText
<1>4. CASE frame.t = "cancel"
  <2>1. Sound(OnCancel(L, frame)) /\ Serves(L, OnCancel(L, frame))
    BY <1>4, OnCancelSound, OnCancelServes
  <2> QED
    BY <1>4, <2>1, ShellAsks DEF Handle, HandleText, Serves
<1>5. CASE frame.t = "meta"
  BY <1>5, OnMetaAsks, ShellAtRest DEF Handle, HandleText
<1>6. CASE frame.t = "eof"
  BY <1>6, OnEofAsks, ShellAtRest DEF Handle, HandleText
<1>7. CASE frame.t = "none"
  BY <1>7, OnNoneAsks, ShellAtRest DEF Handle, HandleText
<1> QED
  BY <1>1, <1>2, <1>3, <1>4, <1>5, <1>6, <1>7

\* The host answers, whether or not the link is still there.
LEMMA ServeAsks ==
    ASSUME NEW L, Sound(L), Ledger(L), Accounted(L), NEW bytes \in Payload, NEW buffered \in Nat
    PROVE  Asks(L, Shell(ServeResponse(L, bytes, buffered)))
<1>1. Sound(ServeResponse(L, bytes, buffered)) /\ Serves(L, ServeResponse(L, bytes, buffered))
  BY ServeResponseSound, ServeResponseServes
<1> QED
  BY <1>1, ShellAsks DEF Serves

\* The host's callback throws.
LEMMA ServeFailsAsks ==
    ASSUME NEW L, Sound(L), Ledger(L), Accounted(L), NEW buffered \in Nat
    PROVE  Asks(L, Shell(ServeResponse(Close(L, "serve-error"), None, buffered)))
<1> DEFINE C == Close(L, "serve-error")
           M == Shell(ServeResponse(C, None, buffered))
<1>1. Asks(L, C) /\ C.closed /\ Sound(C)
  BY CloseAsks, CloseSound, ReasonsOutcomes DEF Accounted, Sound
<1> HIDE DEF C
<1>2. Asks(C, M)
  BY <1>1, NonePayload, ServeAsks DEF Asks
<1>3. SlotOf(C) = "shut"
  BY <1>1 DEF SlotOf
<1> HIDE DEF M
<1>4. SlotOf(M) = "shut" /\ M.resolved = C.resolved /\ M.nextId = C.nextId
  BY <1>2, <1>3 DEF Asks, Moves
<1>5. M.closed
  BY <1>4 DEF SlotOf
<1>6. Moves(L, M)
  BY <1>1, <1>3, <1>4 DEF Asks, Moves, Answers
<1>7. Asks(L, M)
  BY <1>2, <1>5, <1>6 DEF Asks
<1> QED
  BY <1>7 DEF M, C

\* The channel has room again.
LEMMA DrainedAsks ==
    ASSUME NEW L, Sound(L), Ledger(L), Accounted(L), NEW buffered \in Nat
    PROVE  Asks(L, Shell(BufferedAmountLow(L, buffered)))
<1>1. Sound(BufferedAmountLow(L, buffered)) /\ Serves(L, BufferedAmountLow(L, buffered))
  BY BufferedAmountLowSound, BufferedAmountLowServes
<1> QED
  BY <1>1, ShellAsks DEF Serves

\* A paused response that is overdue goes, and the link with it.
LEMMA UploadTimeoutAsks ==
    ASSUME NEW L, Sound(L), Ledger(L), Accounted(L), L.active.stage = "draining"
    PROVE  Asks(L, UploadTimeout(L)) /\ UploadTimeout(L).closed
<1> DEFINE T == [L EXCEPT !.active = NoActive]
           C == Close(T, "upload-drain-timeout")
           M == FinishUpload(C)
<1>1. T \in LinkState /\ Unasked(L, T) /\ T.active = NoActive /\ NoActive.bytes = None
  <2>1. L \in LinkState /\ IsLink(L)
    BY LinkStateIsLink DEF Sound
  <2>2. T \in LinkState
    BY <2>1, NoActiveType DEF LinkState
  <2>3. NoActive.bytes = None
    BY DEF NoActive
  <2> QED
    BY <2>1, <2>2, <2>3 DEF IsLink, LinkFields, Unasked
<1>a. Owing(C)
  BY TakenOwing, CloseOwing, ReasonsOutcomes
<1> HIDE DEF T
<1>2. (Busy(T) <=> Busy(L)) /\ (BusyUnlessDraining(T) <=> BusyUnlessDraining(L))
  BY <1>1 DEF Unasked, Busy, BusyUnlessDraining
<1>3. Ledger(T) /\ SlotOf(T) = SlotOf(L)
  <2>1. Settled(T) = Settled(L)
    BY <1>1, <1>2 DEF Settled, Unasked
  <2> QED
    BY <1>1, <1>2, <2>1 DEF Ledger, Written, Unasked, SlotOf
<1>4. Asks(T, C) /\ C.closed
  BY <1>1, <1>3, CloseAsks, ReasonsOutcomes
<1> HIDE DEF C
<1>5. Moves(L, C)
  BY <1>1, <1>3, <1>4, ShutAfter DEF Asks, Unasked
<1>6. IsLink(C)
  BY <1>a, LinkStateIsLink DEF Owing
<1>7. Unasked(C, M) /\ Accounted(M)
  BY <1>4, <1>6, FinishUploadUntouched, FinishUploadAccounts DEF Asks, Untouched
<1> HIDE DEF M
<1>8. Asks(C, M) /\ M.closed
  BY <1>4, <1>7, UnaskedAsks DEF Asks, Unasked
<1>9. SlotOf(C) = "shut" /\ SlotOf(M) = "shut" /\ M.resolved = C.resolved /\ M.nextId = C.nextId
  BY <1>4, <1>7, <1>8 DEF SlotOf, Unasked
<1>10. Moves(L, M)
  BY <1>5, <1>9 DEF Moves, Answers
<1> QED
  BY <1>8, <1>10 DEF Asks, UploadTimeout, M, C, T

-----------------------------------------------------------------------------
(* Asking: the one entry point that takes a new request.                   *)

\* A request waits when the channel takes its want, and is settled with
\* None at once when it does not.
LEMMA StartRequestAsks ==
    ASSUME NEW L, Sound(L), Ledger(L), Accounted(L), ~L.closed, ~Busy(L),
           NEW key \in Key, NEW r \in PieceRange, NEW expected \in Nat
    PROVE  LET M == StartRequest(L, key, r, expected) IN
           /\ Ledger(M) /\ Accounted(M) /\ M.failed = L.failed /\ M.closed = L.closed
           /\ M.nextId = L.nextId + 1
           /\ \/ SlotOf(M) = "waiting" /\ M.resolved = L.resolved
              \/ SlotOf(M) = "free" /\ M.resolved = Append(L.resolved, [id |-> L.nextId, bytes |-> None])
<1> DEFINE p == [NoPending EXCEPT !.id = L.nextId, !.key = key, !.range = r, !.expected = expected,
                                  !.abandonReason = "request-timeout"]
           next == L.nextId + 1
           A == [L EXCEPT !.nextId = next, !.pending = p]
           M == StartRequest(L, key, r, expected)
           S == SendText(A, WantFrame(L.nextId, key, r))
           F == Finish(A, None, "send-error", TRUE)
<1>1. L \in LinkState /\ IsLink(L) /\ L.nextId \in Nat /\ L.nextId # 0
  BY LinkStateIsLink DEF Sound, LinkState
<1>2. M = IF CanSend(L) THEN S ELSE F
  BY DEF StartRequest
<1>3. /\ p.id = L.nextId /\ p.draining = FALSE /\ p.resolved = FALSE /\ p.reported = FALSE
      /\ p \in Pending
  <2>1. NoPending \in Pending
    BY NoPendingType
  <2>2. p \in Pending /\ p.id = L.nextId
    BY <1>1, <2>1, ReasonsOutcomes DEF Pending, Reason
  <2> QED
    BY <2>2 DEF NoPending
<1>4. next \in Nat \ {0} /\ next - 1 = L.nextId
  BY <1>1
<1> HIDE DEF p
<1>5. /\ A.pending = p /\ A.nextId = next /\ A.resolved = L.resolved /\ A.reported = L.reported
      /\ A.closed = L.closed /\ A.open = L.open /\ A.active = L.active /\ A.granted = L.granted
      /\ A.bytesOut = L.bytesOut /\ A.refunded = L.refunded /\ A.failed = L.failed /\ IsLink(A)
  BY <1>1 DEF IsLink, LinkFields
<1>6. A \in LinkState
  BY <1>1, <1>3, <1>4 DEF LinkState
<1> HIDE DEF A, next
<1>7. Busy(A) /\ BusyUnlessDraining(A)
  BY <1>1, <1>3, <1>5 DEF Busy, BusyUnlessDraining
<1>8. Settled(A) = Settled(L)
  <2>1. Settled(A) = L.nextId - 1
    BY <1>1, <1>4, <1>5, <1>7 DEF Settled
  <2>2. Settled(L) = L.nextId - 1
    BY <1>1 DEF Settled, Busy, BusyUnlessDraining
  <2> QED
    BY <2>1, <2>2
<1>9. Ledger(A) /\ Accounted(A)
  <2>1. Written(A)
    BY <1>3, <1>4, <1>5, <1>8 DEF Ledger, Written
  <2> QED
    BY <1>5, <2>1 DEF Ledger, Accounted, CanSend
<1>10. CASE CanSend(L)
  <2>1. Untouched(A, S) /\ S.active = A.active /\ S.failed = A.failed
    <3>1. S.failed = A.failed
      BY <1>5 DEF SendText, IsLink, LinkFields
    <3> QED
      BY <1>5, <3>1, SendTextUntouched
  <2> HIDE DEF S
  <2>2. Asks(A, S)
    BY <1>9, <2>1, UnaskedAsks DEF Accounted, CanSend, Untouched, Unasked
  <2>3. SlotOf(S) = "waiting"
    BY <1>3, <1>5, <1>7, <2>1 DEF SlotOf, Untouched, Unasked, Busy
  <2> QED
    BY <1>2, <1>4, <1>5, <1>10, <2>1, <2>2, <2>3 DEF Asks, Untouched, Unasked
<1>11. CASE ~CanSend(L)
  <2>1. Asks(A, F)
    BY <1>5, <1>6, <1>7, <1>9, NonePayload, NoneGiven, ReasonsOutcomes, FinishAsks
  <2>2. /\ ~Busy(F) /\ F.nextId = A.nextId /\ F.failed = A.failed /\ F.closed = A.closed
        /\ Answers(A, F, None)
    BY <1>6, <1>7, <1>9, NonePayload, ReasonsOutcomes, FinishWrites DEF Ledger
  <2> HIDE DEF F
  <2>3. SlotOf(F) = "free"
    BY <1>5, <2>2 DEF SlotOf
  <2> QED
    BY <1>2, <1>3, <1>4, <1>5, <1>11, <2>1, <2>2, <2>3 DEF Asks, Answers
<1> QED
  BY <1>10, <1>11

-----------------------------------------------------------------------------
(* The two ends together.                                                  *)

\* An end between two calls: the shell has closed a link whose channel threw.
AtRest(L) == Ledger(L) /\ Accounted(L) /\ (L.failed => L.closed)

\* The inductive invariant: an end's ledger and accounts are in order, and
\* its request ids count what it asked for.
PortInv == /\ IInv
           /\ \A n \in Node : AtRest(link[n]) /\ Len(asked[n]) = link[n].nextId - 1

\* What a step does at the port of n when it starts no request there, and
\* when it does.
Quiet(n) == asked'[n] = asked[n] /\ Moves(link[n], link'[n])
Asking(n) ==
    /\ SlotOf(link[n]) = "free"
    /\ link'[n].nextId = link[n].nextId + 1
    /\ \E q \in Ask[n] : asked'[n] = Append(asked[n], q)
    /\ \/ SlotOf(link'[n]) = "waiting" /\ link'[n].resolved = link[n].resolved
       \/ /\ SlotOf(link'[n]) = "free"
          /\ link'[n].resolved = Append(link[n].resolved, [id |-> link[n].nextId, bytes |-> None])
Steps(n) == AtRest(link'[n]) /\ (Quiet(n) \/ Asking(n))

\* A fresh link has clean books.
LEMMA StartsAtRest == AtRest(NewLink)
<1>1. NewLink.pending.id = 0 /\ NewLink.nextId = 1 /\ NewLink.resolved = <<>> /\ NewLink.reported = <<>>
      /\ NewLink.closed = FALSE /\ NewLink.failed = FALSE /\ NewLink.active.stage = "idle"
      /\ NewLink.active.bytes = <<>> /\ NewLink.granted = 0 /\ NewLink.bytesOut = 0 /\ NewLink.refunded = 0
  BY DEF NewLink, NoPending, NoActive, None
<1>2. ~Busy(NewLink) /\ Settled(NewLink) = 0
  BY <1>1 DEF Busy, Settled, BusyUnlessDraining
<1> HIDE DEF NewLink
<1>3. Written(NewLink)
  BY <1>1, <1>2 DEF Written
<1>4. Accounted(NewLink)
  BY <1>1 DEF Accounted, None
<1> QED
  BY <1>1, <1>2, <1>3, <1>4 DEF AtRest, Ledger

\* Fresh links satisfy the inductive invariant.
LEMMA InitPortInv == Init => PortInv
<1> SUFFICES ASSUME Init PROVE PortInv
  OBVIOUS
<1>1. NewLink.nextId = 1
  BY DEF NewLink
<1>2. Len(<<>>) = 0
  OBVIOUS
<1>3. ASSUME NEW n \in Node PROVE link[n] = NewLink /\ asked[n] = <<>>
  BY DEF Init
<1> QED
  BY <1>1, <1>2, <1>3, StartsAtRest, InitIInv DEF PortInv

\* A change that the ledger and the accounts do not see.
LEMMA SameSteps ==
    ASSUME NEW L, NEW M, AtRest(L),
           M.pending = L.pending, M.nextId = L.nextId, M.resolved = L.resolved,
           M.reported = L.reported, M.closed = L.closed, M.failed = L.failed,
           M.active = L.active, M.granted = L.granted, M.bytesOut = L.bytesOut,
           M.refunded = L.refunded, CanSend(M) => CanSend(L)
    PROVE  AtRest(M) /\ Moves(L, M)
<1>1. (Busy(M) <=> Busy(L)) /\ (BusyUnlessDraining(M) <=> BusyUnlessDraining(L))
  BY DEF Busy, BusyUnlessDraining
<1>2. Settled(M) = Settled(L)
  BY <1>1 DEF Settled
<1>3. Ledger(M)
  BY <1>1, <1>2 DEF AtRest, Ledger, Written
<1>4. Accounted(M)
  BY DEF AtRest, Accounted
<1>5. SlotOf(M) = SlotOf(L)
  BY <1>1 DEF SlotOf
<1> QED
  BY <1>3, <1>4, <1>5 DEF AtRest, Moves

\* A step of one end.
LEMMA OneEnd ==
    ASSUME PortInv, NEW n \in Node, NEW M, link' = [link EXCEPT ![n] = M], asked' = asked,
           AtRest(M), Moves(link[n], M), NEW m \in Node
    PROVE  Steps(m)
<1>1. CASE m = n
  BY <1>1 DEF Steps, Quiet, PortInv, IInv
<1>2. CASE m # n
  <2>1. link'[m] = link[m]
    BY <1>2 DEF PortInv, IInv
  <2> QED
    BY <2>1 DEF Steps, Quiet, Moves, PortInv
<1> QED
  BY <1>1, <1>2

\* A call into one end, and the shell after it, are a step of its port.
LEMMA CallAsks ==
    ASSUME PortInv, NEW n \in Node, NEW L, Call(n, L), Asks(link[n], Shell(L)), NEW m \in Node
    PROVE  Steps(m)
<1>1. AtRest(Shell(L)) /\ Moves(link[n], Shell(L))
  <2>1. link[n].failed => link[n].closed
    BY DEF PortInv, AtRest
  <2>2. link[n].closed => Shell(L).closed
    BY DEF Asks, Moves, SlotOf
  <2> QED
    BY <2>1, <2>2 DEF Asks, AtRest
<1> QED
  BY <1>1, OneEnd DEF Call

\* A call that leaves a link at rest needs nothing of the shell.
LEMMA ShellIdle ==
    ASSUME NEW L, NEW M, L.failed => L.closed, Asks(L, M)
    PROVE  Shell(M) = M
<1>1. L.closed => M.closed
  BY DEF Asks, Moves, SlotOf
<1> QED
  BY <1>1 DEF Asks, Shell, Close

\* A request is made: the port takes it, or answers at once.
LEMMA RequestSteps ==
    ASSUME PortInv, NEW n \in Node, Request(n), NEW m \in Node
    PROVE  Steps(m)
<1>1. PICK q \in Ask[n] :
         /\ link' = [link EXCEPT ![n] =
                       StartRequest(link[n], q.key, q.range, q.expected)]
         /\ asked' = [asked EXCEPT ![n] = Append(asked[n], q)]
  BY DEF Request
<1>2. q.key \in Key /\ q.range \in PieceRange /\ q.expected \in Nat
  BY AskAssumption
<1> DEFINE L == link[n]
           M == StartRequest(L, q.key, q.range, q.expected)
<1>3. Sound(L) /\ Ledger(L) /\ Accounted(L) /\ ~L.closed /\ ~Busy(L) /\ (L.failed => L.closed)
  BY DEF PortInv, IInv, AtRest, Request
<1>4. /\ Ledger(M) /\ Accounted(M) /\ M.failed = L.failed /\ M.closed = L.closed
      /\ M.nextId = L.nextId + 1
      /\ \/ SlotOf(M) = "waiting" /\ M.resolved = L.resolved
         \/ SlotOf(M) = "free" /\ M.resolved = Append(L.resolved, [id |-> L.nextId, bytes |-> None])
  BY <1>2, <1>3, StartRequestAsks
<1> HIDE DEF M
<1>5. link' = [link EXCEPT ![n] = M] /\ asked' = [asked EXCEPT ![n] = Append(asked[n], q)]
  BY <1>1 DEF M
<1>6. CASE m = n
  <2>1. link'[m] = M /\ asked'[m] = Append(asked[n], q)
    BY <1>5, <1>6 DEF PortInv, IInv
  <2>2. SlotOf(L) = "free"
    BY <1>3 DEF SlotOf
  <2> QED
    BY <1>3, <1>4, <1>6, <2>1, <2>2 DEF Steps, Asking, AtRest
<1>7. CASE m # n
  <2>1. link'[m] = link[m] /\ asked'[m] = asked[m]
    BY <1>5, <1>7 DEF PortInv, IInv
  <2> QED
    BY <2>1 DEF Steps, Quiet, Moves, PortInv
<1> QED
  BY <1>6, <1>7

\* The host answers an upload.
LEMMA ServeSteps ==
    ASSUME PortInv, NEW n \in Node, Serve(n), NEW m \in Node
    PROVE  Steps(m)
<1> DEFINE k == link[n].active.upload.key
<1>1. k \in Key /\ link[n].buffered \in Nat /\ Sound(link[n]) /\ Ledger(link[n]) /\ Accounted(link[n])
  BY DEF PortInv, IInv, AtRest, LinkState, Active, Upload
<1>2. PICK bytes \in {Object(k, HeldSize[n][k]), None},
           buffered \in 0 .. link[n].buffered :
             Call(n, ServeResponse(link[n], bytes, buffered))
  BY DEF Serve
<1>3. bytes \in Payload /\ buffered \in Nat
  BY <1>1, <1>2, ObjectPayload, NonePayload
<1> QED
  BY <1>1, <1>2, <1>3, ServeAsks, CallAsks

\* A frame is read.
LEMMA ReceiveSteps ==
    ASSUME PortInv, NEW n \in Node, Receive(n), NEW m \in Node
    PROVE  Steps(m)
<1> DEFINE o == Other(n)
           frame == Head(link[o].wire)
           L == Shell(Handle(link[n], frame))
           w == Tail(link[o].wire)
           M == [link[o] EXCEPT !.wire = w]
<1>1. o \in Node /\ o # n
  BY OtherNode
<1>2. link[o].wire \in Seq(Frame) /\ link[o].wire # <<>>
  BY <1>1 DEF PortInv, IInv, LinkState, Receive
<1>3. frame \in Frame
  BY <1>2
<1>4. link' = [link EXCEPT ![n] = L, ![o] = M] /\ asked' = asked
  BY <1>1 DEF Receive, PortInv, IInv
<1>5. AtRest(L) /\ Moves(link[n], L)
  <2>1. Sound(link[n]) /\ Ledger(link[n]) /\ Accounted(link[n]) /\ ~link[n].closed /\ ~link[n].failed
    BY DEF PortInv, IInv, AtRest, Receive
  <2>2. Asks(link[n], L)
    BY <1>3, <2>1, HandleAsks
  <2> QED
    BY <2>1, <2>2 DEF Asks, AtRest
<1>6. AtRest(M) /\ Moves(link[o], M)
  <2>1. IsLink(link[o]) /\ AtRest(link[o])
    BY <1>1, LinkStateIsLink DEF PortInv, IInv
  <2> HIDE DEF w, o
  <2>2. /\ M.pending = link[o].pending /\ M.nextId = link[o].nextId /\ M.resolved = link[o].resolved
        /\ M.reported = link[o].reported /\ M.closed = link[o].closed /\ M.failed = link[o].failed
        /\ M.active = link[o].active /\ M.granted = link[o].granted
        /\ M.bytesOut = link[o].bytesOut /\ M.refunded = link[o].refunded /\ M.open = link[o].open
    BY <2>1 DEF IsLink, LinkFields
  <2> HIDE DEF M
  <2> QED
    BY <2>1, <2>2, SameSteps DEF CanSend
<1> HIDE DEF L, M
<1>7. m \in {n, o}
  BY <1>1, NodeAssumption
<1> HIDE DEF o
<1>8. link'[n] = L /\ link'[o] = M
  BY <1>1, <1>4 DEF PortInv, IInv
<1> QED
  BY <1>4, <1>5, <1>6, <1>7, <1>8 DEF Steps, Quiet

\* What the network does to frames is no step of the port.
LEMMA WireSteps ==
    ASSUME PortInv, NEW n \in Node, NEW w, NEW open,
           link[n].open = open \/ open = FALSE,
           link' = [link EXCEPT ![n] = [link[n] EXCEPT !.wire = w, !.open = open]], asked' = asked,
           NEW m \in Node
    PROVE  Steps(m)
<1> DEFINE L == link[n]
           M == [L EXCEPT !.wire = w, !.open = open]
<1>1. IsLink(L) /\ AtRest(L)
  BY LinkStateIsLink DEF PortInv, IInv
<1>2. /\ M.pending = L.pending /\ M.nextId = L.nextId /\ M.resolved = L.resolved
      /\ M.reported = L.reported /\ M.closed = L.closed /\ M.failed = L.failed
      /\ M.active = L.active /\ M.granted = L.granted
      /\ M.bytesOut = L.bytesOut /\ M.refunded = L.refunded /\ M.open = open
  BY <1>1 DEF IsLink, LinkFields
<1> HIDE DEF M
<1>3. AtRest(M) /\ Moves(L, M)
  BY <1>1, <1>2, SameSteps DEF CanSend
<1> QED
  BY <1>3, OneEnd DEF M

\* Every step keeps the ends at rest, and moves their ports as RequestPort
\* says, but for what a request is answered with.
LEMMA NextSteps ==
    ASSUME PortInv, [Next]_vars, NEW m \in Node PROVE Steps(m)
<1>0. ASSUME NEW n \in Node
      PROVE  Sound(link[n]) /\ Ledger(link[n]) /\ Accounted(link[n]) /\ (link[n].failed => link[n].closed)
  BY DEF PortInv, IInv, AtRest
<1>1. CASE UNCHANGED vars
  BY <1>1 DEF vars, PortInv, Steps, Quiet, Moves, AtRest
<1>2. ASSUME NEW n \in Node, Request(n) PROVE Steps(m)
  BY <1>2, RequestSteps
<1>3. ASSUME NEW n \in Node, AbortRequest(n) PROVE Steps(m)
  <2>1. PICK outcome \in {"abort", "abandoned"} : Call(n, Abort(link[n], outcome))
    BY <1>3 DEF AbortRequest
  <2>2. Asks(link[n], Abort(link[n], outcome))
    BY <1>0, AbortAsks DEF Outcome
  <2> QED
    BY <1>0, <2>1, <2>2, ShellIdle, CallAsks
<1>4. ASSUME NEW n \in Node, Serve(n) PROVE Steps(m)
  BY <1>4, ServeSteps
<1>5. ASSUME NEW n \in Node, ServeFails(n) PROVE Steps(m)
  <2>1. link[n].buffered \in Nat
    BY DEF PortInv, IInv, LinkState
  <2> QED
    BY <1>0, <1>5, <2>1, ServeFailsAsks, CallAsks DEF ServeFails
<1>6. ASSUME NEW n \in Node, CloseLink(n) PROVE Steps(m)
  <2>1. Asks(link[n], Close(link[n], "host"))
    BY <1>0, BreachAsks, ReasonsOutcomes
  <2> QED
    BY <1>0, <1>6, <2>1, ShellIdle, CallAsks DEF CloseLink
<1>7. ASSUME NEW n \in Node, FireRequestTimer(n) PROVE Steps(m)
  <2>1. Asks(link[n], RequestTimeout(link[n]))
    BY <1>0, <1>7, RequestTimeoutAsks DEF FireRequestTimer
  <2> QED
    BY <1>0, <1>7, <2>1, ShellIdle, CallAsks DEF FireRequestTimer
<1>8. ASSUME NEW n \in Node, FireUploadTimer(n) PROVE Steps(m)
  <2>1. Asks(link[n], UploadTimeout(link[n]))
    BY <1>0, <1>8, UploadTimeoutAsks DEF FireUploadTimer
  <2> QED
    BY <1>0, <1>8, <2>1, ShellIdle, CallAsks DEF FireUploadTimer
<1>9. ASSUME NEW n \in Node, Receive(n) PROVE Steps(m)
  BY <1>9, ReceiveSteps
<1>10. ASSUME NEW n \in Node, Drained(n) PROVE Steps(m)
  <2>1. PICK buffered \in 0 .. link[n].buffered :
          Call(n, BufferedAmountLow(link[n], buffered))
    BY <1>10 DEF Drained
  <2>2. buffered \in Nat
    BY DEF PortInv, IInv, LinkState
  <2> QED
    BY <1>0, <2>1, <2>2, DrainedAsks, CallAsks
<1>11. ASSUME NEW n \in Node, ChannelDown(n) PROVE Steps(m)
  <2>1. [link[n] EXCEPT !.open = FALSE] = [link[n] EXCEPT !.wire = link[n].wire, !.open = FALSE]
    BY DEF PortInv, IInv, LinkState
  <2>2. link' = [link EXCEPT ![n] = [link[n] EXCEPT !.open = FALSE]] /\ asked' = asked
    BY <1>11 DEF ChannelDown, PortInv, IInv
  <2> QED
    BY <2>1, <2>2, WireSteps
<1>12. ASSUME NEW n \in Node, ChannelClosed(n) PROVE Steps(m)
  <2>1. Asks(link[n], Close(link[n], "channel-close"))
    BY <1>0, BreachAsks, ReasonsOutcomes
  <2> QED
    BY <1>0, <1>12, <2>1, ShellIdle, CallAsks DEF ChannelClosed
<1>13. ASSUME NEW n \in Node, LoseFrame(n) PROVE Steps(m)
  <2>1. PICK i \in DOMAIN link[n].wire :
          link' = [link EXCEPT ![n].wire =
                     SubSeq(link[n].wire, 1, i - 1)
                       \o SubSeq(link[n].wire, i + 1, Len(link[n].wire))]
    BY <1>13 DEF LoseFrame
  <2> DEFINE w == SubSeq(link[n].wire, 1, i - 1) \o SubSeq(link[n].wire, i + 1, Len(link[n].wire))
  <2>2. link' = [link EXCEPT ![n] = [link[n] EXCEPT !.wire = w]] /\ asked' = asked
    BY <1>13, <2>1 DEF LoseFrame, PortInv, IInv
  <2> HIDE DEF w
  <2>3. [link[n] EXCEPT !.wire = w] = [link[n] EXCEPT !.wire = w, !.open = link[n].open]
    BY DEF PortInv, IInv, LinkState
  <2> QED
    BY <2>2, <2>3, WireSteps
<1> QED
  BY <1>1, <1>2, <1>3, <1>4, <1>5, <1>6, <1>7, <1>8, <1>9, <1>10, <1>11, <1>12, <1>13 DEF Next

\* Every step keeps the inductive invariant.
LEMMA NextPortInv == PortInv /\ [Next]_vars => PortInv'
<1> SUFFICES ASSUME PortInv, [Next]_vars PROVE PortInv'
  OBVIOUS
<1>1. IInv'
  BY NextIInv DEF PortInv
<1>2. ASSUME NEW m \in Node PROVE AtRest(link'[m]) /\ Len(asked'[m]) = link'[m].nextId - 1
  <2>1. Steps(m) /\ Len(asked[m]) = link[m].nextId - 1 /\ link[m].nextId \in Nat
        /\ asked[m] \in Seq([key : Key, range : PieceRange, expected : Nat])
    BY NextSteps DEF PortInv, IInv, LinkState
  <2>2. CASE Quiet(m)
    BY <2>1, <2>2 DEF Steps, Quiet, Moves
  <2>3. CASE Asking(m)
    <3> DEFINE Q == [key : Key, range : PieceRange, expected : Nat]
    <3>1. PICK q \in Ask[m] : asked'[m] = Append(asked[m], q)
      BY <2>3 DEF Asking
    <3>2. q \in Q
      BY AskAssumption
    <3>3. asked[m] \in Seq(Q)
      BY <2>1
    <3> HIDE DEF Q
    <3>4. Len(asked'[m]) = Len(asked[m]) + 1
      BY <3>1, <3>2, <3>3
    <3> QED
      BY <2>1, <2>3, <3>4 DEF Steps, Asking
  <2> QED
    BY <2>1, <2>2, <2>3 DEF Steps
<1> QED
  BY <1>1, <1>2 DEF PortInv

\* The books of both ends are in order for ever.
LEMMA SpecPortInv == Spec => []PortInv
  BY InitPortInv, NextPortInv, PTL DEF Spec

\* One place among the settlements of a ledger for each settled request.
LEMMA OncePerId ==
    ASSUME NEW s, NEW k \in Nat, DOMAIN s = 1 .. k, \A i \in 1 .. k : s[i].id = i,
           NEW id \in Nat \ {0}
    PROVE  Cardinality({i \in DOMAIN s : s[i].id = id}) = IF id <= k THEN 1 ELSE 0
<1>1. CASE id <= k
  <2>1. {i \in DOMAIN s : s[i].id = id} = {id}
    BY <1>1
  <2> QED
    BY <1>1, <2>1, FS_Singleton
<1>2. CASE ~(id <= k)
  <2>1. {i \in DOMAIN s : s[i].id = id} = {}
    BY <1>2
  <2> QED
    BY <1>2, <2>1, FS_EmptySet
<1> QED
  BY <1>1, <1>2

\* Every request of an end is settled and reported exactly once, whichever
\* of response, abort, timeout, drain end, breach and close of link.rs come
\* first, and in whatever order the rest follow.
THEOREM SettledExactlyOnce == Spec => []SettledOnce
<1>1. PortInv => SettledOnce
  <2> SUFFICES ASSUME PortInv, NEW n \in Node, NEW id \in 1 .. link[n].nextId - 1
               PROVE  LET waits == link[n].pending.id = id /\ ~link[n].pending.draining
                          times == IF waits THEN 0 ELSE 1
                      IN  Settlements(n, id) = times /\ Reports(n, id) = times
    BY DEF SettledOnce
  <2> DEFINE L == link[n]
             k == Settled(L)
  <2>1. /\ L.nextId \in Nat \ {0} /\ L.resolved \in Seq([id : Nat, bytes : Payload])
        /\ L.reported \in Seq([id : Nat, outcome : Outcome]) /\ Written(L)
    BY DEF PortInv, IInv, LinkState, AtRest, Ledger
  <2>2. id \in Nat \ {0} /\ id <= L.nextId - 1
    BY <2>1
  <2>3. BusyUnlessDraining(L) => L.pending.id = L.nextId - 1
    BY <2>1 DEF Written, Busy, BusyUnlessDraining
  <2>4. k \in Nat /\ (id <= k <=> ~(L.pending.id = id /\ ~L.pending.draining))
    <3>1. CASE BusyUnlessDraining(L)
      <4>1. k = L.nextId - 2 /\ L.pending.id = L.nextId - 1 /\ ~L.pending.draining
        BY <2>1, <2>3, <3>1 DEF Settled, BusyUnlessDraining
      <4> HIDE DEF k
      <4> QED
        BY <2>1, <2>2, <4>1
    <3>2. CASE ~BusyUnlessDraining(L)
      <4>1. k = L.nextId - 1 /\ ~(L.pending.id = id /\ ~L.pending.draining)
        BY <2>1, <2>2, <3>2 DEF Settled, BusyUnlessDraining
      <4> HIDE DEF k
      <4> QED
        BY <2>1, <2>2, <4>1
    <3> QED
      BY <3>1, <3>2
  <2>5. /\ DOMAIN L.resolved = 1 .. k /\ DOMAIN L.reported = 1 .. k
        /\ \A i \in 1 .. k : L.resolved[i].id = i /\ L.reported[i].id = i
    BY SMTT(30), <2>1 DEF Written
  <2> HIDE DEF k
  <2>6. Settlements(n, id) = (IF id <= k THEN 1 ELSE 0) /\ Reports(n, id) = (IF id <= k THEN 1 ELSE 0)
    BY <2>2, <2>4, <2>5, OncePerId DEF Settlements, Reports
  <2> QED
    BY <2>4, <2>6
<1> QED
  BY <1>1, SpecPortInv, PTL

\* While a link is up every chunk that the host granted is paid for, given
\* back or in the response under way: no cancel, decline, pause or early
\* end of link.rs loses one from the account that the host keeps.
THEOREM EveryGrantAccounted == Spec => []GrantsAccounted
<1>1. PortInv => GrantsAccounted
  BY DEF PortInv, AtRest, Accounted, GrantsAccounted
<1> QED
  BY <1>1, SpecPortInv, PTL

-----------------------------------------------------------------------------
(* The exchange.  p is the request that one end waits for, `out' the frames *)
(* it sent, `in' those sent to it, x the upload that the other end answers  *)
(* and `held' the sizes of what the other end holds.                        *)

\* How many chunks p is answered with, and which ones.
Count(p, held) == IF p.range = Whole THEN held[p.key] ELSE p.range.end - p.range.start
PartOf(p, held, c) ==
    c.key = p.key /\ p.range.start < c.at /\ c.at <= p.range.start + Count(p, held)
SameAs(u, p) == u.id = p.id /\ u.key = p.key /\ u.range = p.range

Responses == {"meta", "chunk", "eof", "none"}
Silent(in) == \A i \in DOMAIN in : in[i].t \notin Responses
NoWant(out) == \A i \in DOMAIN out : out[i].t # "want"

Nothing(p, out, in, x) == p.id = 0 => x.stage = "idle" /\ Silent(in) /\ NoWant(out)

OneWant(p, out, in, x) ==
    \A i \in DOMAIN out : out[i].t = "want" =>
        /\ SameAs(out[i], p)
        /\ x.stage = "idle" /\ Silent(in) /\ p.parts = None
        /\ \A j \in DOMAIN out : out[j].t = "want" => i = j

OneUpload(p, in, x, held) ==
    /\ x.stage # "idle" => SameAs(x.upload, p)
    /\ x.stage = "awaiting" => Silent(in) /\ p.parts = None
    /\ x.stage = "draining" =>
         /\ Len(x.bytes) = Count(p, held)
         /\ \A i \in 1 .. Len(x.bytes) : x.bytes[i] = [key |-> p.key, at |-> p.range.start + i]
         /\ \A i \in DOMAIN in : in[i].t \notin {"eof", "none"}
         /\ \A i \in DOMAIN in : in[i].t = "chunk" => in[i].chunk.at <= p.range.start + x.sent
         /\ \A i \in DOMAIN p.parts : p.parts[i].at <= p.range.start + x.sent

OneResponse(p, in, held) ==
    /\ \A i \in DOMAIN in :
         /\ in[i].t \in {"meta", "eof", "none"} => in[i].id = p.id
         /\ in[i].t = "meta" => in[i].size = Count(p, held)
         /\ in[i].t = "chunk" => /\ PartOf(p, held, in[i].chunk)
                                 /\ \A j \in DOMAIN p.parts : p.parts[j].at < in[i].chunk.at
    /\ \A i, j \in DOMAIN in : i < j =>
         /\ in[i].t \in {"eof", "none"} => in[j].t \notin Responses
         /\ in[i].t = "chunk" /\ in[j].t = "chunk" => in[i].chunk.at < in[j].chunk.at

\* The parts received are chunks of the response with gaps where some were
\* lost, never out of order.
Received(p, held) ==
    /\ p.size # 0 => p.size = Count(p, held) /\ (p.expected # 0 => p.size = p.expected)
    /\ IF p.draining THEN p.parts = None ELSE p.received = Len(p.parts)
    /\ \A i \in DOMAIN p.parts : PartOf(p, held, p.parts[i])
    /\ \A i, j \in DOMAIN p.parts : i < j => p.parts[j].at - p.parts[i].at >= j - i

Flow(p, out, in, x, held) ==
    /\ Nothing(p, out, in, x) /\ OneWant(p, out, in, x)
    /\ OneUpload(p, in, x, held) /\ OneResponse(p, in, held) /\ Received(p, held)

\* L asks and M holds.  What a closed end left behind is of no interest:
\* it reads no frame any more.
Exchange(L, M, held) ==
    ~L.closed => M.queue = <<>> /\ Flow(L.pending, L.wire, M.wire, M.active, held)

-----------------------------------------------------------------------------
(* Frames that are lost, read or beside the point.                         *)

\* The frames of kinds T in v are some of those in w, in the same order.
Within(v, w, T) ==
    \E f : /\ \A i \in DOMAIN v : v[i].t \in T => f[i] \in DOMAIN w /\ v[i] = w[f[i]]
           /\ \A i, j \in DOMAIN v : v[i].t \in T /\ v[j].t \in T /\ i < j => f[i] < f[j]

\* The counts of chunks sent and given back are numbers.
LEMMA ChunkCounters ==
    ASSUME NEW L \in LinkState
    PROVE  L.bytesOut \in Nat /\ L.refunded \in Nat
  BY SMTT(30) DEF LinkState

\* An exchange that loses frames is still an exchange.
LEMMA FlowWithin ==
    ASSUME NEW p, NEW out, NEW in, NEW x, NEW held, Flow(p, out, in, x, held),
           NEW o, NEW i, Within(o, out, {"want"}), Within(i, in, Responses),
           o \in Seq(Frame), out \in Seq(Frame)
    PROVE  Flow(p, o, i, x, held)
<1>1. PICK f : /\ \A k \in DOMAIN o : o[k].t = "want" => f[k] \in DOMAIN out /\ o[k] = out[f[k]]
               /\ \A k, l \in DOMAIN o : o[k].t = "want" /\ o[l].t = "want" /\ k < l => f[k] < f[l]
  BY DEF Within
<1>2. PICK g : /\ \A k \in DOMAIN i : i[k].t \in Responses => g[k] \in DOMAIN in /\ i[k] = in[g[k]]
               /\ \A k, l \in DOMAIN i : i[k].t \in Responses /\ i[l].t \in Responses /\ k < l => g[k] < g[l]
  BY DEF Within
<1>3. Silent(in) => Silent(i)
  BY <1>2 DEF Silent
<1>4. NoWant(out) => NoWant(o)
  BY <1>1 DEF NoWant
<1>5. Nothing(p, o, i, x)
  BY <1>3, <1>4 DEF Flow, Nothing
<1>6. OneWant(p, o, i, x)
  <2> SUFFICES ASSUME NEW k \in DOMAIN o, o[k].t = "want"
               PROVE  /\ SameAs(o[k], p) /\ x.stage = "idle" /\ Silent(i) /\ p.parts = None
                      /\ \A l \in DOMAIN o : o[l].t = "want" => k = l
    BY DEF OneWant
  <2>1. /\ SameAs(o[k], p) /\ x.stage = "idle" /\ Silent(i) /\ p.parts = None
        /\ \A l \in DOMAIN o : o[l].t = "want" => f[k] = f[l]
    BY <1>1, <1>3 DEF Flow, OneWant
  <2>2. ASSUME NEW l \in DOMAIN o, o[l].t = "want" PROVE k = l
    <3>1. k \in Int /\ l \in Int /\ f[k] \in Int /\ f[l] \in Int /\ f[k] = f[l]
      BY <1>1, <2>1, <2>2
    <3>2. ~(k < l) /\ ~(l < k)
      BY <1>1, <2>2, <3>1
    <3> QED
      BY <3>1, <3>2
  <2> QED
    BY <2>1, <2>2
<1>7. OneUpload(p, i, x, held)
  BY <1>2, <1>3 DEF Flow, OneUpload, Responses
<1>8. OneResponse(p, i, held)
  BY <1>2 DEF Flow, OneResponse, Responses
<1> QED
  BY <1>5, <1>6, <1>7, <1>8 DEF Flow

\* Nothing lost is a way to lose frames.
LEMMA WithinSelf == ASSUME NEW w, NEW T PROVE Within(w, w, T)
<1> DEFINE f == [k \in DOMAIN w |-> k]
<1>1. /\ \A i \in DOMAIN w : w[i].t \in T => f[i] \in DOMAIN w /\ w[i] = w[f[i]]
      /\ \A i, j \in DOMAIN w : i < j => f[i] < f[j]
  OBVIOUS
<1> HIDE DEF f
<1> QED
  BY <1>1 DEF Within

\* So is losing twice.
LEMMA WithinTransitive ==
    ASSUME NEW u, NEW v, NEW w, NEW T, Within(u, v, T), Within(v, w, T)
    PROVE  Within(u, w, T)
<1>1. PICK f : /\ \A i \in DOMAIN u : u[i].t \in T => f[i] \in DOMAIN v /\ u[i] = v[f[i]]
               /\ \A i, j \in DOMAIN u : u[i].t \in T /\ u[j].t \in T /\ i < j => f[i] < f[j]
  BY DEF Within
<1>2. PICK g : /\ \A i \in DOMAIN v : v[i].t \in T => g[i] \in DOMAIN w /\ v[i] = w[g[i]]
               /\ \A i, j \in DOMAIN v : v[i].t \in T /\ v[j].t \in T /\ i < j => g[i] < g[j]
  BY DEF Within
<1> DEFINE h == [i \in DOMAIN u |-> g[f[i]]]
<1>3. \A i \in DOMAIN u : u[i].t \in T => h[i] \in DOMAIN w /\ u[i] = w[h[i]]
  BY <1>1, <1>2
<1>4. \A i, j \in DOMAIN u : u[i].t \in T /\ u[j].t \in T /\ i < j => h[i] < h[j]
  BY <1>1, <1>2
<1> HIDE DEF h
<1> QED
  BY <1>3, <1>4 DEF Within

\* Reading the first frame, losing the k-th and sending frames of other kinds.
LEMMA WithinTail ==
    ASSUME NEW w \in Seq(Frame), w # <<>>, NEW T PROVE Within(Tail(w), w, T)
<1> DEFINE f == [i \in DOMAIN Tail(w) |-> i + 1]
<1>1. \A i \in DOMAIN Tail(w) : i \in Int /\ f[i] = i + 1 /\ f[i] \in DOMAIN w /\ Tail(w)[i] = w[f[i]]
  OBVIOUS
<1>2. \A i, j \in DOMAIN Tail(w) : i < j => f[i] < f[j]
  BY <1>1
<1> HIDE DEF f
<1> QED
  BY <1>1, <1>2 DEF Within

\* The network loses one frame.
LEMMA WithinLoss ==
    ASSUME NEW w \in Seq(Frame), NEW k \in DOMAIN w, NEW T
    PROVE  LET v == SubSeq(w, 1, k - 1) \o SubSeq(w, k + 1, Len(w))
           IN  v \in Seq(Frame) /\ Within(v, w, T)
<1> DEFINE a == SubSeq(w, 1, k - 1)
           b == SubSeq(w, k + 1, Len(w))
           v == a \o b
           f == [i \in DOMAIN v |-> IF i < k THEN i ELSE i + 1]
<1>1. k \in 1 .. Len(w) /\ Len(w) \in Nat
  OBVIOUS
<1>2. a \in Seq(Frame) /\ Len(a) = k - 1 /\ \A i \in 1 .. k - 1 : a[i] = w[i]
  BY <1>1
<1>3. b \in Seq(Frame) /\ Len(b) = Len(w) - k /\ \A i \in 1 .. Len(w) - k : b[i] = w[k + i]
  BY <1>1
<1> HIDE DEF a, b
<1>4. v \in Seq(Frame) /\ Len(v) = Len(w) - 1
  BY <1>1, <1>2, <1>3
<1>5. \A i \in 1 .. Len(v) : v[i] = IF i < k THEN a[i] ELSE b[i - (k - 1)]
  BY <1>1, <1>2, <1>3
<1> HIDE DEF v
<1>6. DOMAIN v = 1 .. Len(w) - 1
  BY <1>4
<1>7. \A i \in DOMAIN v : i \in Int /\ f[i] = (IF i < k THEN i ELSE i + 1) /\ f[i] \in DOMAIN w
                         /\ v[i] = w[f[i]]
  <2> SUFFICES ASSUME NEW i \in 1 .. Len(w) - 1
               PROVE  /\ i \in Int /\ f[i] = (IF i < k THEN i ELSE i + 1) /\ f[i] \in DOMAIN w
                      /\ v[i] = w[f[i]]
    BY <1>6
  <2>1. f[i] = (IF i < k THEN i ELSE i + 1) /\ i \in Int /\ v[i] = IF i < k THEN a[i] ELSE b[i - (k - 1)]
    BY <1>1, <1>4, <1>5, <1>6
  <2> HIDE DEF f
  <2>2. CASE i < k
    <3>1. i \in 1 .. k - 1
      BY <1>1, <2>2
    <3> QED
      BY <1>1, <1>2, <2>1, <2>2, <3>1
  <2>3. CASE ~(i < k)
    <3>1. i - (k - 1) \in 1 .. Len(w) - k /\ k + (i - (k - 1)) = i + 1 /\ i + 1 \in 1 .. Len(w)
      BY <1>1, <2>3
    <3> QED
      BY SMTT(30), <1>1, <1>3, <2>1, <2>3, <3>1
  <2> QED
    BY <2>2, <2>3
<1>8. \A i, j \in DOMAIN v : i < j => f[i] < f[j]
  BY <1>1, <1>7
<1> HIDE DEF f
<1>9. Within(v, w, T)
  BY <1>7, <1>8 DEF Within
<1> QED
  BY <1>4, <1>9 DEF v, a, b

\* w is v and then some frames, none of them of a kind in T.
NoNew(v, w, T) == \A i \in DOMAIN w : w[i].t \in T => i \in DOMAIN v /\ w[i] = v[i]

\* Frames of other kinds do not count.
LEMMA NoNewWithin ==
    ASSUME NEW v, NEW w, NEW T, NoNew(v, w, T) PROVE Within(w, v, T)
<1> DEFINE f == [i \in DOMAIN w |-> i]
<1>1. /\ \A i \in DOMAIN w : w[i].t \in T => f[i] \in DOMAIN v /\ w[i] = v[f[i]]
      /\ \A i, j \in DOMAIN w : i < j => f[i] < f[j]
  BY DEF NoNew
<1> HIDE DEF f
<1> QED
  BY <1>1 DEF Within

LEMMA NoNewTransitive ==
    ASSUME NEW u, NEW v, NEW w, NEW T, NoNew(u, v, T), NoNew(v, w, T) PROVE NoNew(u, w, T)
  BY DEF NoNew

LEMMA NoNewSelf == \A w, T : NoNew(w, w, T)
  BY DEF NoNew

-----------------------------------------------------------------------------
(* What the holder does to the exchange.                                   *)

\* No upload is idle and has no bytes.
LEMMA NoActiveFields == NoActive.stage = "idle" /\ NoActive.bytes = None
  BY DEF NoActive

\* An upload that is dropped without a word.
LEMMA FlowDrop ==
    ASSUME NEW p, NEW out, NEW in, NEW x, NEW held, Flow(p, out, in, x, held), NEW y, y.stage = "idle"
    PROVE  Flow(p, out, in, y, held)
<1>1. Nothing(p, out, in, y) /\ OneWant(p, out, in, y)
  BY DEF Flow, Nothing, OneWant
<1>2. OneUpload(p, in, y, held)
  BY DEF OneUpload
<1> QED
  BY <1>1, <1>2 DEF Flow

\* A want is read: there was one, nothing came before it and none is left.
LEMMA FlowTake ==
    ASSUME NEW p, NEW out \in Seq(Frame), NEW in, NEW x, NEW held, Flow(p, out, in, x, held),
           out # <<>>, Head(out).t = "want", NEW y, y.stage = "awaiting", SameAs(y.upload, Head(out))
    PROVE  Flow(p, Tail(out), in, y, held) /\ x.stage = "idle"
<1>1. 1 \in DOMAIN out /\ out[1] = Head(out)
  OBVIOUS
<1>2. /\ SameAs(out[1], p) /\ x.stage = "idle" /\ Silent(in) /\ p.parts = None
      /\ \A j \in DOMAIN out : out[j].t = "want" => j = 1
  BY <1>1 DEF Flow, OneWant
<1>3. p.id # 0
  BY <1>1 DEF Flow, Nothing, NoWant
<1>4. \A i \in DOMAIN Tail(out) : Tail(out)[i].t # "want"
  <2> SUFFICES ASSUME NEW i \in DOMAIN Tail(out) PROVE Tail(out)[i].t # "want"
    OBVIOUS
  <2>1. i + 1 \in DOMAIN out /\ Tail(out)[i] = out[i + 1] /\ i + 1 # 1
    OBVIOUS
  <2> QED
    BY <1>2, <2>1
<1>5. SameAs(y.upload, p)
  BY <1>1, <1>2 DEF SameAs
<1>6. OneUpload(p, in, y, held)
  BY <1>2, <1>5 DEF OneUpload
<1>7. Nothing(p, Tail(out), in, y) /\ OneWant(p, Tail(out), in, y)
  BY <1>3, <1>4 DEF Nothing, OneWant
<1> QED
  BY <1>2, <1>6, <1>7 DEF Flow

\* Frames of an append, by their places.
LEMMA Appended ==
    ASSUME NEW in \in Seq(Frame), NEW frame \in Frame
    PROVE  LET w == Append(in, frame) IN
           /\ w \in Seq(Frame) /\ DOMAIN in = 1 .. Len(in) /\ Len(in) \in Nat
           /\ DOMAIN w = 1 .. Len(in) + 1
           /\ \A i \in 1 .. Len(in) : w[i] = in[i]
           /\ w[Len(in) + 1] = frame
  OBVIOUS

\* An upload is declined.
LEMMA FlowNone ==
    ASSUME NEW p, NEW out \in Seq(Frame), NEW in \in Seq(Frame), NEW x, NEW held,
           Flow(p, out, in, x, held), x.stage = "awaiting",
           NEW frame \in Frame, frame.t = "none", frame.id = x.upload.id, NEW y, y.stage = "idle"
    PROVE  Flow(p, out, Append(in, frame), y, held)
<1> DEFINE w == Append(in, frame)
           k == Len(in)
<1>1. /\ DOMAIN in = 1 .. k /\ k \in Nat /\ DOMAIN w = 1 .. k + 1
      /\ \A i \in 1 .. k : w[i] = in[i]
      /\ w[k + 1] = frame
  BY Appended
<1> HIDE DEF w, k
<1>2. SameAs(x.upload, p) /\ Silent(in) /\ p.parts = None /\ p.id # 0 /\ NoWant(out)
  BY DEF Flow, OneUpload, Nothing, OneWant, NoWant
<1>3. frame.id = p.id
  BY <1>2 DEF SameAs
<1>4. Nothing(p, out, w, y) /\ OneWant(p, out, w, y)
  BY <1>2 DEF Nothing, OneWant, NoWant
<1>5. OneUpload(p, w, y, held)
  BY DEF OneUpload
<1>6. OneResponse(p, w, held)
  BY <1>1, <1>2, <1>3 DEF OneResponse, Silent, Responses
<1> QED
  BY <1>4, <1>5, <1>6 DEF Flow, w

\* A response begins.
LEMMA FlowMeta ==
    ASSUME NEW p, NEW out \in Seq(Frame), NEW in \in Seq(Frame), NEW x, NEW held,
           Flow(p, out, in, x, held), x.stage = "awaiting",
           NEW frame \in Frame, frame.t = "meta", frame.id = x.upload.id,
           frame.size = Count(p, held),
           NEW y, y.stage = "draining", y.upload = x.upload, Len(y.bytes) = Count(p, held),
           \A i \in 1 .. Len(y.bytes) : y.bytes[i] = [key |-> p.key, at |-> p.range.start + i]
    PROVE  Flow(p, out, Append(in, frame), y, held)
<1> DEFINE w == Append(in, frame)
           k == Len(in)
<1>1. /\ DOMAIN in = 1 .. k /\ k \in Nat /\ DOMAIN w = 1 .. k + 1
      /\ \A i \in 1 .. k : w[i] = in[i]
      /\ w[k + 1] = frame
  BY Appended
<1> HIDE DEF w, k
<1>2. SameAs(x.upload, p) /\ Silent(in) /\ p.parts = None /\ p.id # 0 /\ NoWant(out)
  BY DEF Flow, OneUpload, Nothing, OneWant, NoWant
<1>3. frame.id = p.id
  BY <1>2 DEF SameAs
<1>4. Nothing(p, out, w, y) /\ OneWant(p, out, w, y)
  BY <1>2 DEF Nothing, OneWant, NoWant
<1>5. OneUpload(p, w, y, held)
  BY <1>1, <1>2 DEF OneUpload, Silent, Responses, None
<1>6. OneResponse(p, w, held)
  BY <1>1, <1>2, <1>3 DEF OneResponse, Silent, Responses
<1> QED
  BY <1>4, <1>5, <1>6 DEF Flow, w

\* A response ends.
LEMMA FlowEof ==
    ASSUME NEW p, NEW out \in Seq(Frame), NEW in \in Seq(Frame), NEW x, NEW held,
           Flow(p, out, in, x, held), x.stage = "draining",
           NEW frame \in Frame, frame.t = "eof", frame.id = x.upload.id, NEW y, y.stage = "idle"
    PROVE  Flow(p, out, Append(in, frame), y, held)
<1> DEFINE w == Append(in, frame)
           k == Len(in)
<1>1. /\ DOMAIN in = 1 .. k /\ k \in Nat /\ DOMAIN w = 1 .. k + 1
      /\ \A i \in 1 .. k : w[i] = in[i]
      /\ w[k + 1] = frame
  BY Appended
<1> HIDE DEF w, k
<1>2. SameAs(x.upload, p) /\ p.id # 0 /\ NoWant(out) /\ \A i \in DOMAIN in : in[i].t \notin {"eof", "none"}
  BY DEF Flow, OneUpload, Nothing, OneWant, NoWant
<1>3. frame.id = p.id
  BY <1>2 DEF SameAs
<1>4. Nothing(p, out, w, y) /\ OneWant(p, out, w, y)
  BY <1>2 DEF Nothing, OneWant, NoWant
<1>5. OneUpload(p, w, y, held)
  BY DEF OneUpload
<1>6. OneResponse(p, w, held)
  <2>1. OneResponse(p, in, held)
    BY DEF Flow
  <2> QED
    BY <1>1, <1>2, <1>3, <2>1 DEF OneResponse, Responses
<1> QED
  BY <1>4, <1>5, <1>6 DEF Flow, w

\* Where the elements of two joined sequences are.
LEMMA Joined ==
    ASSUME NEW v \in Seq(Frame), NEW w \in Seq(Frame)
    PROVE  LET u == v \o w IN
           /\ u \in Seq(Frame) /\ DOMAIN u = 1 .. Len(v) + Len(w)
           /\ \A i \in 1 .. Len(v) : u[i] = v[i]
           /\ \A i \in 1 .. Len(w) : u[Len(v) + i] = w[i]
<1> DEFINE u == v \o w  k == Len(v)  n == Len(w)
<1>1. u \in Seq(Frame) /\ Len(u) = k + n
  OBVIOUS
<1>2. \A i \in 1 .. k + n : u[i] = IF i <= k THEN v[i] ELSE w[i - k]
  OBVIOUS
<1>3. k \in Nat /\ n \in Nat
  OBVIOUS
<1> HIDE DEF u, k, n
<1>4. DOMAIN u = 1 .. k + n
  BY <1>1
<1>5. ASSUME NEW i \in 1 .. k PROVE u[i] = v[i]
  BY <1>2, <1>3
<1>6. ASSUME NEW i \in 1 .. n PROVE u[k + i] = w[i]
  <2>1. k + i \in 1 .. k + n /\ ~(k + i <= k) /\ (k + i) - k = i
    BY <1>3
  <2> QED
    BY <1>2, <2>1
<1> QED
  BY <1>1, <1>4, <1>5, <1>6 DEF u, k, n

\* Chunks go out, in order.
LEMMA FlowChunks ==
    ASSUME NEW p \in Pending, NEW out \in Seq(Frame), NEW in \in Seq(Frame), NEW x \in Active, NEW held,
           held \in [Key -> Nat], Flow(p, out, in, x, held), x.stage = "draining",
           NEW n \in Nat, n # 0, x.sent + n <= Len(x.bytes),
           NEW chunks, chunks \in Seq(Frame), Len(chunks) = n,
           \A i \in 1 .. n : chunks[i] = ChunkFrame(x.bytes[x.sent + i]),
           NEW y, y.stage = "draining", y.upload = x.upload, y.bytes = x.bytes, y.sent = x.sent + n
    PROVE  Flow(p, out, in \o chunks, y, held)
<1> DEFINE w == in \o chunks
           k == Len(in)
           s == p.range.start
<1>1. /\ DOMAIN in = 1 .. k /\ k \in Nat /\ DOMAIN w = 1 .. k + n
      /\ \A i \in 1 .. k : w[i] = in[i]
      /\ \A i \in 1 .. n : w[k + i] = chunks[i]
  <2>1. DOMAIN in = 1 .. k /\ k \in Nat
    OBVIOUS
  <2> QED
    BY <2>1, Joined
<1>0. s \in Nat /\ x.sent \in Nat /\ Len(x.bytes) \in Nat
  BY DEF Pending, PieceRange, Active, Payload
<1> HIDE DEF w, k
<1>2. /\ SameAs(x.upload, p) /\ p.id # 0 /\ NoWant(out) /\ Len(x.bytes) = Count(p, held)
      /\ \A i \in DOMAIN in : in[i].t \notin {"eof", "none"}
      /\ \A i \in DOMAIN in : in[i].t = "chunk" => in[i].chunk.at <= s + x.sent
      /\ \A i \in DOMAIN p.parts : p.parts[i].at <= s + x.sent
      /\ \A i \in 1 .. Len(x.bytes) : x.bytes[i] = [key |-> p.key, at |-> s + i]
  BY DEF Flow, OneUpload, Nothing, OneWant, NoWant
<1>a. /\ \A i \in DOMAIN in : in[i].t = "chunk" => in[i].chunk.at \in Int
      /\ \A i \in DOMAIN p.parts : p.parts[i].at \in Int
  <2>1. \A i \in DOMAIN in : in[i] \in Frame
    OBVIOUS
  <2>2. \A i \in DOMAIN p.parts : p.parts[i] \in Chunk
    BY DEF Pending, Payload
  <2> QED
    BY <2>1, <2>2, FrameFields DEF Chunk
<1>3. \A i \in 1 .. n : w[k + i].t = "chunk" /\ w[k + i].chunk.key = p.key
                        /\ w[k + i].chunk.at = s + x.sent + i
  <2> SUFFICES ASSUME NEW i \in 1 .. n
               PROVE  w[k + i].t = "chunk" /\ w[k + i].chunk.key = p.key
                      /\ w[k + i].chunk.at = s + x.sent + i
    OBVIOUS
  <2>1. x.sent + i \in 1 .. Len(x.bytes)
    BY <1>0
  <2>2. x.bytes[x.sent + i] = [key |-> p.key, at |-> s + (x.sent + i)]
    BY <1>2, <2>1
  <2>3. w[k + i] = [t |-> "chunk", chunk |-> [key |-> p.key, at |-> s + (x.sent + i)]]
    BY <1>1, <2>2 DEF ChunkFrame
  <2> QED
    BY <1>0, <2>3
<1>4. ASSUME NEW i \in DOMAIN w PROVE i \in 1 .. k \/ \E d \in 1 .. n : i = k + d
  <2>1. i \in 1 .. k + n
    BY <1>1
  <2>2. i \in 1 .. k \/ (i - k \in 1 .. n /\ i = k + (i - k))
    BY <1>1, <2>1
  <2> QED
    BY <2>2
<1>5. \A i \in 1 .. k : i \in DOMAIN in /\ i \in Int /\ w[i] = in[i]
  BY <1>1
<1>6. Nothing(p, out, w, y) /\ OneWant(p, out, w, y)
  BY <1>2 DEF Nothing, OneWant, NoWant
<1>7. OneUpload(p, w, y, held)
  <2>1. ASSUME NEW i \in DOMAIN w
        PROVE  w[i].t \notin {"eof", "none"} /\ (w[i].t = "chunk" => w[i].chunk.at <= s + y.sent)
    <3>1. CASE i \in 1 .. k
      BY SMTT(30), <1>0, <1>2, <1>5, <1>a, <3>1
    <3>2. ASSUME NEW d \in 1 .. n, i = k + d
          PROVE  w[i].t \notin {"eof", "none"} /\ (w[i].t = "chunk" => w[i].chunk.at <= s + y.sent)
      <4>1. w[i].t = "chunk" /\ w[i].chunk.at = s + x.sent + d /\ d <= n
        BY <1>3, <3>2
      <4> QED
        BY <1>0, <4>1
    <3> QED
      BY <1>4, <3>1, <3>2
  <2>2. \A i \in DOMAIN p.parts : p.parts[i].at <= s + y.sent
    BY <1>0, <1>2, <1>a
  <2> QED
    BY <1>2, <2>1, <2>2 DEF OneUpload
<1>8. OneResponse(p, w, held)
  <2>0. OneResponse(p, in, held)
    BY DEF Flow
  <2>1. ASSUME NEW i \in DOMAIN w
        PROVE  /\ w[i].t \in {"meta", "eof", "none"} => w[i].id = p.id
               /\ w[i].t = "meta" => w[i].size = Count(p, held)
               /\ w[i].t = "chunk" => /\ PartOf(p, held, w[i].chunk)
                                      /\ \A j \in DOMAIN p.parts : p.parts[j].at < w[i].chunk.at
    <3>1. CASE i \in 1 .. k
      BY <1>5, <2>0, <3>1 DEF OneResponse
    <3>2. ASSUME NEW d \in 1 .. n, i = k + d
          PROVE  /\ w[i].t = "chunk" /\ PartOf(p, held, w[i].chunk)
                 /\ \A j \in DOMAIN p.parts : p.parts[j].at < w[i].chunk.at
      <4>1. /\ w[i].t = "chunk" /\ w[i].chunk.key = p.key /\ w[i].chunk.at = s + x.sent + d
            /\ d <= n /\ d >= 1 /\ d \in Int
        BY <1>3, <3>2
      <4>2. s < w[i].chunk.at /\ w[i].chunk.at <= s + Len(x.bytes)
        BY SMTT(30), <1>0, <4>1
      <4>3. \A j \in DOMAIN p.parts : p.parts[j].at < w[i].chunk.at
        BY <1>0, <1>2, <1>a, <4>1
      <4> QED
        BY <1>2, <4>1, <4>2, <4>3 DEF PartOf
    <3> QED
      BY <1>4, <3>1, <3>2
  <2>2. ASSUME NEW i \in DOMAIN w, NEW j \in DOMAIN w, i < j
        PROVE  /\ w[i].t \in {"eof", "none"} => w[j].t \notin Responses
               /\ w[i].t = "chunk" /\ w[j].t = "chunk" => w[i].chunk.at < w[j].chunk.at
    <3>1. CASE i \in 1 .. k /\ j \in 1 .. k
      BY <1>5, <2>0, <2>2, <3>1 DEF OneResponse
    <3>2. ASSUME NEW d \in 1 .. n, j = k + d, i \in 1 .. k
          PROVE  w[i].t \notin {"eof", "none"} /\ (w[i].t = "chunk" => w[i].chunk.at < w[j].chunk.at)
      <4>1. w[j].chunk.at = s + x.sent + d /\ d >= 1
        BY <1>3, <3>2
      <4> QED
        BY SMTT(30), <1>0, <1>2, <1>5, <1>a, <3>2, <4>1
    <3>3. ASSUME NEW d \in 1 .. n, j = k + d, NEW e \in 1 .. n, i = k + e
          PROVE  w[i].t \notin {"eof", "none"} /\ w[i].chunk.at < w[j].chunk.at
      <4>1. /\ w[i].t = "chunk" /\ w[i].chunk.at = s + x.sent + e
            /\ w[j].chunk.at = s + x.sent + d
        BY <1>3, <3>3
      <4>2. e < d
        BY <1>1, <2>2, <3>3
      <4> QED
        BY <1>0, <4>1, <4>2
    <3>4. i \in 1 .. k \/ j \notin 1 .. k
      BY <1>1, <2>2
    <3> QED
      BY <1>4, <3>1, <3>2, <3>3, <3>4
  <2> QED
    BY <2>1, <2>2 DEF OneResponse
<1> QED
  BY <1>6, <1>7, <1>8 DEF Flow, w

\* Chunks that a channel which is down refuses leave a gap.
LEMMA FlowRefused ==
    ASSUME NEW p \in Pending, NEW out, NEW in \in Seq(Frame), NEW x \in Active, NEW held,
           Flow(p, out, in, x, held), x.stage = "draining", NEW n \in Nat,
           NEW y, y.stage = "draining", y.upload = x.upload, y.bytes = x.bytes, y.sent = x.sent + n
    PROVE  Flow(p, out, in, y, held)
<1>0. p.range.start \in Nat /\ x.sent \in Nat
  BY DEF Pending, PieceRange, Active, Payload
<1>a. /\ \A i \in DOMAIN in : in[i].t = "chunk" => in[i].chunk.at \in Int
      /\ \A i \in DOMAIN p.parts : p.parts[i].at \in Int
  <2>1. \A i \in DOMAIN in : in[i] \in Frame
    OBVIOUS
  <2>2. \A i \in DOMAIN p.parts : p.parts[i] \in Chunk
    BY DEF Pending, Payload
  <2> QED
    BY <2>1, <2>2, FrameFields DEF Chunk
<1>1. Nothing(p, out, in, y) /\ OneWant(p, out, in, y)
  BY DEF Flow, Nothing, OneWant
<1>2. OneUpload(p, in, y, held)
  <2>1. OneUpload(p, in, x, held)
    BY DEF Flow
  <2>2. \A i \in DOMAIN in : in[i].t = "chunk" => in[i].chunk.at <= p.range.start + y.sent
    BY <1>0, <1>a, <2>1 DEF OneUpload
  <2>3. \A i \in DOMAIN p.parts : p.parts[i].at <= p.range.start + y.sent
    BY <1>0, <1>a, <2>1 DEF OneUpload
  <2> QED
    BY <2>1, <2>2, <2>3 DEF OneUpload
<1> QED
  BY <1>1, <1>2 DEF Flow

-----------------------------------------------------------------------------
(* What the asking end does to the exchange.                               *)

\* A request given up: what was received is dropped.
LEMMA FlowQuit ==
    ASSUME NEW p, NEW out, NEW in, NEW x, NEW held, Flow(p, out, in, x, held),
           NEW q, q.id = p.id, q.key = p.key, q.range = p.range, q.size = p.size,
           q.expected = p.expected, q.parts = None, q.draining
    PROVE  Flow(q, out, in, x, held)
<1>1. DOMAIN None = {} /\ Count(q, held) = Count(p, held)
  BY DEF None, Count
<1>2. Nothing(q, out, in, x) /\ OneWant(q, out, in, x)
  BY DEF Flow, Nothing, OneWant, SameAs
<1>3. OneUpload(q, in, x, held)
  BY <1>1 DEF Flow, OneUpload, SameAs
<1>4. OneResponse(q, in, held)
  BY <1>1 DEF Flow, OneResponse, PartOf
<1>5. Received(q, held)
  BY <1>1 DEF Flow, Received
<1> QED
  BY <1>2, <1>3, <1>4, <1>5 DEF Flow

\* A request is made: nothing of an earlier one is left.
LEMMA FlowStart ==
    ASSUME NEW p, NEW out \in Seq(Frame), NEW in \in Seq(Frame), NEW x, NEW held,
           Flow(p, out, in, x, held), p.id = 0,
           NEW q, q.id # 0, q.size = 0, q.parts = None, q.received = 0, ~q.draining,
           NEW frame \in Frame, frame.t = "want", SameAs(frame, q)
    PROVE  Flow(q, Append(out, frame), in, x, held)
<1> DEFINE w == Append(out, frame)
           k == Len(out)
<1>1. /\ DOMAIN out = 1 .. k /\ k \in Nat /\ DOMAIN w = 1 .. k + 1
      /\ \A i \in 1 .. k : w[i] = out[i]
      /\ w[k + 1] = frame
  BY Appended
<1> HIDE DEF w, k
<1>2. x.stage = "idle" /\ Silent(in) /\ NoWant(out)
  BY DEF Flow, Nothing
<1>3. \A i \in DOMAIN w : w[i].t = "want" => i = k + 1
  BY <1>1, <1>2 DEF NoWant
<1>4. DOMAIN None = {} /\ Len(None) = 0
  BY DEF None
<1>5. Nothing(q, w, in, x) /\ OneWant(q, w, in, x)
  BY <1>1, <1>2, <1>3 DEF Nothing, OneWant
<1>6. OneUpload(q, in, x, held) /\ OneResponse(q, in, held)
  BY <1>2 DEF OneUpload, OneResponse, Silent, Responses
<1>7. Received(q, held)
  BY <1>4 DEF Received
<1> QED
  BY <1>5, <1>6, <1>7 DEF Flow, w

\* The first frame, and the rest behind it.
LEMMA HeadTail ==
    ASSUME NEW in \in Seq(Frame), in # <<>>
    PROVE  /\ 1 \in DOMAIN in /\ in[1] = Head(in) /\ Head(in) \in Frame /\ Tail(in) \in Seq(Frame)
           /\ \A i \in DOMAIN Tail(in) : i + 1 \in DOMAIN in /\ Tail(in)[i] = in[i + 1] /\ 1 < i + 1
  OBVIOUS

\* The end of a response is read: it is the end of the one waited for, and
\* nothing of it is left.
LEMMA FlowEnd ==
    ASSUME NEW p, NEW out \in Seq(Frame), NEW in \in Seq(Frame), NEW x \in Active, NEW held,
           Flow(p, out, in, x, held), in # <<>>, Head(in).t \in {"eof", "none"}
    PROVE  p.id # 0 /\ Head(in).id = p.id /\ Flow(NoPending, out, Tail(in), x, held)
<1>1. /\ 1 \in DOMAIN in /\ in[1] = Head(in)
      /\ \A i \in DOMAIN Tail(in) : i + 1 \in DOMAIN in /\ Tail(in)[i] = in[i + 1] /\ 1 < i + 1
  BY HeadTail
<1>2. ~Silent(in)
  BY <1>1 DEF Silent, Responses
<1>3. p.id # 0 /\ NoWant(out) /\ x.stage = "idle"
  <2>1. x.stage \in {"idle", "awaiting", "draining"}
    BY DEF Active
  <2>2. x.stage # "awaiting" /\ x.stage # "draining"
    BY <1>1, <1>2 DEF Flow, OneUpload
  <2>3. p.id # 0 /\ NoWant(out)
    BY <1>2 DEF Flow, Nothing, OneWant, NoWant
  <2> QED
    BY <2>1, <2>2, <2>3
<1>4. Head(in).id = p.id
  BY <1>1 DEF Flow, OneResponse
<1>5. Silent(Tail(in))
  BY <1>1 DEF Flow, OneResponse, Silent
<1>6. NoPending.parts = None /\ NoPending.size = 0 /\ NoPending.draining = FALSE /\ NoPending.received = 0
      /\ NoPending.id = 0
  BY DEF NoPending
<1>7. DOMAIN None = {} /\ Len(None) = 0
  BY DEF None
<1>8. Nothing(NoPending, out, Tail(in), x) /\ OneWant(NoPending, out, Tail(in), x)
  BY <1>3, <1>5 DEF Nothing, OneWant, NoWant
<1>9. OneUpload(NoPending, Tail(in), x, held) /\ OneResponse(NoPending, Tail(in), held)
  BY <1>3, <1>5 DEF OneUpload, OneResponse, Silent, Responses
<1>10. Received(NoPending, held)
  BY <1>6, <1>7 DEF Received
<1> QED
  BY <1>3, <1>4, <1>8, <1>9, <1>10 DEF Flow

\* The size of the response is read.
LEMMA FlowSized ==
    ASSUME NEW p, NEW out \in Seq(Frame), NEW in \in Seq(Frame), NEW x, NEW held,
           Flow(p, out, in, x, held), in # <<>>, Head(in).t = "meta",
           NEW q, q.id = p.id, q.key = p.key, q.range = p.range, q.size = Head(in).size,
           q.expected = p.expected, q.parts = p.parts, q.received = p.received, q.draining = p.draining,
           q.expected # 0 => q.size = q.expected
    PROVE  Flow(q, out, Tail(in), x, held)
<1>1. 1 \in DOMAIN in /\ in[1] = Head(in) /\ Tail(in) \in Seq(Frame)
  BY HeadTail
<1>2. q.size = Count(p, held) /\ Count(q, held) = Count(p, held)
  BY <1>1 DEF Flow, OneResponse, Count
<1>3. Flow(p, out, Tail(in), x, held)
  BY WithinSelf, WithinTail, FlowWithin
<1>4. Nothing(q, out, Tail(in), x) /\ OneWant(q, out, Tail(in), x)
  BY <1>3 DEF Flow, Nothing, OneWant, SameAs
<1>5. OneUpload(q, Tail(in), x, held)
  BY <1>2, <1>3 DEF Flow, OneUpload, SameAs
<1>6. OneResponse(q, Tail(in), held)
  BY <1>2, <1>3 DEF Flow, OneResponse, PartOf
<1>7. Received(q, held)
  BY <1>2, <1>3 DEF Flow, Received, PartOf
<1> QED
  BY <1>4, <1>5, <1>6, <1>7 DEF Flow

\* A chunk is read and counted, or kept too.
LEMMA FlowCounted ==
    ASSUME NEW p, NEW out \in Seq(Frame), NEW in \in Seq(Frame), NEW x, NEW held,
           Flow(p, out, in, x, held), in # <<>>,
           NEW q, q.id = p.id, q.key = p.key, q.range = p.range, q.size = p.size,
           q.expected = p.expected, q.parts = p.parts, q.draining = p.draining, p.draining
    PROVE  Flow(q, out, Tail(in), x, held)
<1>1. Flow(p, out, Tail(in), x, held)
  BY WithinSelf, WithinTail, FlowWithin
<1>2. p.parts = None
  BY DEF Flow, Received
<1> QED
  BY <1>1, <1>2, FlowQuit

\* Places that increase are at least one apart.
LEMMA SpreadOne ==
    ASSUME NEW a \in Int, NEW b \in Int, NEW k \in Int, a < b PROVE b - a >= (k + 1) - k
  OBVIOUS

\* And as far apart as they are steps apart.
LEMMA SpreadMore ==
    ASSUME NEW a \in Int, NEW b \in Int, NEW c \in Int, NEW i \in Int, NEW k \in Int,
           b - a >= k - i, b < c
    PROVE  c - a >= (k + 1) - i
  OBVIOUS

\* A place squeezed from both sides is known.
LEMMA Squeezed ==
    ASSUME NEW a \in Int, NEW b \in Int, NEW c \in Int, NEW i \in Int, NEW n \in Int, NEW s \in Int,
           s < a, c <= s + n, b - a >= i - 1, c - b >= n - i
    PROVE  b = s + i
  OBVIOUS

\* A chunk that is kept, and leaves the channel.
LEMMA FlowKept ==
    ASSUME NEW p \in Pending, NEW out \in Seq(Frame), NEW in \in Seq(Frame), NEW x \in Active,
           NEW held \in [Key -> Nat],
           Flow(p, out, in, x, held), in # <<>>, Head(in).t = "chunk", ~p.draining,
           NEW q, q.id = p.id, q.key = p.key, q.range = p.range, q.size = p.size,
           q.expected = p.expected, q.parts = Append(p.parts, Head(in).chunk),
           q.received = p.received + 1, q.draining = p.draining
    PROVE  Flow(q, out, Tail(in), x, held)
<1> DEFINE c == Head(in).chunk
           P == p.parts
           Q == Append(P, c)
           k == Len(P)
           s == p.range.start
<1>1. 1 \in DOMAIN in /\ in[1] = Head(in) /\ Tail(in) \in Seq(Frame) /\ Head(in) \in Frame
      /\ \A i \in DOMAIN Tail(in) : i + 1 \in DOMAIN in /\ Tail(in)[i] = in[i + 1] /\ 1 < i + 1
  BY HeadTail
<1>2. c \in Chunk /\ c.at \in Nat /\ P \in Seq(Chunk) /\ k \in Nat /\ s \in Nat /\ x.sent \in Nat
  <2>1. c \in Chunk
    BY <1>1, FrameFields
  <2>2. P \in Seq(Chunk) /\ s \in Nat
    BY DEF Pending, Payload, PieceRange
  <2> HIDE DEF c, P
  <2>3. k \in Nat /\ c.at \in Nat
    BY <2>1, <2>2 DEF Chunk
  <2>4. x.sent \in Nat
    BY DEF Active
  <2> QED
    BY <2>1, <2>2, <2>3, <2>4
<1>3. /\ DOMAIN P = 1 .. k /\ DOMAIN Q = 1 .. k + 1 /\ Len(Q) = k + 1
      /\ \A i \in 1 .. k : Q[i] = P[i] /\ P[i].at \in Nat
      /\ Q[k + 1] = c
  <2> HIDE DEF c, P
  <2>1. /\ DOMAIN P = 1 .. k /\ DOMAIN Q = 1 .. k + 1 /\ Len(Q) = k + 1
        /\ \A i \in 1 .. k : Q[i] = P[i] /\ P[i] \in Chunk
        /\ Q[k + 1] = c
    BY <1>2
  <2> QED
    BY <2>1 DEF Chunk
<1>4. Flow(p, out, Tail(in), x, held)
  BY WithinSelf, WithinTail, FlowWithin
<1>5. PartOf(p, held, c) /\ \A j \in DOMAIN P : P[j].at < c.at
  BY <1>1 DEF Flow, OneResponse
<1>6. ~Silent(in)
  BY <1>1 DEF Silent, Responses
<1>7. \A i \in DOMAIN Tail(in) : Tail(in)[i].t = "chunk" => c.at < Tail(in)[i].chunk.at
  BY <1>1 DEF Flow, OneResponse
<1>8. x.stage = "draining" => c.at <= s + x.sent
  BY <1>1 DEF Flow, OneUpload
<1>a. q.parts = Q /\ Count(q, held) = Count(p, held) /\ q.received = p.received + 1
  BY DEF Count
<1> HIDE DEF c, P, Q, k, s
<1>9. Nothing(q, out, Tail(in), x)
  BY <1>4 DEF Flow, Nothing
<1>10. OneWant(q, out, Tail(in), x)
  BY <1>6 DEF Flow, OneWant
<1>11. OneUpload(q, Tail(in), x, held)
  <2>1. \A i \in DOMAIN Q : x.stage = "draining" => Q[i].at <= s + x.sent
    <3>1. \A i \in 1 .. k : x.stage = "draining" => P[i].at <= s + x.sent
      BY <1>3, <1>4 DEF Flow, OneUpload, P, s
    <3> QED
      BY <1>2, <1>3, <1>8, <3>1
  <2>2. x.stage # "awaiting"
    BY <1>6 DEF Flow, OneUpload
  <2> QED
    BY <1>4, <1>a, <2>1, <2>2 DEF Flow, OneUpload, SameAs, s
<1>12. OneResponse(q, Tail(in), held)
  <2>1. \A i \in DOMAIN Tail(in) : Tail(in)[i].t = "chunk" =>
          PartOf(q, held, Tail(in)[i].chunk) /\ \A j \in DOMAIN Q : Q[j].at < Tail(in)[i].chunk.at
    <3> SUFFICES ASSUME NEW i \in DOMAIN Tail(in), Tail(in)[i].t = "chunk"
                 PROVE  PartOf(q, held, Tail(in)[i].chunk) /\ \A j \in DOMAIN Q : Q[j].at < Tail(in)[i].chunk.at
      OBVIOUS
    <3>1. PartOf(p, held, Tail(in)[i].chunk) /\ \A j \in 1 .. k : P[j].at < Tail(in)[i].chunk.at
      BY <1>3, <1>4 DEF Flow, OneResponse, P
    <3>2. ASSUME NEW j \in 1 .. k + 1 PROVE Q[j].at < Tail(in)[i].chunk.at
      <4>1. j \in 1 .. k \/ j = k + 1
        BY SMTT(30), <1>2
      <4> QED
        BY <1>3, <1>7, <3>1, <4>1
    <3> QED
      BY <1>3, <1>a, <3>1, <3>2 DEF PartOf
  <2> QED
    BY <1>4, <1>a, <2>1 DEF Flow, OneResponse
<1>13. Received(q, held)
  <2>0. Received(p, held)
    BY DEF Flow
  <2>1. q.received = Len(Q)
    BY <1>3, <1>a, <2>0 DEF Received, P, k
  <2>2. \A i \in DOMAIN Q : PartOf(q, held, Q[i])
    <3>1. \A i \in 1 .. k : PartOf(p, held, P[i])
      BY <1>3, <2>0 DEF Received, P
    <3>2. \A i \in 1 .. k + 1 : PartOf(p, held, Q[i])
      BY <1>2, <1>3, <1>5, <3>1
    <3> QED
      BY <1>3, <1>a, <3>2 DEF PartOf
  <2>3. ASSUME NEW i \in DOMAIN Q, NEW j \in DOMAIN Q, i < j PROVE Q[j].at - Q[i].at >= j - i
    <3>0. \A g, h \in 1 .. k : g < h => P[h].at - P[g].at >= h - g
      BY <1>3, <2>0 DEF Received, P
    <3>1. CASE j \in 1 .. k
      <4>1. i \in 1 .. k
        BY <1>2, <1>3, <2>3, <3>1
      <4> QED
        BY <1>3, <2>3, <3>0, <3>1, <4>1
    <3>2. CASE j = k + 1 /\ i \in 1 .. k
      <4>1. Q[j] = c /\ Q[i] = P[i] /\ P[i].at \in Nat /\ P[i].at < c.at
        BY <1>3, <1>5, <3>2
      <4>2. CASE i = k
        BY <1>2, <3>2, <4>1, <4>2, SpreadOne
      <4>3. CASE i # k
        <5>1. i < k /\ k \in 1 .. k /\ i \in Int
          BY <1>2, <3>2, <4>3
        <5>2. P[k].at - P[i].at >= k - i /\ P[k].at \in Nat /\ P[k].at < c.at
          BY <1>3, <1>5, <3>0, <3>2, <5>1
        <5>3. P[i].at \in Int /\ P[k].at \in Int /\ c.at \in Int /\ i \in Int /\ k \in Int
          BY <1>2, <4>1, <5>1, <5>2
        <5>4. c.at - P[i].at >= (k + 1) - i
          BY <5>2, <5>3, SpreadMore
        <5> QED
          BY <3>2, <4>1, <5>4
      <4> QED
        BY <4>2, <4>3
    <3>3. j \in 1 .. k \/ (j = k + 1 /\ i \in 1 .. k)
      BY <1>2, <1>3, <2>3
    <3> QED
      BY <3>1, <3>2, <3>3
  <2> QED
    BY <1>a, <2>0, <2>1, <2>2, <2>3 DEF Received
<1> QED
  BY <1>9, <1>10, <1>11, <1>12, <1>13 DEF Flow

\* A response of which as many chunks came as it has is whole: places that
\* increase within bounds and leave no room for a gap are all the places.
LEMMA WholeParts ==
    ASSUME NEW p \in Pending, NEW held \in [Key -> Nat], Received(p, held), ~p.draining,
           p.size # 0, p.size = p.received
    PROVE  p.parts = [i \in 1 .. Count(p, held) |-> [key |-> p.key, at |-> p.range.start + i]]
<1> DEFINE P == p.parts
           n == Len(P)
           s == p.range.start
<1>1. P \in Seq(Chunk) /\ n \in Nat /\ s \in Nat /\ DOMAIN P = 1 .. n /\ n = Count(p, held) /\ n # 0
  BY DEF Pending, Payload, PieceRange, Received
<1>2. \A i \in 1 .. n : P[i] \in Chunk /\ P[i].key = p.key /\ s < P[i].at /\ P[i].at <= s + n
  BY <1>1 DEF Received, PartOf
<1>3. \A i, j \in 1 .. n : i < j => P[j].at - P[i].at >= j - i
  BY <1>1 DEF Received
<1> HIDE DEF P, n, s
<1>4. ASSUME NEW i \in 1 .. n PROVE P[i] = [key |-> p.key, at |-> s + i]
  <2>1. 1 \in 1 .. n /\ n \in 1 .. n /\ i \in Nat
    BY <1>1
  <2>2. P[i].at \in Nat /\ P[1].at \in Nat /\ P[n].at \in Nat /\ s < P[1].at /\ P[n].at <= s + n
    BY <1>2, <2>1 DEF Chunk
  <2>3. P[i].at - P[1].at >= i - 1
    <3>1. CASE i = 1
      BY <2>2, <3>1
    <3>2. CASE i # 1
      BY <1>3, <2>1, <3>2
    <3> QED
      BY <3>1, <3>2
  <2>4. P[n].at - P[i].at >= n - i
    <3>1. CASE i = n
      BY <1>1, <2>2, <3>1
    <3>2. CASE i # n
      BY <1>1, <1>3, <2>1, <3>2
    <3> QED
      BY <3>1, <3>2
  <2>5. P[i].at = s + i
    <3>1. P[i].at \in Int /\ P[1].at \in Int /\ P[n].at \in Int /\ i \in Int /\ n \in Int /\ s \in Int
      BY <1>1, <2>1, <2>2
    <3> QED
      BY <2>2, <2>3, <2>4, <3>1, Squeezed
  <2> QED
    BY <1>2, <2>5 DEF Chunk
<1>5. P = [i \in 1 .. n |-> P[i]]
  BY <1>1
<1> QED
  BY <1>1, <1>4, <1>5 DEF P, s

-----------------------------------------------------------------------------
(* The operators of the serving side.                                      *)

\* M answers p, and has no other upload.
Holds(p, out, M, held) == M.queue = <<>> /\ Flow(p, out, M.wire, M.active, held)

\* With nothing queued an upload that ends leaves the holder idle.
LEMMA FinishUploadEmpty ==
    ASSUME NEW M \in LinkState, M.queue = <<>>
    PROVE  LET N == FinishUpload(M) IN
           N.queue = <<>> /\ N.wire = M.wire /\ N.active = M.active
<1> DEFINE f == Less(M.inFlight, 1)
           K == [M EXCEPT !.inFlight = f]
<1>1. /\ K.queue = <<>> /\ K.wire = M.wire /\ K.active = M.active /\ IsLink(K)
      /\ K.wire \in Seq(Frame)
  BY LinkStateIsLink DEF LinkState, IsLink, LinkFields
<1>2. FinishUpload(M) = StartNext(K)
  BY DEF FinishUpload
<1> HIDE DEF K
<1>3. CASE K.active.stage # "idle"
  BY <1>1, <1>2, <1>3 DEF StartNext
<1>4. CASE K.active.stage = "idle"
  <2> DEFINE n == Skipped(K)
             nones == [i \in 1 .. n |-> NoneFrame(K.queue[i].id)]
             w == IF CanSend(K) THEN K.wire \o nones ELSE K.wire
             g == Less(K.inFlight, n)
             q == SubSeq(K.queue, n + 2, Len(K.queue))
             a == IF n < Len(K.queue) THEN Awaiting(K.queue[n + 1]) ELSE K.active
  <2>1. StartNext(K) = [K EXCEPT !.wire = w, !.inFlight = g, !.queue = q, !.active = a]
    BY <1>4 DEF StartNext
  <2>2. n = 0
    <3>1. {i \in DOMAIN K.queue : \A j \in 1 .. i : K.closed \/ K.queue[j].cancelled} = {}
      BY <1>1
    <3> QED
      BY <3>1, FS_EmptySet DEF Skipped
  <2>3. nones = <<>>
    BY <2>2
  <2> HIDE DEF n, nones
  <2>4. w = K.wire
    BY <1>1, <2>3
  <2>5. q = <<>> /\ a = K.active
    BY <1>1, <2>2
  <2> HIDE DEF w, g, q, a
  <2> QED
    BY <1>1, <1>2, <2>1, <2>4, <2>5 DEF IsLink, LinkFields
<1> QED
  BY <1>3, <1>4

\* The holder goes on to the next upload, of which it has none.
LEMMA FinishUploadHolds ==
    ASSUME NEW p, NEW out, NEW M \in LinkState, NEW held, Holds(p, out, M, held)
    PROVE  Holds(p, out, FinishUpload(M), held)
  BY FinishUploadEmpty DEF Holds

\* Close says nothing on the channel, and drops a paused response.
LEMMA CloseAside ==
    ASSUME NEW M \in LinkState, NEW reason \in Reason
    PROVE  LET N == Close(M, reason) IN
           /\ N.wire = M.wire
           /\ N.active \in {M.active, NoActive}
           /\ M.queue = <<>> => N.queue = <<>>
<1>1. CASE M.closed
  BY <1>1 DEF Close
<1>2. CASE ~M.closed
  <2> DEFINE C == [M EXCEPT !.closed = TRUE, !.reason = reason]
             F == Finish(C, None, "closed", TRUE)
             T == [F EXCEPT !.active = NoActive]
  <2>1. Close(M, reason) = IF F.active.stage = "draining" THEN FinishUpload(T) ELSE F
    BY <1>2 DEF Close
  <2>2. C \in LinkState /\ C.closed /\ C.queue = M.queue /\ C.active = M.active /\ C.wire = M.wire
    BY DEF LinkState
  <2> HIDE DEF C
  <2>3. F \in LinkState /\ F.closed /\ F.queue = M.queue /\ F.active = M.active /\ F.wire = M.wire
    <3>1. "closed" \in Outcome
      BY DEF Outcome
    <3>2. F \in LinkState /\ F.closed = C.closed /\ F.queue = C.queue /\ F.active = C.active
      BY <2>2, <3>1, NonePayload, FinishType
    <3>3. F.wire = C.wire
      BY <2>2 DEF Finish, LinkState
    <3> QED
      BY <2>2, <3>2, <3>3
  <2> HIDE DEF F
  <2>4. T \in LinkState /\ T.closed /\ T.queue = M.queue /\ T.active = NoActive /\ T.wire = M.wire
    BY <2>3, NoActiveType DEF LinkState
  <2> HIDE DEF T
  <2>5. FinishUpload(T).wire = T.wire /\ FinishUpload(T).active = T.active
    <3> DEFINE f == Less(T.inFlight, 1)
               K == [T EXCEPT !.inFlight = f]
    <3>1. K.closed /\ K.wire = T.wire /\ K.active = T.active /\ IsLink(K) /\ K.queue \in Seq(Upload)
      BY <2>4, LinkStateIsLink DEF LinkState, IsLink, LinkFields
    <3>2. FinishUpload(T) = StartNext(K)
      BY DEF FinishUpload
    <3> HIDE DEF K
    <3>3. StartNext(K).wire = K.wire
      BY <3>1 DEF StartNext, CanSend, IsLink, LinkFields
    <3>4. Skipped(K) = Len(K.queue)
      <4> DEFINE S == {i \in DOMAIN K.queue : \A j \in 1 .. i : K.closed \/ K.queue[j].cancelled}
      <4>1. S = 1 .. Len(K.queue) /\ Len(K.queue) \in Nat
        BY <3>1
      <4> HIDE DEF S
      <4>2. Cardinality(1 .. Len(K.queue)) = Len(K.queue)
        BY <4>1, FS_Interval
      <4>3. Cardinality(S) = Len(K.queue)
        BY <4>1, <4>2
      <4> QED
        BY <4>3 DEF Skipped, S
    <3>5. StartNext(K).active = K.active
      <4>1. ~(Skipped(K) < Len(K.queue))
        BY <3>1, <3>4
      <4> QED
        BY <3>1, <4>1 DEF StartNext, IsLink, LinkFields
    <3> QED
      BY <3>1, <3>2, <3>3, <3>5
  <2> QED
    BY <2>1, <2>3, <2>4, <2>5, FinishUploadEmpty
<1> QED
  BY <1>1, <1>2

\* The holder closes.
LEMMA CloseHolds ==
    ASSUME NEW p, NEW out, NEW M \in LinkState, NEW held, Holds(p, out, M, held), NEW reason \in Reason
    PROVE  Holds(p, out, Close(M, reason), held)
  BY CloseAside, FlowDrop, NoActiveFields DEF Holds

\* What the shell does afterwards.
LEMMA ShellHolds ==
    ASSUME NEW p, NEW out, NEW M \in LinkState, NEW held, Holds(p, out, M, held)
    PROVE  Holds(p, out, Shell(M), held)
  BY CloseHolds, ReasonsOutcomes DEF Shell

\* The chunks handed to the channel.
LEMMA PushedFlows ==
    ASSUME NEW p \in Pending, NEW out \in Seq(Frame), NEW M \in LinkState,
           NEW held \in [Key -> Nat], NEW x \in Active, x.stage = "draining",
           Flow(p, out, M.wire, x, held), NEW n \in Nat, x.sent + n <= Len(x.bytes)
    PROVE  LET y == [stage |-> "draining", upload |-> x.upload, bytes |-> x.bytes, sent |-> x.sent + n]
               N == SendBinary(M, x.bytes, x.sent + 1, x.sent + n)
           IN  Flow(p, out, N.wire, y, held) /\ N.queue = M.queue
<1> DEFINE y == [stage |-> "draining", upload |-> x.upload, bytes |-> x.bytes, sent |-> x.sent + n]
           N == SendBinary(M, x.bytes, x.sent + 1, x.sent + n)
           chunks == [i \in 1 .. n |-> ChunkFrame(x.bytes[x.sent + i])]
<1>0. M.wire \in Seq(Frame) /\ x.sent \in Nat /\ Len(x.bytes) \in Nat /\ x.bytes \in Seq(Chunk)
  BY DEF LinkState, Active, Payload
<1>1. y.stage = "draining" /\ y.upload = x.upload /\ y.bytes = x.bytes /\ y.sent = x.sent + n
  OBVIOUS
<1> HIDE DEF y
<1>2. Flow(p, out, M.wire, y, held)
  BY <1>0, <1>1, FlowRefused
<1>3. CASE n = 0
  BY <1>0, <1>2, <1>3 DEF SendBinary, y
<1>4. CASE n # 0
  <2> DEFINE first == x.sent + 1
             last == x.sent + n
             b == M.buffered + (last - first) + 1
             f == M.failed \/ ~M.open
             sends == [i \in 1 .. (last - first) + 1 |-> ChunkFrame(x.bytes[first + i - 1])]
             w == IF M.open THEN M.wire \o sends ELSE M.wire
  <2>1. ~(first > last) /\ (last - first) + 1 = n
    BY <1>0, <1>4
  <2>2. N = [M EXCEPT !.buffered = b, !.failed = f, !.wire = w]
    BY <2>1 DEF SendBinary
  <2>3. sends = chunks
    <3>1. ASSUME NEW i \in 1 .. n PROVE first + i - 1 = x.sent + i
      BY <1>0
    <3> HIDE DEF first
    <3> QED
      BY <2>1, <3>1
  <2>4. chunks \in Seq(Frame) /\ Len(chunks) = n /\ \A i \in 1 .. n : chunks[i] = ChunkFrame(x.bytes[x.sent + i])
    <3>1. ASSUME NEW i \in 1 .. n PROVE ChunkFrame(x.bytes[x.sent + i]) \in Frame
      <4>1. x.sent + i \in 1 .. Len(x.bytes)
        BY <1>0
      <4>2. x.bytes[x.sent + i] \in Chunk
        BY <1>0, <4>1
      <4> QED
        BY <4>2 DEF ChunkFrame, Frame
    <3> QED
      BY <3>1
  <2> HIDE DEF chunks, b, f, sends
  <2>5. Flow(p, out, M.wire \o chunks, y, held)
    BY <1>0, <1>1, <1>4, <2>4, FlowChunks
  <2>6. Flow(p, out, w, y, held)
    BY <1>2, <2>3, <2>5
  <2> HIDE DEF w, N
  <2>7. N.wire = w /\ N.queue = M.queue
    BY <2>2 DEF LinkState
  <2> QED
    BY <2>6, <2>7 DEF N, y
<1> QED
  BY <1>3, <1>4

\* The last frame of a response, when there is still a channel for it.
LEMMA EndResponseHolds ==
    ASSUME NEW p, NEW out \in Seq(Frame), NEW M \in LinkState, NEW held, NEW x, x.stage = "draining",
           x.upload.id \in Nat, Flow(p, out, M.wire, x, held), M.queue = <<>>, M.active.stage = "idle",
           NEW sent \in Nat, NEW left \in Nat
    PROVE  Holds(p, out, EndResponse(M, x.upload, sent, left), held)
<1> DEFINE o == M.bytesOut + sent  r == M.refunded + left
           P == [M EXCEPT !.bytesOut = o, !.refunded = r]
           frame == EofFrame(x.upload.id)
           T == SendText(P, frame)
<1>1. EndResponse(M, x.upload, sent, left) = FinishUpload(T)
  BY DEF EndResponse
<1>2. frame \in Frame /\ frame.t = "eof" /\ frame.id = x.upload.id
  BY DEF EofFrame, Frame
<1>3. P \in LinkState /\ P.wire = M.wire /\ P.queue = <<>> /\ P.active = M.active
  <2>1. o \in Nat /\ r \in Nat
    BY ChunkCounters
  <2> HIDE DEF o, r
  <2> QED
    BY <2>1 DEF LinkState
<1> HIDE DEF P, frame
<1>4. T \in LinkState /\ T.queue = <<>> /\ T.active = M.active
      /\ T.wire = IF CanSend(P) THEN Append(M.wire, frame) ELSE M.wire
  <2>1. T \in LinkState /\ T.queue = P.queue /\ T.active = P.active
    BY <1>2, <1>3, SendTextType
  <2>2. T.wire = IF CanSend(P) THEN Append(P.wire, frame) ELSE P.wire
    BY <1>3 DEF SendText, LinkState
  <2> QED
    BY <1>3, <2>1, <2>2
<1>5. M.wire \in Seq(Frame)
  BY DEF LinkState
<1> HIDE DEF T
<1>6. Flow(p, out, T.wire, T.active, held)
  <2>1. Flow(p, out, Append(M.wire, frame), M.active, held)
    BY <1>2, <1>5, FlowEof
  <2>2. Flow(p, out, M.wire, M.active, held)
    BY FlowDrop
  <2> QED
    BY <1>4, <2>1, <2>2
<1> QED
  BY <1>1, <1>4, <1>6, FinishUploadHolds DEF Holds

\* The holder sends what the channel takes, and pauses or ends.
LEMMA SendChunksHolds ==
    ASSUME NEW p \in Pending, NEW out \in Seq(Frame), NEW M, Owing(M), NEW held \in [Key -> Nat],
           NEW x \in Active, x.stage = "draining", Flow(p, out, M.wire, x, held), M.queue = <<>>,
           NEW resumed \in BOOLEAN
    PROVE  Holds(p, out, SendChunks(M, x.upload, x.bytes, x.sent, resumed), held)
<1> DEFINE u == x.upload
           left == Len(x.bytes) - x.sent
           n == Burst(M, u, left, resumed)
           pauses == /\ n < left
                     /\ ~(u.cancelled /\ (resumed \/ M.buffered <= HighWater))
           pushed == SendBinary(M, x.bytes, x.sent + 1, x.sent + n)
           a == [stage |-> "draining", upload |-> u, bytes |-> x.bytes, sent |-> x.sent + n]
           paused == [pushed EXCEPT !.active = a]
<1>1. SendChunks(M, u, x.bytes, x.sent, resumed) =
        IF M.closed /\ left > 0 THEN FinishUpload(M)
        ELSE IF pauses THEN paused ELSE EndResponse(pushed, u, x.sent + n, left - n)
  BY DEF SendChunks
<1>2. M \in LinkState /\ M.active.stage = "idle" /\ Len(x.bytes) \in Nat /\ x.bytes \in Payload
      /\ x.sent \in Nat /\ x.sent <= Len(x.bytes) /\ u \in Upload /\ u.id \in Nat
  BY DEF Owing, Payload, Active, Upload
<1>3. left \in Nat /\ n \in 0 .. left
  <2>1. left \in Nat
    BY <1>2
  <2> QED
    BY <1>2, <2>1, BurstBound
<1>4. n \in Nat /\ x.sent + n <= Len(x.bytes) /\ x.sent + 1 \in Nat \ {0} /\ x.sent + n \in 0 .. Len(x.bytes)
      /\ left - n \in Nat /\ x.sent + n \in Nat
  BY SMTT(30), <1>2, <1>3
<1> HIDE DEF left, n, pauses
<1>5. Flow(p, out, pushed.wire, a, held) /\ pushed.queue = <<>>
  BY <1>2, <1>4, PushedFlows
<1>6. Owing(pushed)
  BY <1>2, <1>4, SendBinaryOwing
<1> HIDE DEF pushed
<1>7. a.stage = "draining" /\ a.upload = u
  OBVIOUS
<1>8. CASE M.closed /\ left > 0
  <2>1. Holds(p, out, M, held)
    BY <1>2, FlowDrop DEF Holds
  <2> QED
    BY <1>1, <1>2, <1>8, <2>1, FinishUploadHolds
<1>9. CASE ~(M.closed /\ left > 0) /\ pauses
  <2>1. paused.wire = pushed.wire /\ paused.queue = pushed.queue /\ paused.active = a
    BY <1>6, LinkStateIsLink DEF Owing, IsLink, LinkFields
  <2> HIDE DEF a, paused
  <2> QED
    BY <1>1, <1>5, <1>9, <2>1 DEF Holds
<1>10. CASE ~(M.closed /\ left > 0) /\ ~pauses
  <2>1. pushed \in LinkState /\ pushed.active.stage = "idle"
    BY <1>6 DEF Owing
  <2> HIDE DEF a
  <2>2. Holds(p, out, EndResponse(pushed, a.upload, x.sent + n, left - n), held)
    BY <1>2, <1>4, <1>5, <1>7, <2>1, EndResponseHolds
  <2> QED
    BY <1>1, <1>7, <1>10, <2>2
<1> QED
  BY <1>8, <1>9, <1>10

\* An upload that is only marked, or resumed where it stood.
LEMMA FlowMarked ==
    ASSUME NEW p, NEW out, NEW in, NEW x, NEW held, Flow(p, out, in, x, held),
           NEW y, y.stage = x.stage, SameAs(y.upload, x.upload), y.bytes = x.bytes, y.sent = x.sent
    PROVE  Flow(p, out, in, y, held)
<1>1. Nothing(p, out, in, y) /\ OneWant(p, out, in, y)
  BY DEF Flow, Nothing, OneWant
<1>2. OneUpload(p, in, y, held)
  BY DEF Flow, OneUpload, SameAs
<1> QED
  BY <1>1, <1>2 DEF Flow

\* A paused response goes on.
LEMMA ResumeHolds ==
    ASSUME NEW p \in Pending, NEW out \in Seq(Frame), NEW M, Sound(M), NEW held \in [Key -> Nat],
           Holds(p, out, M, held), M.active.stage = "draining"
    PROVE  Holds(p, out, Resume(M), held)
<1> DEFINE T == [M EXCEPT !.active = NoActive]
           x == M.active
<1>1. Resume(M) = SendChunks(T, x.upload, x.bytes, x.sent, TRUE)
  BY DEF Resume
<1>2. Owing(T)
  BY TakenOwing
<1>3. M \in LinkState /\ x \in Active
  BY DEF Sound, LinkState
<1>4. T.wire = M.wire /\ T.queue = M.queue
  BY <1>3 DEF LinkState
<1>5. Flow(p, out, T.wire, x, held) /\ T.queue = <<>> /\ x.stage = "draining"
  BY <1>4 DEF Holds
<1> HIDE DEF T, x
<1> QED
  BY <1>1, <1>2, <1>3, <1>5, SendChunksHolds

\* The channel tells a paused response that its buffer drained.
LEMMA BufferedAmountLowHolds ==
    ASSUME NEW p \in Pending, NEW out \in Seq(Frame), NEW M, Sound(M), NEW held \in [Key -> Nat],
           Holds(p, out, M, held), NEW buffered \in Nat
    PROVE  Holds(p, out, BufferedAmountLow(M, buffered), held)
<1> DEFINE B == [M EXCEPT !.buffered = buffered]
<1>1. BufferedAmountLow(M, buffered) = IF M.active.stage # "draining" THEN M ELSE Resume(B)
  BY DEF BufferedAmountLow
<1>2. /\ B \in LinkState /\ B.queue = M.queue /\ B.active = M.active /\ B.inFlight = M.inFlight
      /\ B.wire = M.wire
  BY DEF Sound, LinkState
<1> HIDE DEF B
<1>3. Sound(B) /\ Holds(p, out, B, held)
  BY <1>2 DEF Sound, Uploads, Holds
<1> QED
  BY <1>1, <1>2, <1>3, ResumeHolds

\* A cancel marks the upload; a paused one ends.
LEMMA OnCancelHolds ==
    ASSUME NEW p \in Pending, NEW out \in Seq(Frame), NEW M, Sound(M), NEW held \in [Key -> Nat],
           Holds(p, out, M, held), NEW frame \in Frame
    PROVE  Holds(p, out, OnCancel(M, frame), held)
<1> DEFINE Q == [i \in DOMAIN M.queue |->
                   IF M.queue[i].id = frame.id
                   THEN [M.queue[i] EXCEPT !.cancelled = TRUE] ELSE M.queue[i]]
           c == M.active.upload.cancelled
                  \/ (M.active.stage # "idle" /\ M.active.upload.id = frame.id)
           a == [M.active EXCEPT !.upload.cancelled = c]
           marked == [M EXCEPT !.queue = Q, !.active.upload.cancelled = c]
<1>0. M \in LinkState /\ IsLink(M) /\ M.active \in Active /\ M.active.upload \in Upload /\ M.queue = <<>>
  BY LinkStateIsLink DEF Sound, LinkState, Active, Holds
<1>1. OnCancel(M, frame) = IF M.active.stage = "draining" /\ M.active.upload.id = frame.id
                           THEN Resume(marked) ELSE marked
  BY DEF OnCancel
<1>2. Q = <<>>
  BY <1>0
<1>3. c \in BOOLEAN
  BY <1>0 DEF Upload
<1> HIDE DEF Q, c
<1>4. marked.queue = <<>> /\ marked.inFlight = M.inFlight /\ marked.wire = M.wire /\ marked.active = a
  BY <1>0, <1>2 DEF IsLink, LinkFields
<1>5. /\ a \in Active /\ a.stage = M.active.stage /\ a.bytes = M.active.bytes /\ a.sent = M.active.sent
      /\ SameAs(a.upload, M.active.upload)
  BY <1>0, <1>3 DEF Active, Upload, SameAs
<1>6. marked \in LinkState
  <2>1. <<>> \in Seq(Upload)
    OBVIOUS
  <2> QED
    BY <1>0, <1>2, <1>4, <1>5, <2>1 DEF LinkState
<1> HIDE DEF marked, a
<1>7. Sound(marked) /\ Holds(p, out, marked, held)
  <2>1. Sound(marked)
    BY <1>0, <1>4, <1>5, <1>6 DEF Sound, Uploads
  <2>2. Flow(p, out, M.wire, a, held)
    BY <1>5, FlowMarked DEF Holds
  <2> QED
    BY <1>4, <2>1, <2>2 DEF Holds
<1>8. M.active.stage = "draining" => Holds(p, out, Resume(marked), held)
  BY <1>4, <1>5, <1>7, ResumeHolds
<1> QED
  BY <1>1, <1>7, <1>8

\* Any frame of the asking end is read, to begin with.
LEMMA TailHolds ==
    ASSUME NEW p, NEW out \in Seq(Frame), out # <<>>, NEW M, NEW held, Holds(p, out, M, held)
    PROVE  Holds(p, Tail(out), M, held)
<1>1. Tail(out) \in Seq(Frame) /\ Within(Tail(out), out, {"want"}) /\ Within(M.wire, M.wire, Responses)
  BY WithinTail, WithinSelf
<1> QED
  BY <1>1, FlowWithin DEF Holds

\* A want finds the holder idle, and the host is asked at once.
LEMMA OnWantHolds ==
    ASSUME NEW p, NEW out \in Seq(Frame), NEW M, Sound(M), ~M.closed, NEW held, Holds(p, out, M, held),
           out # <<>>, Head(out).t = "want"
    PROVE  Holds(p, Tail(out), OnWant(M, Head(out)), held)
<1> DEFINE frame == Head(out)
           u == [id |-> frame.id, key |-> frame.key, range |-> frame.range, cancelled |-> FALSE]
           f == M.inFlight + 1
           q == Append(M.queue, u)
           K == [M EXCEPT !.inFlight = f, !.queue = q]
           y == Awaiting(u)
<1>0. M \in LinkState /\ IsLink(M) /\ M.queue = <<>>
  BY LinkStateIsLink DEF Sound, Holds
<1>1. OnWant(M, frame) = IF M.inFlight >= MaxQueued THEN Close(M, "upload-queue") ELSE StartNext(K)
  BY DEF OnWant
<1>2. CASE M.inFlight >= MaxQueued
  BY <1>0, <1>1, <1>2, TailHolds, CloseHolds DEF Reason
<1>3. CASE ~(M.inFlight >= MaxQueued)
  <2>1. y.stage = "awaiting" /\ y.upload = u /\ SameAs(u, frame) /\ u.cancelled = FALSE
    BY DEF Awaiting, SameAs
  <2>2. q = <<u>>
    BY <1>0
  <2> HIDE DEF y, u, f, q
  <2>3. Flow(p, Tail(out), M.wire, y, held) /\ M.active.stage = "idle"
    BY <2>1, FlowTake DEF Holds
  <2>4. K.queue = <<u>> /\ K.active = M.active /\ K.wire = M.wire /\ K.closed = M.closed /\ IsLink(K)
    BY <1>0, <2>2 DEF IsLink, LinkFields
  <2>5. M.wire \in Seq(Frame)
    BY <1>0 DEF LinkState
  <2> HIDE DEF K
  <2> DEFINE n == Skipped(K)
             nones == [i \in 1 .. n |-> NoneFrame(K.queue[i].id)]
             w == IF CanSend(K) THEN K.wire \o nones ELSE K.wire
             g == Less(K.inFlight, n)
             r == SubSeq(K.queue, n + 2, Len(K.queue))
             a == IF n < Len(K.queue) THEN Awaiting(K.queue[n + 1]) ELSE K.active
  <2>6. StartNext(K) = [K EXCEPT !.wire = w, !.inFlight = g, !.queue = r, !.active = a]
    BY <2>3, <2>4 DEF StartNext
  <2>7. n = 0
    <3>1. {i \in DOMAIN K.queue : \A j \in 1 .. i : K.closed \/ K.queue[j].cancelled} = {}
      <4>1. DOMAIN K.queue = {1} /\ K.queue[1] = u
        BY <2>4
      <4> QED
        BY <2>1, <2>4, <4>1
    <3> QED
      BY <3>1, FS_EmptySet DEF Skipped
  <2>8. nones = <<>>
    BY <2>7
  <2> HIDE DEF n, nones
  <2>9. w = M.wire
    BY <2>4, <2>5, <2>8
  <2>10. r = <<>> /\ a = y
    BY <2>4, <2>7 DEF y
  <2> HIDE DEF w, g, r, a
  <2>11. StartNext(K).wire = M.wire /\ StartNext(K).queue = <<>> /\ StartNext(K).active = y
    BY <2>4, <2>6, <2>9, <2>10 DEF IsLink, LinkFields
  <2> QED
    BY <1>1, <1>3, <2>3, <2>11 DEF Holds
<1> QED
  BY <1>2, <1>3

\* The chunks of a subsequence, by their places.
LEMMA PartAt ==
    ASSUME NEW o \in Seq(Chunk), NEW a \in Nat, NEW b \in Nat, a < b, b <= Len(o)
    PROVE  LET s == SubSeq(o, a + 1, b) IN
           Len(s) = b - a /\ \A i \in 1 .. b - a : s[i] = o[a + i]
<1>1. Len(SubSeq(o, a + 1, b)) = b - a
  OBVIOUS
<1>2. ASSUME NEW i \in 1 .. b - a PROVE SubSeq(o, a + 1, b)[i] = o[a + i]
  OBVIOUS
<1> QED
  BY <1>1, <1>2

\* The part of an object that a range names.
LEMMA SliceOfObject ==
    ASSUME NEW k \in Key, NEW size \in Nat, NEW r \in PieceRange, r = Whole \/ Fits(size, r)
    PROVE  LET s == Slice(Object(k, size), r) IN
           /\ Len(s) = IF r = Whole THEN size ELSE r.end - r.start
           /\ \A i \in 1 .. Len(s) : s[i] = [key |-> k, at |-> r.start + i]
<1> DEFINE o == Object(k, size)
<1>1. o \in Seq(Chunk) /\ Len(o) = size /\ \A i \in 1 .. size : o[i] = [key |-> k, at |-> i]
  BY DEF Object, Chunk
<1> HIDE DEF o
<1>2. CASE r = Whole
  BY <1>1, <1>2 DEF Slice, Whole, o
<1>3. CASE r # Whole
  <2>1. r.start \in Nat /\ r.end \in Nat /\ r.start < r.end /\ r.end <= size
    BY <1>3 DEF Fits, PieceRange
  <2> DEFINE s == SubSeq(o, r.start + 1, r.end)
             n == r.end - r.start
  <2>2. Len(s) = n /\ \A i \in 1 .. n : s[i] = o[r.start + i]
    <3> DEFINE a == r.start
               b == r.end
    <3>1. a \in Nat /\ b \in Nat /\ a < b /\ b <= Len(o)
      BY <1>1, <2>1
    <3>2. n = b - a /\ s = SubSeq(o, a + 1, b) /\ \A i : r.start + i = a + i
      OBVIOUS
    <3> HIDE DEF a, b, n, s
    <3>3. Len(SubSeq(o, a + 1, b)) = b - a
          /\ \A i \in 1 .. b - a : SubSeq(o, a + 1, b)[i] = o[a + i]
      BY ZenonT(60), <1>1, <3>1, PartAt
    <3> QED
      BY <3>2, <3>3
  <2>3. ASSUME NEW i \in 1 .. n PROVE r.start + i \in 1 .. size
    BY <2>1
  <2> HIDE DEF s, n
  <2>4. \A i \in 1 .. n : s[i] = [key |-> k, at |-> r.start + i]
    BY <1>1, <2>2, <2>3
  <2> QED
    BY <1>3, <2>2, <2>4 DEF Slice, s, n, o
<1> QED
  BY <1>2, <1>3

\* An upload that is taken out and declined, if there is a channel left.
LEMMA DeclineHolds ==
    ASSUME NEW p, NEW out \in Seq(Frame), NEW T \in LinkState, NEW held, NEW x, x.stage = "awaiting",
           x.upload.id \in Nat, Flow(p, out, T.wire, x, held), T.queue = <<>>, T.active.stage = "idle"
    PROVE  Holds(p, out, FinishUpload(SendText(T, NoneFrame(x.upload.id))), held)
<1> DEFINE frame == NoneFrame(x.upload.id)
           S == SendText(T, frame)
<1>1. frame \in Frame /\ frame.t = "none" /\ frame.id = x.upload.id
  BY DEF NoneFrame, Frame
<1> HIDE DEF frame
<1>2. S \in LinkState /\ S.queue = <<>> /\ S.active = T.active
      /\ S.wire = IF CanSend(T) THEN Append(T.wire, frame) ELSE T.wire
  <2>1. S \in LinkState /\ S.queue = T.queue /\ S.active = T.active
    BY <1>1, SendTextType
  <2>2. S.wire = IF CanSend(T) THEN Append(T.wire, frame) ELSE T.wire
    BY DEF SendText, LinkState
  <2> QED
    BY <2>1, <2>2
<1>3. T.wire \in Seq(Frame)
  BY DEF LinkState
<1> HIDE DEF S
<1>4. Flow(p, out, S.wire, S.active, held)
  <2>1. Flow(p, out, Append(T.wire, frame), T.active, held)
    BY <1>1, <1>3, FlowNone
  <2>2. Flow(p, out, T.wire, T.active, held)
    BY FlowDrop
  <2> QED
    BY <1>2, <2>1, <2>2
<1> QED
  BY <1>2, <1>4, FinishUploadHolds DEF Holds, S, frame

\* The host's answer is what it holds under the key of the upload, or None.
LEMMA ServeResponseHolds ==
    ASSUME NEW p \in Pending, NEW out \in Seq(Frame), NEW M, Sound(M), NEW held \in [Key -> Nat],
           Holds(p, out, M, held), NEW bytes, NEW k, k = M.active.upload.key,
           bytes \in {Object(k, held[k]), None}, NEW buffered \in Nat
    PROVE  Holds(p, out, ServeResponse(M, bytes, buffered), held)
<1>0. M \in LinkState /\ IsLink(M) /\ k \in Key /\ bytes \in Payload
  <2>1. M \in LinkState /\ IsLink(M) /\ k \in Key
    BY LinkStateIsLink DEF Sound, LinkState, Active, Upload
  <2>2. held[k] \in Nat
    BY <2>1
  <2>3. Object(k, held[k]) \in Payload
    <3> DEFINE size == held[k]
    <3>1. size \in Nat
      BY <2>2
    <3> HIDE DEF size
    <3>2. Object(k, size) \in Payload
      BY <2>1, <3>1 DEF Object, Payload, Chunk
    <3> QED
      BY <3>2 DEF size
  <2> QED
    BY <2>1, <2>3, NonePayload
<1>1. CASE M.active.stage # "awaiting"
  BY <1>1 DEF ServeResponse
<1>2. CASE M.active.stage = "awaiting"
  <2> DEFINE x == M.active
             u == M.active.upload
             slice == Slice(bytes, u.range)
             T == [M EXCEPT !.active = NoActive, !.buffered = buffered]
             given == T.granted + Len(slice)
             G == [T EXCEPT !.granted = given]
             back == G.refunded + Len(slice)
             B == [G EXCEPT !.refunded = back]
             none == bytes = None \/ (u.range # Whole /\ ~Fits(Len(bytes), u.range))
  <2>1. u \in Upload /\ u.range \in PieceRange /\ u.id \in Nat /\ x \in Active /\ x.upload = u
    BY <1>0 DEF LinkState, Active, Upload
  <2>2. ServeResponse(M, bytes, buffered)
          = IF none THEN FinishUpload(SendText(T, NoneFrame(u.id)))
            ELSE IF u.cancelled THEN FinishUpload(SendText(B, NoneFrame(u.id)))
            ELSE IF ~CanSend(M) THEN FinishUpload(G)
            ELSE SendChunks(SendText(G, MetaFrame(u.id, Len(slice), u.range)), u, slice, 0, FALSE)
    BY <1>2 DEF ServeResponse
  <2>3. T.wire = M.wire /\ T.queue = <<>> /\ T.active = NoActive /\ (CanSend(T) <=> CanSend(M))
    BY <1>0 DEF IsLink, LinkFields, CanSend, Holds
  <2>4. Owing(T) /\ T \in LinkState /\ T.active.stage = "idle"
    <3> DEFINE N == [M EXCEPT !.active = NoActive]
    <3>1. Owing(N)
      BY <1>2, TakenOwing
    <3>2. T \in LinkState /\ T.queue = N.queue /\ T.active = N.active /\ T.inFlight = N.inFlight
      BY <1>0, NoActiveType DEF LinkState
    <3> HIDE DEF N, T
    <3> QED
      BY <3>1, <3>2, <2>3, NoActiveFields, OwingUnlessUploads
  <2>5. x.stage = "awaiting" /\ Flow(p, out, T.wire, x, held) /\ SameAs(u, p)
    BY <1>2, <2>3 DEF Holds, Flow, OneUpload
  <2> HIDE DEF T, x, none
  <2>6. CASE none
    BY <2>1, <2>2, <2>3, <2>4, <2>5, <2>6, DeclineHolds
  <2>7. CASE ~none
    <3>1. slice \in Payload /\ Len(slice) \in Nat
      <4>1. u.range = Whole \/ Fits(Len(bytes), u.range)
        BY <2>7 DEF none
      <4> QED
        BY <1>0, <2>1, <4>1, SlicePayload
    <3>2. /\ Len(slice) = Count(p, held)
          /\ \A i \in 1 .. Len(slice) : slice[i] = [key |-> p.key, at |-> p.range.start + i]
      <4>1. bytes = Object(k, held[k]) /\ (u.range = Whole \/ Fits(Len(bytes), u.range)) /\ held[k] \in Nat
        BY <1>0, <2>7 DEF none
      <4>2. Len(bytes) = held[k]
        BY <4>1 DEF Object
      <4>3. u.range = p.range /\ k = p.key
        BY <2>5 DEF SameAs
      <4> QED
        BY <1>0, <2>1, <4>1, <4>2, <4>3, SliceOfObject DEF Count
    <3> HIDE DEF slice
    <3>3. T.granted \in Nat /\ T.refunded \in Nat
      BY <2>4 DEF LinkState
    <3>4. given \in Nat
      BY <3>1, <3>3
    <3> HIDE DEF given
    <3>5. /\ G \in LinkState /\ G.wire = T.wire /\ G.queue = T.queue /\ G.active = T.active
          /\ G.inFlight = T.inFlight /\ G.refunded = T.refunded /\ G.closed = T.closed /\ G.open = T.open
      BY <2>4, <3>4 DEF LinkState
    <3> HIDE DEF G
    <3>6. Owing(G) /\ G.queue = <<>> /\ G.active.stage = "idle" /\ Flow(p, out, G.wire, x, held)
      BY <2>3, <2>4, <2>5, <3>5, OwingUnlessUploads
    <3>7. CASE u.cancelled
      <4>1. back \in Nat
        BY <3>1, <3>3, <3>5
      <4> HIDE DEF back
      <4>2. B \in LinkState /\ B.wire = G.wire /\ B.queue = G.queue /\ B.active = G.active
        BY <3>5, <4>1 DEF LinkState
      <4> HIDE DEF B
      <4>3. Holds(p, out, FinishUpload(SendText(B, NoneFrame(u.id))), held)
        BY <2>1, <2>5, <3>6, <4>2, DeclineHolds
      <4> QED
        BY <2>2, <2>7, <3>7, <4>3
    <3>8. CASE ~u.cancelled /\ ~CanSend(M)
      <4>1. Holds(p, out, G, held)
        BY <3>6, FlowDrop DEF Holds
      <4> QED
        BY <2>2, <2>7, <3>5, <3>8, <4>1, FinishUploadHolds
    <3>9. CASE ~u.cancelled /\ CanSend(M)
      <4> DEFINE frame == MetaFrame(u.id, Len(slice), u.range)
                 S == SendText(G, frame)
                 y == [stage |-> "draining", upload |-> u, bytes |-> slice, sent |-> 0]
      <4>1. frame \in Frame /\ frame.t = "meta" /\ frame.id = u.id /\ frame.size = Len(slice)
        BY <2>1, <3>1 DEF MetaFrame, Frame
      <4>2. y \in Active /\ y.stage = "draining" /\ y.upload = u /\ y.bytes = slice /\ y.sent = 0
        BY <2>1, <3>1 DEF Active
      <4> HIDE DEF frame, y
      <4>3. CanSend(G)
        BY <2>3, <3>5, <3>9 DEF CanSend
      <4>4. Owing(S) /\ S.queue = <<>> /\ S.wire = Append(G.wire, frame)
        <5>1. S \in LinkState /\ S.queue = G.queue /\ S.active = G.active /\ S.inFlight = G.inFlight
          BY <3>5, <4>1, SendTextType
        <5>2. S.wire = Append(G.wire, frame)
          BY <3>5, <4>3 DEF SendText, LinkState
        <5> QED
          BY <3>6, <5>1, <5>2, OwingUnlessUploads
      <4> HIDE DEF S
      <4>5. Flow(p, out, S.wire, y, held)
        <5>1. G.wire \in Seq(Frame)
          BY <3>5 DEF LinkState
        <5> QED
          BY ZenonT(60), <2>1, <2>5, <3>2, <3>6, <4>1, <4>2, <4>4, <5>1, FlowMeta
      <4>6. Holds(p, out, SendChunks(S, y.upload, y.bytes, y.sent, FALSE), held)
        BY <4>2, <4>4, <4>5, SendChunksHolds
      <4> QED
        BY <2>2, <2>7, <3>9, <4>2, <4>6 DEF S, frame
    <3> QED
      BY <3>7, <3>8, <3>9
  <2> QED
    BY <2>6, <2>7
<1> QED
  BY <1>1, <1>2

\* The holder's time for a paused response is over, or its host threw.
LEMMA UploadTimeoutHolds ==
    ASSUME NEW p, NEW out, NEW M, Sound(M), NEW held, Holds(p, out, M, held), M.active.stage = "draining"
    PROVE  Holds(p, out, UploadTimeout(M), held)
<1> DEFINE T == [M EXCEPT !.active = NoActive]
           C == Close(T, "upload-drain-timeout")
<1>1. UploadTimeout(M) = FinishUpload(C)
  BY DEF UploadTimeout
<1>2. Owing(T) /\ T \in LinkState
  BY TakenOwing DEF Owing
<1>3. T.wire = M.wire /\ T.queue = <<>> /\ T.active = NoActive
  BY DEF Sound, LinkState, Holds
<1> HIDE DEF T
<1>4. Holds(p, out, T, held)
  BY <1>3, NoActiveFields, FlowDrop DEF Holds
<1>5. Holds(p, out, C, held) /\ C \in LinkState
  <2>1. "upload-drain-timeout" \in Reason
    BY DEF Reason
  <2> QED
    BY <1>2, <1>4, <2>1, CloseHolds, CloseOwing DEF Owing
<1> HIDE DEF C
<1> QED
  BY <1>1, <1>5, FinishUploadHolds

-----------------------------------------------------------------------------
(* The asking side of an end says nothing as the holder, and at most drops  *)
(* what it holds.                                                           *)
Aside(M, N) ==
    /\ NoNew(M.wire, N.wire, Responses)
    /\ N.active \in {M.active, NoActive}
    /\ M.queue = <<>> => N.queue = <<>>

LEMMA AsideTransitive ==
    ASSUME NEW L, NEW M, NEW N, Aside(L, M), Aside(M, N) PROVE Aside(L, N)
<1>1. NoNew(L.wire, N.wire, Responses)
  BY NoNewTransitive DEF Aside
<1> QED
  BY <1>1 DEF Aside

LEMMA AsideSame ==
    ASSUME NEW M, NEW N, N.wire = M.wire, N.queue = M.queue, N.active = M.active PROVE Aside(M, N)
  BY NoNewSelf DEF Aside

\* An exchange outlives what its holder asks for itself.
LEMMA AsideHolds ==
    ASSUME NEW p, NEW out \in Seq(Frame), NEW M, NEW N, NEW held, Holds(p, out, M, held), Aside(M, N)
    PROVE  Holds(p, out, N, held)
<1>1. Flow(p, out, N.wire, M.active, held)
  BY NoNewWithin, WithinSelf, FlowWithin DEF Holds, Aside
<1>2. N.queue = <<>> /\ N.active \in {M.active, NoActive}
  BY DEF Holds, Aside
<1> QED
  BY <1>1, <1>2, FlowDrop, NoActiveFields DEF Holds

LEMMA CloseIsAside ==
    ASSUME NEW M \in LinkState, NEW reason \in Reason PROVE Aside(M, Close(M, reason))
  BY CloseAside, NoNewSelf DEF Aside

LEMMA ShellAside == ASSUME NEW M \in LinkState PROVE Aside(M, Shell(M))
  BY CloseIsAside, AsideSame, ReasonsOutcomes DEF Shell

LEMMA FinishAside ==
    ASSUME NEW M, IsLink(M), NEW bytes, NEW outcome, NEW now
    PROVE  Aside(M, Finish(M, bytes, outcome, now))
<1> DEFINE N == Finish(M, bytes, outcome, now)
<1>1. N.wire = M.wire /\ N.queue = M.queue /\ N.active = M.active
  BY DEF Finish, IsLink, LinkFields
<1> HIDE DEF N
<1>2. Aside(M, N)
  BY <1>1, AsideSame
<1> QED
  BY <1>2 DEF N

\* A frame that is appended, if it is of no kind in T.
LEMMA AppendNoNew ==
    ASSUME NEW w \in Seq(Frame), NEW frame \in Frame, NEW T, frame.t \notin T
    PROVE  NoNew(w, Append(w, frame), T)
<1> DEFINE v == Append(w, frame)
           k == Len(w)
<1>1. /\ DOMAIN w = 1 .. k /\ k \in Nat /\ DOMAIN v = 1 .. k + 1
      /\ \A i \in 1 .. k : v[i] = w[i]
      /\ v[k + 1] = frame
  BY Appended
<1> HIDE DEF v, k
<1>2. NoNew(w, v, T)
  BY <1>1 DEF NoNew
<1> QED
  BY <1>2 DEF v

\* A frame that is sent, if it is of no kind in T.
LEMMA SendTextNoNew ==
    ASSUME NEW M \in LinkState, NEW frame \in Frame, NEW T, frame.t \notin T
    PROVE  NoNew(M.wire, SendText(M, frame).wire, T)
<1>1. M.wire \in Seq(Frame)
  BY DEF LinkState
<1>2. SendText(M, frame).wire = IF CanSend(M) THEN Append(M.wire, frame) ELSE M.wire
  BY DEF SendText, LinkState
<1>3. NoNew(M.wire, Append(M.wire, frame), T)
  BY <1>1, AppendNoNew
<1> QED
  BY <1>2, <1>3, NoNewSelf

LEMMA SendTextAside ==
    ASSUME NEW M \in LinkState, NEW frame \in Frame, frame.t \notin Responses
    PROVE  Aside(M, SendText(M, frame))
<1>1. SendText(M, frame).queue = M.queue /\ SendText(M, frame).active = M.active
  BY SendTextType
<1> QED
  BY <1>1, SendTextNoNew DEF Aside

LEMMA StartRequestAside ==
    ASSUME NEW L \in LinkState, NEW k \in Key, NEW r \in PieceRange, NEW expected \in Nat
    PROVE  Aside(L, StartRequest(L, k, r, expected))
<1> DEFINE id == L.nextId
           next == id + 1
           p == [NoPending EXCEPT !.id = id, !.key = k, !.range = r, !.expected = expected,
                                  !.abandonReason = "request-timeout"]
           A == [L EXCEPT !.nextId = next, !.pending = p]
           frame == WantFrame(id, k, r)
<1>1. StartRequest(L, k, r, expected)
        = IF CanSend(L) THEN SendText(A, frame) ELSE Finish(A, None, "send-error", TRUE)
  BY DEF StartRequest
<1>2. id \in Nat \ {0} /\ next \in Nat \ {0}
  BY DEF LinkState
<1> HIDE DEF id, next
<1>3. p \in Pending
  BY <1>2, NoPendingType DEF Pending, Reason
<1> HIDE DEF p
<1>4. A \in LinkState /\ A.wire = L.wire /\ A.queue = L.queue /\ A.active = L.active
  BY <1>2, <1>3 DEF LinkState
<1> HIDE DEF A
<1>5. frame \in Frame /\ frame.t \notin Responses
  BY <1>2 DEF WantFrame, Frame, Responses
<1> HIDE DEF frame
<1>6. Aside(L, A) /\ Aside(A, SendText(A, frame)) /\ Aside(A, Finish(A, None, "send-error", TRUE))
  BY <1>4, <1>5, AsideSame, SendTextAside, FinishAside, LinkStateIsLink
<1> QED
  BY <1>1, <1>6, AsideTransitive

LEMMA AbandonAside ==
    ASSUME NEW L, Sound(L), NEW reason \in Reason, NEW outcome \in Outcome
    PROVE  Aside(L, Abandon(L, reason, outcome))
<1>0. L \in LinkState
  BY DEF Sound
<1> DEFINE p == L.pending
           F == Finish(L, None, outcome, FALSE)
           freed == Close(F, reason)
           g == Append(freed.reported, [id |-> p.id, outcome |-> outcome])
           gone == [freed EXCEPT !.reported = g]
           s == Append(L.resolved, [id |-> p.id, bytes |-> None])
           t == Append(L.reported, [id |-> p.id, outcome |-> outcome])
           c == CanSend(L)
           q == [p EXCEPT !.draining = TRUE, !.parts = None, !.abandonReason = reason,
                          !.resolved = TRUE, !.reported = TRUE, !.cancelled = c]
           quit == [L EXCEPT !.resolved = s, !.reported = t, !.pending = q]
           frame == CancelFrame(p.id)
<1>1. Abandon(L, reason, outcome) = IF ~(Reliable /\ L.open) THEN gone ELSE SendText(quit, frame)
  BY DEF Abandon
<1>2. p \in Pending /\ p.id \in Nat
  BY <1>0 DEF LinkState, Pending
<1>3. Aside(L, gone)
  <2>1. Sound(F) /\ F \in LinkState /\ Aside(L, F)
    BY <1>0, NonePayload, FinishSound, FinishType, FinishAside, LinkStateIsLink
  <2> HIDE DEF F
  <2>2. Aside(F, freed)
    BY <2>1, CloseIsAside
  <2>3. gone.wire = freed.wire /\ gone.queue = freed.queue /\ gone.active = freed.active
    <3>1. IsLink(freed)
      BY <2>1, CloseSound, LinkStateIsLink DEF Sound
    <3> HIDE DEF freed, g
    <3> QED
      BY <3>1 DEF IsLink, LinkFields
  <2> QED
    BY <2>1, <2>2, <2>3, AsideSame, AsideTransitive
<1>4. Aside(L, SendText(quit, frame))
  <2>1. s \in Seq([id : Nat, bytes : Payload]) /\ t \in Seq([id : Nat, outcome : Outcome])
    BY <1>0, <1>2, NonePayload DEF LinkState
  <2>2. q \in Pending
    BY <1>0, <1>2, NonePayload DEF Pending, CanSend, LinkState
  <2> HIDE DEF s, t, q
  <2>3. quit \in LinkState /\ quit.wire = L.wire /\ quit.queue = L.queue /\ quit.active = L.active
    BY <1>0, <2>1, <2>2 DEF LinkState
  <2> HIDE DEF quit
  <2>4. frame \in Frame /\ frame.t \notin Responses
    BY <1>2 DEF CancelFrame, Frame, Responses
  <2> QED
    BY <2>3, <2>4, AsideSame, SendTextAside, AsideTransitive
<1> QED
  BY <1>1, <1>3, <1>4

LEMMA AbortAside ==
    ASSUME NEW L, Sound(L), NEW outcome \in Outcome PROVE Aside(L, Abort(L, outcome))
  BY AbandonAside, AsideSame DEF Abort, Reason

LEMMA RequestTimeoutAside ==
    ASSUME NEW L, Sound(L) PROVE Aside(L, RequestTimeout(L))
<1>1. L \in LinkState /\ L.pending.abandonReason \in Reason
  BY DEF Sound, LinkState, Pending
<1>2. Aside(L, Close(L, L.pending.abandonReason))
  BY <1>1, CloseIsAside
<1>3. Aside(L, Abandon(L, "request-timeout", "timeout"))
  BY AbandonAside DEF Reason, Outcome
<1> QED
  BY <1>2, <1>3 DEF RequestTimeout

\* Reading a frame of a response touches nothing but the request.
LEMMA ResponseAside ==
    ASSUME NEW L, Sound(L), NEW frame \in Frame, frame.t \in Responses
    PROVE  Aside(L, Handle(L, frame))
<1>0. L \in LinkState /\ IsLink(L) /\ "protocol" \in Reason
  BY LinkStateIsLink, ReasonsOutcomes DEF Sound
<1>1. Aside(L, L) /\ Aside(L, Close(L, "protocol"))
  BY <1>0, CloseIsAside, AsideSame
<1>2. Aside(L, Misnamed(L))
  BY <1>1 DEF Misnamed
<1>3. \A bytes, outcome : Aside(L, Finish(L, bytes, outcome, TRUE))
  BY <1>0, FinishAside
<1>4. ASSUME NEW p PROVE Aside(L, [L EXCEPT !.pending = p])
  <2> DEFINE N == [L EXCEPT !.pending = p]
  <2>1. N.wire = L.wire /\ N.queue = L.queue /\ N.active = L.active
    BY <1>0 DEF IsLink, LinkFields
  <2> HIDE DEF N
  <2>2. Aside(L, N)
    BY <2>1, AsideSame
  <2> QED
    BY <2>2 DEF N
<1>5. CASE frame.t = "meta"
  <2> DEFINE p == [L.pending EXCEPT !.size = frame.size]
  <2>1. [L EXCEPT !.pending.size = frame.size] = [L EXCEPT !.pending = p]
    OBVIOUS
  <2>2. Handle(L, frame) \in {L, OnMeta(L, frame)}
    BY <1>5 DEF Handle, HandleText
  <2> QED
    BY <1>1, <1>2, <1>4, <2>1, <2>2 DEF OnMeta
<1>6. CASE frame.t = "eof"
  <2>2. Handle(L, frame) \in {L, OnEof(L, frame)}
    BY <1>6 DEF Handle, HandleText
  <2> QED
    BY <1>1, <1>2, <1>3, <2>2 DEF OnEof
<1>7. CASE frame.t = "none"
  <2>2. Handle(L, frame) \in {L, OnNone(L, frame)}
    BY <1>7 DEF Handle, HandleText
  <2> QED
    BY <1>1, <1>2, <1>3, <2>2 DEF OnNone
<1>8. CASE frame.t = "chunk"
  <2> DEFINE r == L.pending.received + 1
             p == [L.pending EXCEPT !.received = r]
             q == [L.pending EXCEPT !.received = r, !.parts = Append(L.pending.parts, frame.chunk)]
             P == [L EXCEPT !.pending = p]
  <2>1. [L EXCEPT !.pending.received = r] = P
        /\ [L EXCEPT !.pending.received = r, !.pending.parts = Append(L.pending.parts, frame.chunk)]
             = [L EXCEPT !.pending = q]
    BY <1>0 DEF IsLink, LinkFields
  <2>2. Handle(L, frame) = HandleBinary(L, frame)
    BY <1>8 DEF Handle
  <2>3. Aside(L, Close(P, "protocol"))
    <3>1. r \in Nat
      BY <1>0 DEF LinkState, Pending
    <3> HIDE DEF r
    <3>2. p \in Pending
      BY <1>0, <3>1 DEF LinkState, Pending
    <3> HIDE DEF p
    <3>3. P \in LinkState /\ Aside(L, P)
      BY <1>0, <1>4, <3>2 DEF LinkState
    <3> HIDE DEF P
    <3> QED
      BY <1>0, <3>3, CloseIsAside, AsideTransitive
  <2>4. HandleBinary(L, frame) \in {L, Close(L, "protocol"), Close(P, "protocol"), P, [L EXCEPT !.pending = q]}
    BY <2>1 DEF HandleBinary
  <2> QED
    BY <1>1, <1>4, <2>2, <2>3, <2>4
<1> QED
  BY <1>5, <1>6, <1>7, <1>8 DEF Responses

-----------------------------------------------------------------------------
(* The serving side of an end makes no request.                            *)
Mute(L, M) == NoNew(L.wire, M.wire, {"want"})

LEMMA MuteTransitive ==
    ASSUME NEW L, NEW M, NEW N, Mute(L, M), Mute(M, N) PROVE Mute(L, N)
  BY NoNewTransitive DEF Mute

\* A call that sends nothing.
LEMMA MuteSame == ASSUME NEW L, NEW M, M.wire = L.wire PROVE Mute(L, M)
  BY NoNewSelf DEF Mute

\* Frames that are appended, if none is of a kind in T.
LEMMA JoinNoNew ==
    ASSUME NEW v \in Seq(Frame), NEW w \in Seq(Frame), NEW T, \A i \in DOMAIN w : w[i].t \notin T
    PROVE  NoNew(v, v \o w, T)
<1> DEFINE u == v \o w
           k == Len(v)
           n == Len(w)
<1>1. /\ DOMAIN u = 1 .. k + n
      /\ \A i \in 1 .. k : u[i] = v[i]
      /\ \A i \in 1 .. n : u[k + i] = w[i]
  BY Joined
<1>2. k \in Nat /\ n \in Nat /\ DOMAIN v = 1 .. k /\ DOMAIN w = 1 .. n
  OBVIOUS
<1> HIDE DEF u, k, n
<1>3. ASSUME NEW i \in DOMAIN u, u[i].t \in T PROVE i \in DOMAIN v /\ u[i] = v[i]
  <2>1. CASE i \in 1 .. k
    BY <1>1, <1>2, <2>1
  <2>2. CASE i \notin 1 .. k
    <3>1. i - k \in 1 .. n /\ i = k + (i - k)
      BY <1>1, <1>2, <1>3, <2>2
    <3> QED
      BY <1>1, <1>2, <1>3, <3>1
  <2> QED
    BY <2>1, <2>2
<1> QED
  BY <1>3 DEF NoNew, u

LEMMA SendBinaryMute ==
    ASSUME NEW M \in LinkState, NEW bytes \in Payload, NEW first \in Nat \ {0}, NEW last \in Nat,
           last <= Len(bytes)
    PROVE  Mute(M, SendBinary(M, bytes, first, last))
<1>1. CASE first > last
  BY <1>1, MuteSame DEF SendBinary
<1>2. CASE ~(first > last)
  <2> DEFINE b == M.buffered + (last - first) + 1
             f == M.failed \/ ~M.open
             n == (last - first) + 1
             sends == [i \in 1 .. n |-> ChunkFrame(bytes[first + i - 1])]
             w == IF M.open THEN M.wire \o sends ELSE M.wire
             N == [M EXCEPT !.buffered = b, !.failed = f, !.wire = w]
  <2>1. SendBinary(M, bytes, first, last) = N
    BY <1>2 DEF SendBinary
  <2>2. M.wire \in Seq(Frame) /\ Len(bytes) \in Nat /\ bytes \in Seq(Chunk) /\ n \in Nat
    BY <1>2 DEF LinkState, Payload
  <2>3. ASSUME NEW i \in 1 .. n PROVE ChunkFrame(bytes[first + i - 1]) \in Frame /\ ChunkFrame(bytes[first + i - 1]).t = "chunk"
    <3>1. first + i - 1 \in 1 .. Len(bytes)
      BY <2>2
    <3>2. bytes[first + i - 1] \in Chunk
      BY <2>2, <3>1
    <3> QED
      BY <3>2 DEF ChunkFrame, Frame
  <2>4. sends \in Seq(Frame) /\ \A i \in DOMAIN sends : sends[i].t # "want"
    <3> DEFINE Sent(i) == ChunkFrame(bytes[first + i - 1])
    <3>1. \A i \in 1 .. n : Sent(i) \in Frame /\ Sent(i).t = "chunk"
      BY <2>3
    <3>2. n \in Nat
      BY <2>2
    <3> HIDE DEF Sent, n
    <3>3. LET v == [i \in 1 .. n |-> Sent(i)] IN v \in Seq(Frame) /\ \A i \in DOMAIN v : v[i].t # "want"
      BY <3>1, <3>2
    <3> QED
      BY <3>3 DEF Sent, n
  <2> HIDE DEF sends, b, f, n
  <2>5. NoNew(M.wire, w, {"want"})
    BY <2>2, <2>4, JoinNoNew, NoNewSelf
  <2> HIDE DEF w
  <2>6. N.wire = w
    BY DEF LinkState
  <2> HIDE DEF N
  <2> QED
    BY <2>1, <2>5, <2>6 DEF Mute
<1> QED
  BY <1>1, <1>2

LEMMA StartNextMute ==
    ASSUME NEW L \in LinkState PROVE Mute(L, StartNext(L))
<1>1. CASE L.active.stage # "idle"
  BY <1>1, MuteSame DEF StartNext
<1>2. CASE L.active.stage = "idle"
  <2> DEFINE n == Skipped(L)
             nones == [i \in 1 .. n |-> NoneFrame(L.queue[i].id)]
             w == IF CanSend(L) THEN L.wire \o nones ELSE L.wire
             f == Less(L.inFlight, n)
             q == SubSeq(L.queue, n + 2, Len(L.queue))
             a == IF n < Len(L.queue) THEN Awaiting(L.queue[n + 1]) ELSE L.active
             N == [L EXCEPT !.wire = w, !.inFlight = f, !.queue = q, !.active = a]
  <2>1. StartNext(L) = N
    BY <1>2 DEF StartNext
  <2>2. n \in 0 .. Len(L.queue) /\ L.queue \in Seq(Upload) /\ Len(L.queue) \in Nat /\ L.wire \in Seq(Frame)
    <3>1. n \in 0 .. Len(L.queue)
      BY SkippedInQueue
    <3>2. L.queue \in Seq(Upload) /\ L.wire \in Seq(Frame)
      BY DEF LinkState
    <3> HIDE DEF n
    <3> QED
      BY <3>1, <3>2
  <2> HIDE DEF n
  <2>3. ASSUME NEW i \in 1 .. n PROVE NoneFrame(L.queue[i].id) \in Frame /\ NoneFrame(L.queue[i].id).t = "none"
    <3>1. L.queue[i] \in Upload
      BY <2>2
    <3> QED
      BY <3>1 DEF NoneFrame, Frame, Upload
  <2>4. nones \in Seq(Frame) /\ \A i \in DOMAIN nones : nones[i].t # "want"
    BY <2>2, <2>3
  <2> HIDE DEF nones, f, q, a
  <2>5. NoNew(L.wire, w, {"want"})
    BY <2>2, <2>4, JoinNoNew, NoNewSelf
  <2> HIDE DEF w
  <2>6. N.wire = w
    BY DEF LinkState
  <2> HIDE DEF N
  <2> QED
    BY <2>1, <2>5, <2>6 DEF Mute
<1> QED
  BY <1>1, <1>2

LEMMA FinishUploadMute ==
    ASSUME NEW L \in LinkState PROVE Mute(L, FinishUpload(L))
<1> DEFINE f == Less(L.inFlight, 1)
           K == [L EXCEPT !.inFlight = f]
<1>1. f \in Nat
  BY DEF Less, LinkState
<1> HIDE DEF f
<1>2. K \in LinkState /\ K.wire = L.wire
  BY <1>1 DEF LinkState
<1>3. FinishUpload(L) = StartNext(K)
  BY DEF FinishUpload, f
<1> HIDE DEF K
<1> QED
  BY <1>2, <1>3, StartNextMute, MuteSame, MuteTransitive

LEMMA SendTextMute ==
    ASSUME NEW M \in LinkState, NEW frame \in Frame, frame.t # "want"
    PROVE  SendText(M, frame) \in LinkState /\ Mute(M, SendText(M, frame))
  BY SendTextType, SendTextNoNew DEF Mute

LEMMA EndResponseMute ==
    ASSUME NEW L \in LinkState, NEW u \in Upload, NEW sent \in Nat, NEW left \in Nat
    PROVE  Mute(L, EndResponse(L, u, sent, left))
<1> DEFINE o == L.bytesOut + sent  r == L.refunded + left
           P == [L EXCEPT !.bytesOut = o, !.refunded = r]
           frame == EofFrame(u.id)
           T == SendText(P, frame)
<1>1. EndResponse(L, u, sent, left) = FinishUpload(T)
  BY DEF EndResponse
<1>2. o \in Nat /\ r \in Nat
  BY ChunkCounters
<1> HIDE DEF o, r
<1>3. P \in LinkState /\ P.wire = L.wire
  BY <1>2 DEF LinkState
<1>4. frame \in Frame /\ frame.t # "want"
  BY DEF EofFrame, Frame, Upload
<1> HIDE DEF P, frame
<1>5. T \in LinkState /\ Mute(P, T)
  BY <1>3, <1>4, SendTextMute
<1> HIDE DEF T
<1> QED
  BY <1>1, <1>3, <1>5, MuteSame, FinishUploadMute, MuteTransitive

LEMMA SendChunksMute ==
    ASSUME NEW L, Owing(L), NEW u \in Upload, NEW bytes \in Payload, NEW sent \in 0 .. Len(bytes),
           NEW resumed \in BOOLEAN
    PROVE  Mute(L, SendChunks(L, u, bytes, sent, resumed))
<1> DEFINE left == Len(bytes) - sent
           n == Burst(L, u, left, resumed)
           pauses == /\ n < left
                     /\ ~(u.cancelled /\ (resumed \/ L.buffered <= HighWater))
           pushed == SendBinary(L, bytes, sent + 1, sent + n)
           a == [stage |-> "draining", upload |-> u, bytes |-> bytes, sent |-> sent + n]
           paused == [pushed EXCEPT !.active = a]
<1>1. SendChunks(L, u, bytes, sent, resumed) \in
        {FinishUpload(L), paused, EndResponse(pushed, u, sent + n, left - n)}
  BY DEF SendChunks
<1>2. L \in LinkState /\ Len(bytes) \in Nat /\ sent \in Nat
  BY DEF Owing, Payload
<1>3. left \in Nat /\ n \in 0 .. left
  <2>1. left \in Nat
    BY <1>2
  <2> QED
    BY <1>2, <2>1, BurstBound
<1>4. sent + 1 \in Nat \ {0} /\ sent + n \in Nat /\ sent + n <= Len(bytes) /\ left - n \in Nat
  BY <1>2, <1>3
<1> HIDE DEF left, n
<1>5. Owing(pushed) /\ pushed \in LinkState /\ Mute(L, pushed)
  <2>1. Owing(pushed)
    BY <1>2, <1>4, SendBinaryOwing
  <2>2. Mute(L, pushed)
    BY <1>2, <1>4, SendBinaryMute
  <2> QED
    BY <2>1, <2>2 DEF Owing
<1> HIDE DEF pushed
<1>6. Mute(L, paused)
  <2> HIDE DEF a
  <2>1. paused.wire = pushed.wire
    BY <1>5, LinkStateIsLink DEF IsLink, LinkFields
  <2> HIDE DEF paused
  <2> QED
    BY <1>5, <2>1, MuteSame, MuteTransitive
<1>7. Mute(L, EndResponse(pushed, u, sent + n, left - n))
  BY <1>4, <1>5, EndResponseMute, MuteTransitive
<1>8. Mute(L, FinishUpload(L))
  BY <1>2, FinishUploadMute
<1> QED
  BY <1>1, <1>6, <1>7, <1>8

LEMMA ResumeMute ==
    ASSUME NEW L, Sound(L), L.active.stage = "draining" PROVE Mute(L, Resume(L))
<1> DEFINE T == [L EXCEPT !.active = NoActive]
           x == L.active
<1>1. Resume(L) = SendChunks(T, x.upload, x.bytes, x.sent, TRUE)
  BY DEF Resume
<1>2. Owing(T)
  BY TakenOwing
<1>3. x.upload \in Upload /\ x.bytes \in Payload /\ x.sent \in 0 .. Len(x.bytes)
  BY DEF Sound, LinkState, Active, Payload
<1>4. T.wire = L.wire
  BY DEF Sound, LinkState
<1> HIDE DEF T, x
<1>5. Mute(T, Resume(L))
  BY <1>1, <1>2, <1>3, SendChunksMute
<1> QED
  BY <1>4, <1>5, MuteSame, MuteTransitive

LEMMA BufferedAmountLowMute ==
    ASSUME NEW L, Sound(L), NEW buffered \in Nat PROVE Mute(L, BufferedAmountLow(L, buffered))
<1> DEFINE B == [L EXCEPT !.buffered = buffered]
<1>1. BufferedAmountLow(L, buffered) = IF L.active.stage # "draining" THEN L ELSE Resume(B)
  BY DEF BufferedAmountLow
<1>2. /\ B \in LinkState /\ B.queue = L.queue /\ B.active = L.active /\ B.inFlight = L.inFlight
      /\ B.wire = L.wire
  BY DEF Sound, LinkState
<1> HIDE DEF B
<1>3. Sound(B)
  BY <1>2 DEF Sound, Uploads
<1> QED
  BY <1>1, <1>2, <1>3, ResumeMute, MuteSame, MuteTransitive

LEMMA OnCancelMute ==
    ASSUME NEW L, Sound(L), NEW frame \in Frame PROVE Mute(L, OnCancel(L, frame))
<1> DEFINE Q == [i \in DOMAIN L.queue |->
                   IF L.queue[i].id = frame.id
                   THEN [L.queue[i] EXCEPT !.cancelled = TRUE] ELSE L.queue[i]]
           c == L.active.upload.cancelled
                  \/ (L.active.stage # "idle" /\ L.active.upload.id = frame.id)
           a == [L.active EXCEPT !.upload.cancelled = c]
           marked == [L EXCEPT !.queue = Q, !.active.upload.cancelled = c]
<1>0. L \in LinkState /\ IsLink(L) /\ L.active \in Active /\ L.active.upload \in Upload
  BY LinkStateIsLink DEF Sound, LinkState, Active
<1>1. OnCancel(L, frame) = IF L.active.stage = "draining" /\ L.active.upload.id = frame.id
                           THEN Resume(marked) ELSE marked
  BY DEF OnCancel
<1>2. Q \in Seq(Upload) /\ Len(Q) = Len(L.queue)
  <2>1. L.queue \in Seq(Upload)
    BY <1>0 DEF LinkState
  <2> QED
    BY <2>1, MarkedQueue
<1>3. c \in BOOLEAN
  BY <1>0 DEF Upload
<1> HIDE DEF Q, c
<1>4. marked.queue = Q /\ marked.inFlight = L.inFlight /\ marked.wire = L.wire /\ marked.active = a
  BY <1>0 DEF IsLink, LinkFields
<1>5. a \in Active /\ a.stage = L.active.stage
  BY <1>0, <1>3 DEF Active, Upload
<1>6. marked \in LinkState
  BY <1>0, <1>2, <1>4, <1>5 DEF LinkState
<1> HIDE DEF marked, a
<1>7. Sound(marked) /\ Mute(L, marked)
  BY <1>2, <1>4, <1>5, <1>6, MuteSame DEF Sound, Uploads
<1> QED
  BY <1>1, <1>4, <1>5, <1>7, ResumeMute, MuteTransitive

LEMMA DeclineMute ==
    ASSUME NEW T \in LinkState, NEW u \in Upload
    PROVE  Mute(T, FinishUpload(SendText(T, NoneFrame(u.id))))
<1> DEFINE frame == NoneFrame(u.id)
           S == SendText(T, frame)
<1>1. frame \in Frame /\ frame.t # "want"
  BY DEF NoneFrame, Frame, Upload
<1> HIDE DEF frame
<1>2. S \in LinkState /\ Mute(T, S)
  BY <1>1, SendTextMute
<1> HIDE DEF S
<1>3. Mute(T, FinishUpload(S))
  BY <1>2, FinishUploadMute, MuteTransitive
<1> QED
  BY <1>3 DEF S, frame

LEMMA ServeResponseMute ==
    ASSUME NEW L, Sound(L), NEW bytes \in Payload, NEW buffered \in Nat
    PROVE  Mute(L, ServeResponse(L, bytes, buffered))
<1>0. L \in LinkState /\ IsLink(L)
  BY LinkStateIsLink DEF Sound
<1>1. CASE L.active.stage # "awaiting"
  BY <1>1, MuteSame DEF ServeResponse
<1>2. CASE L.active.stage = "awaiting"
  <2> DEFINE u == L.active.upload
             slice == Slice(bytes, u.range)
             T == [L EXCEPT !.active = NoActive, !.buffered = buffered]
             given == T.granted + Len(slice)
             G == [T EXCEPT !.granted = given]
             back == G.refunded + Len(slice)
             B == [G EXCEPT !.refunded = back]
             none == bytes = None \/ (u.range # Whole /\ ~Fits(Len(bytes), u.range))
  <2>1. u \in Upload /\ u.range \in PieceRange /\ u.id \in Nat
    BY <1>0 DEF LinkState, Active, Upload
  <2>2. ServeResponse(L, bytes, buffered)
          = IF none THEN FinishUpload(SendText(T, NoneFrame(u.id)))
            ELSE IF u.cancelled THEN FinishUpload(SendText(B, NoneFrame(u.id)))
            ELSE IF ~CanSend(L) THEN FinishUpload(G)
            ELSE SendChunks(SendText(G, MetaFrame(u.id, Len(slice), u.range)), u, slice, 0, FALSE)
    BY <1>2 DEF ServeResponse
  <2>3. T.wire = L.wire
    BY <1>0 DEF IsLink, LinkFields
  <2>4. Owing(T) /\ T \in LinkState
    <3> DEFINE N == [L EXCEPT !.active = NoActive]
    <3>1. Owing(N)
      BY <1>2, TakenOwing
    <3>2. T \in LinkState /\ T.queue = N.queue /\ T.active = N.active /\ T.inFlight = N.inFlight
      BY <1>0, NoActiveType DEF LinkState
    <3> HIDE DEF N, T
    <3> QED
      BY <3>1, <3>2, OwingUnlessUploads
  <2>5. Mute(L, T)
    <3> HIDE DEF T
    <3> QED
      BY <2>3, MuteSame
  <2> HIDE DEF T, u, none
  <2>6. CASE none
    BY <2>1, <2>2, <2>4, <2>5, <2>6, DeclineMute, MuteTransitive
  <2>7. CASE ~none
    <3>1. slice \in Payload /\ Len(slice) \in Nat
      BY <2>1, <2>7, SlicePayload DEF none
    <3> HIDE DEF slice
    <3>2. T.granted \in Nat /\ T.refunded \in Nat
      BY <2>4 DEF LinkState
    <3>3. given \in Nat
      BY <3>1, <3>2
    <3> HIDE DEF given
    <3>4. /\ G \in LinkState /\ G.queue = T.queue /\ G.active = T.active /\ G.inFlight = T.inFlight
          /\ G.wire = T.wire /\ G.refunded = T.refunded
      BY <2>4, <3>3 DEF LinkState
    <3> HIDE DEF G
    <3>5. Owing(G) /\ Mute(L, G)
      BY <2>4, <2>5, <3>4, OwingUnlessUploads, MuteSame, MuteTransitive
    <3>6. Mute(L, FinishUpload(SendText(B, NoneFrame(u.id))))
      <4>1. back \in Nat
        BY <3>1, <3>2, <3>4
      <4> HIDE DEF back
      <4>2. B \in LinkState /\ B.wire = G.wire
        BY <3>4, <4>1 DEF LinkState
      <4> HIDE DEF B
      <4>3. Mute(G, B) /\ Mute(B, FinishUpload(SendText(B, NoneFrame(u.id))))
        BY <2>1, <4>2, MuteSame, DeclineMute
      <4> QED
        BY <3>5, <4>3, MuteTransitive
    <3>7. Mute(L, FinishUpload(G))
      BY <3>4, <3>5, FinishUploadMute, MuteTransitive
    <3>8. Mute(L, SendChunks(SendText(G, MetaFrame(u.id, Len(slice), u.range)), u, slice, 0, FALSE))
      <4> DEFINE frame == MetaFrame(u.id, Len(slice), u.range)
                 S == SendText(G, frame)
      <4>1. frame \in Frame /\ frame.t # "want"
        BY <2>1, <3>1 DEF MetaFrame, Frame
      <4> HIDE DEF frame
      <4>2. Owing(S) /\ Mute(G, S)
        BY <3>4, <3>5, <4>1, SendTextType, SendTextMute, OwingUnlessUploads
      <4> HIDE DEF S
      <4>3. 0 \in 0 .. Len(slice)
        BY <3>1
      <4>4. Mute(S, SendChunks(S, u, slice, 0, FALSE))
        BY <2>1, <3>1, <4>2, <4>3, SendChunksMute
      <4>5. Mute(L, SendChunks(S, u, slice, 0, FALSE))
        BY <3>5, <4>2, <4>4, MuteTransitive
      <4> QED
        BY <4>5 DEF S, frame
    <3> QED
      BY <2>2, <2>7, <3>6, <3>7, <3>8
  <2> QED
    BY <2>6, <2>7
<1> QED
  BY <1>1, <1>2

\* Reading a want makes none.
LEMMA OnWantMute ==
    ASSUME NEW L, Sound(L), NEW frame \in Frame, frame.t = "want" PROVE Mute(L, OnWant(L, frame))
<1> DEFINE u == [id |-> frame.id, key |-> frame.key, range |-> frame.range, cancelled |-> FALSE]
           f == L.inFlight + 1
           q == Append(L.queue, u)
           K == [L EXCEPT !.inFlight = f, !.queue = q]
<1>1. OnWant(L, frame) \in {Close(L, "upload-queue"), StartNext(K)}
  BY DEF OnWant
<1>2. f \in Nat /\ q \in Seq(Upload) /\ L \in LinkState
  <2>1. u \in Upload
    BY FrameFields DEF Upload
  <2> QED
    BY <2>1 DEF Sound, LinkState
<1> HIDE DEF f, q
<1>3. K \in LinkState /\ K.wire = L.wire
  BY <1>2 DEF LinkState
<1> HIDE DEF K
<1>4. Mute(L, Close(L, "upload-queue"))
  <2> DEFINE C == Close(L, "upload-queue")
  <2>1. "upload-queue" \in Reason
    BY DEF Reason
  <2>2. C.wire = L.wire
    BY <1>2, <2>1, CloseAside
  <2> HIDE DEF C
  <2>3. Mute(L, C)
    BY <2>2, MuteSame
  <2> QED
    BY <2>3 DEF C
<1> QED
  BY <1>1, <1>3, <1>4, StartNextMute, MuteSame, MuteTransitive

-----------------------------------------------------------------------------
(* The operators of the asking side.  L asks the holder of x.               *)
Seeks(L, in, x, held) == ~L.closed => Flow(L.pending, L.wire, in, x, held)

\* An exchange outlives what its asker serves.
LEMMA SeeksMute ==
    ASSUME NEW L \in LinkState, NEW M \in LinkState, NEW in, NEW x, NEW held, Seeks(L, in, x, held),
           M.pending = L.pending, L.closed => M.closed, Mute(L, M)
    PROVE  Seeks(M, in, x, held)
<1>1. L.wire \in Seq(Frame) /\ M.wire \in Seq(Frame)
  BY DEF LinkState
<1>2. Within(M.wire, L.wire, {"want"}) /\ Within(in, in, Responses)
  BY NoNewWithin, WithinSelf DEF Mute
<1> QED
  BY <1>1, <1>2, FlowWithin DEF Seeks

\* What the shell does afterwards.
LEMMA ShellSeeks ==
    ASSUME NEW L, Sound(L), NEW in, NEW x, NEW held, Seeks(L, in, x, held)
    PROVE  Seeks(Shell(L), in, x, held)
<1>1. Close(L, "serve-error").closed
  BY CloseSound, ReasonsOutcomes
<1> QED
  BY <1>1 DEF Seeks, Shell

\* Between two requests it does not matter which one was the last.
LEMMA FlowFree ==
    ASSUME NEW p, NEW out, NEW in, NEW x, NEW held, Flow(p, out, in, x, held), p.id = 0
    PROVE  Flow(NoPending, out, in, x, held)
<1>1. x.stage = "idle" /\ Silent(in) /\ NoWant(out)
  BY DEF Flow, Nothing
<1>2. NoPending.parts = None /\ NoPending.size = 0 /\ NoPending.draining = FALSE /\ NoPending.received = 0
      /\ NoPending.id = 0
  BY DEF NoPending
<1>3. DOMAIN None = {} /\ Len(None) = 0
  BY DEF None
<1>4. Nothing(NoPending, out, in, x) /\ OneWant(NoPending, out, in, x)
  BY <1>1 DEF Nothing, OneWant, NoWant
<1>5. OneUpload(NoPending, in, x, held) /\ OneResponse(NoPending, in, held)
  BY <1>1 DEF OneUpload, OneResponse, Silent, Responses
<1>6. Received(NoPending, held)
  BY <1>2, <1>3 DEF Received
<1> QED
  BY <1>4, <1>5, <1>6 DEF Flow

\* A request that ends leaves the slot free and what was sent as it was.
LEMMA FinishFrees ==
    ASSUME NEW L, IsLink(L), Busy(L), NEW bytes, NEW outcome
    PROVE  /\ Finish(L, bytes, outcome, TRUE).pending = NoPending
           /\ Finish(L, bytes, outcome, TRUE).wire = L.wire
           /\ Finish(L, bytes, outcome, TRUE).closed = L.closed
  BY DEF Finish, IsLink, LinkFields

\* The asker makes a request.
LEMMA StartRequestSeeks ==
    ASSUME NEW L \in LinkState, ~Busy(L), NEW in \in Seq(Frame), NEW x, NEW held, Seeks(L, in, x, held),
           NEW k \in Key, NEW r \in PieceRange, NEW expected \in Nat
    PROVE  Seeks(StartRequest(L, k, r, expected), in, x, held)
<1> DEFINE id == L.nextId
           next == id + 1
           p == [NoPending EXCEPT !.id = id, !.key = k, !.range = r, !.expected = expected,
                                  !.abandonReason = "request-timeout"]
           A == [L EXCEPT !.nextId = next, !.pending = p]
           frame == WantFrame(id, k, r)
           F == Finish(A, None, "send-error", TRUE)
           S == SendText(A, frame)
<1>1. StartRequest(L, k, r, expected) = IF CanSend(L) THEN S ELSE F
  BY DEF StartRequest
<1>2. id \in Nat \ {0} /\ next \in Nat \ {0} /\ L.wire \in Seq(Frame) /\ L.pending.id = 0
  BY DEF LinkState, Busy
<1> HIDE DEF id, next
<1>3. /\ p \in Pending /\ p.id = id /\ p.key = k /\ p.range = r /\ p.size = 0 /\ p.parts = None
      /\ p.received = 0 /\ p.draining = FALSE
  <2>1. p \in Pending
    BY <1>2, NoPendingType DEF Pending, Reason
  <2> QED
    BY <2>1 DEF NoPending
<1> HIDE DEF p
<1>4. A \in LinkState /\ A.pending = p /\ A.wire = L.wire /\ A.closed = L.closed /\ A.open = L.open
  BY <1>2, <1>3 DEF LinkState
<1> HIDE DEF A
<1>5. frame \in Frame /\ frame.t = "want" /\ SameAs(frame, p)
  BY <1>2, <1>3 DEF WantFrame, Frame, SameAs
<1> HIDE DEF frame
<1>6. CASE L.closed
  <2>1. S.closed /\ F.closed
    <3>1. F.closed
      BY <1>2, <1>3, <1>4, <1>6, FinishFrees, LinkStateIsLink DEF Busy
    <3>2. S.closed
      BY <1>4, <1>5, <1>6, SendTextType
    <3> QED
      BY <3>1, <3>2
  <2> QED
    BY <1>1, <2>1 DEF Seeks
<1>7. CASE ~L.closed
  <2>1. Flow(L.pending, L.wire, in, x, held)
    BY <1>7 DEF Seeks
  <2>2. Seeks(F, in, x, held)
    <3>1. F.pending = NoPending /\ F.wire = L.wire
      <4>1. IsLink(A) /\ Busy(A)
        BY <1>2, <1>3, <1>4, LinkStateIsLink DEF Busy
      <4>2. F.pending = NoPending /\ F.wire = A.wire
        BY <4>1, FinishFrees
      <4> QED
        BY <1>4, <4>2
    <3> QED
      BY <1>2, <2>1, <3>1, FlowFree DEF Seeks
  <2>3. CanSend(L) => Seeks(S, in, x, held)
    <3>1. Flow(p, Append(L.wire, frame), in, x, held)
      BY <1>2, <1>3, <1>5, <2>1, FlowStart
    <3>2. CanSend(L) => S.wire = Append(L.wire, frame) /\ S.pending = p
      BY <1>4 DEF SendText, LinkState, CanSend
    <3> QED
      BY <3>1, <3>2 DEF Seeks
  <2> QED
    BY <1>1, <2>2, <2>3
<1> QED
  BY <1>6, <1>7

\* A request that is given up closes the link or leaves the flow as it is.
LEMMA AbandonSeeks ==
    ASSUME NEW L, Sound(L), NEW in, NEW x, NEW held, Seeks(L, in, x, held),
           NEW reason \in Reason, NEW outcome \in Outcome
    PROVE  Seeks(Abandon(L, reason, outcome), in, x, held)
<1> DEFINE p == L.pending
           F == Finish(L, None, outcome, FALSE)
           freed == Close(F, reason)
           g == Append(freed.reported, [id |-> p.id, outcome |-> outcome])
           gone == [freed EXCEPT !.reported = g]
           s == Append(L.resolved, [id |-> p.id, bytes |-> None])
           t == Append(L.reported, [id |-> p.id, outcome |-> outcome])
           c == CanSend(L)
           q == [p EXCEPT !.draining = TRUE, !.parts = None, !.abandonReason = reason,
                          !.resolved = TRUE, !.reported = TRUE, !.cancelled = c]
           quit == [L EXCEPT !.resolved = s, !.reported = t, !.pending = q]
           frame == CancelFrame(p.id)
           S == SendText(quit, frame)
<1>0. L \in LinkState
  BY DEF Sound
<1>1. Abandon(L, reason, outcome) = IF ~(Reliable /\ L.open) THEN gone ELSE S
  BY DEF Abandon
<1>2. p \in Pending /\ p.id \in Nat
  BY <1>0 DEF LinkState, Pending
<1>3. gone.closed
  <2>1. Sound(F)
    BY NonePayload, FinishSound
  <2> HIDE DEF F
  <2>2. IsLink(freed) /\ freed.closed
    BY <2>1, CloseSound, LinkStateIsLink DEF Sound
  <2> HIDE DEF freed, g
  <2> QED
    BY <2>2 DEF IsLink, LinkFields
<1>4. Seeks(S, in, x, held)
  <2>1. s \in Seq([id : Nat, bytes : Payload]) /\ t \in Seq([id : Nat, outcome : Outcome])
    BY <1>0, <1>2, NonePayload DEF LinkState
  <2>2. q \in Pending
    BY <1>0, <1>2, NonePayload DEF Pending, CanSend, LinkState
  <2>3. /\ q.id = p.id /\ q.key = p.key /\ q.range = p.range /\ q.size = p.size
        /\ q.expected = p.expected /\ q.parts = None /\ q.draining
    BY <1>2 DEF Pending
  <2> HIDE DEF s, t, q
  <2>4. quit \in LinkState /\ quit.wire = L.wire /\ quit.pending = q /\ quit.closed = L.closed
    BY <1>0, <2>1, <2>2 DEF LinkState
  <2> HIDE DEF quit
  <2>5. Seeks(quit, in, x, held)
    BY <2>3, <2>4, FlowQuit DEF Seeks
  <2>6. frame \in Frame /\ frame.t # "want"
    BY <1>2 DEF CancelFrame, Frame
  <2> HIDE DEF frame
  <2>7. S \in LinkState /\ Mute(quit, S) /\ S.closed = quit.closed
    BY <2>4, <2>6, SendTextMute, SendTextType
  <2>8. S.pending = quit.pending
    BY <2>4 DEF SendText, LinkState
  <2> HIDE DEF S
  <2> QED
    BY <2>4, <2>5, <2>7, <2>8, SeeksMute
<1> HIDE DEF gone, S
<1> QED
  BY <1>1, <1>3, <1>4 DEF Seeks

\* It gives the request up.
LEMMA AbortSeeks ==
    ASSUME NEW L, Sound(L), NEW in, NEW x, NEW held, Seeks(L, in, x, held), NEW outcome \in Outcome
    PROVE  Seeks(Abort(L, outcome), in, x, held)
  BY AbandonSeeks DEF Abort, Reason

\* It closes.
LEMMA CloseSeeks ==
    ASSUME NEW L, Sound(L), NEW in, NEW x, NEW held, NEW reason \in Reason
    PROVE  Seeks(Close(L, reason), in, x, held)
  BY CloseSound DEF Seeks

\* Its timer fires.
LEMMA RequestTimeoutSeeks ==
    ASSUME NEW L, Sound(L), NEW in, NEW x, NEW held, Seeks(L, in, x, held)
    PROVE  Seeks(RequestTimeout(L), in, x, held)
<1>1. L.pending.abandonReason \in Reason
  BY DEF Sound, LinkState, Pending
<1>2. Seeks(Close(L, L.pending.abandonReason), in, x, held)
  BY <1>1, CloseSeeks
<1>3. Seeks(Abandon(L, "request-timeout", "timeout"), in, x, held)
  BY AbandonSeeks DEF Reason, Outcome
<1> QED
  BY <1>2, <1>3 DEF RequestTimeout

\* The first frame sent to it is read.
LEMMA TailSeeks ==
    ASSUME NEW L \in LinkState, NEW in \in Seq(Frame), in # <<>>, NEW x, NEW held, Seeks(L, in, x, held)
    PROVE  Seeks(L, Tail(in), x, held)
<1>1. L.wire \in Seq(Frame)
  BY DEF LinkState
<1>2. Tail(in) \in Seq(Frame) /\ Within(Tail(in), in, Responses) /\ Within(L.wire, L.wire, {"want"})
  BY WithinTail, WithinSelf
<1> QED
  BY <1>1, <1>2, FlowWithin DEF Seeks

\* A response is read: what its frames say of the request is true of it.
LEMMA ResponseSeeks ==
    ASSUME NEW L, Sound(L), ~L.closed, NEW in \in Seq(Frame), in # <<>>, Head(in).t \in Responses,
           NEW x \in Active, NEW held \in [Key -> Nat], Seeks(L, in, x, held)
    PROVE  Seeks(Handle(L, Head(in)), Tail(in), x, held)
<1> DEFINE frame == Head(in)
           p == L.pending
<1>0. L \in LinkState /\ IsLink(L) /\ p \in Pending /\ L.wire \in Seq(Frame) /\ frame \in Frame
      /\ "protocol" \in Reason
  BY HeadTail, LinkStateIsLink, ReasonsOutcomes DEF Sound, LinkState
<1>1. Flow(p, L.wire, in, x, held)
  BY DEF Seeks
<1>2. Seeks(L, Tail(in), x, held) /\ Seeks(Close(L, "protocol"), Tail(in), x, held)
  BY <1>0, TailSeeks, CloseSeeks
<1>3. Seeks(Misnamed(L), Tail(in), x, held)
  BY <1>2 DEF Misnamed
<1>4. ASSUME NEW q, Flow(q, L.wire, Tail(in), x, held)
      PROVE  Seeks([L EXCEPT !.pending = q], Tail(in), x, held)
  <2> DEFINE N == [L EXCEPT !.pending = q]
  <2>1. N.wire = L.wire /\ N.pending = q
    BY <1>0 DEF IsLink, LinkFields
  <2> HIDE DEF N
  <2>2. Seeks(N, Tail(in), x, held)
    BY <1>4, <2>1 DEF Seeks
  <2> QED
    BY <2>2 DEF N
<1>5. CASE frame.t = "meta"
  <2> DEFINE size == frame.size
             q == [p EXCEPT !.size = size]
  <2>1. Handle(L, frame) = OnMeta(L, frame)
    BY <1>5 DEF Handle, HandleText
  <2>2. [L EXCEPT !.pending.size = frame.size] = [L EXCEPT !.pending = q]
    OBVIOUS
  <2>3. /\ q.id = p.id /\ q.key = p.key /\ q.range = p.range /\ q.size = size
        /\ q.expected = p.expected /\ q.parts = p.parts /\ q.received = p.received /\ q.draining = p.draining
    <3> HIDE DEF size
    <3> QED
      BY <1>0 DEF Pending
  <2>4. CASE p.expected # 0 /\ size # p.expected
    BY <1>2, <1>3, <2>1, <2>4 DEF OnMeta
  <2>5. CASE ~(p.expected # 0 /\ size # p.expected)
    <3>1. Flow(q, L.wire, Tail(in), x, held)
      <4> HIDE DEF q
      <4> QED
        BY <1>0, <1>1, <1>5, <2>3, <2>5, FlowSized
    <3> HIDE DEF q
    <3>2. Seeks([L EXCEPT !.pending = q], Tail(in), x, held)
      BY <1>4, <3>1
    <3> QED
      BY <1>2, <1>3, <2>1, <2>2, <3>2 DEF OnMeta
  <2> QED
    BY <2>4, <2>5
<1>6. ASSUME frame.t \in {"eof", "none"}, NEW bytes, NEW outcome
      PROVE  Seeks(Finish(L, bytes, outcome, TRUE), Tail(in), x, held)
  <2> DEFINE N == Finish(L, bytes, outcome, TRUE)
  <2>1. p.id # 0 /\ Flow(NoPending, L.wire, Tail(in), x, held)
    BY <1>0, <1>1, <1>6, FlowEnd
  <2>2. Busy(L)
    BY <2>1 DEF Busy
  <2>3. N.pending = NoPending /\ N.wire = L.wire
    BY <1>0, <2>2, FinishFrees
  <2> HIDE DEF N
  <2>4. Seeks(N, Tail(in), x, held)
    BY <2>1, <2>3 DEF Seeks
  <2> QED
    BY <2>4 DEF N
<1>7. CASE frame.t = "eof"
  <2>1. Handle(L, frame) = OnEof(L, frame)
    BY <1>7 DEF Handle, HandleText
  <2> QED
    BY <1>2, <1>3, <1>6, <1>7, <2>1 DEF OnEof
<1>8. CASE frame.t = "none"
  <2>1. Handle(L, frame) = OnNone(L, frame)
    BY <1>8 DEF Handle, HandleText
  <2> QED
    BY <1>2, <1>3, <1>6, <1>8, <2>1 DEF OnNone
<1>9. CASE frame.t = "chunk"
  <2> DEFINE r == p.received + 1
             parts == Append(p.parts, frame.chunk)
             a == [p EXCEPT !.received = r]
             b == [p EXCEPT !.received = r, !.parts = parts]
             P == [L EXCEPT !.pending = a]
  <2>1. Handle(L, frame) = HandleBinary(L, frame)
    BY <1>9 DEF Handle
  <2>2. [L EXCEPT !.pending.received = r] = P
        /\ [L EXCEPT !.pending.received = r, !.pending.parts = parts] = [L EXCEPT !.pending = b]
    BY <1>0 DEF IsLink, LinkFields
  <2>3. HandleBinary(L, frame) =
          IF L.closed \/ ~Busy(L) THEN L
          ELSE IF p.size = 0 THEN Close(L, "protocol")
          ELSE IF r > p.size THEN Close(P, "protocol")
          ELSE IF p.draining THEN P ELSE [L EXCEPT !.pending = b]
    BY <2>2 DEF HandleBinary
  <2>4. /\ a.id = p.id /\ a.key = p.key /\ a.range = p.range /\ a.size = p.size
        /\ a.expected = p.expected /\ a.parts = p.parts /\ a.draining = p.draining
        /\ b.id = p.id /\ b.key = p.key /\ b.range = p.range /\ b.size = p.size
        /\ b.expected = p.expected /\ b.parts = parts /\ b.received = r /\ b.draining = p.draining
    <3> HIDE DEF r, parts
    <3> QED
      BY <1>0 DEF Pending
  <2>5. Close(P, "protocol").closed
    <3>1. r \in Nat
      BY <1>0 DEF Pending
    <3> HIDE DEF r
    <3>2. a \in Pending
      BY <1>0, <3>1 DEF Pending
    <3> HIDE DEF a
    <3>3. P \in LinkState /\ P.queue = L.queue /\ P.active = L.active /\ P.inFlight = L.inFlight
      BY <1>0, <3>2 DEF LinkState
    <3> HIDE DEF P
    <3>4. Sound(P)
      BY <3>3 DEF Sound, Uploads
    <3> QED
      BY <1>0, <3>4, CloseSound
  <2> HIDE DEF a, b
  <2>6. p.draining => Seeks(P, Tail(in), x, held)
    <3>1. p.draining => Flow(a, L.wire, Tail(in), x, held)
      BY <1>0, <1>1, <2>4, FlowCounted
    <3> QED
      BY <1>4, <3>1
  <2>7. ~p.draining => Seeks([L EXCEPT !.pending = b], Tail(in), x, held)
    <3>1. ~p.draining => Flow(b, L.wire, Tail(in), x, held)
      BY <1>0, <1>1, <1>9, <2>4, FlowKept
    <3> QED
      BY <1>4, <3>1
  <2>8. Seeks(Close(P, "protocol"), Tail(in), x, held)
    BY <2>5 DEF Seeks
  <2> HIDE DEF P
  <2> QED
    BY <1>2, <2>1, <2>3, <2>6, <2>7, <2>8
<1> QED
  BY <1>5, <1>7, <1>8, <1>9 DEF Responses

-----------------------------------------------------------------------------
(* What an open link waits for is what it asked for.                        *)
SameQuestion(p, q) == q.id = p.id /\ q.key = p.key /\ q.range = p.range /\ q.expected = p.expected
Recalls(L, M) == ~M.closed /\ Busy(M) => SameQuestion(L.pending, M.pending)

LEMMA RecallsSame == ASSUME NEW L, NEW M, M.pending = L.pending PROVE Recalls(L, M)
  BY DEF Recalls, SameQuestion

LEMMA ShellRecalls ==
    ASSUME NEW L, NEW M, Sound(M), Recalls(L, M) PROVE Recalls(L, Shell(M))
<1>1. Close(M, "serve-error").closed
  BY CloseSound, ReasonsOutcomes
<1> QED
  BY <1>1 DEF Recalls, Shell

LEMMA AbandonRecalls ==
    ASSUME NEW L, Sound(L), NEW reason \in Reason, NEW outcome \in Outcome
    PROVE  Recalls(L, Abandon(L, reason, outcome))
<1> DEFINE p == L.pending
           F == Finish(L, None, outcome, FALSE)
           freed == Close(F, reason)
           g == Append(freed.reported, [id |-> p.id, outcome |-> outcome])
           gone == [freed EXCEPT !.reported = g]
           s == Append(L.resolved, [id |-> p.id, bytes |-> None])
           t == Append(L.reported, [id |-> p.id, outcome |-> outcome])
           c == CanSend(L)
           q == [p EXCEPT !.draining = TRUE, !.parts = None, !.abandonReason = reason,
                          !.resolved = TRUE, !.reported = TRUE, !.cancelled = c]
           quit == [L EXCEPT !.resolved = s, !.reported = t, !.pending = q]
           S == SendText(quit, CancelFrame(p.id))
<1>0. L \in LinkState /\ IsLink(L) /\ p \in Pending
  BY LinkStateIsLink DEF Sound, LinkState
<1>1. Abandon(L, reason, outcome) = IF ~(Reliable /\ L.open) THEN gone ELSE S
  BY DEF Abandon
<1>3. gone.closed
  <2>1. Sound(F)
    BY NonePayload, FinishSound
  <2> HIDE DEF F
  <2>2. IsLink(freed) /\ freed.closed
    BY <2>1, CloseSound, LinkStateIsLink DEF Sound
  <2> HIDE DEF freed, g
  <2> QED
    BY <2>2 DEF IsLink, LinkFields
<1>4. S.pending = q
  <2> HIDE DEF s, t, q
  <2>1. IsLink(quit) /\ quit.pending = q
    BY <1>0 DEF IsLink, LinkFields
  <2> HIDE DEF quit
  <2> QED
    BY <2>1, SendTextUntouched DEF Untouched, Unasked
<1>5. SameQuestion(p, q)
  BY <1>0 DEF Pending, SameQuestion
<1> HIDE DEF gone, S, q, p
<1> QED
  BY <1>1, <1>3, <1>4, <1>5 DEF Recalls, p

LEMMA AbortRecalls ==
    ASSUME NEW L, Sound(L), NEW outcome \in Outcome PROVE Recalls(L, Abort(L, outcome))
  BY AbandonRecalls, RecallsSame DEF Abort, Reason

LEMMA RequestTimeoutRecalls ==
    ASSUME NEW L, Sound(L) PROVE Recalls(L, RequestTimeout(L))
<1>1. Close(L, L.pending.abandonReason).closed
  BY CloseSound DEF Sound, LinkState, Pending
<1>2. Recalls(L, Abandon(L, "request-timeout", "timeout"))
  BY AbandonRecalls DEF Reason, Outcome
<1> QED
  BY <1>1, <1>2 DEF RequestTimeout, Recalls

LEMMA ResponseRecalls ==
    ASSUME NEW L, Sound(L), NEW frame \in Frame, frame.t \in Responses
    PROVE  Recalls(L, Handle(L, frame))
<1>0. L \in LinkState /\ IsLink(L) /\ L.pending \in Pending /\ "protocol" \in Reason
  BY LinkStateIsLink, ReasonsOutcomes DEF Sound, LinkState
<1>1. Recalls(L, L) /\ Recalls(L, Close(L, "protocol"))
  BY <1>0, CloseSound, RecallsSame DEF Recalls
<1>2. Recalls(L, Misnamed(L))
  BY <1>1 DEF Misnamed
<1>3. \A bytes, outcome : Recalls(L, Finish(L, bytes, outcome, TRUE))
  <2> SUFFICES ASSUME NEW bytes, NEW outcome PROVE Recalls(L, Finish(L, bytes, outcome, TRUE))
    OBVIOUS
  <2>1. NoPending.id = 0
    BY DEF NoPending
  <2>2. CASE Busy(L)
    BY <1>0, <2>1, <2>2, FinishFrees DEF Recalls, Busy
  <2>3. CASE ~Busy(L)
    BY <1>1, <2>3 DEF Finish
  <2> QED
    BY <2>2, <2>3
<1>4. ASSUME NEW q, SameQuestion(L.pending, q) PROVE Recalls(L, [L EXCEPT !.pending = q])
  <2> DEFINE N == [L EXCEPT !.pending = q]
  <2>1. N.pending = q
    BY <1>0 DEF IsLink, LinkFields
  <2> HIDE DEF N
  <2>2. Recalls(L, N)
    BY <1>4, <2>1 DEF Recalls
  <2> QED
    BY <2>2 DEF N
<1>5. CASE frame.t = "meta"
  <2> DEFINE q == [L.pending EXCEPT !.size = frame.size]
  <2>1. [L EXCEPT !.pending.size = frame.size] = [L EXCEPT !.pending = q]
    OBVIOUS
  <2>2. Handle(L, frame) \in {L, OnMeta(L, frame)}
    BY <1>5 DEF Handle, HandleText
  <2>3. SameQuestion(L.pending, q)
    BY <1>0 DEF Pending, SameQuestion
  <2> QED
    BY <1>1, <1>2, <1>4, <2>1, <2>2, <2>3 DEF OnMeta
<1>6. CASE frame.t = "eof"
  <2>2. Handle(L, frame) \in {L, OnEof(L, frame)}
    BY <1>6 DEF Handle, HandleText
  <2> QED
    BY <1>1, <1>2, <1>3, <2>2 DEF OnEof
<1>7. CASE frame.t = "none"
  <2>2. Handle(L, frame) \in {L, OnNone(L, frame)}
    BY <1>7 DEF Handle, HandleText
  <2> QED
    BY <1>1, <1>2, <1>3, <2>2 DEF OnNone
<1>8. CASE frame.t = "chunk"
  <2> DEFINE r == L.pending.received + 1
             parts == Append(L.pending.parts, frame.chunk)
             a == [L.pending EXCEPT !.received = r]
             b == [L.pending EXCEPT !.received = r, !.parts = parts]
             P == [L EXCEPT !.pending = a]
  <2>1. [L EXCEPT !.pending.received = r] = P
        /\ [L EXCEPT !.pending.received = r, !.pending.parts = parts] = [L EXCEPT !.pending = b]
    BY <1>0 DEF IsLink, LinkFields
  <2>2. Handle(L, frame) = HandleBinary(L, frame)
    BY <1>8 DEF Handle
  <2>3. SameQuestion(L.pending, a) /\ SameQuestion(L.pending, b)
    <3> HIDE DEF r, parts
    <3> QED
      BY <1>0 DEF Pending, SameQuestion
  <2>4. Recalls(L, Close(P, "protocol"))
    <3>1. r \in Nat
      BY <1>0 DEF Pending
    <3> HIDE DEF r
    <3>2. a \in Pending
      BY <1>0, <3>1 DEF Pending
    <3> HIDE DEF a
    <3>3. P \in LinkState /\ P.queue = L.queue /\ P.active = L.active /\ P.inFlight = L.inFlight
      BY <1>0, <3>2 DEF LinkState
    <3> HIDE DEF P
    <3>4. Sound(P)
      BY <3>3 DEF Sound, Uploads
    <3> QED
      BY <1>0, <3>4, CloseSound DEF Recalls
  <2>5. HandleBinary(L, frame) \in {L, Close(L, "protocol"), Close(P, "protocol"), P, [L EXCEPT !.pending = b]}
    BY <2>1 DEF HandleBinary
  <2>6. Recalls(L, P) /\ Recalls(L, [L EXCEPT !.pending = b])
    BY <1>4, <2>3
  <2> HIDE DEF P, b
  <2> QED
    BY <1>1, <2>2, <2>4, <2>5, <2>6
<1> QED
  BY <1>5, <1>6, <1>7, <1>8 DEF Responses

\* A request is what the caller asked for, unless it failed at once.
LEMMA StartRequestRecalls ==
    ASSUME NEW L \in LinkState, NEW k, NEW r, NEW expected
    PROVE  LET M == StartRequest(L, k, r, expected) IN
           Busy(M) => /\ M.pending.id = L.nextId /\ M.pending.key = k
                      /\ M.pending.range = r /\ M.pending.expected = expected
<1> DEFINE id == L.nextId
           next == id + 1
           p == [NoPending EXCEPT !.id = id, !.key = k, !.range = r, !.expected = expected,
                                  !.abandonReason = "request-timeout"]
           A == [L EXCEPT !.nextId = next, !.pending = p]
           S == SendText(A, WantFrame(id, k, r))
           F == Finish(A, None, "send-error", TRUE)
<1>1. StartRequest(L, k, r, expected) = IF CanSend(L) THEN S ELSE F
  BY DEF StartRequest
<1>2. id # 0 /\ IsLink(L)
  BY LinkStateIsLink DEF LinkState
<1>3. p.id = id /\ p.key = k /\ p.range = r /\ p.expected = expected
  BY DEF NoPending
<1> HIDE DEF id, next, p
<1>4. IsLink(A) /\ A.pending = p
  BY <1>2 DEF IsLink, LinkFields
<1> HIDE DEF A
<1>5. S.pending = p
  BY <1>4, SendTextUntouched DEF Untouched, Unasked
<1>6. F.pending.id = 0
  <2>1. NoPending.id = 0
    BY DEF NoPending
  <2>2. Busy(A)
    BY <1>2, <1>3, <1>4 DEF Busy
  <2>3. F.pending = NoPending
    BY <1>4, <2>2, FinishFrees
  <2> QED
    BY <2>1, <2>3
<1> HIDE DEF S, F
<1> QED
  BY <1>1, <1>3, <1>5, <1>6 DEF Busy, id

-----------------------------------------------------------------------------
(* The two ends together.                                                  *)

\* What viewer n waits for is what it asked for, and what is under way
\* between it and the other viewer belongs to that.
Known(n) == Busy(link[n]) => SameQuestion(
    [id |-> link[n].pending.id, key |-> asked[n][link[n].pending.id].key,
     range |-> asked[n][link[n].pending.id].range,
     expected |-> asked[n][link[n].pending.id].expected], link[n].pending)
Exchanging(n) == Exchange(link[n], link[Other(n)], HeldSize[Other(n)])

\* The inductive invariant.
ExchangeInv == PortInv /\ \A n \in Node : Exchanging(n) /\ Known(n)

\* What a step of one end does for the other: as the one that asks, and as
\* the one that holds.
Asker(L, N) ==
    \A in \in Seq(Frame) : \A x \in Active : \A held \in [Key -> Nat] :
        Seeks(L, in, x, held) => Seeks(N, in, x, held)
Holder(L, N, held) ==
    \A p \in Pending : \A out \in Seq(Frame) : Holds(p, out, L, held) => Holds(p, out, N, held)

\* There are two viewers.
LEMMA OtherOther == ASSUME NEW n \in Node PROVE Other(Other(n)) = n
  BY OtherNode, NodeAssumption

\* A link that closed stays closed.
LEMMA StaysClosed ==
    ASSUME PortInv, [Next]_vars, NEW n \in Node, link[n].closed PROVE link'[n].closed
<1>1. Steps(n)
  BY NextSteps
<1> QED
  BY <1>1 DEF Steps, Quiet, Asking, Moves, SlotOf

\* One end changes.
LEMMA EndExchanges ==
    ASSUME ExchangeInv, [Next]_vars, NEW n \in Node, NEW N, link' = [link EXCEPT ![n] = N],
           Asker(link[n], N), Holder(link[n], N, HeldSize[n]), NEW m \in Node
    PROVE  Exchange(link'[m], link'[Other(m)], HeldSize[Other(m)])
<1> DEFINE o == Other(n)
           L == link[n]
           M == link[o]
<1>1. o \in Node /\ o # n /\ Other(o) = n
  BY OtherNode, OtherOther
<1>2. link'[n] = N /\ link'[o] = M
  BY <1>1 DEF ExchangeInv, PortInv, IInv
<1>3. L \in LinkState /\ M \in LinkState /\ HeldSize[n] \in [Key -> Nat] /\ HeldSize[o] \in [Key -> Nat]
  BY <1>1, HeldAssumption DEF ExchangeInv, PortInv, IInv
<1>4. M.wire \in Seq(Frame) /\ M.active \in Active /\ M.pending \in Pending
  BY <1>3 DEF LinkState
<1>5. L.closed => N.closed
  BY <1>2, StaysClosed DEF ExchangeInv
<1>6. Exchange(L, M, HeldSize[o]) /\ Exchange(M, L, HeldSize[n])
  BY <1>1 DEF ExchangeInv, Exchanging
<1> HIDE DEF L, M, o
<1>7. Exchange(N, M, HeldSize[o])
  <2>1. Seeks(L, M.wire, M.active, HeldSize[o])
    BY <1>6 DEF Exchange, Seeks
  <2>2. Seeks(N, M.wire, M.active, HeldSize[o])
    BY <1>3, <1>4, <2>1 DEF Asker, L
  <2> QED
    BY <1>5, <1>6, <2>2 DEF Exchange, Seeks
<1>8. Exchange(M, N, HeldSize[n])
  BY <1>3, <1>4, <1>6 DEF Exchange, Holder, Holds, L
<1>9. m \in {n, o}
  BY <1>1, NodeAssumption
<1> QED
  BY <1>1, <1>2, <1>7, <1>8, <1>9 DEF o

\* A call into the asking side, and one into the serving side.
LEMMA AskingCall ==
    ASSUME ExchangeInv, [Next]_vars, NEW n \in Node, NEW N, Sound(N), Call(n, N),
           Aside(link[n], N), Asker(link[n], N), Recalls(link[n], N), NEW m \in Node
    PROVE  Exchange(link'[m], link'[Other(m)], HeldSize[Other(m)]) /\ Recalls(link[m], link'[m])
<1> DEFINE S == Shell(N)
<1>1. link' = [link EXCEPT ![n] = S] /\ (m # n => link'[m] = link[m]) /\ link'[n] = S
  BY DEF Call, ExchangeInv, PortInv, IInv
<1>2. N \in LinkState
  BY DEF Sound
<1>3. Asker(link[n], S)
  BY ShellSeeks DEF Asker
<1>4. Holder(link[n], S, HeldSize[n])
  BY <1>2, AsideHolds, ShellHolds DEF Holder
<1>5. Recalls(link[n], S)
  BY ShellRecalls
<1> HIDE DEF S
<1> QED
  BY <1>1, <1>3, <1>4, <1>5, EndExchanges, RecallsSame

\* A call into the serving side.
LEMMA ServingCall ==
    ASSUME ExchangeInv, [Next]_vars, NEW n \in Node, NEW N, Sound(N), Call(n, N),
           N.pending = link[n].pending, link[n].closed => N.closed, Mute(link[n], N),
           Holder(link[n], N, HeldSize[n]), NEW m \in Node
    PROVE  Exchange(link'[m], link'[Other(m)], HeldSize[Other(m)]) /\ Recalls(link[m], link'[m])
<1> DEFINE S == Shell(N)
<1>1. link' = [link EXCEPT ![n] = S] /\ (m # n => link'[m] = link[m]) /\ link'[n] = S
  BY DEF Call, ExchangeInv, PortInv, IInv
<1>2. N \in LinkState /\ link[n] \in LinkState
  BY DEF Sound, ExchangeInv, PortInv, IInv
<1>3. Asker(link[n], S)
  BY <1>2, SeeksMute, ShellSeeks DEF Asker
<1>4. Holder(link[n], S, HeldSize[n])
  BY <1>2, ShellHolds DEF Holder
<1>5. Recalls(link[n], S)
  BY ShellRecalls, RecallsSame
<1> HIDE DEF S
<1> QED
  BY <1>1, <1>3, <1>4, <1>5, EndExchanges, RecallsSame

\* A call that ends with the link closed, as far as the holder goes.
LEMMA ClosingCall ==
    ASSUME ExchangeInv, [Next]_vars, NEW n \in Node, NEW N, Sound(N), Call(n, N), N.closed,
           Holder(link[n], N, HeldSize[n]), NEW m \in Node
    PROVE  Exchange(link'[m], link'[Other(m)], HeldSize[Other(m)]) /\ Recalls(link[m], link'[m])
<1>1. Shell(N) = N
  BY DEF Shell, Close
<1>2. link' = [link EXCEPT ![n] = N] /\ (m # n => link'[m] = link[m]) /\ link'[n] = N
  BY <1>1 DEF Call, ExchangeInv, PortInv, IInv
<1>3. Asker(link[n], N) /\ Recalls(link[n], N)
  BY DEF Asker, Seeks, Recalls
<1> QED
  BY <1>2, <1>3, EndExchanges, RecallsSame

\* What ExchangeInv says of one end after a step.
ExchangesOn(m) == Exchange(link'[m], link'[Other(m)], HeldSize[Other(m)]) /\ Known(m)'

\* What is waited for stays what was asked for.
LEMMA StillKnown ==
    ASSUME ExchangeInv, [Next]_vars, NEW m \in Node, asked'[m] = asked[m], Recalls(link[m], link'[m])
    PROVE  Known(m)'
<1>1. link'[m].closed => ~Busy(link'[m])
  BY NextPortInv DEF ExchangeInv, PortInv, AtRest, Ledger
<1>2. Known(m)
  BY DEF ExchangeInv
<1> QED
  BY <1>1, <1>2 DEF Known, Recalls, SameQuestion, Busy

\* A viewer makes a request.
LEMMA RequestExchanges ==
    ASSUME ExchangeInv, [Next]_vars, NEW n \in Node, Request(n), NEW m \in Node
    PROVE  ExchangesOn(m)
<1> DEFINE L == link[n]
<1>1. PICK q \in Ask[n] :
         /\ link' = [link EXCEPT ![n] = StartRequest(L, q.key, q.range, q.expected)]
         /\ asked' = [asked EXCEPT ![n] = Append(asked[n], q)]
  BY DEF Request
<1> DEFINE N == StartRequest(L, q.key, q.range, q.expected)
           Q == [key : Key, range : PieceRange, expected : Nat]
<1>2. q \in Q /\ q.key \in Key /\ q.range \in PieceRange /\ q.expected \in Nat
  BY AskAssumption
<1>3. L \in LinkState /\ ~Busy(L) /\ asked[n] \in Seq(Q) /\ Len(asked[n]) = L.nextId - 1 /\ L.nextId \in Nat \ {0}
  BY DEF ExchangeInv, PortInv, IInv, Request, LinkState
<1>4. Asker(L, N)
  BY <1>2, <1>3, StartRequestSeeks DEF Asker
<1>5. Holder(L, N, HeldSize[n])
  BY <1>2, <1>3, StartRequestAside, AsideHolds DEF Holder
<1>6. Busy(N) => /\ N.pending.id = L.nextId /\ N.pending.key = q.key
                 /\ N.pending.range = q.range /\ N.pending.expected = q.expected
  BY <1>3, StartRequestRecalls
<1> HIDE DEF N, L, Q
<1>7. Exchange(link'[m], link'[Other(m)], HeldSize[Other(m)])
  BY <1>1, <1>4, <1>5, EndExchanges DEF N, L
<1>8. CASE m = n
  <2>1. link'[n] = N /\ asked'[n] = Append(asked[n], q)
    BY <1>1 DEF ExchangeInv, PortInv, IInv, N
  <2>2. Append(asked[n], q)[L.nextId] = q
    <3>1. Append(asked[n], q)[Len(asked[n]) + 1] = q
      BY <1>2, <1>3
    <3>2. Len(asked[n]) + 1 = L.nextId
      BY <1>3
    <3> QED
      BY <3>1, <3>2
  <2>3. Known(n)'
    BY <1>6, <2>1, <2>2 DEF Known, SameQuestion
  <2> QED
    BY <1>7, <1>8, <2>3 DEF ExchangesOn
<1>9. CASE m # n
  <2>1. link'[m] = link[m] /\ asked'[m] = asked[m]
    BY <1>1, <1>9 DEF ExchangeInv, PortInv, IInv
  <2> QED
    BY <1>7, <2>1, RecallsSame, StillKnown DEF ExchangesOn
<1> QED
  BY <1>8, <1>9

\* The host's answer, whenever it comes.
LEMMA ServeExchanges ==
    ASSUME ExchangeInv, [Next]_vars, NEW n \in Node, Serve(n), NEW m \in Node
    PROVE  Exchange(link'[m], link'[Other(m)], HeldSize[Other(m)]) /\ Recalls(link[m], link'[m])
<1> DEFINE L == link[n]
           k == L.active.upload.key
<1>1. L \in LinkState /\ k \in Key /\ L.buffered \in Nat /\ Sound(L) /\ Accounted(L)
  BY DEF ExchangeInv, PortInv, IInv, AtRest, LinkState, Active, Upload
<1>2. PICK bytes \in {Object(k, HeldSize[n][k]), None}, buffered \in 0 .. L.buffered :
         Call(n, ServeResponse(L, bytes, buffered))
  BY DEF Serve
<1>3. bytes \in Payload /\ buffered \in Nat
  BY <1>1, <1>2, ObjectPayload, NonePayload
<1> DEFINE N == ServeResponse(L, bytes, buffered)
<1>4. Sound(N) /\ Serves(L, N) /\ Mute(L, N)
  BY <1>1, <1>3, ServeResponseSound, ServeResponseServes, ServeResponseMute
<1>5. Holder(L, N, HeldSize[n])
  BY <1>1, <1>2, <1>3, HeldAssumption, ServeResponseHolds DEF Holder
<1>6. Call(n, N)
  BY <1>2
<1> HIDE DEF N
<1>7. N.pending = L.pending /\ N.closed = L.closed
  BY <1>4 DEF Serves, Unasked
<1> QED
  BY <1>4, <1>5, <1>6, <1>7, ServingCall

\* The host's callback throws: the link closes, and the upload goes with it.
LEMMA ServeFailsExchanges ==
    ASSUME ExchangeInv, [Next]_vars, NEW n \in Node, ServeFails(n), NEW m \in Node
    PROVE  Exchange(link'[m], link'[Other(m)], HeldSize[Other(m)]) /\ Recalls(link[m], link'[m])
<1> DEFINE L == link[n]
           C == Close(L, "serve-error")
           N == ServeResponse(C, None, L.buffered)
<1>1. L \in LinkState /\ L.buffered \in Nat /\ Sound(L) /\ Ledger(L) /\ Accounted(L)
  BY DEF ExchangeInv, PortInv, IInv, AtRest, LinkState
<1>2. Sound(C) /\ C.closed /\ Accounted(C)
  BY <1>1, CloseSound, BreachAsks, ReasonsOutcomes DEF Asks
<1>3. Sound(N) /\ Serves(C, N)
  BY <1>1, <1>2, NonePayload, ServeResponseSound, ServeResponseServes
<1>4. N.closed
  BY <1>2, <1>3 DEF Serves, Unasked
<1>5. Holder(L, N, HeldSize[n])
  <2> SUFFICES ASSUME NEW p \in Pending, NEW out \in Seq(Frame), Holds(p, out, L, HeldSize[n])
               PROVE  Holds(p, out, N, HeldSize[n])
    BY DEF Holder
  <2>1. Holds(p, out, C, HeldSize[n])
    BY <1>1, CloseHolds, ReasonsOutcomes
  <2>2. HeldSize[n] \in [Key -> Nat]
    BY HeldAssumption
  <2> QED
    BY <1>1, <1>2, <2>1, <2>2, ServeResponseHolds
<1>6. Call(n, N)
  BY DEF ServeFails
<1> HIDE DEF N
<1> QED
  BY <1>3, <1>4, <1>5, <1>6, ClosingCall

\* What reading the first frame of w does for either side of an end.
LEMMA HandleExchanges ==
    ASSUME NEW L, Sound(L), ~L.closed, Accounted(L), NEW w \in Seq(Frame), w # <<>>
    PROVE  LET N == Handle(L, Head(w)) IN
           /\ Sound(N) /\ Recalls(L, N)
           /\ \A x \in Active : \A held \in [Key -> Nat] :
                Seeks(L, w, x, held) => Seeks(N, Tail(w), x, held)
           /\ \A p \in Pending : \A held \in [Key -> Nat] :
                Holds(p, w, L, held) => Holds(p, Tail(w), N, held)
<1> DEFINE frame == Head(w)
           N == Handle(L, frame)
<1>0. frame \in Frame /\ Tail(w) \in Seq(Frame) /\ L \in LinkState
  BY HeadTail DEF Sound
<1>1. Sound(N)
  BY <1>0, HandleSound
<1>2. CASE frame.t \in Responses
  <2>1. Recalls(L, N) /\ Aside(L, N)
    BY <1>0, <1>2, ResponseRecalls, ResponseAside
  <2>2. \A x \in Active : \A held \in [Key -> Nat] :
          Seeks(L, w, x, held) => Seeks(N, Tail(w), x, held)
    BY <1>2, ResponseSeeks
  <2> HIDE DEF N
  <2>3. \A p \in Pending : \A held \in [Key -> Nat] :
          Holds(p, w, L, held) => Holds(p, Tail(w), N, held)
    BY <1>0, <2>1, TailHolds, AsideHolds
  <2> QED
    BY <1>1, <2>1, <2>2, <2>3 DEF N
<1>3. ASSUME frame.t \in {"want", "cancel"}, N.closed \/ N.pending = L.pending, Mute(L, N),
             \A p \in Pending : \A held \in [Key -> Nat] :
                Holds(p, w, L, held) => Holds(p, Tail(w), N, held)
      PROVE  /\ Sound(N) /\ Recalls(L, N)
             /\ \A x \in Active : \A held \in [Key -> Nat] :
                  Seeks(L, w, x, held) => Seeks(N, Tail(w), x, held)
             /\ \A p \in Pending : \A held \in [Key -> Nat] :
                  Holds(p, w, L, held) => Holds(p, Tail(w), N, held)
  <2> HIDE DEF N
  <2>1. Recalls(L, N)
    BY <1>3, RecallsSame DEF Recalls
  <2>2. ASSUME NEW x \in Active, NEW held \in [Key -> Nat], Seeks(L, w, x, held)
        PROVE  Seeks(N, Tail(w), x, held)
    <3>1. CASE N.closed
      BY <3>1 DEF Seeks
    <3>2. CASE ~N.closed
      <4>1. N \in LinkState /\ N.pending = L.pending
        BY <1>1, <1>3, <3>2 DEF Sound
      <4> QED
        BY <1>0, <1>3, <2>2, <4>1, TailSeeks, SeeksMute
    <3> QED
      BY <3>1, <3>2
  <2> QED
    BY <1>1, <1>3, <2>1, <2>2
<1>4. CASE frame.t = "want"
  <2>1. N = OnWant(L, frame)
    BY <1>4 DEF Handle, HandleText
  <2>2. Mute(L, N)
    BY <1>0, <1>4, <2>1, OnWantMute
  <2>3. N.closed \/ N.pending = L.pending
    <3> DEFINE f == L.inFlight + 1
               q == Append(L.queue, [id |-> frame.id, key |-> frame.key,
                                     range |-> frame.range, cancelled |-> FALSE])
               K == [L EXCEPT !.inFlight = f, !.queue = q]
    <3>1. N \in {Close(L, "upload-queue"), StartNext(K)}
      BY <2>1 DEF OnWant
    <3>2. Close(L, "upload-queue").closed
      BY CloseSound DEF Reason
    <3> HIDE DEF f, q, N
    <3>3. IsLink(K) /\ K.pending = L.pending
      BY <1>0, LinkStateIsLink DEF IsLink, LinkFields
    <3> HIDE DEF K
    <3>4. StartNext(K).pending = L.pending
      BY <3>3, StartNextUntouched DEF Untouched, Unasked
    <3> QED
      BY <3>1, <3>2, <3>4
  <2>4. \A p \in Pending : \A held \in [Key -> Nat] :
          Holds(p, w, L, held) => Holds(p, Tail(w), N, held)
    BY <1>4, <2>1, OnWantHolds
  <2> QED
    BY <1>3, <1>4, <2>2, <2>3, <2>4
<1>5. CASE frame.t = "cancel"
  <2>1. N = OnCancel(L, frame)
    BY <1>5 DEF Handle, HandleText
  <2>2. Mute(L, N) /\ Serves(L, N)
    BY <1>0, <1>5, <2>1, OnCancelMute, OnCancelServes
  <2>3. N.pending = L.pending
    BY <2>2 DEF Serves, Unasked
  <2>4. \A p \in Pending : \A held \in [Key -> Nat] :
          Holds(p, w, L, held) => Holds(p, Tail(w), N, held)
    BY <1>0, <2>1, TailHolds, OnCancelHolds
  <2> QED
    BY <1>3, <1>5, <2>2, <2>3, <2>4
<1>6. frame.t \in Responses \/ frame.t = "want" \/ frame.t = "cancel"
  BY <1>0, FrameFields DEF Responses
<1> QED
  BY <1>2, <1>4, <1>5, <1>6

\* A viewer reads a frame: it leaves the exchange on one side and counts on the other.
LEMMA ReceiveExchanges ==
    ASSUME ExchangeInv, [Next]_vars, NEW n \in Node, Receive(n), NEW m \in Node
    PROVE  Exchange(link'[m], link'[Other(m)], HeldSize[Other(m)]) /\ Recalls(link[m], link'[m])
<1> DEFINE o == Other(n)
           L == link[n]
           M == link[o]
           w == M.wire
           N == Handle(L, Head(w))
           S == Shell(N)
           T == Tail(w)
           R == [M EXCEPT !.wire = T]
<1>1. o \in Node /\ o # n /\ Other(o) = n
  BY OtherNode, OtherOther
<1>2. /\ Sound(L) /\ L \in LinkState /\ Accounted(L) /\ ~L.closed /\ M \in LinkState
      /\ HeldSize[n] \in [Key -> Nat] /\ HeldSize[o] \in [Key -> Nat]
  BY <1>1, HeldAssumption DEF ExchangeInv, PortInv, IInv, AtRest, Receive
<1>3. w \in Seq(Frame) /\ w # <<>> /\ M.active \in Active /\ M.pending \in Pending
  BY <1>2 DEF Receive, LinkState
<1>4. link' = [link EXCEPT ![n] = S, ![o] = R] /\ asked' = asked
  BY <1>1 DEF Receive, ExchangeInv, PortInv, IInv
<1>5. link'[n] = S /\ link'[o] = R
  <2> HIDE DEF S, R, o
  <2> QED
    BY <1>1, <1>4 DEF ExchangeInv, PortInv, IInv
<1>6. R.wire = T /\ R.active = M.active /\ R.pending = M.pending /\ R.queue = M.queue /\ R.closed = M.closed
  <2> HIDE DEF M, T
  <2> QED
    BY <1>2 DEF LinkState
<1>7. /\ Sound(N) /\ Recalls(L, N)
      /\ \A x \in Active : \A held \in [Key -> Nat] : Seeks(L, w, x, held) => Seeks(N, T, x, held)
      /\ \A p \in Pending : \A held \in [Key -> Nat] : Holds(p, w, L, held) => Holds(p, T, N, held)
  <2> HIDE DEF L, w
  <2> QED
    BY <1>2, <1>3, HandleExchanges
<1>8. Exchange(L, M, HeldSize[o]) /\ Exchange(M, L, HeldSize[n])
  BY <1>1 DEF ExchangeInv, Exchanging
<1> HIDE DEF N, L, R, T, w, M
<1>9. Exchange(S, R, HeldSize[o])
  <2>1. Seeks(L, w, M.active, HeldSize[o]) /\ M.queue = <<>>
    BY <1>2, <1>8 DEF Exchange, Seeks, w
  <2>2. Seeks(S, T, M.active, HeldSize[o])
    BY <1>2, <1>3, <1>7, <2>1, ShellSeeks
  <2> HIDE DEF S
  <2> QED
    BY <1>6, <2>1, <2>2 DEF Exchange, Seeks
<1>10. Exchange(R, S, HeldSize[n])
  <2>1. CASE M.closed
    BY <1>6, <2>1 DEF Exchange
  <2>2. CASE ~M.closed
    <3>1. Holds(M.pending, w, L, HeldSize[n])
      BY <1>8, <2>2 DEF Exchange, Holds, w
    <3>2. Holds(M.pending, T, S, HeldSize[n])
      BY <1>2, <1>3, <1>7, <3>1, ShellHolds DEF Sound
    <3> HIDE DEF S
    <3> QED
      BY <1>6, <3>2 DEF Exchange, Holds
  <2> QED
    BY <2>1, <2>2
<1>11. Recalls(L, S) /\ Recalls(M, R)
  BY <1>6, <1>7, ShellRecalls, RecallsSame
<1>12. m \in {n, o}
  BY <1>1, NodeAssumption
<1> HIDE DEF S
<1> QED
  BY <1>1, <1>5, <1>9, <1>10, <1>11, <1>12 DEF o, L, M

\* The network loses a frame, or the channel of one end goes down.
LEMMA WireExchanges ==
    ASSUME ExchangeInv, [Next]_vars, NEW n \in Node, NEW w \in Seq(Frame), NEW open,
           Within(w, link[n].wire, {"want"}), Within(w, link[n].wire, Responses),
           link' = [link EXCEPT ![n] = [link[n] EXCEPT !.wire = w, !.open = open]], NEW m \in Node
    PROVE  Exchange(link'[m], link'[Other(m)], HeldSize[Other(m)]) /\ Recalls(link[m], link'[m])
<1> DEFINE L == link[n]
           N == [L EXCEPT !.wire = w, !.open = open]
<1>1. L \in LinkState /\ IsLink(L) /\ L.wire \in Seq(Frame)
  BY LinkStateIsLink DEF ExchangeInv, PortInv, IInv, LinkState
<1>2. N.wire = w /\ N.pending = L.pending /\ N.queue = L.queue /\ N.active = L.active /\ N.closed = L.closed
  BY <1>1 DEF IsLink, LinkFields
<1>3. link' = [link EXCEPT ![n] = N] /\ (m # n => link'[m] = link[m]) /\ link'[n] = N
  <2> HIDE DEF N
  <2> QED
    BY DEF ExchangeInv, PortInv, IInv, N
<1> HIDE DEF N
<1>4. Asker(L, N)
  <2> SUFFICES ASSUME NEW in \in Seq(Frame), NEW x \in Active, NEW held \in [Key -> Nat], Seeks(L, in, x, held)
               PROVE  Seeks(N, in, x, held)
    BY DEF Asker
  <2> QED
    BY <1>1, <1>2, WithinSelf, FlowWithin DEF Seeks
<1>5. Holder(L, N, HeldSize[n])
  <2> SUFFICES ASSUME NEW p \in Pending, NEW out \in Seq(Frame), Holds(p, out, L, HeldSize[n])
               PROVE  Holds(p, out, N, HeldSize[n])
    BY DEF Holder
  <2> QED
    BY <1>2, WithinSelf, FlowWithin DEF Holds
<1>6. Recalls(L, N)
  BY <1>2, RecallsSame
<1> QED
  BY <1>3, <1>4, <1>5, <1>6, EndExchanges, RecallsSame

\* An end that closes asks for nothing more.
LEMMA AskersClose ==
    ASSUME NEW L, Sound(L), NEW reason \in Reason
    PROVE  /\ Sound(Close(L, reason)) /\ Aside(L, Close(L, reason))
           /\ Asker(L, Close(L, reason)) /\ Recalls(L, Close(L, reason))
<1>1. Sound(Close(L, reason)) /\ Close(L, reason).closed /\ L \in LinkState
  BY CloseSound DEF Sound
<1> QED
  BY <1>1, CloseIsAside DEF Asker, Seeks, Recalls

\* Every step keeps the exchanges as they were.
LEMMA NextExchanges ==
    ASSUME ExchangeInv, [Next]_vars, NEW m \in Node
    PROVE  ExchangesOn(m)
<1> DEFINE Keeps == Exchange(link'[m], link'[Other(m)], HeldSize[Other(m)]) /\ Recalls(link[m], link'[m])
<1>0. ASSUME NEW n \in Node
      PROVE  Sound(link[n]) /\ Accounted(link[n]) /\ HeldSize[n] \in [Key -> Nat]
  BY HeldAssumption DEF ExchangeInv, PortInv, IInv, AtRest
<1>1. CASE UNCHANGED vars
  <2>1. Exchanging(m) /\ Known(m)
    BY DEF ExchangeInv
  <2>2. link' = link /\ asked' = asked
    BY <1>1 DEF vars
  <2> QED
    BY <2>1, <2>2 DEF ExchangesOn, Exchanging, Known
<1>2. ASSUME NEW n \in Node, Request(n) PROVE ExchangesOn(m)
  BY <1>2, RequestExchanges
<1>3. ASSUME NEW n \in Node, AbortRequest(n) PROVE Keeps
  <2>1. PICK outcome \in {"abort", "abandoned"} : Call(n, Abort(link[n], outcome))
    BY <1>3 DEF AbortRequest
  <2>2. outcome \in Outcome
    BY DEF Outcome
  <2> DEFINE N == Abort(link[n], outcome)
  <2>3. Sound(N) /\ Aside(link[n], N) /\ Asker(link[n], N) /\ Recalls(link[n], N)
    BY <1>0, <2>2, AbortSound, AbortAside, AbortSeeks, AbortRecalls DEF Asker
  <2>4. Call(n, N)
    BY <2>1
  <2> HIDE DEF N
  <2> QED
    BY <2>3, <2>4, AskingCall
<1>4. ASSUME NEW n \in Node, Serve(n) PROVE Keeps
  BY <1>4, ServeExchanges
<1>5. ASSUME NEW n \in Node, ServeFails(n) PROVE Keeps
  BY <1>5, ServeFailsExchanges
<1>6. ASSUME NEW n \in Node, NEW reason \in Reason, Call(n, Close(link[n], reason)) PROVE Keeps
  BY <1>0, <1>6, AskersClose, AskingCall
<1>7. ASSUME NEW n \in Node, FireRequestTimer(n) PROVE Keeps
  <2> DEFINE N == RequestTimeout(link[n])
  <2>1. Sound(N) /\ Aside(link[n], N) /\ Asker(link[n], N) /\ Recalls(link[n], N)
    BY <1>0, RequestTimeoutSound, RequestTimeoutAside, RequestTimeoutSeeks, RequestTimeoutRecalls DEF Asker
  <2>2. Call(n, N)
    BY <1>7 DEF FireRequestTimer
  <2> HIDE DEF N
  <2> QED
    BY <2>1, <2>2, AskingCall
<1>8. ASSUME NEW n \in Node, FireUploadTimer(n) PROVE Keeps
  <2> DEFINE N == UploadTimeout(link[n])
  <2>1. Ledger(link[n]) /\ link[n].active.stage = "draining"
    BY <1>8 DEF ExchangeInv, PortInv, AtRest, FireUploadTimer
  <2>2. Sound(N) /\ N.closed
    BY <1>0, <2>1, UploadTimeoutSound, UploadTimeoutAsks
  <2>3. Holder(link[n], N, HeldSize[n])
    BY <1>0, <2>1, UploadTimeoutHolds DEF Holder
  <2>4. Call(n, N)
    BY <1>8 DEF FireUploadTimer
  <2> HIDE DEF N
  <2> QED
    BY <2>2, <2>3, <2>4, ClosingCall
<1>9. ASSUME NEW n \in Node, Receive(n) PROVE Keeps
  BY <1>9, ReceiveExchanges
<1>10. ASSUME NEW n \in Node, Drained(n) PROVE Keeps
  <2>1. PICK buffered \in 0 .. link[n].buffered : Call(n, BufferedAmountLow(link[n], buffered))
    BY <1>10 DEF Drained
  <2>2. buffered \in Nat
    BY DEF ExchangeInv, PortInv, IInv, LinkState
  <2> DEFINE N == BufferedAmountLow(link[n], buffered)
  <2>3. Sound(N) /\ Serves(link[n], N) /\ Mute(link[n], N)
    BY <1>0, <2>2, BufferedAmountLowSound, BufferedAmountLowServes, BufferedAmountLowMute
  <2>4. Holder(link[n], N, HeldSize[n])
    BY <1>0, <2>2, BufferedAmountLowHolds DEF Holder
  <2>5. Call(n, N)
    BY <2>1
  <2> HIDE DEF N
  <2>6. N.pending = link[n].pending /\ N.closed = link[n].closed
    BY <2>3 DEF Serves, Unasked
  <2> QED
    BY <2>3, <2>4, <2>5, <2>6, ServingCall
<1>11. ASSUME NEW n \in Node, ChannelDown(n) PROVE Keeps
  <2>1. link[n].wire \in Seq(Frame) /\ link[n] \in LinkState
    BY DEF ExchangeInv, PortInv, IInv, LinkState
  <2>2. [link[n] EXCEPT !.open = FALSE] = [link[n] EXCEPT !.wire = link[n].wire, !.open = FALSE]
    BY <2>1 DEF LinkState
  <2>3. link' = [link EXCEPT ![n] = [link[n] EXCEPT !.open = FALSE]]
    BY <1>11 DEF ChannelDown, ExchangeInv, PortInv, IInv
  <2> QED
    BY <2>1, <2>2, <2>3, WithinSelf, WireExchanges
<1>12. ASSUME NEW n \in Node, LoseFrame(n) PROVE Keeps
  <2> DEFINE v == link[n].wire
  <2>1. PICK i \in DOMAIN v :
          link' = [link EXCEPT ![n].wire = SubSeq(v, 1, i - 1) \o SubSeq(v, i + 1, Len(v))]
    BY <1>12 DEF LoseFrame
  <2>2. v \in Seq(Frame) /\ link[n] \in LinkState
    BY DEF ExchangeInv, PortInv, IInv, LinkState
  <2> DEFINE w == SubSeq(v, 1, i - 1) \o SubSeq(v, i + 1, Len(v))
  <2>3. w \in Seq(Frame) /\ Within(w, v, {"want"}) /\ Within(w, v, Responses)
    BY <2>2, WithinLoss
  <2>4. link' = [link EXCEPT ![n] = [link[n] EXCEPT !.wire = w]]
    BY <2>1 DEF ExchangeInv, PortInv, IInv
  <2> HIDE DEF w
  <2>5. [link[n] EXCEPT !.wire = w] = [link[n] EXCEPT !.wire = w, !.open = link[n].open]
    BY <2>2 DEF LinkState
  <2> QED
    BY <2>3, <2>4, <2>5, WireExchanges
<1>13. ASSUME NEW n \in Node, CloseLink(n) \/ ChannelClosed(n) PROVE Keeps
  BY <1>6, <1>13 DEF CloseLink, ChannelClosed, Reason
<1>14. ASSUME ~\E n \in Node : Request(n), Keeps PROVE ExchangesOn(m)
  <2>1. asked'[m] = asked[m]
    BY <1>1, <1>14 DEF Next, Call, vars, AbortRequest, Serve, ServeFails, CloseLink, FireRequestTimer,
           FireUploadTimer, Receive, Drained, ChannelDown, ChannelClosed, LoseFrame
  <2> QED
    BY <1>14, <2>1, StillKnown DEF ExchangesOn
<1> HIDE DEF Keeps
<1> QED
  BY <1>1, <1>2, <1>3, <1>4, <1>5, <1>7, <1>8, <1>9, <1>10, <1>11, <1>12, <1>13, <1>14 DEF Next

\* Nothing is under way between fresh links.
LEMMA StartsExchanging == \A held : Exchange(NewLink, NewLink, held)
<1> SUFFICES ASSUME NEW held PROVE Exchange(NewLink, NewLink, held)
  OBVIOUS
<1>1. /\ NewLink.queue = <<>> /\ NewLink.wire = <<>> /\ NewLink.pending = NoPending
      /\ NewLink.active = NoActive
  BY DEF NewLink
<1>2. NoPending.parts = None /\ NoPending.size = 0 /\ NoPending.draining = FALSE /\ NoPending.received = 0
  BY DEF NoPending
<1>3. DOMAIN None = {} /\ Len(None) = 0
  BY DEF None
<1>4. Nothing(NoPending, <<>>, <<>>, NoActive) /\ OneWant(NoPending, <<>>, <<>>, NoActive)
  BY NoActiveFields DEF Nothing, OneWant, NoWant, Silent
<1>5. OneUpload(NoPending, <<>>, NoActive, held) /\ OneResponse(NoPending, <<>>, held)
  BY NoActiveFields DEF OneUpload, OneResponse
<1>6. Received(NoPending, held)
  BY <1>2, <1>3 DEF Received
<1> QED
  BY <1>1, <1>4, <1>5, <1>6 DEF Exchange, Flow

\* Fresh links satisfy the inductive invariant.
LEMMA InitExchangeInv == Init => ExchangeInv
<1> SUFFICES ASSUME Init PROVE ExchangeInv
  OBVIOUS
<1>1. PortInv
  BY InitPortInv
<1>2. \A n \in Node : link[n] = NewLink
  BY DEF Init
<1>3. ~Busy(NewLink)
  <2>1. NewLink.pending = NoPending /\ NoPending.id = 0
    BY DEF NewLink, NoPending
  <2> QED
    BY <2>1 DEF Busy
<1>4. ASSUME NEW n \in Node PROVE Exchanging(n) /\ Known(n)
  BY <1>2, <1>3, OtherNode, StartsExchanging DEF Exchanging, Known
<1> QED
  BY <1>1, <1>4 DEF ExchangeInv

\* Every step keeps the inductive invariant.
LEMMA NextExchangeInv == ExchangeInv /\ [Next]_vars => ExchangeInv'
<1> SUFFICES ASSUME ExchangeInv, [Next]_vars PROVE ExchangeInv'
  OBVIOUS
<1>1. PortInv'
  BY NextPortInv DEF ExchangeInv
<1>2. ASSUME NEW n \in Node PROVE Exchanging(n)' /\ Known(n)'
  BY NextExchanges DEF ExchangesOn, Exchanging
<1> QED
  BY <1>1, <1>2 DEF ExchangeInv

\* One want, upload or response at a time, for ever.
LEMMA SpecExchangeInv == Spec => []ExchangeInv
  BY InitExchangeInv, NextExchangeInv, PTL DEF Spec

-----------------------------------------------------------------------------
(* What a request is answered with.                                        *)

\* The response that a request waits for, once it is whole, is the object or
\* the range that the request asked for.
LEMMA WholeResponse ==
    ASSUME NEW n \in Node, NEW q \in Ask[n], NEW p \in Pending,
           q.key = p.key, q.range = p.range, q.expected = p.expected,
           Received(p, HeldSize[Other(n)]), ~p.draining, p.size # 0, p.size = p.received
    PROVE  p.parts = WantedBy(q)
<1> DEFINE held == HeldSize[Other(n)]
           W == Wanted(q.key, q.range)
           size == Size[q.key]
<1>1. held \in [Key -> Nat]
  BY OtherNode, HeldAssumption
<1>2. q.key \in Key /\ q.range \in PieceRange /\ size \in Nat \ {0}
  BY SizeAssumption DEF Pending
<1>3. q.range = Whole \/ Fits(size, q.range)
  BY QuestionAssumption
<1>4. q.expected \in {0, Len(W)}
  BY QuestionAssumption
<1>5. q.expected = 0 /\ q.range = Whole => held[q.key] \in {0, size}
  BY CachedAssumption
<1>6. p.parts = [i \in 1 .. Count(p, held) |-> [key |-> p.key, at |-> p.range.start + i]]
  BY <1>1, WholeParts
<1>7. p.size = Count(p, held) /\ (p.expected # 0 => p.size = p.expected)
  BY DEF Received
<1>8. /\ Len(W) = IF q.range = Whole THEN size ELSE q.range.end - q.range.start
      /\ \A i \in 1 .. Len(W) : W[i] = [key |-> q.key, at |-> q.range.start + i]
  <2> HIDE DEF size
  <2> QED
    BY <1>2, <1>3, SliceOfObject DEF Wanted, size
<1>9. W \in Payload
  <2>1. \A i \in 1 .. size : [key |-> q.key, at |-> i] \in Chunk
    BY <1>2 DEF Chunk
  <2>2. Object(q.key, size) \in Payload
    BY <1>2, <2>1 DEF Object, Payload
  <2>3. Len(Object(q.key, size)) = size
    BY <1>2 DEF Object
  <2>4. Slice(Object(q.key, size), q.range) \in Payload
    <3> HIDE DEF size
    <3> QED
      BY <1>2, <1>3, <2>2, <2>3, SlicePayload
  <2> QED
    BY <2>4 DEF Wanted
<1> HIDE DEF W, held, size
<1>10. Count(p, held) = Len(W)
  <2>1. CASE q.range # Whole
    BY <1>8, <2>1 DEF Count
  <2>2. CASE q.range = Whole
    <3>1. Count(p, held) = held[q.key] /\ Len(W) = size
      BY <1>8, <2>2 DEF Count
    <3> QED
      BY <1>4, <1>5, <1>7, <2>2, <3>1
  <2> QED
    BY <2>1, <2>2
<1>11. W = [i \in 1 .. Len(W) |-> W[i]] /\ Len(W) \in Nat
  BY <1>9 DEF Payload
<1>12. p.parts = W
  BY <1>6, <1>8, <1>10, <1>11
<1> QED
  BY <1>12 DEF WantedBy, W

\* The inductive invariant: what was asked is what may be asked, and every
\* answer is None or what its request wants.
WholeInv ==
    /\ ExchangeInv
    /\ \A n \in Node : \A i \in DOMAIN asked[n] : asked[n][i] \in Ask[n]
    /\ PayloadIsWhole

\* What a request that waits can be answered with.
LEMMA WholeGiven ==
    ASSUME ExchangeInv, \A n \in Node : \A i \in DOMAIN asked[n] : asked[n][i] \in Ask[n],
           NEW n \in Node, SlotOf(link[n]) = "waiting", NEW bytes \in Given(link[n])
    PROVE  /\ link[n].pending.id = Len(asked[n])
           /\ bytes \in {None, WantedBy(asked[n][Len(asked[n])])}
<1> DEFINE L == link[n]
           p == L.pending
           id == p.id
           q == asked[n][id]
<1>1. ~L.closed /\ Busy(L) /\ ~p.draining
  BY DEF SlotOf
<1>2. Written(L) /\ Len(asked[n]) = L.nextId - 1 /\ L \in LinkState
  BY DEF ExchangeInv, PortInv, AtRest, Ledger, IInv
<1>3. id = L.nextId - 1 /\ id # 0 /\ p \in Pending /\ id \in Nat
  BY <1>1, <1>2 DEF Written, Busy, LinkState, Pending
<1>4. id \in DOMAIN asked[n]
  <2>1. asked[n] \in Seq([key : Key, range : PieceRange, expected : Nat])
    BY DEF ExchangeInv, PortInv, IInv
  <2>2. DOMAIN asked[n] = 1 .. Len(asked[n]) /\ Len(asked[n]) = id
    BY <1>2, <1>3, <2>1
  <2>3. id \in 1 .. id
    <3>1. id \in Nat \ {0}
      BY <1>3
    <3> HIDE DEF id
    <3> QED
      BY <3>1
  <2> QED
    BY <2>2, <2>3
<1>5. q \in Ask[n]
  BY <1>4
<1>6. q.key = p.key /\ q.range = p.range /\ q.expected = p.expected
  BY <1>1 DEF ExchangeInv, Known, SameQuestion
<1>7. Received(p, HeldSize[Other(n)])
  BY <1>1 DEF ExchangeInv, Exchanging, Exchange, Flow
<1>8. bytes = None \/ (bytes = p.parts /\ p.size # 0 /\ p.size = p.received)
  BY DEF Given
<1>9. bytes \in {None, WantedBy(q)}
  <2> HIDE DEF q, p
  <2> QED
    BY <1>1, <1>3, <1>5, <1>6, <1>7, <1>8, WholeResponse DEF p
<1> QED
  BY <1>2, <1>3, <1>9

\* Every step answers with nothing or with the whole.
LEMMA NextWhole ==
    ASSUME WholeInv, [Next]_vars PROVE WholeInv'
<1>1. ExchangeInv'
  BY NextExchangeInv DEF WholeInv
<1>2. ASSUME NEW n \in Node PROVE Steps(n)
  BY NextSteps DEF WholeInv, ExchangeInv
<1>3. ASSUME NEW n \in Node
      PROVE  /\ \A i \in DOMAIN asked'[n] : asked'[n][i] \in Ask[n]
             /\ \A i \in DOMAIN link'[n].resolved :
                   LET r == link'[n].resolved[i] IN
                   r.bytes \in {None, Wanted(asked'[n][r.id].key, asked'[n][r.id].range)}
  <2> DEFINE L == link[n]
             M == link'[n]
             R == L.resolved
             A == asked[n]
             Fine(r, a) == r.bytes \in {None, Wanted(a[r.id].key, a[r.id].range)}
  <2>1. /\ R \in Seq([id : Nat, bytes : Payload])
        /\ A \in Seq([key : Key, range : PieceRange, expected : Nat])
        /\ \A i \in DOMAIN A : A[i] \in Ask[n]
        /\ \A i \in DOMAIN R : Fine(R[i], A)
    BY DEF WholeInv, ExchangeInv, PortInv, IInv, LinkState, PayloadIsWhole
  <2>2. \A i \in DOMAIN R : R[i].id \in DOMAIN A
    <3>1. Written(L) /\ Len(A) = L.nextId - 1 /\ L.nextId \in Nat
      BY DEF WholeInv, ExchangeInv, PortInv, AtRest, Ledger, IInv, LinkState
    <3> DEFINE s == Settled(L)
    <3>2. s \in {L.nextId - 1, L.nextId - 2}
      BY <3>1 DEF Settled
    <3>3. Len(R) = s /\ \A i \in 1 .. s : R[i].id = i
      BY <3>1 DEF Written
    <3> HIDE DEF R, A, L, s
    <3> QED
      BY <2>1, <3>1, <3>2, <3>3
  <2> SUFFICES /\ \A i \in DOMAIN asked'[n] : asked'[n][i] \in Ask[n]
               /\ \A i \in DOMAIN M.resolved : Fine(M.resolved[i], asked'[n])
    OBVIOUS
  <2>3. CASE Quiet(n)
    <3>1. asked'[n] = A /\ Moves(L, M)
      BY <2>3 DEF Quiet
    <3>2. CASE M.resolved = R
      BY <2>1, <3>1, <3>2
    <3>3. ASSUME SlotOf(L) = "waiting", NEW bytes \in Given(L), Answers(L, M, bytes)
          PROVE  \A i \in DOMAIN M.resolved : Fine(M.resolved[i], A)
      <4>1. L.pending.id = Len(A) /\ bytes \in {None, WantedBy(A[Len(A)])}
        BY <3>3, WholeGiven DEF WholeInv
      <4> DEFINE r == [id |-> L.pending.id, bytes |-> bytes]
      <4>2. M.resolved = Append(R, r)
        BY <3>3 DEF Answers
      <4>3. Fine(r, A)
        BY <4>1 DEF WantedBy
      <4> HIDE DEF r, R, Fine
      <4> QED
        BY <2>1, <4>2, <4>3
    <3>4. None \in Given(L)
      BY DEF Given
    <3> QED
      BY <2>1, <3>1, <3>2, <3>3, <3>4 DEF Moves
  <2>4. CASE Asking(n)
    <3>1. PICK q \in Ask[n] : asked'[n] = Append(A, q)
      BY <2>4 DEF Asking
    <3>2. q \in [key : Key, range : PieceRange, expected : Nat]
      BY AskAssumption
    <3> DEFINE B == Append(A, q)
    <3>3. B \in Seq([key : Key, range : PieceRange, expected : Nat]) /\ Len(B) = Len(A) + 1
          /\ \A i \in DOMAIN A : B[i] = A[i]
      BY SMTT(30), <2>1, <3>2
    <3>4. \A i \in DOMAIN B : B[i] \in Ask[n]
      BY SMTT(30), <2>1, <3>2
    <3>5. \A i \in DOMAIN R : Fine(R[i], B)
      <4> HIDE DEF B, R, A
      <4> QED
        BY <2>1, <2>2, <3>3
    <3>6. CASE M.resolved = R
      BY <3>1, <3>4, <3>5, <3>6
    <3>7. CASE M.resolved = Append(R, [id |-> L.nextId, bytes |-> None])
      <4> DEFINE r == [id |-> L.nextId, bytes |-> None]
      <4>1. Fine(r, B)
        OBVIOUS
      <4> HIDE DEF r, R, Fine, B
      <4>2. \A i \in DOMAIN M.resolved : Fine(M.resolved[i], B)
        BY <2>1, <3>5, <3>7, <4>1 DEF r
      <4> QED
        BY <3>1, <3>4, <4>2 DEF B
    <3> QED
      BY <2>4, <3>6, <3>7 DEF Asking
  <2> QED
    BY <1>2, <2>3, <2>4 DEF Steps
<1> QED
  BY <1>1, <1>3 DEF WholeInv, PayloadIsWhole

\* All answers are so for ever.
LEMMA SpecWholeInv == Spec => []WholeInv
<1>1. Init => WholeInv
  <2> SUFFICES ASSUME Init PROVE WholeInv
    OBVIOUS
  <2>1. ASSUME NEW n \in Node PROVE DOMAIN asked[n] = {} /\ DOMAIN link[n].resolved = {}
    <3>1. asked[n] = <<>> /\ link[n] = NewLink
      BY DEF Init
    <3>2. NewLink.resolved = <<>>
      BY DEF NewLink
    <3> QED
      BY <3>1, <3>2
  <2> QED
    BY <2>1, InitExchangeInv DEF WholeInv, PayloadIsWhole
<1>2. WholeInv /\ [Next]_vars => WholeInv'
  BY NextWhole
<1> QED
  BY <1>1, <1>2, PTL DEF Spec

\* A request resolves with nothing or with exactly the chunks it asked for,
\* in order, though a chunk does not say which request it is for: over any
\* object sizes, queue limits and faults, on a channel that loses frames too.
THEOREM EveryPayloadWhole == Spec => []PayloadIsWhole
<1>1. WholeInv => PayloadIsWhole
  BY DEF WholeInv
<1> QED
  BY <1>1, SpecWholeInv, PTL

-----------------------------------------------------------------------------
(* Between two requests.                                                   *)

\* The link is free to ask again only when nothing of an earlier request is
\* left: no frame of a response to it is on its way, it has no want on its
\* way, and the other end holds no upload for it.
THEOREM BoundariesAreClean == Spec => []CleanBoundary
<1>1. ExchangeInv => CleanBoundary
  <2> SUFFICES ASSUME ExchangeInv, NEW n \in Node, ~Busy(link[n]), ~link[n].closed
               PROVE  /\ \A i \in DOMAIN link[Other(n)].wire : ~Response(link[Other(n)].wire[i])
                      /\ \A i \in DOMAIN link[n].wire : link[n].wire[i].t # "want"
                      /\ link[Other(n)].inFlight = 0
    BY DEF CleanBoundary
  <2> DEFINE L == link[n]
             M == link[Other(n)]
  <2>1. M.queue = <<>> /\ Flow(L.pending, L.wire, M.wire, M.active, HeldSize[Other(n)])
    BY DEF ExchangeInv, Exchanging, Exchange
  <2>2. M.active.stage = "idle" /\ Silent(M.wire) /\ NoWant(L.wire)
    BY <2>1 DEF Flow, Nothing, Busy
  <2>3. Sound(M)
    BY OtherNode DEF ExchangeInv, PortInv, IInv
  <2>4. M.inFlight = 0
    BY <2>1, <2>2, <2>3 DEF Sound, Uploads
  <2> QED
    BY <2>2, <2>4 DEF Silent, NoWant, Response, Responses
<1> QED
  BY <1>1, SpecExchangeInv, PTL

-----------------------------------------------------------------------------
(* The port of each end implements RequestPort.                            *)

\* Fresh ports are free and have answered nothing.
LEMMA PortInit == Init => \A n \in Node : Port(n)!Init
<1> SUFFICES ASSUME Init, NEW n \in Node PROVE Port(n)!Init
  OBVIOUS
<1>1. asked[n] = <<>> /\ link[n] = NewLink
  BY DEF Init
<1>2. NewLink.resolved = <<>> /\ NewLink.closed = FALSE /\ NewLink.pending.id = 0
  BY DEF NewLink, NoPending
<1> QED
  BY <1>1, <1>2 DEF Port!Init, Slot, Busy

\* Each step of the link is a step of the port of n, or none.
LEMMA PortStep ==
    ASSUME WholeInv, [Next]_vars, NEW n \in Node
    PROVE  [Port(n)!Next]_(Port(n)!vars)
<1> DEFINE L == link[n]
           M == link'[n]
           A == asked[n]
           N == Len(A)
<1>1. Steps(n) /\ Len(A) = L.nextId - 1 /\ L \in LinkState
  BY NextSteps DEF WholeInv, ExchangeInv, PortInv, IInv
<1>2. L.nextId \in Nat /\ L.nextId = N + 1
  BY <1>1 DEF LinkState
<1>3. Slot(n) = SlotOf(L) /\ Slot(n)' = SlotOf(M)
  BY DEF Slot, SlotOf
<1>4. CASE Quiet(n)
  <2>1. asked'[n] = A /\ Moves(L, M)
    BY <1>4 DEF Quiet
  <2>2. CASE M.resolved = L.resolved /\ SlotOf(M) = SlotOf(L)
    BY <1>3, <2>1, <2>2 DEF Port!vars
  <2>3. CASE M.resolved = L.resolved /\ SlotOf(L) = "draining" /\ SlotOf(M) = "free"
    <3>1. Port(n)!Release
      BY <1>3, <2>1, <2>3 DEF Port!Release
    <3> QED
      BY <3>1 DEF Port!Next
  <2>4. CASE M.resolved = L.resolved /\ SlotOf(L) \in {"free", "draining"} /\ SlotOf(M) = "shut"
    <3>1. Port(n)!Shut
      BY <1>3, <2>1, <2>4 DEF Port!Shut
    <3> QED
      BY <3>1 DEF Port!Next
  <2>5. ASSUME SlotOf(L) = "waiting", NEW bytes \in Given(L), Answers(L, M, bytes),
               SlotOf(M) = "free" \/ (SlotOf(M) \in {"draining", "shut"} /\ bytes = None)
        PROVE  Port(n)!Serve \/ Port(n)!GiveUp
    <3>1. L.pending.id = N /\ bytes \in {None, WantedBy(A[N])}
      BY <2>5, WholeGiven DEF WholeInv
    <3>2. M.resolved = Append(L.resolved, [id |-> N, bytes |-> bytes])
      BY <2>5, <3>1 DEF Answers
    <3>3. CASE bytes = None
      <4>1. PICK next \in {"free", "draining", "shut"} : SlotOf(M) = next
        BY <2>5
      <4>2. Port(n)!Answer(None, next)
        BY <1>3, <2>1, <2>5, <3>2, <3>3, <4>1 DEF Port!Answer
      <4> QED
        BY <4>2 DEF Port!GiveUp
    <3>4. CASE bytes # None
      <4>1. Port(n)!Answer(WantedBy(A[N]), "free")
        BY <1>3, <2>1, <2>5, <3>1, <3>2, <3>4 DEF Port!Answer
      <4> QED
        BY <4>1 DEF Port!Serve
    <3> QED
      BY <3>3, <3>4
  <2>6. None \in Given(L)
    BY DEF Given
  <2>7. CASE /\ M.resolved = L.resolved
             /\ \/ SlotOf(M) = SlotOf(L)
                \/ SlotOf(L) = "draining" /\ SlotOf(M) = "free"
                \/ SlotOf(L) \in {"free", "draining"} /\ SlotOf(M) = "shut"
    BY <2>2, <2>3, <2>4, <2>7
  <2>8. CASE /\ SlotOf(L) = "waiting"
             /\ \/ SlotOf(M) = "free" /\ \E bytes \in Given(L) : Answers(L, M, bytes)
                \/ SlotOf(M) \in {"draining", "shut"} /\ Answers(L, M, None)
    <3>1. PICK bytes \in Given(L) :
            /\ Answers(L, M, bytes)
            /\ SlotOf(M) = "free" \/ (SlotOf(M) \in {"draining", "shut"} /\ bytes = None)
      <4>1. CASE SlotOf(M) = "free" /\ \E bytes \in Given(L) : Answers(L, M, bytes)
        BY <4>1
      <4>2. CASE SlotOf(M) \in {"draining", "shut"} /\ Answers(L, M, None)
        BY <2>6, <4>2
      <4> QED
        BY <2>8, <4>1, <4>2
    <3>2. Port(n)!Serve \/ Port(n)!GiveUp
      BY <2>5, <2>8, <3>1
    <3> QED
      BY <3>2 DEF Port!Next
  <2> QED
    BY <2>1, <2>7, <2>8 DEF Moves
<1>5. CASE Asking(n)
  <2>1. PICK q \in Ask[n] : asked'[n] = Append(A, q)
    BY <1>5 DEF Asking
  <2>2. Port(n)!AskFor(q)
    BY <1>2, <1>3, <1>5, <2>1 DEF Asking, Port!AskFor
  <2> QED
    BY <2>2 DEF Port!Next
<1> QED
  BY <1>1, <1>4, <1>5 DEF Steps

\* Each end of a link keeps the promise of RequestPort, whatever the other
\* end, the network, the timers and the host do in between.
THEOREM PortIsKept == Spec => PortKept
<1>1. WholeInv /\ [Next]_vars => [\A n \in Node : [Port(n)!Next]_(Port(n)!vars)]_vars
  BY PortStep
<1> QED
  BY <1>1, PortInit, SpecWholeInv, PTL DEF Spec, PortKept

-----------------------------------------------------------------------------
(* A cancel stops the chunks.                                              *)

\* An upload that is paused has not been cancelled.
Restful(L) == L.active.stage = "draining" => ~L.active.upload.cancelled

\* L becomes M without a chunk, and without a response that pauses.
Hush(L, M) ==
    /\ NoNew(L.wire, M.wire, {"chunk"})
    /\ M.active = L.active \/ M.active.stage # "draining"

LEMMA HushTransitive ==
    ASSUME NEW L, NEW M, NEW N, Hush(L, M), Hush(M, N) PROVE Hush(L, N)
<1>1. NoNew(L.wire, N.wire, {"chunk"})
  BY NoNewTransitive DEF Hush
<1> QED
  BY <1>1 DEF Hush

LEMMA HushSame ==
    ASSUME NEW L, NEW M, M.wire = L.wire, M.active = L.active PROVE Hush(L, M)
  BY NoNewSelf DEF Hush

\* What an end asks for itself makes no chunk.
LEMMA AsideHush == ASSUME NEW L, NEW M, Aside(L, M) PROVE Hush(L, M)
  BY NoActiveFields DEF Aside, Hush, NoNew, Responses

\* Nor does it when it closes.
LEMMA CloseHush ==
    ASSUME NEW L \in LinkState, NEW reason \in Reason PROVE Hush(L, Close(L, reason))
  BY CloseIsAside, AsideHush

\* Nor what the shell does.
LEMMA ShellHush == ASSUME NEW L \in LinkState PROVE Hush(L, Shell(L))
  BY ShellAside, AsideHush

\* The responses declined on the way to the next one are frames of their own.
LEMMA StartNextHush ==
    ASSUME NEW L \in LinkState PROVE Hush(L, StartNext(L))
<1>1. CASE L.active.stage # "idle"
  BY <1>1, HushSame DEF StartNext
<1>2. CASE L.active.stage = "idle"
  <2> DEFINE n == Skipped(L)
             nones == [i \in 1 .. n |-> NoneFrame(L.queue[i].id)]
             w == IF CanSend(L) THEN L.wire \o nones ELSE L.wire
             f == Less(L.inFlight, n)
             q == SubSeq(L.queue, n + 2, Len(L.queue))
             a == IF n < Len(L.queue) THEN Awaiting(L.queue[n + 1]) ELSE L.active
             N == [L EXCEPT !.wire = w, !.inFlight = f, !.queue = q, !.active = a]
  <2>1. StartNext(L) = N
    BY <1>2 DEF StartNext
  <2>2. n \in 0 .. Len(L.queue) /\ L.queue \in Seq(Upload) /\ Len(L.queue) \in Nat /\ L.wire \in Seq(Frame)
    <3>1. n \in 0 .. Len(L.queue)
      BY SkippedInQueue
    <3>2. L.queue \in Seq(Upload) /\ L.wire \in Seq(Frame)
      BY DEF LinkState
    <3> HIDE DEF n
    <3> QED
      BY <3>1, <3>2
  <2> HIDE DEF n
  <2>3. ASSUME NEW i \in 1 .. n PROVE NoneFrame(L.queue[i].id) \in Frame /\ NoneFrame(L.queue[i].id).t = "none"
    <3>1. L.queue[i] \in Upload
      BY <2>2
    <3> QED
      BY <3>1 DEF NoneFrame, Frame, Upload
  <2>4. nones \in Seq(Frame) /\ \A i \in DOMAIN nones : nones[i].t # "chunk"
    BY <2>2, <2>3
  <2>5. a = L.active \/ a.stage # "draining"
    BY DEF Awaiting
  <2> HIDE DEF nones, f, q, a
  <2>6. NoNew(L.wire, w, {"chunk"})
    BY <2>2, <2>4, JoinNoNew, NoNewSelf
  <2> HIDE DEF w
  <2>7. N.wire = w /\ N.active = a
    BY DEF LinkState
  <2> HIDE DEF N
  <2> QED
    BY <2>1, <2>5, <2>6, <2>7 DEF Hush
<1> QED
  BY <1>1, <1>2

\* Nor going on to the next upload.
LEMMA FinishUploadHush ==
    ASSUME NEW L \in LinkState PROVE Hush(L, FinishUpload(L))
<1> DEFINE f == Less(L.inFlight, 1)
           K == [L EXCEPT !.inFlight = f]
<1>1. f \in Nat
  BY DEF Less, LinkState
<1> HIDE DEF f
<1>2. K \in LinkState /\ K.wire = L.wire /\ K.active = L.active
  BY <1>1 DEF LinkState
<1>3. FinishUpload(L) = StartNext(K)
  BY DEF FinishUpload, f
<1> HIDE DEF K
<1> QED
  BY <1>2, <1>3, StartNextHush, HushSame, HushTransitive

\* Nor a frame of text.
LEMMA SendTextHush ==
    ASSUME NEW M \in LinkState, NEW frame \in Frame, frame.t # "chunk"
    PROVE  SendText(M, frame) \in LinkState /\ Hush(M, SendText(M, frame))
<1>1. SendText(M, frame) \in LinkState /\ SendText(M, frame).active = M.active
  BY SendTextType
<1>2. NoNew(M.wire, SendText(M, frame).wire, {"chunk"})
  BY SendTextNoNew
<1> QED
  BY <1>1, <1>2 DEF Hush

\* A response ends with its eof.
LEMMA EndResponseHush ==
    ASSUME NEW L \in LinkState, NEW u \in Upload, NEW sent \in Nat, NEW left \in Nat
    PROVE  Hush(L, EndResponse(L, u, sent, left))
<1> DEFINE o == L.bytesOut + sent  r == L.refunded + left
           P == [L EXCEPT !.bytesOut = o, !.refunded = r]
           frame == EofFrame(u.id)
           T == SendText(P, frame)
<1>1. EndResponse(L, u, sent, left) = FinishUpload(T)
  BY DEF EndResponse
<1>2. o \in Nat /\ r \in Nat
  BY ChunkCounters
<1> HIDE DEF o, r
<1>3. P \in LinkState /\ P.wire = L.wire /\ P.active = L.active
  BY <1>2 DEF LinkState
<1>4. frame \in Frame /\ frame.t # "chunk"
  BY DEF EofFrame, Frame, Upload
<1> HIDE DEF P, frame
<1>5. T \in LinkState /\ Hush(P, T)
  BY <1>3, <1>4, SendTextHush
<1> HIDE DEF T
<1> QED
  BY <1>1, <1>3, <1>5, HushSame, FinishUploadHush, HushTransitive

\* A cancelled upload that goes on ends without a chunk; any other one, when
\* it pauses, pauses uncancelled.
LEMMA SendChunksStops ==
    ASSUME NEW L, Owing(L), NEW u \in Upload, NEW bytes \in Payload, NEW sent \in 0 .. Len(bytes),
           NEW resumed \in BOOLEAN, u.cancelled => resumed
    PROVE  LET N == SendChunks(L, u, bytes, sent, resumed) IN
           Restful(N) /\ (u.cancelled => Hush(L, N) /\ N.active.stage # "draining")
<1> DEFINE left == Len(bytes) - sent
           n == Burst(L, u, left, resumed)
           pauses == /\ n < left
                     /\ ~(u.cancelled /\ (resumed \/ L.buffered <= HighWater))
           pushed == SendBinary(L, bytes, sent + 1, sent + n)
           a == [stage |-> "draining", upload |-> u, bytes |-> bytes, sent |-> sent + n]
           paused == [pushed EXCEPT !.active = a]
           ended == EndResponse(pushed, u, sent + n, left - n)
<1>1. /\ SendChunks(L, u, bytes, sent, resumed) \in {FinishUpload(L), paused, ended}
      /\ u.cancelled => SendChunks(L, u, bytes, sent, resumed) \in {FinishUpload(L), ended}
  BY DEF SendChunks
<1>2. L \in LinkState /\ Len(bytes) \in Nat /\ sent \in Nat /\ L.active.stage = "idle"
  BY DEF Owing, Payload
<1>3. left \in Nat /\ n \in 0 .. left
  <2>1. left \in Nat
    BY <1>2
  <2> QED
    BY <1>2, <2>1, BurstBound
<1>4. sent + 1 \in Nat \ {0} /\ sent + n \in Nat /\ sent + n <= Len(bytes) /\ left - n \in Nat
  BY <1>2, <1>3
<1>5. u.cancelled => n = 0
  BY DEF Burst
<1> HIDE DEF left, n
<1>6. u.cancelled => pushed = L
  BY <1>2, <1>5 DEF SendBinary
<1>7. Owing(pushed)
  BY <1>2, <1>4, SendBinaryOwing
<1> HIDE DEF pushed
<1>8. Hush(pushed, ended) /\ Hush(L, FinishUpload(L)) /\ pushed.active.stage = "idle"
  BY <1>2, <1>4, <1>7, EndResponseHush, FinishUploadHush DEF Owing
<1>9. ended.active.stage # "draining" /\ FinishUpload(L).active.stage # "draining"
  <2> HIDE DEF ended
  <2> QED
    BY <1>2, <1>8 DEF Hush
<1>10. paused.active = a /\ a.upload = u
  <2>1. IsLink(pushed)
    BY <1>7, LinkStateIsLink DEF Owing
  <2> HIDE DEF a
  <2>2. paused.active = a
    BY <2>1 DEF IsLink, LinkFields
  <2> QED
    BY <2>2 DEF a
<1> HIDE DEF paused, ended
<1>11. CASE u.cancelled
  BY <1>1, <1>6, <1>8, <1>9, <1>11 DEF Restful
<1>12. CASE ~u.cancelled
  BY <1>1, <1>9, <1>10, <1>12 DEF Restful
<1> QED
  BY <1>11, <1>12

\* A paused upload that goes on: with chunks, or cancelled without.
LEMMA ResumeStops ==
    ASSUME NEW L, Sound(L), L.active.stage = "draining"
    PROVE  /\ Restful(Resume(L))
           /\ L.active.upload.cancelled => Hush(L, Resume(L)) /\ Resume(L).active.stage # "draining"
<1> DEFINE T == [L EXCEPT !.active = NoActive]
           x == L.active
           N == Resume(L)
<1>1. N = SendChunks(T, x.upload, x.bytes, x.sent, TRUE)
  BY DEF Resume
<1>2. Owing(T)
  BY TakenOwing
<1>3. x.upload \in Upload /\ x.bytes \in Payload /\ x.sent \in 0 .. Len(x.bytes)
  BY DEF Sound, LinkState, Active, Payload
<1>4. T.wire = L.wire
  BY DEF Sound, LinkState
<1> HIDE DEF T, N
<1>5. Restful(N) /\ (x.upload.cancelled => Hush(T, N) /\ N.active.stage # "draining")
  <2> HIDE DEF x
  <2> QED
    BY <1>1, <1>2, <1>3, SendChunksStops
<1>6. x.upload.cancelled => Hush(L, N)
  BY <1>4, <1>5 DEF Hush
<1> QED
  BY <1>5, <1>6 DEF N

\* The channel has room again.
LEMMA BufferedAmountLowStops ==
    ASSUME NEW L, Sound(L), Restful(L), NEW buffered \in Nat
    PROVE  Restful(BufferedAmountLow(L, buffered))
<1> DEFINE B == [L EXCEPT !.buffered = buffered]
<1>1. BufferedAmountLow(L, buffered) = IF L.active.stage # "draining" THEN L ELSE Resume(B)
  BY DEF BufferedAmountLow
<1>2. /\ B \in LinkState /\ B.queue = L.queue /\ B.active = L.active /\ B.inFlight = L.inFlight
  BY DEF Sound, LinkState
<1> HIDE DEF B
<1>3. Sound(B)
  BY <1>2 DEF Sound, Uploads
<1> QED
  BY <1>1, <1>2, <1>3, ResumeStops

\* A cancel of the upload in hand takes effect at once when it is paused.
LEMMA OnCancelStops ==
    ASSUME NEW L, Sound(L), Restful(L), NEW frame \in Frame
    PROVE  LET N == OnCancel(L, frame) IN
           /\ Hush(L, N) /\ Restful(N)
           /\ L.active.stage # "idle" /\ L.active.upload.id = frame.id => N.active.stage # "draining"
<1> DEFINE Q == [i \in DOMAIN L.queue |->
                   IF L.queue[i].id = frame.id
                   THEN [L.queue[i] EXCEPT !.cancelled = TRUE] ELSE L.queue[i]]
           c == L.active.upload.cancelled
                  \/ (L.active.stage # "idle" /\ L.active.upload.id = frame.id)
           a == [L.active EXCEPT !.upload.cancelled = c]
           marked == [L EXCEPT !.queue = Q, !.active.upload.cancelled = c]
           N == OnCancel(L, frame)
<1>0. L \in LinkState /\ IsLink(L) /\ L.active \in Active /\ L.active.upload \in Upload
  BY LinkStateIsLink DEF Sound, LinkState, Active
<1>1. N = IF L.active.stage = "draining" /\ L.active.upload.id = frame.id
          THEN Resume(marked) ELSE marked
  BY DEF OnCancel
<1>2. Q \in Seq(Upload) /\ Len(Q) = Len(L.queue)
  <2>1. L.queue \in Seq(Upload)
    BY <1>0 DEF LinkState
  <2> QED
    BY <2>1, MarkedQueue
<1>3. c \in BOOLEAN
  BY <1>0 DEF Upload
<1>4. /\ L.active.stage = "idle" \/ L.active.upload.id # frame.id => c = L.active.upload.cancelled
      /\ L.active.stage # "idle" /\ L.active.upload.id = frame.id => c
  BY <1>0 DEF Upload
<1> HIDE DEF Q, c
<1>5. marked.queue = Q /\ marked.inFlight = L.inFlight /\ marked.wire = L.wire /\ marked.active = a
  BY <1>0 DEF IsLink, LinkFields
<1>6. a \in Active /\ a.stage = L.active.stage /\ a.upload.cancelled = c
  BY <1>0, <1>3 DEF Active, Upload
<1>7. c = L.active.upload.cancelled => a = L.active
  BY <1>0, <1>3 DEF Active, Upload
<1>8. marked \in LinkState
  BY <1>0, <1>2, <1>5, <1>6 DEF LinkState
<1> HIDE DEF marked, a, N
<1>9. Sound(marked)
  BY <1>2, <1>5, <1>6, <1>8 DEF Sound, Uploads
<1>10. CASE L.active.stage = "draining" /\ L.active.upload.id = frame.id
  <2>1. N = Resume(marked) /\ marked.active.stage = "draining" /\ marked.active.upload.cancelled
    BY <1>1, <1>4, <1>5, <1>6, <1>10
  <2>2. Restful(N) /\ Hush(marked, N) /\ N.active.stage # "draining"
    BY <1>9, <2>1, ResumeStops
  <2>3. Hush(L, N)
    BY <1>5, <2>2 DEF Hush
  <2> QED
    BY <2>2, <2>3 DEF N
<1>11. CASE ~(L.active.stage = "draining" /\ L.active.upload.id = frame.id)
  <2>1. N = marked
    BY <1>1, <1>11
  <2>2. marked.active = L.active \/ marked.active.stage # "draining"
    BY <1>4, <1>5, <1>6, <1>7, <1>11
  <2>3. Hush(L, N) /\ Restful(N)
    BY <1>5, <2>1, <2>2, NoNewSelf DEF Hush, Restful
  <2>4. L.active.stage # "idle" /\ L.active.upload.id = frame.id => N.active.stage # "draining"
    BY <1>5, <1>6, <1>11, <2>1
  <2> QED
    BY <2>3, <2>4 DEF N
<1> QED
  BY <1>10, <1>11

\* Nor an upload that is declined.
LEMMA DeclineHush ==
    ASSUME NEW T \in LinkState, NEW u \in Upload
    PROVE  Hush(T, FinishUpload(SendText(T, NoneFrame(u.id))))
<1> DEFINE frame == NoneFrame(u.id)
           S == SendText(T, frame)
<1>1. frame \in Frame /\ frame.t # "chunk"
  BY DEF NoneFrame, Frame, Upload
<1> HIDE DEF frame
<1>2. S \in LinkState /\ Hush(T, S)
  BY <1>1, SendTextHush
<1> HIDE DEF S
<1>3. Hush(T, FinishUpload(S))
  BY <1>2, FinishUploadHush, HushTransitive
<1> QED
  BY <1>3 DEF S, frame

\* An upload cancelled before the host answered gets no chunk of the answer.
LEMMA ServeResponseStops ==
    ASSUME NEW L, Sound(L), Restful(L), NEW bytes \in Payload, NEW buffered \in Nat
    PROVE  LET N == ServeResponse(L, bytes, buffered) IN
           /\ Restful(N)
           /\ L.active.stage # "idle" /\ L.active.upload.cancelled => Hush(L, N)
<1> DEFINE N == ServeResponse(L, bytes, buffered)
           c == L.active.upload.cancelled
<1> SUFFICES Restful(N) /\ (L.active.stage # "idle" /\ c => Hush(L, N))
  OBVIOUS
<1>0. L \in LinkState /\ IsLink(L)
  BY LinkStateIsLink DEF Sound
<1>1. CASE L.active.stage # "awaiting"
  BY <1>0, <1>1, HushSame DEF ServeResponse
<1>2. CASE L.active.stage = "awaiting"
  <2> DEFINE u == L.active.upload
             slice == Slice(bytes, u.range)
             T == [L EXCEPT !.active = NoActive, !.buffered = buffered]
             given == T.granted + Len(slice)
             G == [T EXCEPT !.granted = given]
             back == G.refunded + Len(slice)
             B == [G EXCEPT !.refunded = back]
             none == bytes = None \/ (u.range # Whole /\ ~Fits(Len(bytes), u.range))
  <2>1. u \in Upload /\ u.range \in PieceRange /\ u.id \in Nat
    BY <1>0 DEF LinkState, Active, Upload
  <2>2. N = IF none THEN FinishUpload(SendText(T, NoneFrame(u.id)))
            ELSE IF u.cancelled THEN FinishUpload(SendText(B, NoneFrame(u.id)))
            ELSE IF ~CanSend(L) THEN FinishUpload(G)
            ELSE SendChunks(SendText(G, MetaFrame(u.id, Len(slice), u.range)), u, slice, 0, FALSE)
    BY <1>2 DEF ServeResponse
  <2>3. T.wire = L.wire /\ T.active.stage = "idle"
    BY <1>0, NoActiveFields DEF IsLink, LinkFields
  <2>4. Owing(T) /\ T \in LinkState
    <3> DEFINE K == [L EXCEPT !.active = NoActive]
    <3>1. Owing(K)
      BY <1>2, TakenOwing
    <3>2. T \in LinkState /\ T.queue = K.queue /\ T.active = K.active /\ T.inFlight = K.inFlight
      BY <1>0, NoActiveType DEF LinkState
    <3> HIDE DEF K, T
    <3> QED
      BY <3>1, <3>2, OwingUnlessUploads
  <2>0. c = u.cancelled
    OBVIOUS
  <2> HIDE DEF T, u, none, N, c
  <2>5. ASSUME NEW K, K.wire = L.wire, K.active.stage = "idle", Hush(K, N)
        PROVE  Restful(N) /\ Hush(L, N)
    BY <2>5 DEF Hush, Restful
  <2>6. CASE none
    BY <2>1, <2>2, <2>3, <2>4, <2>5, <2>6, DeclineHush
  <2>7. CASE ~none
    <3>1. slice \in Payload /\ Len(slice) \in Nat
      BY <2>1, <2>7, SlicePayload DEF none
    <3> HIDE DEF slice
    <3>2. T.granted \in Nat /\ T.refunded \in Nat
      BY <2>4 DEF LinkState
    <3>3. given \in Nat
      BY <3>1, <3>2
    <3> HIDE DEF given
    <3>4. /\ G \in LinkState /\ G.queue = T.queue /\ G.active = T.active /\ G.inFlight = T.inFlight
          /\ G.wire = T.wire /\ G.refunded = T.refunded
      BY <2>4, <3>3 DEF LinkState
    <3> HIDE DEF G
    <3>5. Owing(G)
      BY <2>4, <3>4, OwingUnlessUploads
    <3>6. CASE u.cancelled
      <4>1. back \in Nat
        BY <3>1, <3>2, <3>4
      <4> HIDE DEF back
      <4>2. B \in LinkState /\ B.wire = G.wire /\ B.active = G.active
        BY <3>4, <4>1 DEF LinkState
      <4> HIDE DEF B
      <4>3. Hush(B, N)
        BY <2>1, <2>2, <2>7, <3>6, <4>2, DeclineHush
      <4> QED
        BY <2>3, <2>5, <3>4, <4>2, <4>3
    <3>7. CASE ~u.cancelled /\ ~CanSend(L)
      <4>1. Hush(G, N)
        BY <2>2, <2>7, <3>4, <3>7, FinishUploadHush
      <4> QED
        BY <2>3, <2>5, <3>4, <4>1
    <3>8. CASE ~u.cancelled /\ CanSend(L)
      <4> DEFINE frame == MetaFrame(u.id, Len(slice), u.range)
                 S == SendText(G, frame)
      <4>1. frame \in Frame
        BY <2>1, <3>1 DEF MetaFrame, Frame
      <4> HIDE DEF frame
      <4>2. Owing(S)
        BY <3>4, <3>5, <4>1, SendTextType, OwingUnlessUploads
      <4>3. 0 \in 0 .. Len(slice)
        BY <3>1
      <4>4. N = SendChunks(S, u, slice, 0, FALSE)
        BY <2>2, <2>7, <3>8 DEF frame
      <4> HIDE DEF S
      <4>5. Restful(N)
        BY <2>1, <3>1, <3>8, <4>2, <4>3, <4>4, SendChunksStops
      <4> QED
        BY <2>0, <3>8, <4>5
    <3> QED
      BY <3>6, <3>7, <3>8
  <2> QED
    BY <2>6, <2>7
<1> QED
  BY <1>1, <1>2

\* A want that comes in.
LEMMA OnWantHush ==
    ASSUME NEW L, Sound(L), NEW frame \in Frame, frame.t = "want" PROVE Hush(L, OnWant(L, frame))
<1> DEFINE u == [id |-> frame.id, key |-> frame.key, range |-> frame.range, cancelled |-> FALSE]
           f == L.inFlight + 1
           q == Append(L.queue, u)
           K == [L EXCEPT !.inFlight = f, !.queue = q]
<1>1. OnWant(L, frame) \in {Close(L, "upload-queue"), StartNext(K)}
  BY DEF OnWant
<1>2. f \in Nat /\ q \in Seq(Upload) /\ L \in LinkState
  <2>1. u \in Upload
    BY FrameFields DEF Upload
  <2> QED
    BY <2>1 DEF Sound, LinkState
<1> HIDE DEF f, q
<1>3. K \in LinkState /\ K.wire = L.wire /\ K.active = L.active
  BY <1>2 DEF LinkState
<1> HIDE DEF K
<1>4. "upload-queue" \in Reason
  BY DEF Reason
<1>5. Hush(L, Close(L, "upload-queue"))
  BY <1>2, <1>4, CloseHush
<1>6. Hush(L, StartNext(K))
  BY <1>3, StartNextHush, HushSame, HushTransitive
<1> QED
  BY <1>1, <1>5, <1>6

\* What CancelStopsChunks asks of a step of one end from L to M.
Stopped(L, M) ==
    /\ \A i \in DOMAIN M.wire : i > Len(L.wire) => M.wire[i].t # "chunk"
    /\ M.active.stage # "draining"
Still(L, M) ==
    /\ Restful(M)
    /\ L.active.stage # "idle" /\ L.active.upload.cancelled => Stopped(L, M)

\* A step without a chunk after which nothing is paused is one that stops.
LEMMA HushStopped ==
    ASSUME NEW L \in LinkState, NEW M, Hush(L, M), M.active.stage # "draining"
    PROVE  Stopped(L, M)
<1>1. L.wire \in Seq(Frame) /\ DOMAIN L.wire = 1 .. Len(L.wire) /\ Len(L.wire) \in Nat
  BY DEF LinkState
<1>2. ASSUME NEW i \in DOMAIN M.wire, i > Len(L.wire), M.wire[i].t = "chunk" PROVE FALSE
  <2>1. i \in DOMAIN L.wire
    BY <1>2 DEF Hush, NoNew
  <2> QED
    BY <1>1, <1>2, <2>1
<1> QED
  BY <1>2 DEF Stopped

\* A step without a chunk keeps a cancelled upload quiet.
LEMMA HushStill ==
    ASSUME NEW L \in LinkState, Restful(L), NEW M, Hush(L, M) PROVE Still(L, M)
<1>1. Restful(M)
  BY DEF Hush, Restful
<1>2. L.active.stage # "idle" /\ L.active.upload.cancelled => M.active.stage # "draining"
  BY DEF Hush, Restful
<1> QED
  BY <1>1, <1>2, HushStopped DEF Still

\* What the shell does after a call changes none of that.
LEMMA StoppedShell ==
    ASSUME NEW L, NEW M \in LinkState
    PROVE  (Still(L, M) => Still(L, Shell(M))) /\ (Stopped(L, M) => Stopped(L, Shell(M)))
<1> DEFINE S == Shell(M)
<1>1. S.wire = M.wire /\ S.active \in {M.active, NoActive}
  BY CloseAside, ReasonsOutcomes DEF Shell
<1> HIDE DEF S
<1>2. (Still(L, M) => Still(L, S)) /\ (Stopped(L, M) => Stopped(L, S))
  BY <1>1, NoActiveFields DEF Still, Stopped, Restful
<1> QED
  BY <1>2 DEF S

\* The inductive invariant.
RestInv == PortInv /\ \A n \in Node : Restful(link[n])

\* A call into the end of n.
LEMMA CallStill ==
    ASSUME RestInv, NEW n \in Node, NEW N \in LinkState, Still(link[n], N), Call(n, N), NEW m \in Node
    PROVE  Still(link[m], link'[m])
<1>1. Still(link[n], Shell(N))
  BY StoppedShell
<1>2. link'[n] = Shell(N) /\ (m # n => link'[m] = link[m])
  BY DEF Call, RestInv, PortInv, IInv
<1>3. link[m] \in LinkState /\ Restful(link[m]) /\ Hush(link[m], link[m])
  BY HushSame DEF RestInv, PortInv, IInv
<1> QED
  BY <1>1, <1>2, <1>3, HushStill

\* One frame read: whatever it is, it makes no chunk, and a cancel of the
\* upload in hand stops it.
LEMMA HandleStops ==
    ASSUME NEW L, Sound(L), Restful(L), ~L.closed, NEW frame \in Frame
    PROVE  LET N == Handle(L, frame) IN
           /\ Hush(L, N)
           /\ L.active.stage # "idle" /\ frame = CancelFrame(L.active.upload.id)
                => N.active.stage # "draining"
<1>1. L \in LinkState
  BY DEF Sound
<1>2. CASE frame.t \in Responses
  <2>1. Hush(L, Handle(L, frame))
    BY <1>2, ResponseAside, AsideHush
  <2>2. frame # CancelFrame(L.active.upload.id)
    BY <1>2 DEF CancelFrame, Responses
  <2> QED
    BY <2>1, <2>2
<1>3. CASE frame.t = "want"
  <2>1. Handle(L, frame) = OnWant(L, frame)
    BY <1>3 DEF Handle, HandleText
  <2>2. frame # CancelFrame(L.active.upload.id)
    BY <1>3 DEF CancelFrame
  <2> QED
    BY <1>3, <2>1, <2>2, OnWantHush
<1>4. CASE frame.t = "cancel"
  <2>1. Handle(L, frame) = OnCancel(L, frame)
    BY <1>4 DEF Handle, HandleText
  <2>2. CancelFrame(L.active.upload.id).id = L.active.upload.id
    BY DEF CancelFrame
  <2> QED
    BY <2>1, <2>2, OnCancelStops
<1> QED
  BY <1>2, <1>3, <1>4, FrameFields DEF Responses

\* A viewer reads a frame.
LEMMA ReceiveStops ==
    ASSUME RestInv, NEW n \in Node, Receive(n), NEW m \in Node
    PROVE  /\ Still(link[m], link'[m])
           /\ link[n].active.stage # "idle" /\ ReadsCancel(n) => Stopped(link[n], link'[n])
<1> DEFINE o == Other(n)
           L == link[n]
           w == link[o].wire
           N == Handle(L, Head(w))
           T == Tail(w)
           R == [link[o] EXCEPT !.wire = T]
<1>1. o \in Node /\ o # n /\ link \in [Node -> LinkState]
  BY OtherNode DEF RestInv, PortInv, IInv
<1>2. Sound(L) /\ L \in LinkState /\ Restful(L) /\ ~L.closed /\ link[o] \in LinkState /\ Restful(link[o])
  BY <1>1 DEF RestInv, PortInv, IInv, Receive
<1>3. w \in Seq(Frame) /\ w # <<>>
  BY <1>2 DEF Receive, LinkState
<1>4. Head(w) \in Frame /\ Tail(w) \in Seq(Frame) /\ Len(w) \in Nat /\ Len(Tail(w)) = Len(w) - 1
  BY <1>3
<1>5. link' = [link EXCEPT ![n] = Shell(N), ![o] = R]
  BY <1>1 DEF Receive
<1>6. link'[n] = Shell(N) /\ link'[o] = R
  <2> HIDE DEF N, R, o
  <2> QED
    BY <1>1, <1>5
<1>7. Hush(L, N) /\ Sound(N)
  BY <1>2, <1>4, HandleStops, HandleSound
<1>8. L.active.stage # "idle" /\ ReadsCancel(n) => N.active.stage # "draining"
  BY <1>2, <1>4, HandleStops DEF ReadsCancel
<1> HIDE DEF N, L
<1>9. Still(L, link'[n]) /\ (L.active.stage # "idle" /\ ReadsCancel(n) => Stopped(L, link'[n]))
  BY <1>2, <1>6, <1>7, <1>8, HushStill, HushStopped, StoppedShell DEF Sound
<1>10. Still(link[o], R)
  <2>1. R.wire = T /\ R.active = link[o].active
    <3> HIDE DEF T
    <3> QED
      BY <1>2 DEF LinkState
  <2>2. \A i \in DOMAIN T : ~(i > Len(w))
    BY <1>4
  <2> HIDE DEF R, T
  <2> QED
    BY <1>2, <2>1, <2>2 DEF Still, Stopped, Restful
<1>11. m \in {n, o}
  BY <1>1, NodeAssumption
<1> QED
  BY <1>6, <1>9, <1>10, <1>11 DEF L

\* Every step keeps a cancelled upload quiet.
LEMMA NextStill ==
    ASSUME RestInv, [Next]_vars, NEW m \in Node
    PROVE  Still(link[m], link'[m])
<1>0. ASSUME NEW n \in Node
      PROVE  Sound(link[n]) /\ link[n] \in LinkState /\ Restful(link[n]) /\ link[n].buffered \in Nat
  BY DEF RestInv, PortInv, IInv, LinkState
<1>1. ASSUME NEW n \in Node, NEW N, Sound(N), Aside(link[n], N), Call(n, N)
      PROVE  Still(link[m], link'[m])
  BY <1>0, <1>1, AsideHush, HushStill, CallStill DEF Sound
<1>2. ASSUME NEW n \in Node, NEW reason \in Reason, Call(n, Close(link[n], reason))
      PROVE  Still(link[m], link'[m])
  BY <1>0, <1>1, <1>2, CloseSound, CloseIsAside
<1>3. CASE UNCHANGED vars
  BY <1>0, <1>3, HushSame, HushStill DEF vars
<1>4. ASSUME NEW n \in Node, Request(n) PROVE Still(link[m], link'[m])
  <2>1. PICK q \in Ask[n] : link' = [link EXCEPT ![n] = StartRequest(link[n], q.key, q.range, q.expected)]
    BY <1>4 DEF Request
  <2>2. q.key \in Key /\ q.range \in PieceRange /\ q.expected \in Nat
    BY AskAssumption
  <2> DEFINE N == StartRequest(link[n], q.key, q.range, q.expected)
  <2>3. Hush(link[n], N)
    BY <1>0, <2>2, StartRequestAside, AsideHush
  <2>4. link'[n] = N /\ (m # n => link'[m] = link[m])
    BY <2>1 DEF RestInv, PortInv, IInv
  <2> HIDE DEF N
  <2> QED
    BY <1>0, <2>3, <2>4, HushSame, HushStill
<1>5. ASSUME NEW n \in Node, AbortRequest(n) PROVE Still(link[m], link'[m])
  <2>1. PICK outcome \in {"abort", "abandoned"} : Call(n, Abort(link[n], outcome))
    BY <1>5 DEF AbortRequest
  <2>2. outcome \in Outcome
    BY DEF Outcome
  <2> QED
    BY <1>0, <1>1, <2>1, <2>2, AbortSound, AbortAside
<1>6. ASSUME NEW n \in Node, FireRequestTimer(n) PROVE Still(link[m], link'[m])
  BY <1>0, <1>1, <1>6, RequestTimeoutSound, RequestTimeoutAside DEF FireRequestTimer
<1>7. ASSUME NEW n \in Node, Serve(n) PROVE Still(link[m], link'[m])
  <2> DEFINE k == link[n].active.upload.key
  <2>1. k \in Key
    BY <1>0 DEF LinkState, Active, Upload
  <2>2. PICK bytes \in {Object(k, HeldSize[n][k]), None}, buffered \in 0 .. link[n].buffered :
           Call(n, ServeResponse(link[n], bytes, buffered))
    BY <1>7 DEF Serve
  <2>3. bytes \in Payload /\ buffered \in Nat
    BY <1>0, <2>1, <2>2, ObjectPayload, NonePayload
  <2> DEFINE N == ServeResponse(link[n], bytes, buffered)
  <2>4. Sound(N) /\ Restful(N)
        /\ (link[n].active.stage # "idle" /\ link[n].active.upload.cancelled => Hush(link[n], N))
    BY <1>0, <2>3, ServeResponseSound, ServeResponseStops
  <2>5. Call(n, N)
    BY <2>2
  <2> HIDE DEF N
  <2>6. Still(link[n], N)
    BY <1>0, <2>4, HushStill DEF Still
  <2> QED
    BY <2>4, <2>5, <2>6, CallStill DEF Sound
<1>8. ASSUME NEW n \in Node, ServeFails(n) PROVE Still(link[m], link'[m])
  <2> DEFINE L == link[n]
             C == Close(L, "serve-error")
             N == ServeResponse(C, None, L.buffered)
  <2>1. Sound(C) /\ Hush(L, C)
    BY <1>0, CloseSound, CloseHush, ReasonsOutcomes
  <2>2. Still(L, C)
    BY <1>0, <2>1, HushStill
  <2>3. Call(n, N) /\ L \in LinkState /\ L.buffered \in Nat
    BY <1>0, <1>8 DEF ServeFails
  <2>4. L.active.stage = "awaiting" /\ C.active \in {L.active, NoActive}
    BY <1>0, <1>8, CloseAside, ReasonsOutcomes DEF ServeFails
  <2> HIDE DEF C
  <2>5. Sound(N) /\ Restful(N) /\ (C.active.stage # "idle" /\ C.active.upload.cancelled => Hush(C, N))
    BY <2>1, <2>2, <2>3, NonePayload, ServeResponseSound, ServeResponseStops DEF Still
  <2>6. C.active.stage = "idle" => N = C
    BY DEF ServeResponse
  <2> HIDE DEF N, L
  <2>7. L.active.upload.cancelled => Hush(L, N)
    BY <2>1, <2>4, <2>5, <2>6, NoActiveFields, HushTransitive
  <2>8. Still(L, N)
    BY <1>0, <2>3, <2>5, <2>7, HushStill DEF Still, L
  <2> QED
    BY <2>3, <2>5, <2>8, CallStill DEF Sound, L
<1>9. ASSUME NEW n \in Node, FireUploadTimer(n) PROVE Still(link[m], link'[m])
  <2> DEFINE L == link[n]
             N == UploadTimeout(L)
             T == [L EXCEPT !.active = NoActive]
             C == Close(T, "upload-drain-timeout")
  <2>1. L.active.stage = "draining" /\ ~L.active.upload.cancelled /\ Call(n, N)
    BY <1>0, <1>9 DEF FireUploadTimer, Restful
  <2>2. T \in LinkState /\ T.active.stage = "idle"
    BY ZenonT(60), <1>0, NoActiveType, NoActiveFields DEF LinkState
  <2>3. N = FinishUpload(C)
    BY DEF UploadTimeout
  <2>4. Sound(N)
    BY <1>0, <2>1, UploadTimeoutSound
  <2>5. "upload-drain-timeout" \in Reason
    BY DEF Reason
  <2>6. Owing(T)
    BY <1>0, <2>1, TakenOwing
  <2> HIDE DEF T
  <2>7. C \in LinkState /\ C.active.stage = "idle"
    BY <2>2, <2>5, <2>6, CloseOwing DEF Owing
  <2> HIDE DEF C
  <2>8. Hush(C, N)
    BY <2>3, <2>7, FinishUploadHush
  <2> HIDE DEF N
  <2>9. Restful(N)
    BY <2>7, <2>8 DEF Hush, Restful
  <2> QED
    BY <2>1, <2>4, <2>9, CallStill DEF Still, Sound
<1>10. ASSUME NEW n \in Node, Drained(n) PROVE Still(link[m], link'[m])
  <2>1. PICK buffered \in 0 .. link[n].buffered : Call(n, BufferedAmountLow(link[n], buffered))
    BY <1>10 DEF Drained
  <2>2. buffered \in Nat
    BY <1>0
  <2> DEFINE N == BufferedAmountLow(link[n], buffered)
  <2>3. Sound(N) /\ Restful(N)
    BY <1>0, <2>2, BufferedAmountLowSound, BufferedAmountLowStops
  <2>4. Call(n, N)
    BY <2>1
  <2>5. ~link[n].active.upload.cancelled
    BY <1>0, <1>10 DEF Drained, Restful
  <2> HIDE DEF N
  <2> QED
    BY <2>3, <2>4, <2>5, CallStill DEF Still, Sound
<1>11. ASSUME NEW n \in Node, Receive(n) PROVE Still(link[m], link'[m])
  BY <1>11, ReceiveStops
<1>12. ASSUME NEW n \in Node, CloseLink(n) \/ ChannelClosed(n) PROVE Still(link[m], link'[m])
  BY <1>2, <1>12 DEF CloseLink, ChannelClosed, Reason
<1>13. ASSUME NEW n \in Node, ChannelDown(n) PROVE Still(link[m], link'[m])
  <2> DEFINE N == [link[n] EXCEPT !.open = FALSE]
  <2>1. link'[n] = N /\ (m # n => link'[m] = link[m])
    BY <1>13 DEF ChannelDown, RestInv, PortInv, IInv
  <2>2. N.wire = link[n].wire /\ N.active = link[n].active
    BY <1>0 DEF LinkState
  <2> HIDE DEF N
  <2> QED
    BY <1>0, <2>1, <2>2, HushSame, HushStill
<1>14. ASSUME NEW n \in Node, LoseFrame(n) PROVE Still(link[m], link'[m])
  <2> DEFINE v == link[n].wire
  <2>1. PICK i \in DOMAIN v :
          link' = [link EXCEPT ![n].wire = SubSeq(v, 1, i - 1) \o SubSeq(v, i + 1, Len(v))]
    BY <1>14 DEF LoseFrame
  <2> DEFINE w == SubSeq(v, 1, i - 1) \o SubSeq(v, i + 1, Len(v))
             N == [link[n] EXCEPT !.wire = w]
  <2>2. link'[n] = N /\ (m # n => link'[m] = link[m])
    BY <2>1 DEF RestInv, PortInv, IInv
  <2>3. v \in Seq(Frame) /\ i \in 1 .. Len(v) /\ Len(v) \in Nat
    BY <1>0 DEF LinkState
  <2>4. \A j \in DOMAIN w : ~(j > Len(v))
    <3>1. SubSeq(v, 1, i - 1) \in Seq(Frame) /\ Len(SubSeq(v, 1, i - 1)) = i - 1
      BY <2>3
    <3>2. SubSeq(v, i + 1, Len(v)) \in Seq(Frame) /\ Len(SubSeq(v, i + 1, Len(v))) = Len(v) - i
      BY <2>3
    <3>3. DOMAIN w = 1 .. (i - 1) + (Len(v) - i)
      BY <3>1, <3>2
    <3> QED
      BY SMTT(30), <2>3, <3>3
  <2> HIDE DEF w
  <2>5. N.wire = w /\ N.active = link[n].active
    BY <1>0 DEF LinkState
  <2> HIDE DEF N
  <2>6. Still(link[n], N)
    BY <1>0, <2>4, <2>5 DEF Still, Stopped, Restful
  <2> QED
    BY <1>0, <2>2, <2>6, HushSame, HushStill
<1> QED
  BY <1>3, <1>4, <1>5, <1>6, <1>7, <1>8, <1>9, <1>10, <1>11, <1>12, <1>13, <1>14 DEF Next

\* No paused upload is cancelled, ever.
LEMMA SpecRestInv == Spec => []RestInv
<1>1. Init => RestInv
  <2> SUFFICES ASSUME Init, NEW n \in Node PROVE Restful(link[n])
    BY InitPortInv DEF RestInv
  <2>1. link[n] = NewLink /\ NewLink.active = NoActive
    BY DEF Init, NewLink
  <2> QED
    BY <2>1, NoActiveFields DEF Restful
<1>2. RestInv /\ [Next]_vars => RestInv'
  <2> SUFFICES ASSUME RestInv, [Next]_vars PROVE RestInv'
    OBVIOUS
  <2>1. PortInv'
    BY NextPortInv DEF RestInv
  <2>2. ASSUME NEW n \in Node PROVE Restful(link'[n])
    BY NextStill DEF Still
  <2> QED
    BY <2>1, <2>2 DEF RestInv
<1> QED
  BY <1>1, <1>2, PTL DEF Spec

\* From the step that reads the cancel of an upload on, no chunk of it goes
\* out and it does not wait for the channel, whatever else happens to either
\* end; an upload whose cancel came before the host's bytes has none to send.
THEOREM CancelsStopUploads == Spec => CancelStopsChunks
<1> DEFINE A == \A n \in Node :
                  /\ link[n].active.stage # "idle"
                  /\ link[n].active.upload.cancelled \/ ReadsCancel(n)
                  => /\ \A i \in DOMAIN link'[n].wire :
                           i > Len(link[n].wire) => link'[n].wire[i].t # "chunk"
                     /\ link'[n].active.stage # "draining"
<1>1. RestInv /\ [Next]_vars => A
  <2> SUFFICES ASSUME RestInv, [Next]_vars, NEW n \in Node, link[n].active.stage # "idle",
                      link[n].active.upload.cancelled \/ ReadsCancel(n)
               PROVE  Stopped(link[n], link'[n])
    BY DEF Stopped
  <2>1. CASE link[n].active.upload.cancelled
    BY <2>1, NextStill DEF Still
  <2>2. CASE ReadsCancel(n)
    <3>1. Receive(n)
      BY <2>2 DEF ReadsCancel
    <3> QED
      BY <2>2, <3>1, ReceiveStops
  <2> QED
    BY <2>1, <2>2
<1>2. RestInv /\ [Next]_vars => [A]_vars
  BY <1>1
<1> QED
  BY <1>2, SpecRestInv, PTL DEF Spec, CancelStopsChunks
=============================================================================
