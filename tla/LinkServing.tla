----------------------------- MODULE LinkServing -----------------------------
(***************************************************************************)
(* The holder's end of a link, facing a far end that does not wait for one *)
(* answer before it sends the next want, as the queue of link.rs allows.   *)
(* The far end is the environment: it may want and cancel at any time.     *)
(***************************************************************************)
EXTENDS Link

CONSTANT MaxWants      \* bound on the wants the far end sends

ASSUME WantsAssumption == MaxWants \in Nat

VARIABLES
    link,      \* the holder's end; link.wire is all it ever sent
    wanted,    \* history: the wants it took in, in order
    revoked    \* history: the ids of those the far end cancelled

vars == <<link, wanted, revoked>>

Init == link = NewLink /\ wanted = <<>> /\ revoked = {}

Call(after) == link' = Shell(after) /\ UNCHANGED <<wanted, revoked>>

Ranges == {Whole} \cup {[start |-> 0, end |-> e] : e \in 1 .. MaxSegment}

RemoteWant ==
    /\ ~link.closed
    /\ Len(wanted) < MaxWants
    /\ \E k \in Key, r \in Ranges :
         LET frame == WantFrame(Len(wanted) + 1, k, r) IN
         /\ link' = Shell(Handle(link, frame))
         /\ wanted' = IF link.inFlight < MaxQueued THEN Append(wanted, frame)
                      ELSE wanted
    /\ UNCHANGED revoked

\* Any id: one answered already, one waiting, or one never sent.
RemoteCancel ==
    /\ ~link.closed
    /\ \E id \in 1 .. MaxWants :
         /\ link' = Shell(Handle(link, CancelFrame(id)))
         /\ revoked' = revoked \cup ({id} \cap DOMAIN wanted)
    /\ UNCHANGED wanted

Serve ==
    /\ link.active.stage = "awaiting"
    /\ \E bytes \in {None, Object(link.active.upload.key,
                                  Size[link.active.upload.key])},
          buffered \in 0 .. link.buffered :
         Call(ServeResponse(link, bytes, buffered))

Drained ==
    /\ link.active.stage = "draining"
    /\ \E buffered \in 0 .. link.buffered :
         /\ buffered <= HighWater
         /\ Call(BufferedAmountLow(link, buffered))

FireUploadTimer ==
    /\ link.active.stage = "draining"
    /\ Call(UploadTimeout(link))

CloseLink == ~link.closed /\ Call(Close(link, "host"))

Next == \/ RemoteWant
        \/ RemoteCancel
        \/ Serve
        \/ Drained
        \/ FireUploadTimer
        \/ CloseLink

\* The host answers what it is asked, and a paused response's timer fires
\* if the channel never drains.
Fairness == WF_vars(Serve) /\ WF_vars(FireUploadTimer)

Spec == Init /\ [][Next]_vars /\ Fairness

-----------------------------------------------------------------------------
(* Properties.                                                             *)

Ends(frame) == frame.t \in {"eof", "none"}
Ended == SelectSeq(link.wire, Ends)

\* Wants are answered in the order they came, each once, the cancelled ones
\* too.  Chunks carry no id: what lies between a meta and its eof are those
\* of the object or range its want named, from the first on, and all of them
\* unless the far end cancelled: to any other far end an early eof is a
\* breach of the protocol.
AnswersExact ==
    /\ \A i \in DOMAIN Ended : Ended[i].id = i
    /\ \A p \in DOMAIN link.wire : link.wire[p].t = "eof" =>
           \E m \in 1 .. p - 1 :
               LET id == link.wire[p].id
                   all == Wanted(wanted[id].key, wanted[id].range)
                   sent == p - m - 1
               IN  /\ link.wire[m].t = "meta" /\ link.wire[m].id = id
                   /\ link.wire[m].size = Len(all)
                   /\ sent <= Len(all)
                   /\ \A x \in 1 .. sent : link.wire[m + x] = ChunkFrame(all[x])
                   /\ id \notin revoked => sent = Len(all)

\* Every want the link took in is answered in the end, or the link closes.
WantsAnswered ==
    \A i \in 1 .. MaxWants :
        Len(wanted) >= i ~> (Len(Ended) >= i \/ link.closed)
=============================================================================
