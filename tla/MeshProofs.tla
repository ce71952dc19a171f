----------------------------- MODULE MeshProofs -----------------------------
(* Proofs about Mesh: for any viewers, crowds, limits and numbers of dials  *)
(* and faults, no viewer exceeds its slots, both ends of a link mean the    *)
(* same channel, and no offer is answered twice.                            *)
EXTENDS Mesh, FiniteSetTheorems, TLAPS

-----------------------------------------------------------------------------
(* The inductive invariant.                                                 *)
Stages == {"none", "offering", "sent", "answering", "installing", "ready"}
DialState == [req : Requests \union {0}, out : BOOLEAN, stage : Stages, disc : BOOLEAN]
CheckState == [kind : {"dial", "offer", "answer"}, at : Viewers, peer : Viewers,
               req : Requests \union {0}, disc : BOOLEAN]
WindowState == [phase : {"none", "live", "lapsed"}, attempt : Viewers \union {Nobody},
                dropped : BOOLEAN, victim : SUBSET Viewers, vacant : BOOLEAN]
RequestState == {NoRequest} \union [from : Viewers, to : Viewers, poor : BOOLEAN]
MeshState ==
    [link : [Viewers -> [Viewers -> Requests \union {0}]], crowd : [Viewers -> Nat],
     dial : [Viewers -> [Viewers -> DialState]], checks : SUBSET CheckState,
     win : [Viewers -> WindowState], dials : Nat, req : [Requests -> RequestState],
     signals : SUBSET ({"offer", "answer", "reject"} \X Requests),
     taken : SUBSET Requests, opened : SUBSET Requests, closed : SUBSET Requests,
     stopped : SUBSET Viewers]

\* A window that is over attempts nobody and keeps no slot.
Idle(x) == x.phase = "none" => x.attempt = Nobody /\ ~x.vacant

\* Nothing is dialled and linked at once, and what is over leaves no trace.
Tidy(s) ==
    \A v \in Viewers :
        /\ Idle(s.win[v])
        /\ \A w \in Viewers : /\ ~Dialling(s, v, w) => ~s.dial[v][w].out
                              /\ ~(Linked(s, v, w) /\ Dialling(s, v, w))

\* SlotsKept at one viewer.
Usage(s, v) == InUse(s, v) + (IF Reserved(s, v) THEN 1 ELSE 0)
Fits(s, v) ==
    /\ Usage(s, v) <= MaxPeers
    /\ Outgoing(s, v) + Cardinality(DialChecks(s, v)) <= MaxDialsInFlight

\* Whatever names a request is of the two viewers that the request is of.
Used(s) == {r \in Requests : s.req[r] # NoRequest}
Of(s, r, v, w) == r \in Used(s) /\ s.req[r].from = v /\ s.req[r].to = w
Named(s) ==
    /\ \A v, w \in Viewers :
        /\ Dialling(s, v, w) => IF s.dial[v][w].out THEN Of(s, s.dial[v][w].req, v, w)
                                ELSE Of(s, s.dial[v][w].req, w, v)
        /\ Linked(s, v, w) => Of(s, s.link[v][w], v, w) \/ Of(s, s.link[v][w], w, v)
    /\ \A c \in s.checks : /\ c.kind = "offer" => Of(s, c.req, c.peer, c.at)
                           /\ c.kind = "answer" => Of(s, c.req, c.at, c.peer)
    /\ \A m \in s.signals : m[2] \in Used(s)
    /\ s.opened \subseteq Used(s)

\* Each request came of a dial that was counted.
DialsOf(s) == {c \in s.checks : c.kind = "dial"}
Counted(s) ==
    /\ Cardinality(Used(s)) <= s.dials
    /\ s.dials + Cardinality(DialsOf(s)) <= MaxDials

\* The ends of a channel that is open have its request for as long as none of
\* them closed it.
Ends(s, v, w) == {s.link[v][w], s.dial[v][w].req}
Paired(s) ==
    /\ \A r \in s.opened \ s.closed :
        /\ r \in Ends(s, s.req[r].from, s.req[r].to)
        /\ r \in Ends(s, s.req[r].to, s.req[r].from)
    /\ \A v, w \in Viewers :
        Linked(s, v, w) /\ s.link[v][w] \notin s.closed => s.link[v][w] \in Ends(s, w, v)

Good(s) ==
    /\ s \in MeshState /\ IsFiniteSet(s.checks)
    /\ Tidy(s) /\ Named(s) /\ Counted(s) /\ Paired(s)
    /\ \A v \in Viewers : Fits(s, v)

IInv == Good(mesh) /\ faults \in Nat

-----------------------------------------------------------------------------
(* Counting.                                                                *)

\* Viewers are finitely many, and Nobody is none of them.
LEMMA Viewing == IsFiniteSet(Viewers) /\ Viewers \subseteq Nat \ {0} /\ Nobody \notin Viewers
  BY MeshAssumption DEF Nobody

\* One more or one less makes the difference.
LEMMA CountOne ==
    ASSUME NEW A \in SUBSET Viewers, NEW B \in SUBSET Viewers, NEW w, A \ {w} = B \ {w}
    PROVE  /\ Cardinality(A) \in Nat /\ Cardinality(B) \in Nat
           /\ Cardinality(B) + Cost(w \in A) = Cardinality(A) + Cost(w \in B)
<1>1. IsFiniteSet(A) /\ IsFiniteSet(B)
  BY Viewing, FS_Subset
<1>2. Cardinality(A) \in Nat /\ Cardinality(B) \in Nat /\ Cardinality(A \ {w}) \in Nat
  BY <1>1, FS_CardinalityType, FS_RemoveElement
<1>3. Cardinality(A \ {w}) = IF w \in A THEN Cardinality(A) - 1 ELSE Cardinality(A)
  BY <1>1, FS_RemoveElement
<1>4. Cardinality(B \ {w}) = IF w \in B THEN Cardinality(B) - 1 ELSE Cardinality(B)
  BY <1>1, FS_RemoveElement
<1> DEFINE a == Cardinality(A)
           b == Cardinality(B)
           c == Cardinality(A \ {w})
<1>a. c = Cardinality(B \ {w}) /\ a \in Nat /\ b \in Nat
  BY <1>2
<1>b. (w \in A => c = a - 1) /\ (w \notin A => c = a)
  BY <1>3
<1>c. (w \in B => c = b - 1) /\ (w \notin B => c = b)
  BY <1>4, <1>a
<1> HIDE DEF a, b, c
<1>7. ASSUME w \in A /\ w \in B PROVE b + Cost(w \in A) = a + Cost(w \in B)
  BY <1>a, <1>b, <1>c, <1>7 DEF Cost
<1>8. ASSUME w \in A /\ w \notin B PROVE b + Cost(w \in A) = a + Cost(w \in B)
  BY <1>a, <1>b, <1>c, <1>8 DEF Cost
<1>9. ASSUME w \notin A /\ w \in B PROVE b + Cost(w \in A) = a + Cost(w \in B)
  BY <1>a, <1>b, <1>c, <1>9 DEF Cost
<1>10. ASSUME w \notin A /\ w \notin B PROVE b + Cost(w \in A) = a + Cost(w \in B)
  BY <1>a, <1>b, <1>c, <1>10 DEF Cost
<1>11. b + Cost(w \in A) = a + Cost(w \in B)
  BY <1>7, <1>8, <1>9, <1>10
<1> QED
  BY <1>2, <1>11 DEF a, b

\* All that is counted is finite.
LEMMA Numbers ==
    ASSUME NEW s \in MeshState, IsFiniteSet(s.checks), NEW v \in Viewers
    PROVE  /\ LinkCount(s, v) \in Nat /\ InUse(s, v) \in Nat /\ Usage(s, v) \in Nat
           /\ Outgoing(s, v) \in Nat /\ Cardinality(DialChecks(s, v)) \in Nat
           /\ IsFiniteSet(DialChecks(s, v))
<1>1. \A A \in SUBSET Viewers : Cardinality(A) \in Nat
  BY Viewing, FS_Subset, FS_CardinalityType
<1>2. s.crowd[v] \in Nat
  BY DEF MeshState
<1>3. LinkCount(s, v) \in Nat
  <2>1. {w \in Viewers : Linked(s, v, w)} \in SUBSET Viewers
    OBVIOUS
  <2> QED
    BY <1>1, <1>2, <2>1 DEF LinkCount
<1>4. InUse(s, v) \in Nat
  <2>1. {w \in Viewers : Dialling(s, v, w)} \in SUBSET Viewers
    OBVIOUS
  <2> QED
    BY <1>1, <1>3, <2>1 DEF InUse
<1>5. Outgoing(s, v) \in Nat
  <2>1. {w \in Viewers : s.dial[v][w].out} \in SUBSET Viewers
    OBVIOUS
  <2> QED
    BY <1>1, <2>1 DEF Outgoing
<1>6. IsFiniteSet(DialChecks(s, v))
  BY FS_Subset DEF DialChecks
<1>8. Usage(s, v) \in Nat
  BY <1>4 DEF Usage
<1> QED
  BY <1>3, <1>4, <1>5, <1>6, <1>8, FS_CardinalityType

\* The requests in use and the handlers that wait to dial are finitely many.
LEMMA Tallies ==
    ASSUME NEW s, IsFiniteSet(s.checks)
    PROVE  /\ IsFiniteSet(DialsOf(s)) /\ IsFiniteSet(Used(s))
           /\ Cardinality(DialsOf(s)) \in Nat /\ Cardinality(Used(s)) \in Nat
<1>1. IsFiniteSet(DialsOf(s))
  BY FS_Subset DEF DialsOf
<1>2. IsFiniteSet(Used(s))
  <2>1. MaxDials \in Nat
    BY MeshAssumption
  <2>2. IsFiniteSet(Requests)
    BY <2>1, FS_Interval DEF Requests
  <2> QED
    BY <2>2, FS_Subset DEF Used
<1> QED
  BY <1>1, <1>2, FS_CardinalityType

\* What v has to do with w, in slots.
LinkOf(s, v, w) == IF Linked(s, v, w) THEN 1 ELSE 0
DialOf(s, v, w) == IF Dialling(s, v, w) THEN 1 ELSE 0
OutOf(s, v, w) == IF s.dial[v][w].out THEN 1 ELSE 0

\* Two states that differ for v in what it has to do with w at most.
SameBut(s, t, v, w) ==
    /\ t.crowd[v] = s.crowd[v]
    /\ \A u \in Viewers \ {w} : /\ t.link[v][u] = s.link[v][u]
                               /\ t.dial[v][u].req = s.dial[v][u].req
                               /\ t.dial[v][u].out = s.dial[v][u].out
LEMMA CountCell ==
    ASSUME NEW s, NEW t, NEW v \in Viewers, NEW w \in Viewers,
           s.crowd[v] \in Nat, SameBut(s, t, v, w)
    PROVE  /\ LinkCount(t, v) + LinkOf(s, v, w) = LinkCount(s, v) + LinkOf(t, v, w)
           /\ InUse(t, v) + LinkOf(s, v, w) + DialOf(s, v, w)
                = InUse(s, v) + LinkOf(t, v, w) + DialOf(t, v, w)
           /\ Outgoing(t, v) + OutOf(s, v, w) = Outgoing(s, v) + OutOf(t, v, w)
<1> DEFINE Ls == {u \in Viewers : Linked(s, v, u)}
           Lt == {u \in Viewers : Linked(t, v, u)}
           Ds == {u \in Viewers : Dialling(s, v, u)}
           Dt == {u \in Viewers : Dialling(t, v, u)}
           Os == {u \in Viewers : s.dial[v][u].out}
           Ot == {u \in Viewers : t.dial[v][u].out}
<1>1. Ls \ {w} = Lt \ {w} /\ Ds \ {w} = Dt \ {w} /\ Os \ {w} = Ot \ {w}
  BY DEF Linked, Dialling, SameBut
<1>2. /\ (w \in Ls <=> Linked(s, v, w)) /\ (w \in Lt <=> Linked(t, v, w))
      /\ (w \in Ds <=> Dialling(s, v, w)) /\ (w \in Dt <=> Dialling(t, v, w))
      /\ (w \in Os <=> s.dial[v][w].out) /\ (w \in Ot <=> t.dial[v][w].out)
  OBVIOUS
<1>3. /\ LinkCount(s, v) = s.crowd[v] + Cardinality(Ls) /\ LinkCount(t, v) = s.crowd[v] + Cardinality(Lt)
      /\ InUse(s, v) = LinkCount(s, v) + Cardinality(Ds) /\ InUse(t, v) = LinkCount(t, v) + Cardinality(Dt)
      /\ Outgoing(s, v) = Cardinality(Os) /\ Outgoing(t, v) = Cardinality(Ot)
  BY DEF LinkCount, InUse, Outgoing, SameBut
<1>4. Ls \in SUBSET Viewers /\ Lt \in SUBSET Viewers /\ Ds \in SUBSET Viewers
      /\ Dt \in SUBSET Viewers /\ Os \in SUBSET Viewers /\ Ot \in SUBSET Viewers
  OBVIOUS
<1> HIDE DEF Ls, Lt, Ds, Dt, Os, Ot
<1>5. /\ Cardinality(Ls) \in Nat /\ Cardinality(Lt) \in Nat
      /\ Cardinality(Lt) + Cost(w \in Ls) = Cardinality(Ls) + Cost(w \in Lt)
  BY <1>1, <1>4, CountOne
<1>6. /\ Cardinality(Ds) \in Nat /\ Cardinality(Dt) \in Nat
      /\ Cardinality(Dt) + Cost(w \in Ds) = Cardinality(Ds) + Cost(w \in Dt)
  BY <1>1, <1>4, CountOne
<1>7. /\ Cardinality(Os) \in Nat /\ Cardinality(Ot) \in Nat
      /\ Cardinality(Ot) + Cost(w \in Os) = Cardinality(Os) + Cost(w \in Ot)
  BY <1>1, <1>4, CountOne
<1>8. /\ Cost(w \in Ls) = LinkOf(s, v, w) /\ Cost(w \in Lt) = LinkOf(t, v, w)
      /\ Cost(w \in Ds) = DialOf(s, v, w) /\ Cost(w \in Dt) = DialOf(t, v, w)
      /\ Cost(w \in Os) = OutOf(s, v, w) /\ Cost(w \in Ot) = OutOf(t, v, w)
  BY <1>2 DEF Cost, LinkOf, DialOf, OutOf
<1>9. \A b : Cost(b) \in {0, 1}
  BY DEF Cost
<1> QED
  BY <1>3, <1>5, <1>6, <1>7, <1>8, <1>9

\* Two states that are the same to v.
SameTo(s, t, v) ==
    /\ t.crowd[v] = s.crowd[v] /\ t.win[v] = s.win[v]
    /\ \A u \in Viewers : /\ t.link[v][u] = s.link[v][u]
                          /\ t.dial[v][u].req = s.dial[v][u].req
                          /\ t.dial[v][u].out = s.dial[v][u].out
LEMMA CountSame ==
    ASSUME NEW s, NEW t, NEW v \in Viewers, SameTo(s, t, v)
    PROVE  /\ LinkCount(t, v) = LinkCount(s, v) /\ InUse(t, v) = InUse(s, v)
           /\ Usage(t, v) = Usage(s, v) /\ Outgoing(t, v) = Outgoing(s, v)
<1>1. {u \in Viewers : Linked(t, v, u)} = {u \in Viewers : Linked(s, v, u)}
  BY DEF SameTo, Linked
<1>2. {u \in Viewers : Dialling(t, v, u)} = {u \in Viewers : Dialling(s, v, u)}
  BY DEF SameTo, Dialling
<1>3. {u \in Viewers : t.dial[v][u].out} = {u \in Viewers : s.dial[v][u].out}
  BY DEF SameTo
<1>4. t.crowd[v] = s.crowd[v] /\ (Reserved(t, v) <=> Reserved(s, v))
  BY DEF SameTo, Reserved
<1> QED
  BY <1>1, <1>2, <1>3, <1>4 DEF LinkCount, InUse, Usage, Outgoing

-----------------------------------------------------------------------------
(* What v gives up: dials and links end, their channels are closed.         *)

Less(s, t, v) ==
    /\ t \in MeshState
    /\ t.req = s.req /\ t.checks = s.checks /\ t.signals = s.signals /\ t.taken = s.taken
    /\ t.opened = s.opened /\ t.dials = s.dials /\ t.stopped = s.stopped /\ s.closed \subseteq t.closed
    /\ \A u \in Viewers \ {v} : SameTo(s, t, u)
    /\ InUse(t, v) <= InUse(s, v) /\ Usage(t, v) <= Usage(s, v) /\ Outgoing(t, v) <= Outgoing(s, v)
    /\ Idle(t.win[v])
    /\ \A w \in Viewers :
        /\ \/ t.dial[v][w].req = s.dial[v][w].req /\ t.dial[v][w].out = s.dial[v][w].out
           \/ t.dial[v][w].req = 0 /\ ~t.dial[v][w].out /\ s.dial[v][w].req \in t.closed
        /\ t.link[v][w] = s.link[v][w] \/ (t.link[v][w] = 0 /\ s.link[v][w] \in t.closed)

\* Nothing may be given up.
LEMMA LessSelf ==
    ASSUME NEW s \in MeshState, IsFiniteSet(s.checks), NEW v \in Viewers, Tidy(s)
    PROVE  Less(s, s, v)
  BY Numbers DEF Less, Tidy, SameTo

\* v may give up one thing after another.
LEMMA LessAgain ==
    ASSUME NEW s \in MeshState, NEW t \in MeshState, NEW u \in MeshState, NEW v \in Viewers,
           IsFiniteSet(s.checks), Less(s, t, v), Less(t, u, v)
    PROVE  Less(s, u, v)
<1>1. \A w \in Viewers \ {v} : SameTo(s, u, w)
  BY DEF Less, SameTo
<1>2. t.closed \subseteq u.closed
  BY DEF Less
<1>3. ASSUME NEW w \in Viewers
      PROVE  \/ u.dial[v][w].req = s.dial[v][w].req /\ u.dial[v][w].out = s.dial[v][w].out
             \/ u.dial[v][w].req = 0 /\ ~u.dial[v][w].out /\ s.dial[v][w].req \in u.closed
  BY <1>2, <1>3 DEF Less
<1>4. ASSUME NEW w \in Viewers
      PROVE  u.link[v][w] = s.link[v][w] \/ (u.link[v][w] = 0 /\ s.link[v][w] \in u.closed)
  BY <1>2, <1>4 DEF Less
<1>5. InUse(u, v) <= InUse(s, v) /\ Usage(u, v) <= Usage(s, v) /\ Outgoing(u, v) <= Outgoing(s, v)
  <2>1. t.checks = s.checks /\ u.checks = t.checks
    BY DEF Less
  <2>2. /\ InUse(s, v) \in Nat /\ InUse(t, v) \in Nat /\ InUse(u, v) \in Nat
        /\ Usage(s, v) \in Nat /\ Usage(t, v) \in Nat /\ Usage(u, v) \in Nat
        /\ Outgoing(s, v) \in Nat /\ Outgoing(t, v) \in Nat /\ Outgoing(u, v) \in Nat
    BY <2>1, Numbers
  <2> QED
    BY <2>2 DEF Less
<1> QED
  BY <1>1, <1>2, <1>3, <1>4, <1>5 DEF Less

\* A request in use is of two viewers.
LEMMA UsedHas ==
    ASSUME NEW s \in MeshState, NEW r \in Used(s)
    PROVE  r \in Requests /\ r # 0 /\ s.req[r].from \in Viewers /\ s.req[r].to \in Viewers
<1>1. r \in Requests /\ s.req[r] # NoRequest /\ s.req[r] \in RequestState
  BY DEF Used, MeshState
<1> QED
  BY <1>1 DEF RequestState, Requests

\* What is given up leaves no end of an open channel alone, and only makes
\* room.
LEMMA LessGood ==
    ASSUME NEW s, NEW t, NEW v \in Viewers, Good(s), Less(s, t, v)
    PROVE  Good(t)
<1>0. s \in MeshState /\ t \in MeshState /\ IsFiniteSet(s.checks) /\ IsFiniteSet(t.checks)
      /\ s.closed \subseteq t.closed /\ t.opened = s.opened /\ t.req = s.req /\ t.checks = s.checks
      /\ t.signals = s.signals /\ t.dials = s.dials
  BY DEF Good, Less
<1>1. ASSUME NEW u \in Viewers, NEW w \in Viewers
      PROVE  /\ \/ t.dial[u][w].req = s.dial[u][w].req /\ t.dial[u][w].out = s.dial[u][w].out
                \/ t.dial[u][w].req = 0 /\ ~t.dial[u][w].out /\ s.dial[u][w].req \in t.closed
             /\ t.link[u][w] = s.link[u][w] \/ (t.link[u][w] = 0 /\ s.link[u][w] \in t.closed)
  BY DEF Less, SameTo
<1>2. Tidy(t)
  <2>1. ASSUME NEW u \in Viewers PROVE Idle(t.win[u])
    BY DEF Good, Tidy, Less, SameTo
  <2>2. ASSUME NEW u \in Viewers, NEW w \in Viewers
        PROVE  /\ ~Dialling(t, u, w) => ~t.dial[u][w].out
               /\ ~(Linked(t, u, w) /\ Dialling(t, u, w))
    BY <1>1 DEF Good, Tidy, Dialling, Linked
  <2> QED
    BY <2>1, <2>2 DEF Tidy
<1>3. Used(t) = Used(s) /\ DialsOf(t) = DialsOf(s) /\ \A r, u, w : Of(t, r, u, w) <=> Of(s, r, u, w)
  BY <1>0 DEF Used, DialsOf, Of
<1>4. Named(t)
  <2>1. ASSUME NEW u \in Viewers, NEW w \in Viewers
        PROVE  /\ Dialling(t, u, w) => IF t.dial[u][w].out THEN Of(t, t.dial[u][w].req, u, w)
                                       ELSE Of(t, t.dial[u][w].req, w, u)
               /\ Linked(t, u, w) => Of(t, t.link[u][w], u, w) \/ Of(t, t.link[u][w], w, u)
    BY <1>1, <1>3 DEF Good, Named, Dialling, Linked
  <2> QED
    BY <1>0, <1>3, <2>1 DEF Good, Named
<1>5. Counted(t)
  BY <1>0, <1>3 DEF Good, Counted
<1>6. Paired(t)
  <2>1. ASSUME NEW u \in Viewers, NEW w \in Viewers, NEW r \in Ends(s, u, w), r \notin t.closed, r # 0
        PROVE  r \in Ends(t, u, w)
    BY <1>1, <2>1 DEF Ends
  <2>2. ASSUME NEW r \in t.opened \ t.closed
        PROVE  /\ r \in Ends(t, t.req[r].from, t.req[r].to)
               /\ r \in Ends(t, t.req[r].to, t.req[r].from)
    <3>1. r \in Requests /\ r # 0 /\ s.req[r].from \in Viewers /\ s.req[r].to \in Viewers
      BY <1>0, UsedHas DEF Good, Named
    <3> QED
      BY <1>0, <2>1, <3>1 DEF Good, Paired
  <2>3. ASSUME NEW u \in Viewers, NEW w \in Viewers, Linked(t, u, w), t.link[u][w] \notin t.closed
        PROVE  t.link[u][w] \in Ends(t, w, u)
    <3>1. t.link[u][w] = s.link[u][w] /\ t.link[u][w] # 0
      BY <1>1, <2>3 DEF Linked
    <3> QED
      BY <1>0, <2>1, <2>3, <3>1 DEF Good, Paired, Linked
  <2> QED
    BY <2>2, <2>3 DEF Paired
<1>7. ASSUME NEW u \in Viewers PROVE Fits(t, u)
  <2>1. /\ Usage(s, u) \in Nat /\ Usage(t, u) \in Nat /\ Outgoing(s, u) \in Nat
        /\ Outgoing(t, u) \in Nat /\ Cardinality(DialChecks(s, u)) \in Nat
        /\ MaxPeers \in Nat /\ MaxDialsInFlight \in Nat
    BY <1>0, Numbers, MeshAssumption
  <2>2. DialChecks(t, u) = DialChecks(s, u)
    BY <1>0 DEF DialChecks
  <2>3. Usage(t, u) <= Usage(s, u) /\ Outgoing(t, u) <= Outgoing(s, u)
    BY <2>1, CountSame DEF Less
  <2> QED
    BY <2>1, <2>2, <2>3 DEF Good, Fits
<1> QED
  BY <1>0, <1>2, <1>4, <1>5, <1>6, <1>7 DEF Good

-----------------------------------------------------------------------------
(* Mesh's operators that only give up something.                            *)

\* A dial is replaced by another.
LEMMA DialSet ==
    ASSUME NEW s \in MeshState, NEW v \in Viewers, NEW w \in Viewers, NEW d \in DialState
    PROVE  [s EXCEPT !.dial[v][w] = d] \in MeshState
<1>1. [s.dial EXCEPT ![v][w] = d] \in [Viewers -> [Viewers -> DialState]]
  BY DEF MeshState
<1>2. [s EXCEPT !.dial = [s.dial EXCEPT ![v][w] = d]] \in MeshState
  BY <1>1 DEF MeshState
<1> QED
  BY <1>2 DEF MeshState

\* A link is replaced by another.
LEMMA LinkSet ==
    ASSUME NEW s \in MeshState, NEW v \in Viewers, NEW w \in Viewers, NEW l \in Requests \union {0}
    PROVE  [s EXCEPT !.link[v][w] = l] \in MeshState
<1>1. [s.link EXCEPT ![v][w] = l] \in [Viewers -> [Viewers -> Requests \union {0}]]
  BY DEF MeshState
<1>2. [s EXCEPT !.link = [s.link EXCEPT ![v][w] = l]] \in MeshState
  BY <1>1 DEF MeshState
<1> QED
  BY <1>2 DEF MeshState

\* Closing a channel changes nothing else.
LEMMA RetiredType ==
    ASSUME NEW s \in MeshState, NEW r \in Requests
    PROVE  /\ Retired(s, r) \in MeshState
           /\ Retired(s, r).closed = s.closed \union {r}
           /\ Retired(s, r).link = s.link /\ Retired(s, r).crowd = s.crowd
           /\ Retired(s, r).dial = s.dial /\ Retired(s, r).checks = s.checks
           /\ Retired(s, r).win = s.win /\ Retired(s, r).dials = s.dials
           /\ Retired(s, r).req = s.req /\ Retired(s, r).signals = s.signals
           /\ Retired(s, r).taken = s.taken /\ Retired(s, r).opened = s.opened
           /\ Retired(s, r).stopped = s.stopped
<1>1. s.closed \union {r} \in SUBSET Requests
  BY DEF MeshState
<1> QED
  BY <1>1 DEF MeshState, Retired

\* A state whose window of v is another one that is not over.
WindowOnly(s, t, v) ==
    /\ t \in MeshState
    /\ t.link = s.link /\ t.crowd = s.crowd /\ t.dial = s.dial /\ t.checks = s.checks
    /\ t.dials = s.dials /\ t.req = s.req /\ t.signals = s.signals /\ t.taken = s.taken
    /\ t.opened = s.opened /\ t.closed = s.closed /\ t.stopped = s.stopped
    /\ \A u \in Viewers \ {v} : t.win[u] = s.win[u]
    /\ Idle(t.win[v])

\* A window is replaced by another.
LEMMA WindowSet ==
    ASSUME NEW s \in MeshState, NEW v \in Viewers, NEW x \in WindowState,
           Idle(x)
    PROVE  LET t == [s EXCEPT !.win[v] = x] IN WindowOnly(s, t, v) /\ t.win[v] = x
<1> DEFINE t == [s EXCEPT !.win[v] = x]
<1>1. t \in MeshState
  <2>1. [s.win EXCEPT ![v] = x] \in [Viewers -> WindowState]
    BY DEF MeshState
  <2>2. [s EXCEPT !.win = [s.win EXCEPT ![v] = x]] \in MeshState
    BY <2>1 DEF MeshState
  <2> QED
    BY <2>2 DEF MeshState
<1>2. t.win = [s.win EXCEPT ![v] = x] /\ s.win \in [Viewers -> WindowState]
  BY DEF MeshState
<1>3. /\ t.link = s.link /\ t.crowd = s.crowd /\ t.dial = s.dial /\ t.checks = s.checks
      /\ t.dials = s.dials /\ t.req = s.req /\ t.signals = s.signals /\ t.taken = s.taken
      /\ t.opened = s.opened /\ t.closed = s.closed /\ t.stopped = s.stopped
  BY DEF MeshState
<1> HIDE DEF t
<1> QED
  BY <1>1, <1>2, <1>3 DEF WindowOnly, t

\* A window decides no more than whether one slot is reserved.
LEMMA WindowCounts ==
    ASSUME NEW s \in MeshState, NEW t, NEW v \in Viewers, WindowOnly(s, t, v)
    PROVE  /\ LinkCount(t, v) = LinkCount(s, v) /\ InUse(t, v) = InUse(s, v)
           /\ Outgoing(t, v) = Outgoing(s, v)
           /\ \A u \in Viewers \ {v} : SameTo(s, t, u)
<1>1. t.link = s.link /\ t.dial = s.dial /\ t.crowd = s.crowd
  BY DEF WindowOnly
<1> QED
  BY <1>1 DEF WindowOnly, LinkCount, InUse, Outgoing, Linked, Dialling, SameTo

\* A window that reserves no more than it did takes no slot.
LEMMA WindowLess ==
    ASSUME NEW s \in MeshState, IsFiniteSet(s.checks), NEW t, NEW v \in Viewers, WindowOnly(s, t, v),
           Reserved(t, v) => Reserved(s, v)
    PROVE  Less(s, t, v)
<1>1. InUse(t, v) <= InUse(s, v) /\ Usage(t, v) <= Usage(s, v) /\ Outgoing(t, v) <= Outgoing(s, v)
  <2>1. InUse(s, v) \in Nat /\ Outgoing(s, v) \in Nat
    BY Numbers
  <2> QED
    BY <2>1, WindowCounts DEF Usage
<1>2. \A u \in Viewers \ {v} : SameTo(s, t, u)
  BY WindowCounts
<1> QED
  BY <1>1, <1>2 DEF Less, WindowOnly

\* An attempt that its window still owned is over; the window stays.
LEMMA AbandonedWindow ==
    ASSUME NEW s \in MeshState, NEW v \in Viewers, NEW w \in Viewers, NEW vacant \in BOOLEAN, Tidy(s)
    PROVE  LET t == Abandoned(s, v, w, vacant) IN
           /\ WindowOnly(s, t, v)
           /\ t.win[v].phase = s.win[v].phase /\ t.win[v].vacant \in {s.win[v].vacant, vacant}
           /\ t.win[v].dropped = s.win[v].dropped /\ t.win[v].victim = s.win[v].victim
<1>1. s.win[v] \in WindowState /\ Idle(s.win[v])
  BY DEF MeshState, Tidy
<1>2. CASE s.win[v].attempt # w
  BY <1>1, <1>2 DEF Abandoned, WindowOnly
<1>3. CASE s.win[v].attempt = w
  <2> DEFINE x == [s.win[v] EXCEPT !.attempt = Nobody, !.vacant = vacant]
  <2>1. Abandoned(s, v, w, vacant) = [s EXCEPT !.win[v] = x]
    BY <1>3 DEF Abandoned
  <2>2. s.win[v].phase # "none"
    BY <1>1, <1>3, Viewing DEF Idle
  <2>3. /\ x \in WindowState /\ x.phase = s.win[v].phase /\ x.vacant = vacant
        /\ x.dropped = s.win[v].dropped /\ x.victim = s.win[v].victim /\ Idle(x)
    BY <1>1, <2>2 DEF WindowState, Idle
  <2> HIDE DEF x
  <2> QED
    BY <2>1, <2>2, <2>3, WindowSet
<1> QED
  BY <1>2, <1>3

\* A dial of v with w is over and its channel closed.
Over(s, v, w, r) == [Retired(s, r) EXCEPT !.dial[v][w] = NoDial]
LEMMA DialOver ==
    ASSUME NEW s \in MeshState, NEW v \in Viewers, NEW w \in Viewers, NEW r \in Requests,
           s.dial[v][w].req = r
    PROVE  LET t == Over(s, v, w, r) IN
           /\ t \in MeshState
           /\ t.link = s.link /\ t.crowd = s.crowd /\ t.checks = s.checks
           /\ t.dials = s.dials /\ t.req = s.req /\ t.signals = s.signals /\ t.taken = s.taken
           /\ t.opened = s.opened /\ t.stopped = s.stopped /\ t.win = s.win
           /\ t.closed = s.closed \union {r}
           /\ t.dial = [s.dial EXCEPT ![v][w] = NoDial]
<1>1. NoDial \in DialState
  BY DEF NoDial, DialState, Stages
<1> DEFINE u == Retired(s, r)
<1>2. u \in MeshState
  BY RetiredType
<1>3. [u EXCEPT !.dial[v][w] = NoDial] \in MeshState
  BY <1>1, <1>2, DialSet
<1>4. /\ u.link = s.link /\ u.crowd = s.crowd /\ u.checks = s.checks
      /\ u.dials = s.dials /\ u.req = s.req /\ u.signals = s.signals /\ u.taken = s.taken
      /\ u.opened = s.opened /\ u.stopped = s.stopped /\ u.win = s.win
      /\ u.closed = s.closed \union {r} /\ u.dial = s.dial
  BY RetiredType
<1> HIDE DEF u
<1> QED
  BY ZenonT(60), <1>2, <1>3, <1>4 DEF MeshState, u, Over

\* #failDial.
LEMMA FailDialLess ==
    ASSUME NEW s \in MeshState, IsFiniteSet(s.checks), NEW v \in Viewers, NEW w \in Viewers,
           Tidy(s), Dialling(s, v, w)
    PROVE  LET t == FailDial(s, v, w) IN
           /\ Less(s, t, v)
           /\ t.link = s.link /\ t.crowd = s.crowd /\ t.dial = [s.dial EXCEPT ![v][w] = NoDial]
           /\ InUse(t, v) = InUse(s, v) - 1 /\ LinkCount(t, v) = LinkCount(s, v)
           /\ ~Dialling(t, v, w) /\ t.win[v].phase = s.win[v].phase
<1> DEFINE r == s.dial[v][w].req
           t == Over(s, v, w, r)
           u == Abandoned(t, v, w, s.win[v].dropped)
           x == FailDial(s, v, w)
<1>1. r \in Requests /\ s.win[v].dropped \in BOOLEAN /\ s.dial \in [Viewers -> [Viewers -> DialState]]
  BY DEF Dialling, MeshState, DialState, WindowState
<1>0. s.dial[v][w].req = r
  OBVIOUS
<1> HIDE DEF r
<1>2. /\ t \in MeshState
      /\ t.link = s.link /\ t.crowd = s.crowd /\ t.checks = s.checks
      /\ t.dials = s.dials /\ t.req = s.req /\ t.signals = s.signals /\ t.taken = s.taken
      /\ t.opened = s.opened /\ t.stopped = s.stopped /\ t.win = s.win
      /\ t.closed = s.closed \union {r}
      /\ t.dial = [s.dial EXCEPT ![v][w] = NoDial]
  BY <1>0, <1>1, DialOver
<1>3. x = u \/ x = t
  BY DEF FailDial, Over, r
<1> HIDE DEF t
<1>4. /\ t.dial[v][w] = NoDial
      /\ \A y \in Viewers \ {w} : t.dial[v][y] = s.dial[v][y]
      /\ \A y \in Viewers \ {v} : t.dial[y] = s.dial[y]
      /\ NoDial.req = 0 /\ NoDial.out = FALSE
  BY <1>1, <1>2 DEF NoDial
<1>5. Tidy(t)
  BY <1>2, <1>4 DEF Tidy, Dialling, Linked
<1>6. /\ WindowOnly(t, u, v)
      /\ u.win[v].phase = t.win[v].phase
  BY <1>1, <1>2, <1>5, AbandonedWindow
<1>7. WindowOnly(t, t, v)
  BY <1>2, <1>5 DEF WindowOnly, Tidy
<1>8. WindowOnly(t, x, v) /\ x.win[v].phase = s.win[v].phase
  BY <1>2, <1>3, <1>6, <1>7
<1> HIDE DEF x, u
<1>9. LinkCount(x, v) = LinkCount(t, v) /\ InUse(x, v) = InUse(t, v) /\ Outgoing(x, v) = Outgoing(t, v)
      /\ \A y \in Viewers \ {v} : SameTo(t, x, y)
  BY <1>2, <1>8, WindowCounts
<1>10. /\ LinkCount(t, v) + LinkOf(s, v, w) = LinkCount(s, v) + LinkOf(t, v, w)
       /\ InUse(t, v) + LinkOf(s, v, w) + DialOf(s, v, w)
            = InUse(s, v) + LinkOf(t, v, w) + DialOf(t, v, w)
       /\ Outgoing(t, v) + OutOf(s, v, w) = Outgoing(s, v) + OutOf(t, v, w)
  <2>1. s.crowd[v] \in Nat
    BY DEF MeshState
  <2>2. SameBut(s, t, v, w)
    BY <1>2, <1>4 DEF SameBut
  <2> QED
    BY <2>1, <2>2, CountCell
<1>11. /\ LinkOf(t, v, w) = LinkOf(s, v, w) /\ DialOf(s, v, w) = 1
       /\ DialOf(t, v, w) = 0 /\ OutOf(t, v, w) = 0
       /\ OutOf(s, v, w) \in {0, 1} /\ LinkOf(s, v, w) \in {0, 1}
  BY <1>2, <1>4 DEF Linked, Dialling, LinkOf, DialOf, OutOf
<1>12. /\ InUse(s, v) \in Nat /\ InUse(t, v) \in Nat /\ LinkCount(s, v) \in Nat /\ LinkCount(t, v) \in Nat
       /\ Outgoing(s, v) \in Nat /\ Outgoing(t, v) \in Nat
  BY <1>2, Numbers
<1>13. /\ InUse(x, v) = InUse(s, v) - 1 /\ LinkCount(x, v) = LinkCount(s, v)
       /\ Outgoing(x, v) <= Outgoing(s, v)
  <2> DEFINE c == LinkOf(s, v, w)
             o == OutOf(s, v, w)
  <2>1. c \in Nat /\ o \in Nat
    BY <1>11
  <2>2. LinkCount(t, v) + c = LinkCount(s, v) + c /\ InUse(t, v) + c + 1 = InUse(s, v) + c + 0
        /\ Outgoing(t, v) + o = Outgoing(s, v) + 0
    BY <1>10, <1>11
  <2> HIDE DEF c, o
  <2> QED
    BY <1>9, <1>12, <2>1, <2>2
<1>14. InUse(x, v) <= InUse(s, v) /\ Usage(x, v) <= Usage(s, v)
  BY <1>12, <1>13 DEF Usage
<1>15. ASSUME NEW y \in Viewers \ {v} PROVE SameTo(s, x, y)
  BY <1>2, <1>4, <1>9 DEF SameTo
<1>16. x.dial = t.dial /\ x.link = s.link /\ x.crowd = s.crowd /\ x.closed = t.closed
  BY <1>2, <1>8 DEF WindowOnly
<1>17. ASSUME NEW y \in Viewers
       PROVE  \/ x.dial[v][y].req = s.dial[v][y].req /\ x.dial[v][y].out = s.dial[v][y].out
              \/ x.dial[v][y].req = 0 /\ ~x.dial[v][y].out /\ s.dial[v][y].req \in x.closed
  BY <1>2, <1>4, <1>16 DEF r
<1>18. Less(s, x, v)
  BY <1>2, <1>8, <1>13, <1>14, <1>15, <1>16, <1>17 DEF Less, WindowOnly
<1> QED
  BY <1>2, <1>4, <1>8, <1>13, <1>16, <1>18 DEF x, Dialling

\* #endDiscoveryWindow, and #expireDiscovery, which ends one that is over.
LEMMA EndWindowLess ==
    ASSUME NEW s \in MeshState, IsFiniteSet(s.checks), NEW v \in Viewers, Tidy(s)
    PROVE  LET t == EndWindow(s, v) IN
           /\ Less(s, t, v) /\ ~Reserved(t, v) /\ t.win[v] = NoWindow
           /\ t.link = s.link /\ t.crowd = s.crowd
           /\ \A u, w \in Viewers : t.dial[u][w] \in {s.dial[u][w], NoDial}
<1> DEFINE w == s.win[v].attempt
           d == w # Nobody /\ Dialling(s, v, w) /\ s.dial[v][w].disc
           f == FailDial(s, v, w)
           t == IF d THEN f ELSE s
           x == EndWindow(s, v)
<1>1. NoWindow \in WindowState /\ Idle(NoWindow)
  BY DEF NoWindow, WindowState, Idle
<1>2. /\ t \in MeshState /\ IsFiniteSet(t.checks) /\ Less(s, t, v) /\ t.link = s.link /\ t.crowd = s.crowd
      /\ \A a, b \in Viewers : t.dial[a][b] \in {s.dial[a][b], NoDial}
  <2>1. CASE ~d
    BY <2>1, LessSelf
  <2>2. CASE d
    <3>1. w \in Viewers /\ Dialling(s, v, w)
      BY <2>2 DEF MeshState, WindowState
    <3> HIDE DEF w
    <3>2. Less(s, f, v) /\ f.link = s.link /\ f.crowd = s.crowd /\ f.dial = [s.dial EXCEPT ![v][w] = NoDial]
      BY <3>1, FailDialLess
    <3>3. s.dial \in [Viewers -> [Viewers -> DialState]]
      BY DEF MeshState
    <3>4. f \in MeshState /\ f.checks = s.checks
      BY <3>2 DEF Less
    <3>5. t = f
      BY <2>2
    <3> HIDE DEF f, d, t
    <3> QED
      BY <3>1, <3>2, <3>3, <3>4, <3>5
  <2> QED
    BY <2>1, <2>2
<1>3. x = [t EXCEPT !.win[v] = NoWindow]
  BY DEF EndWindow
<1> HIDE DEF t, x
<1>4. WindowOnly(t, x, v) /\ x.win[v] = NoWindow
  BY <1>1, <1>2, <1>3, WindowSet
<1>5. ~Reserved(x, v)
  BY <1>4 DEF Reserved, NoWindow
<1>6. Less(t, x, v)
  BY <1>2, <1>4, <1>5, WindowLess
<1>7. Less(s, x, v)
  BY <1>2, <1>4, <1>6, LessAgain DEF WindowOnly
<1> QED
  BY <1>2, <1>4, <1>5, <1>7 DEF x, WindowOnly

\* A window that has lapsed is given up with its dial.
LEMMA ExpiredLess ==
    ASSUME NEW s \in MeshState, IsFiniteSet(s.checks), NEW v \in Viewers, Tidy(s)
    PROVE  LET t == Expired(s, v) IN
           /\ Less(s, t, v) /\ t.win[v].phase # "lapsed"
           /\ t.link = s.link /\ t.crowd = s.crowd
           /\ \A u, w \in Viewers : t.dial[u][w] \in {s.dial[u][w], NoDial}
<1>1. CASE s.win[v].phase # "lapsed"
  BY <1>1, LessSelf DEF Expired
<1>2. CASE s.win[v].phase = "lapsed"
  BY <1>2, EndWindowLess DEF Expired, NoWindow
<1> QED
  BY <1>1, <1>2

\* A dial that its window may no longer end.
LEMMA KeepDialLess ==
    ASSUME NEW s \in MeshState, IsFiniteSet(s.checks), NEW v \in Viewers, NEW w \in Viewers, Tidy(s)
    PROVE  LET t == KeepDial(s, v, w) IN
           /\ Less(s, t, v) /\ InUse(t, v) = InUse(s, v) /\ Outgoing(t, v) = Outgoing(s, v)
           /\ t.link = s.link /\ t.crowd = s.crowd /\ t.closed = s.closed
           /\ \A u, y \in Viewers : /\ t.dial[u][y].req = s.dial[u][y].req
                                    /\ t.dial[u][y].out = s.dial[u][y].out
                                    /\ t.dial[u][y].stage = s.dial[u][y].stage
<1>1. CASE ~s.dial[v][w].disc
  <2>1. KeepDial(s, v, w) = s
    BY <1>1 DEF KeepDial
  <2> QED
    BY <2>1, LessSelf
<1>2. CASE s.dial[v][w].disc
  <2> DEFINE d == [s.dial[v][w] EXCEPT !.disc = FALSE]
             t == [s EXCEPT !.dial[v][w] = d]
             x == KeepDial(s, v, w)
  <2>1. x = [t EXCEPT !.win[v] = NoWindow]
    BY <1>2 DEF KeepDial, MeshState
  <2>2. s.dial[v][w] \in DialState /\ s.dial \in [Viewers -> [Viewers -> DialState]]
    BY DEF MeshState
  <2>3. /\ d \in DialState /\ d.req = s.dial[v][w].req /\ d.out = s.dial[v][w].out
        /\ d.stage = s.dial[v][w].stage
    BY <2>2 DEF DialState
  <2> HIDE DEF d
  <2>4. t \in MeshState
    BY <2>3, DialSet
  <2>5. /\ t.link = s.link /\ t.crowd = s.crowd /\ t.checks = s.checks
        /\ t.dials = s.dials /\ t.req = s.req /\ t.signals = s.signals /\ t.taken = s.taken
        /\ t.opened = s.opened /\ t.stopped = s.stopped /\ t.win = s.win /\ t.closed = s.closed
        /\ t.dial = [s.dial EXCEPT ![v][w] = d]
    BY DEF MeshState
  <2> HIDE DEF t, x
  <2>6. ASSUME NEW u \in Viewers, NEW y \in Viewers
        PROVE  /\ t.dial[u][y].req = s.dial[u][y].req /\ t.dial[u][y].out = s.dial[u][y].out
               /\ t.dial[u][y].stage = s.dial[u][y].stage
    BY <2>2, <2>3, <2>5
  <2>7. NoWindow \in WindowState /\ NoWindow.phase = "none" /\ Idle(NoWindow)
    BY DEF NoWindow, WindowState, Idle
  <2>8. WindowOnly(t, x, v) /\ x.win[v] = NoWindow
    BY <2>1, <2>4, <2>7, WindowSet
  <2>9. ~Reserved(x, v)
    BY <2>7, <2>8 DEF Reserved
  <2>10. \A u \in Viewers : SameTo(s, t, u)
    BY <2>5, <2>6 DEF SameTo
  <2>11. /\ LinkCount(t, v) = LinkCount(s, v) /\ InUse(t, v) = InUse(s, v)
         /\ Usage(t, v) = Usage(s, v) /\ Outgoing(t, v) = Outgoing(s, v)
    BY <2>10, CountSame
  <2>12. Less(s, t, v)
    <3>1. InUse(s, v) \in Nat /\ Usage(s, v) \in Nat /\ Outgoing(s, v) \in Nat
      BY Numbers
    <3>2. Idle(t.win[v])
      BY <2>5 DEF Tidy
    <3> QED
      BY <2>4, <2>5, <2>6, <2>10, <2>11, <3>1, <3>2 DEF Less
  <2>13. Less(t, x, v)
    BY <2>4, <2>5, <2>8, <2>9, WindowLess
  <2>14. Less(s, x, v) /\ InUse(x, v) = InUse(t, v) /\ Outgoing(x, v) = Outgoing(t, v)
    BY <2>4, <2>8, <2>12, <2>13, LessAgain, WindowCounts DEF WindowOnly
  <2> QED
    BY <2>5, <2>6, <2>8, <2>11, <2>14 DEF x, WindowOnly
<1> QED
  BY <1>1, <1>2

\* A link ends.
LEMMA EndLinkLess ==
    ASSUME NEW s \in MeshState, IsFiniteSet(s.checks), NEW v \in Viewers, NEW w \in Viewers,
           Tidy(s), Linked(s, v, w)
    PROVE  LET t == EndLink(s, v, w) IN
           /\ Less(s, t, v) /\ InUse(t, v) = InUse(s, v) - 1
           /\ t.dial = s.dial /\ t.win = s.win
           /\ \A u, y \in Viewers : t.link[u][y] \in {s.link[u][y], 0}
<1> DEFINE r == s.link[v][w]
           u == Retired(s, r)
           t == EndLink(s, v, w)
<1>1. r \in Requests /\ s.link \in [Viewers -> [Viewers -> Requests \union {0}]]
  BY DEF Linked, MeshState
<1>2. /\ u \in MeshState /\ u.closed = s.closed \union {r}
      /\ u.link = s.link /\ u.crowd = s.crowd /\ u.dial = s.dial /\ u.checks = s.checks
      /\ u.win = s.win /\ u.dials = s.dials /\ u.req = s.req /\ u.signals = s.signals
      /\ u.taken = s.taken /\ u.opened = s.opened /\ u.stopped = s.stopped
  <2> HIDE DEF r
  <2> QED
    BY <1>1, RetiredType
<1>3. t = [u EXCEPT !.link[v][w] = 0]
  BY DEF EndLink
<1> HIDE DEF u, t
<1>4. t \in MeshState
  BY <1>2, <1>3, LinkSet
<1>5. /\ t.closed = s.closed \union {r} /\ t.link = [s.link EXCEPT ![v][w] = 0]
      /\ t.crowd = s.crowd /\ t.dial = s.dial /\ t.checks = s.checks
      /\ t.win = s.win /\ t.dials = s.dials /\ t.req = s.req /\ t.signals = s.signals
      /\ t.taken = s.taken /\ t.opened = s.opened /\ t.stopped = s.stopped
  BY <1>2, <1>3 DEF MeshState
<1>6. /\ t.link[v][w] = 0
      /\ \A y \in Viewers \ {w} : t.link[v][y] = s.link[v][y]
      /\ \A y \in Viewers \ {v} : t.link[y] = s.link[y]
  BY <1>1, <1>5
<1>7. /\ LinkCount(t, v) + LinkOf(s, v, w) = LinkCount(s, v) + LinkOf(t, v, w)
      /\ InUse(t, v) + LinkOf(s, v, w) + DialOf(s, v, w)
            = InUse(s, v) + LinkOf(t, v, w) + DialOf(t, v, w)
      /\ Outgoing(t, v) + OutOf(s, v, w) = Outgoing(s, v) + OutOf(t, v, w)
  <2>1. s.crowd[v] \in Nat
    BY DEF MeshState
  <2>2. SameBut(s, t, v, w)
    BY <1>5, <1>6 DEF SameBut
  <2> QED
    BY <2>1, <2>2, CountCell
<1>8. /\ LinkOf(t, v, w) = 0 /\ LinkOf(s, v, w) = 1 /\ DialOf(t, v, w) = DialOf(s, v, w)
      /\ OutOf(t, v, w) = OutOf(s, v, w) /\ OutOf(s, v, w) \in Nat /\ DialOf(s, v, w) \in Nat
  BY <1>5, <1>6 DEF Linked, Dialling, LinkOf, DialOf, OutOf
<1>9. /\ InUse(s, v) \in Nat /\ InUse(t, v) \in Nat /\ Outgoing(s, v) \in Nat /\ Outgoing(t, v) \in Nat
  BY <1>4, <1>5, Numbers
<1>10. InUse(t, v) = InUse(s, v) - 1 /\ Outgoing(t, v) = Outgoing(s, v)
  BY <1>7, <1>8, <1>9
<1>11. Usage(t, v) <= Usage(s, v)
  BY <1>5, <1>9, <1>10 DEF Usage, Reserved
<1>12. \A y \in Viewers \ {v} : SameTo(s, t, y)
  BY <1>5, <1>6 DEF SameTo
<1>13. Idle(t.win[v])
  BY <1>5 DEF Tidy
<1>14. Less(s, t, v)
  BY <1>4, <1>5, <1>6, <1>9, <1>10, <1>11, <1>12, <1>13 DEF Less, r
<1> QED
  BY <1>1, <1>5, <1>6, <1>10, <1>14 DEF t

\* Links to the crowd.
LEMMA CrowdSet ==
    ASSUME NEW s \in MeshState, IsFiniteSet(s.checks), NEW v \in Viewers, NEW n \in Nat
    PROVE  LET t == [s EXCEPT !.crowd[v] = n] IN
           /\ t \in MeshState
           /\ t.link = s.link /\ t.closed = s.closed /\ t.dial = s.dial /\ t.checks = s.checks
           /\ t.win = s.win /\ t.dials = s.dials /\ t.req = s.req /\ t.signals = s.signals
           /\ t.taken = s.taken /\ t.opened = s.opened /\ t.stopped = s.stopped
           /\ \A y \in Viewers \ {v} : SameTo(s, t, y)
           /\ InUse(t, v) + s.crowd[v] = InUse(s, v) + n /\ Outgoing(t, v) = Outgoing(s, v)
<1> DEFINE t == [s EXCEPT !.crowd[v] = n]
<1>1. [s.crowd EXCEPT ![v] = n] \in [Viewers -> Nat] /\ s.crowd[v] \in Nat
  BY DEF MeshState
<1>2. t = [s EXCEPT !.crowd = [s.crowd EXCEPT ![v] = n]]
  BY DEF MeshState
<1> HIDE DEF t
<1>3. t \in MeshState
  BY <1>1, <1>2 DEF MeshState
<1>4. /\ t.crowd = [s.crowd EXCEPT ![v] = n] /\ t.link = s.link /\ t.closed = s.closed
      /\ t.dial = s.dial /\ t.checks = s.checks
      /\ t.win = s.win /\ t.dials = s.dials /\ t.req = s.req /\ t.signals = s.signals
      /\ t.taken = s.taken /\ t.opened = s.opened /\ t.stopped = s.stopped
  BY <1>2 DEF MeshState
<1>5. t.crowd[v] = n /\ \A y \in Viewers \ {v} : SameTo(s, t, y)
  BY <1>1, <1>4 DEF SameTo, MeshState
<1>6. InUse(t, v) + s.crowd[v] = InUse(s, v) + n /\ Outgoing(t, v) = Outgoing(s, v)
  <2> DEFINE a == Cardinality({y \in Viewers : Linked(s, v, y)})
             b == Cardinality({y \in Viewers : Dialling(s, v, y)})
  <2>1. InUse(s, v) = s.crowd[v] + a + b /\ InUse(t, v) = t.crowd[v] + a + b
    BY <1>4 DEF InUse, LinkCount, Linked, Dialling
  <2>2. Outgoing(t, v) = Outgoing(s, v)
    BY <1>4 DEF Outgoing
  <2>3. a \in Nat /\ b \in Nat
    BY Viewing, FS_Subset, FS_CardinalityType
  <2> HIDE DEF a, b
  <2> QED
    BY <1>1, <1>5, <2>1, <2>2, <2>3
<1> QED
  BY <1>3, <1>4, <1>5, <1>6 DEF t

\* A link that v drops to make room.
LEMMA DropLess ==
    ASSUME NEW s \in MeshState, IsFiniteSet(s.checks), NEW v \in Viewers, Tidy(s),
           NEW x \in Victims(s, v)
    PROVE  LET t == Drop(s, v, x) IN
           /\ Less(s, t, v) /\ InUse(t, v) = InUse(s, v) - 1
           /\ t.dial = s.dial /\ t.win = s.win
           /\ \A u, y \in Viewers : t.link[u][y] \in {s.link[u][y], 0}
<1>1. (x = {} /\ s.crowd[v] > 0) \/ \E w \in Viewers : Linked(s, v, w) /\ x = {w}
  BY DEF Victims
<1>2. ASSUME NEW w \in Viewers, Linked(s, v, w), x = {w}
      PROVE  Drop(s, v, x) = EndLink(s, v, w)
  BY <1>2 DEF Drop
<1>3. CASE x = {} /\ s.crowd[v] > 0
  <2> DEFINE n == s.crowd[v] - 1
             t == [s EXCEPT !.crowd[v] = n]
  <2>1. s.crowd[v] \in Nat /\ n \in Nat /\ n = s.crowd[v] - 1
    BY <1>3 DEF MeshState
  <2>2. Drop(s, v, x) = t
    BY <1>3 DEF Drop
  <2> HIDE DEF n
  <2>3. /\ t \in MeshState /\ t.link = s.link /\ t.closed = s.closed /\ t.dial = s.dial
        /\ t.checks = s.checks /\ t.win = s.win /\ t.dials = s.dials /\ t.req = s.req
        /\ t.signals = s.signals /\ t.taken = s.taken /\ t.opened = s.opened /\ t.stopped = s.stopped
        /\ \A y \in Viewers \ {v} : SameTo(s, t, y)
        /\ InUse(t, v) + s.crowd[v] = InUse(s, v) + n /\ Outgoing(t, v) = Outgoing(s, v)
    BY <2>1, CrowdSet
  <2> HIDE DEF t
  <2>4. InUse(s, v) \in Nat /\ InUse(t, v) \in Nat /\ Outgoing(s, v) \in Nat
    BY <2>3, Numbers
  <2>5. InUse(t, v) = InUse(s, v) - 1
    BY <2>1, <2>3, <2>4
  <2>6. Usage(t, v) <= Usage(s, v)
    BY <2>3, <2>4, <2>5 DEF Usage, Reserved
  <2>7. Idle(t.win[v])
    BY <2>3 DEF Tidy
  <2>8. Less(s, t, v)
    BY <2>3, <2>4, <2>5, <2>6, <2>7 DEF Less
  <2> QED
    BY <2>2, <2>3, <2>5, <2>8
<1> QED
  BY <1>1, <1>2, <1>3, EndLinkLess

-----------------------------------------------------------------------------
(* What v takes on.                                                         *)

\* All of t is as in s but v's dial of w, which had no open channel.
Redialled(s, t, v, w) ==
    /\ t \in MeshState
    /\ t.link = s.link /\ t.crowd = s.crowd /\ t.closed = s.closed /\ t.opened = s.opened
    /\ s.dial[v][w].req \in s.closed \union {0}
    /\ \A u, y \in Viewers : u # v \/ y # w => t.dial[u][y] = s.dial[u][y]
    /\ \A u \in Viewers \ {v} : t.win[u] = s.win[u]
    /\ Idle(t.win[v])

\* The other ends of all channels are still there.
LEMMA RedialledEnds ==
    ASSUME NEW s \in MeshState, NEW t, NEW v \in Viewers, NEW w \in Viewers, Redialled(s, t, v, w),
           NEW u \in Viewers, NEW y \in Viewers, NEW r \in Ends(s, u, y), r \notin t.closed, r # 0
    PROVE  r \in Ends(t, u, y)
<1>1. CASE u # v \/ y # w
  BY <1>1 DEF Redialled, Ends
<1>2. CASE u = v /\ y = w
  BY <1>2 DEF Redialled, Ends
<1> QED
  BY <1>1, <1>2

\* So the channels that are open have both their ends.
LEMMA RedialledPaired ==
    ASSUME NEW s, NEW t, NEW v \in Viewers, NEW w \in Viewers, Good(s), Redialled(s, t, v, w),
           \A r \in Used(s) : t.req[r].from = s.req[r].from /\ t.req[r].to = s.req[r].to
    PROVE  Paired(t)
<1>0. s \in MeshState /\ t.opened = s.opened /\ t.closed = s.closed /\ t.link = s.link
  BY DEF Good, Redialled
<1>1. ASSUME NEW r \in t.opened \ t.closed
      PROVE  /\ r \in Ends(t, t.req[r].from, t.req[r].to)
             /\ r \in Ends(t, t.req[r].to, t.req[r].from)
  <2>1. r \in Used(s)
    BY <1>0 DEF Good, Named
  <2>2. r # 0 /\ s.req[r].from \in Viewers /\ s.req[r].to \in Viewers
    BY <1>0, <2>1, UsedHas
  <2>3. r \in Ends(s, s.req[r].from, s.req[r].to) /\ r \in Ends(s, s.req[r].to, s.req[r].from)
    BY <1>0 DEF Good, Paired
  <2> QED
    BY <1>0, <2>1, <2>2, <2>3, RedialledEnds
<1>2. ASSUME NEW u \in Viewers, NEW y \in Viewers, Linked(t, u, y), t.link[u][y] \notin t.closed
      PROVE  t.link[u][y] \in Ends(t, y, u)
  <2>1. t.link[u][y] \in Ends(s, y, u) /\ t.link[u][y] # 0
    BY <1>0, <1>2 DEF Good, Paired, Linked
  <2> QED
    BY <1>0, <1>2, <2>1, RedialledEnds
<1> QED
  BY <1>1, <1>2 DEF Paired

\* The slots that the new dial takes.
LEMMA RedialledCounts ==
    ASSUME NEW s, NEW t, NEW v \in Viewers, NEW w \in Viewers, Good(s), Redialled(s, t, v, w),
           IsFiniteSet(t.checks)
    PROVE  /\ InUse(t, v) + DialOf(s, v, w) = InUse(s, v) + DialOf(t, v, w)
           /\ Outgoing(t, v) + OutOf(s, v, w) = Outgoing(s, v) + OutOf(t, v, w)
           /\ InUse(s, v) \in Nat /\ InUse(t, v) \in Nat /\ Usage(s, v) \in Nat
           /\ Outgoing(s, v) \in Nat /\ Outgoing(t, v) \in Nat
           /\ Cardinality(DialChecks(s, v)) \in Nat
<1>1. s \in MeshState /\ IsFiniteSet(s.checks) /\ t \in MeshState
  BY DEF Good, Redialled
<1>2. SameBut(s, t, v, w)
  BY DEF Redialled, SameBut
<1>3. s.crowd[v] \in Nat
  BY <1>1 DEF MeshState
<1>4. /\ InUse(t, v) + LinkOf(s, v, w) + DialOf(s, v, w)
            = InUse(s, v) + LinkOf(t, v, w) + DialOf(t, v, w)
      /\ Outgoing(t, v) + OutOf(s, v, w) = Outgoing(s, v) + OutOf(t, v, w)
  BY <1>2, <1>3, CountCell
<1>5. LinkOf(t, v, w) = LinkOf(s, v, w) /\ LinkOf(s, v, w) \in {0, 1} /\ DialOf(s, v, w) \in {0, 1}
      /\ DialOf(t, v, w) \in {0, 1}
  BY DEF Redialled, LinkOf, Linked, DialOf
<1>6. InUse(s, v) \in Nat /\ InUse(t, v) \in Nat /\ Usage(s, v) \in Nat
      /\ Outgoing(s, v) \in Nat /\ Outgoing(t, v) \in Nat /\ Cardinality(DialChecks(s, v)) \in Nat
  BY <1>1, Numbers
<1>7. InUse(t, v) + DialOf(s, v, w) = InUse(s, v) + DialOf(t, v, w)
  BY <1>4, <1>5, <1>6
<1> QED
  BY <1>4, <1>6, <1>7

\* The others have what they had.
LEMMA RedialledOthers ==
    ASSUME NEW s, NEW t, NEW v \in Viewers, NEW w \in Viewers, Redialled(s, t, v, w),
           NEW u \in Viewers, u # v
    PROVE  Usage(t, u) = Usage(s, u) /\ Outgoing(t, u) = Outgoing(s, u)
<1>1. SameTo(s, t, u)
  BY DEF Redialled, SameTo
<1> QED
  BY <1>1, CountSame

\* An answer to an offer, in a free slot or in that of a dial that is over.
LEMMA AnsweringGood ==
    ASSUME NEW s, NEW v \in Viewers, NEW w \in Viewers, NEW r, Good(s), Of(s, r, w, v),
           ~Linked(s, v, w), s.dial[v][w].req \in s.closed \union {0},
           Usage(s, v) + 1 <= MaxPeers + DialOf(s, v, w)
    PROVE  LET t == Answering(s, v, w, r) IN
           /\ Good(t) /\ t.dial[v][w].req = r
           /\ \A u, y \in Viewers : u # v \/ y # w => t.dial[u][y] = s.dial[u][y]
<1> DEFINE d == [req |-> r, out |-> FALSE, stage |-> "answering", disc |-> FALSE]
           t == Answering(s, v, w, r)
<1>0. s \in MeshState /\ IsFiniteSet(s.checks)
  BY DEF Good
<1>1. d \in DialState /\ d.req = r /\ r # 0 /\ d.out = FALSE
  BY DEF DialState, Stages, Of, Used, Requests
<1>2. t = [s EXCEPT !.dial[v][w] = d]
  BY DEF Answering
<1> HIDE DEF d, t
<1>3. t \in MeshState
  BY <1>0, <1>1, <1>2, DialSet
<1>4. /\ t.dial = [s.dial EXCEPT ![v][w] = d]
      /\ t.link = s.link /\ t.closed = s.closed
      /\ t.crowd = s.crowd /\ t.checks = s.checks
      /\ t.win = s.win /\ t.dials = s.dials /\ t.req = s.req /\ t.signals = s.signals
      /\ t.taken = s.taken /\ t.opened = s.opened /\ t.stopped = s.stopped
  BY <1>0, <1>2 DEF MeshState
<1>5. t.dial[v][w] = d /\ \A u, y \in Viewers : u # v \/ y # w => t.dial[u][y] = s.dial[u][y]
  BY <1>0, <1>4 DEF MeshState
<1>6. Redialled(s, t, v, w)
  BY <1>3, <1>4, <1>5 DEF Redialled, Good, Tidy
<1>7. Paired(t)
  BY <1>4, <1>6, RedialledPaired
<1>8. Used(t) = Used(s) /\ DialsOf(t) = DialsOf(s) /\ \A q, u, y : Of(t, q, u, y) <=> Of(s, q, u, y)
  BY <1>4 DEF Used, DialsOf, Of
<1>9. Tidy(t) /\ Named(t)
  <2>1. ASSUME NEW u \in Viewers, NEW y \in Viewers
        PROVE  /\ ~Dialling(t, u, y) => ~t.dial[u][y].out
               /\ ~(Linked(t, u, y) /\ Dialling(t, u, y))
               /\ Dialling(t, u, y) => IF t.dial[u][y].out THEN Of(t, t.dial[u][y].req, u, y)
                                       ELSE Of(t, t.dial[u][y].req, y, u)
               /\ Linked(t, u, y) => Of(t, t.link[u][y], u, y) \/ Of(t, t.link[u][y], y, u)
    <3>1. CASE u # v \/ y # w
      BY <1>4, <1>5, <1>8, <3>1 DEF Good, Tidy, Named, Linked, Dialling
    <3>2. CASE u = v /\ y = w
      BY <1>1, <1>4, <1>5, <1>8, <3>2 DEF Linked, Dialling
    <3> QED
      BY <3>1, <3>2
  <2>2. Tidy(t)
    BY <1>4, <2>1 DEF Good, Tidy
  <2>3. Named(t)
    BY <1>4, <1>8, <2>1 DEF Good, Named
  <2> QED
    BY <2>2, <2>3
<1>10. Counted(t)
  BY <1>4, <1>8 DEF Good, Counted
<1>11. ASSUME NEW u \in Viewers PROVE Fits(t, u)
  <2>1. DialChecks(t, u) = DialChecks(s, u) /\ IsFiniteSet(t.checks) /\ Fits(s, u)
    BY <1>0, <1>4 DEF DialChecks, Good
  <2>2. CASE u # v
    <3>1. Usage(t, u) = Usage(s, u) /\ Outgoing(t, u) = Outgoing(s, u)
      BY <1>6, <2>2, RedialledOthers
    <3> QED
      BY <2>1, <3>1 DEF Fits
  <2>3. CASE u = v
    <3>1. DialOf(t, v, w) = 1 /\ OutOf(t, v, w) = 0 /\ OutOf(s, v, w) \in {0, 1} /\ DialOf(s, v, w) \in {0, 1}
      BY <1>1, <1>5 DEF DialOf, OutOf, Dialling
    <3>2. Reserved(t, v) <=> Reserved(s, v)
      BY <1>4 DEF Reserved
    <3>3. /\ InUse(t, v) + DialOf(s, v, w) = InUse(s, v) + 1
          /\ Outgoing(t, v) + OutOf(s, v, w) = Outgoing(s, v) + 0
          /\ InUse(s, v) \in Nat /\ InUse(t, v) \in Nat
          /\ Outgoing(s, v) \in Nat /\ Outgoing(t, v) \in Nat /\ Cardinality(DialChecks(s, v)) \in Nat
          /\ MaxPeers \in Nat /\ MaxDialsInFlight \in Nat
      BY <1>6, <2>1, <3>1, RedialledCounts, MeshAssumption
    <3>4. Usage(t, v) <= MaxPeers
      BY <3>1, <3>2, <3>3 DEF Usage
    <3>5. Outgoing(t, v) <= Outgoing(s, v)
      BY <3>1, <3>3
    <3> QED
      BY <2>1, <2>3, <3>3, <3>4, <3>5 DEF Fits
  <2> QED
    BY <2>2, <2>3
<1>12. Good(t)
  BY <1>0, <1>3, <1>4, <1>7, <1>9, <1>10, <1>11 DEF Good
<1> QED
  BY <1>1, <1>5, <1>12 DEF t

\* There is an id for every dial.
LEMMA FreeRequest ==
    ASSUME NEW s, Good(s), s.dials < MaxDials
    PROVE  NextRequest(s) \in Requests /\ s.req[NextRequest(s)] = NoRequest
<1>1. s \in MeshState /\ IsFiniteSet(s.checks) /\ Cardinality(Used(s)) <= s.dials /\ s.dials \in Nat
  BY DEF Good, Counted, MeshState
<1>2. IsFiniteSet(Used(s)) /\ Cardinality(Used(s)) \in Nat
  BY <1>1, Tallies
<1>3. IsFiniteSet(Requests) /\ Cardinality(Requests) = MaxDials
  <2>1. MaxDials \in Nat \ {0}
    BY MeshAssumption
  <2> QED
    BY <2>1, FS_Interval DEF Requests
<1>4. \E r \in Requests : s.req[r] = NoRequest
  <2>1. SUFFICES ASSUME \A r \in Requests : s.req[r] # NoRequest PROVE FALSE
    OBVIOUS
  <2>2. Used(s) = Requests
    BY <2>1 DEF Used
  <2>3. MaxDials \in Nat
    BY MeshAssumption
  <2> QED
    BY <1>1, <1>2, <1>3, <2>2, <2>3
<1> QED
  BY <1>4 DEF NextRequest

\* A dial of one's own, in a free slot or in the one that its window keeps.
LEMMA CreatedGood ==
    ASSUME NEW s, NEW v \in Viewers, NEW w \in Viewers, NEW disc \in BOOLEAN, Good(s),
           ~Linked(s, v, w), ~Dialling(s, v, w),
           s.dials + Cardinality(DialsOf(s)) < MaxDials,
           Outgoing(s, v) + Cardinality(DialChecks(s, v)) < MaxDialsInFlight,
           IF disc THEN InUse(s, v) < MaxPeers ELSE Usage(s, v) < MaxPeers
    PROVE  LET t == Created(s, v, w, disc) IN
           /\ Good(t) /\ t.dial[v][w].out
           /\ \A u, y \in Viewers : u # v \/ y # w => t.dial[u][y] = s.dial[u][y]
<1> DEFINE r == NextRequest(s)
           d == [req |-> r, out |-> TRUE, stage |-> "offering", disc |-> disc]
           q == [from |-> v, to |-> w, poor |-> FALSE]
           n == s.dials + 1
           x == IF disc THEN [s.win[v] EXCEPT !.vacant = FALSE] ELSE s.win[v]
           t == Created(s, v, w, disc)
<1>0. /\ s \in MeshState /\ IsFiniteSet(s.checks) /\ n \in Nat
      /\ s.dial \in [Viewers -> [Viewers -> DialState]] /\ s.req \in [Requests -> RequestState]
      /\ s.win \in [Viewers -> WindowState]
  BY DEF Good, MeshState
<1>1. r \in Requests /\ s.req[r] = NoRequest /\ r # 0
  <2>1. s.dials < MaxDials
    <3>1. s.dials \in Nat /\ Cardinality(DialsOf(s)) \in Nat /\ MaxDials \in Nat
      BY <1>0, Tallies, MeshAssumption DEF MeshState
    <3> QED
      BY <3>1
  <2> QED
    BY <2>1, FreeRequest DEF Requests
<1> HIDE DEF r
<1>2. d \in DialState /\ d.req = r /\ d.out = TRUE
  BY <1>1 DEF DialState, Stages
<1>3. q \in RequestState /\ q # NoRequest /\ q.from = v /\ q.to = w
  <2>1. q.from # NoRequest.from
    BY Viewing DEF NoRequest
  <2> QED
    BY <2>1 DEF RequestState
<1>4. /\ x \in WindowState /\ x.phase = s.win[v].phase
      /\ x.vacant = (IF disc THEN FALSE ELSE s.win[v].vacant)
      /\ Idle(x)
  <2>1. s.win[v] \in WindowState /\ Idle(s.win[v])
    BY <1>0 DEF Good, Tidy
  <2>2. CASE ~disc
    BY <2>1, <2>2
  <2>3. CASE disc
    <3> DEFINE y == [s.win[v] EXCEPT !.vacant = FALSE]
    <3>1. /\ y \in WindowState /\ y.phase = s.win[v].phase /\ y.vacant = FALSE
      BY <2>1 DEF WindowState
    <3>3. Idle(y)
      BY <2>1, <3>1 DEF Idle, WindowState
    <3>4. x = y
      BY <2>3
    <3> HIDE DEF x, y
    <3> QED
      BY <2>3, <3>1, <3>3, <3>4
  <2> QED
    BY <2>2, <2>3
<1>5. t = [s EXCEPT !.dial = [s.dial EXCEPT ![v][w] = d], !.dials = n,
                    !.req = [s.req EXCEPT ![r] = q], !.win = [s.win EXCEPT ![v] = x]]
  BY <1>0 DEF Created, MeshState, r
<1> HIDE DEF t, d, q, x, n
<1>6. /\ [s.dial EXCEPT ![v][w] = d] \in [Viewers -> [Viewers -> DialState]]
      /\ [s.req EXCEPT ![r] = q] \in [Requests -> RequestState]
      /\ [s.win EXCEPT ![v] = x] \in [Viewers -> WindowState]
  BY <1>0, <1>1, <1>2, <1>3, <1>4
<1>7. t \in MeshState
  BY <1>0, <1>5, <1>6 DEF MeshState
<1>8. /\ t.dial = [s.dial EXCEPT ![v][w] = d] /\ t.dials = n /\ t.req = [s.req EXCEPT ![r] = q]
      /\ t.win = [s.win EXCEPT ![v] = x]
      /\ t.link = s.link /\ t.closed = s.closed
      /\ t.crowd = s.crowd /\ t.checks = s.checks /\ t.signals = s.signals
      /\ t.taken = s.taken /\ t.opened = s.opened /\ t.stopped = s.stopped
  BY <1>0, <1>5 DEF MeshState
<1>9. /\ t.dial[v][w] = d /\ t.win[v] = x /\ \A u \in Viewers \ {v} : t.win[u] = s.win[u]
      /\ \A u, y \in Viewers : u # v \/ y # w => t.dial[u][y] = s.dial[u][y]
  BY <1>0, <1>8
<1>10. Redialled(s, t, v, w)
  <2>1. s.dial[v][w].req = 0
    BY DEF Dialling
  <2> QED
    BY <1>4, <1>7, <1>8, <1>9, <2>1 DEF Redialled
<1>11. /\ r \notin Used(s) /\ Used(t) = Used(s) \union {r} /\ DialsOf(t) = DialsOf(s)
       /\ \A u \in Used(s) : t.req[u] = s.req[u]
       /\ t.req[r] = q
  BY <1>0, <1>1, <1>3, <1>8 DEF Used, DialsOf
<1>12. /\ Of(t, r, v, w)
       /\ \A k, u, y : Of(s, k, u, y) => Of(t, k, u, y)
  BY <1>3, <1>11 DEF Of
<1>13. Paired(t)
  BY <1>10, <1>11, RedialledPaired
<1>14. Tidy(t) /\ Named(t)
  <2>1. ASSUME NEW u \in Viewers, NEW y \in Viewers
        PROVE  /\ ~Dialling(t, u, y) => ~t.dial[u][y].out
               /\ ~(Linked(t, u, y) /\ Dialling(t, u, y))
               /\ Dialling(t, u, y) => IF t.dial[u][y].out THEN Of(t, t.dial[u][y].req, u, y)
                                       ELSE Of(t, t.dial[u][y].req, y, u)
               /\ Linked(t, u, y) => Of(t, t.link[u][y], u, y) \/ Of(t, t.link[u][y], y, u)
    <3>1. CASE u # v \/ y # w
      BY <1>8, <1>9, <1>12, <3>1 DEF Good, Tidy, Named, Linked, Dialling
    <3>2. CASE u = v /\ y = w
      BY <1>1, <1>2, <1>8, <1>9, <1>12, <3>2 DEF Linked, Dialling
    <3> QED
      BY <3>1, <3>2
  <2>2. Tidy(t)
    <3>1. ASSUME NEW u \in Viewers PROVE Idle(t.win[u])
      BY <1>4, <1>9 DEF Good, Tidy
    <3> QED
      BY <2>1, <3>1 DEF Tidy
  <2>3. Named(t)
    BY <1>8, <1>11, <1>12, <2>1 DEF Good, Named
  <2> QED
    BY <2>2, <2>3
<1>15. Counted(t)
  <2>1. IsFiniteSet(Used(s)) /\ Cardinality(Used(s)) \in Nat /\ Cardinality(DialsOf(s)) \in Nat
    BY <1>0, Tallies
  <2>2. Cardinality(Used(t)) = Cardinality(Used(s)) + 1
    BY <1>11, <2>1, FS_AddElement
  <2>3. s.dials \in Nat /\ MaxDials \in Nat /\ t.dials = s.dials + 1 /\ Cardinality(Used(s)) <= s.dials
    BY <1>0, <1>8, MeshAssumption DEF MeshState, Good, Counted, n
  <2> QED
    BY <1>11, <2>1, <2>2, <2>3 DEF Counted
<1>16. ASSUME NEW u \in Viewers PROVE Fits(t, u)
  <2>1. DialChecks(t, u) = DialChecks(s, u) /\ IsFiniteSet(t.checks) /\ Fits(s, u)
    BY <1>0, <1>8 DEF DialChecks, Good
  <2>2. CASE u # v
    <3>1. Usage(t, u) = Usage(s, u) /\ Outgoing(t, u) = Outgoing(s, u)
      BY <1>10, <2>2, RedialledOthers
    <3> QED
      BY <2>1, <3>1 DEF Fits
  <2>3. CASE u = v
    <3>1. DialOf(t, v, w) = 1 /\ OutOf(t, v, w) = 1 /\ OutOf(s, v, w) = 0 /\ DialOf(s, v, w) = 0
      BY <1>1, <1>2, <1>9 DEF DialOf, OutOf, Dialling, Good, Tidy
    <3>2. Reserved(t, v) <=> Reserved(s, v) /\ ~disc
      BY <1>4, <1>9 DEF Reserved
    <3>3. /\ InUse(t, v) + 0 = InUse(s, v) + 1
          /\ Outgoing(t, v) + 0 = Outgoing(s, v) + 1
          /\ InUse(s, v) \in Nat /\ InUse(t, v) \in Nat
          /\ Outgoing(s, v) \in Nat /\ Outgoing(t, v) \in Nat /\ Cardinality(DialChecks(s, v)) \in Nat
          /\ MaxPeers \in Nat /\ MaxDialsInFlight \in Nat
      BY <1>10, <2>1, <3>1, RedialledCounts, MeshAssumption
    <3>4. Usage(t, v) <= MaxPeers
      BY <3>2, <3>3 DEF Usage
    <3>5. Outgoing(t, v) + Cardinality(DialChecks(s, v)) <= MaxDialsInFlight
      BY <3>3
    <3> QED
      BY <2>1, <2>3, <3>4, <3>5 DEF Fits
  <2> QED
    BY <2>2, <2>3
<1>17. Good(t)
  BY <1>0, <1>7, <1>8, <1>13, <1>14, <1>15, <1>16 DEF Good
<1> QED
  BY <1>2, <1>9, <1>17 DEF t

-----------------------------------------------------------------------------
(* What is forgotten.                                                       *)

\* A request that anyone still means is kept.
LEMMA SettledGood ==
    ASSUME NEW s, Good(s)
    PROVE  Good(Settled(s)) /\ Settled(s).dial = s.dial
<1> DEFINE Dialled(r) == LET q == s.req[r] IN r \in {s.dial[q.from][q.to].req, s.dial[q.to][q.from].req}
           Joins(r) == LET q == s.req[r] IN r \in {s.link[q.from][q.to], s.link[q.to][q.from]}
           Heeded(m) == IF m[1] = "offer" THEN m[2] \notin s.taken
                        ELSE LET q == s.req[m[2]] IN s.dial[q.from][q.to].req = m[2]
           signals == {m \in s.signals : Heeded(m)}
           live == {r \in Requests : /\ s.req[r] # NoRequest
                                     /\ \/ Dialled(r) \/ Joins(r) \/ \E m \in signals : m[2] = r
                                        \/ \E c \in s.checks : c.req = r}
           opened == {r \in s.opened : Dialled(r)}
           req == [r \in Requests |-> IF r \in live THEN s.req[r] ELSE NoRequest]
           taken == s.taken \intersect live
           closed == s.closed \intersect live
           t == Settled(s)
<1>0. s \in MeshState /\ IsFiniteSet(s.checks)
  BY DEF Good
<1>1. t = [s EXCEPT !.signals = signals, !.opened = opened, !.taken = taken, !.closed = closed, !.req = req]
  BY <1>0 DEF Settled, MeshState
<1>2. ASSUME NEW r \in Used(s), Dialled(r) \/ Joins(r) PROVE r \in live
  BY <1>2 DEF Used
<1>3. ASSUME NEW m \in signals PROVE m[2] \in live
  BY <1>0 DEF Good, Named, Used
<1>4. ASSUME NEW c \in s.checks, c.req \in Used(s) PROVE c.req \in live
  BY <1>4 DEF Used
<1>5. \A r \in opened : r \in live
  BY <1>2 DEF Good, Named
<1>6. ASSUME NEW u \in Viewers, NEW y \in Viewers, NEW r, Of(s, r, u, y) \/ Of(s, r, y, u),
             r \in {s.dial[u][y].req, s.link[u][y]}
      PROVE  r \in live
  <2>1. r \in Used(s) /\ (Dialled(r) \/ Joins(r))
    BY <1>6 DEF Of
  <2> QED
    BY <1>2, <2>1
<1>7. live \subseteq Used(s) /\ signals \subseteq s.signals /\ opened \subseteq s.opened
  BY DEF Used
<1>8. /\ signals \in SUBSET ({"offer", "answer", "reject"} \X Requests)
      /\ opened \in SUBSET Requests /\ taken \in SUBSET Requests /\ closed \in SUBSET Requests
      /\ req \in [Requests -> RequestState]
  <2>1. s.req \in [Requests -> RequestState] /\ NoRequest \in RequestState
    BY <1>0 DEF MeshState, RequestState
  <2>2. req \in [Requests -> RequestState]
    <3> HIDE DEF live
    <3> QED
      BY <2>1
  <2> HIDE DEF live
  <2> QED
    BY <1>0, <2>2 DEF MeshState
<1>9. req \in [Requests -> RequestState] /\ \A r \in Requests : req[r] = IF r \in live THEN s.req[r] ELSE NoRequest
  <2> HIDE DEF live
  <2> QED
    BY <1>8
<1> HIDE DEF signals, live, opened, req, t
<1>10. t \in MeshState
  <2> HIDE DEF taken, closed
  <2> QED
    BY <1>0, <1>1, <1>8 DEF MeshState
<1>11. /\ t.signals = signals /\ t.opened = opened /\ t.taken = taken /\ t.closed = closed /\ t.req = req
       /\ t.link = s.link /\ t.dial = s.dial /\ t.crowd = s.crowd /\ t.win = s.win
       /\ t.checks = s.checks /\ t.dials = s.dials /\ t.stopped = s.stopped
  <2> HIDE DEF taken, closed
  <2> QED
    BY <1>0, <1>1 DEF MeshState
<1>12. /\ Used(t) = live /\ \A r \in live : t.req[r] = s.req[r]
       /\ DialsOf(t) = DialsOf(s)
  <2>1. \A r \in live : r \in Requests /\ s.req[r] # NoRequest
    BY <1>7 DEF Used
  <2> QED
    BY <1>9, <1>11, <2>1 DEF Used, DialsOf
<1>13. \A r \in live : \A u, y : Of(s, r, u, y) => Of(t, r, u, y)
  BY <1>12 DEF Of
<1>14. Tidy(t)
  BY <1>11 DEF Good, Tidy, Linked, Dialling
<1>15. Named(t)
  <2>1. ASSUME NEW u \in Viewers, NEW y \in Viewers
        PROVE  /\ Dialling(t, u, y) => IF t.dial[u][y].out THEN Of(t, t.dial[u][y].req, u, y)
                                       ELSE Of(t, t.dial[u][y].req, y, u)
               /\ Linked(t, u, y) => Of(t, t.link[u][y], u, y) \/ Of(t, t.link[u][y], y, u)
    <3>1. /\ Dialling(s, u, y) => IF s.dial[u][y].out THEN Of(s, s.dial[u][y].req, u, y)
                                  ELSE Of(s, s.dial[u][y].req, y, u)
          /\ Linked(s, u, y) => Of(s, s.link[u][y], u, y) \/ Of(s, s.link[u][y], y, u)
      BY DEF Good, Named
    <3>2. /\ Dialling(s, u, y) => s.dial[u][y].req \in live
          /\ Linked(s, u, y) => s.link[u][y] \in live
      BY <1>6, <3>1
    <3> QED
      BY <1>11, <1>13, <3>1, <3>2 DEF Linked, Dialling
  <2>2. ASSUME NEW c \in t.checks
        PROVE  /\ c.kind = "offer" => Of(t, c.req, c.peer, c.at)
               /\ c.kind = "answer" => Of(t, c.req, c.at, c.peer)
    <3>1. /\ c.kind = "offer" => Of(s, c.req, c.peer, c.at)
          /\ c.kind = "answer" => Of(s, c.req, c.at, c.peer)
      BY <1>11 DEF Good, Named
    <3> QED
      BY <1>4, <1>11, <1>13, <3>1 DEF Of
  <2>3. \A m \in t.signals : m[2] \in Used(t)
    BY <1>3, <1>11, <1>12
  <2>4. t.opened \subseteq Used(t)
    BY <1>5, <1>11, <1>12
  <2> QED
    BY <2>1, <2>2, <2>3, <2>4 DEF Named
<1>16. Counted(t)
  <2>1. Cardinality(Used(t)) <= Cardinality(Used(s))
    BY <1>0, <1>7, <1>12, Tallies, FS_Subset
  <2>2. Cardinality(Used(t)) \in Nat /\ Cardinality(Used(s)) \in Nat /\ s.dials \in Nat
    BY <1>0, <1>11, Tallies DEF MeshState
  <2> QED
    BY <1>11, <1>12, <2>1, <2>2 DEF Good, Counted
<1>17. Paired(t)
  <2>1. \A r \in live : r \notin t.closed => r \notin s.closed
    BY <1>11
  <2>2. ASSUME NEW r \in t.opened \ t.closed
        PROVE  /\ r \in Ends(t, t.req[r].from, t.req[r].to)
               /\ r \in Ends(t, t.req[r].to, t.req[r].from)
    <3>1. r \in s.opened \ s.closed /\ t.req[r] = s.req[r]
      BY <1>5, <1>7, <1>11, <1>12, <2>1
    <3> QED
      BY <1>11, <3>1 DEF Good, Paired, Ends
  <2>3. ASSUME NEW u \in Viewers, NEW y \in Viewers, Linked(t, u, y), t.link[u][y] \notin t.closed
        PROVE  t.link[u][y] \in Ends(t, y, u)
    <3>1. t.link[u][y] \in live /\ Linked(s, u, y)
      BY <1>6, <1>11, <2>3 DEF Good, Named, Linked
    <3> QED
      BY <1>11, <2>1, <2>3, <3>1 DEF Good, Paired, Ends, Linked
  <2> QED
    BY <2>2, <2>3 DEF Paired
<1>18. ASSUME NEW u \in Viewers PROVE Fits(t, u)
  <2>1. SameTo(s, t, u) /\ DialChecks(t, u) = DialChecks(s, u)
    BY <1>11 DEF SameTo, DialChecks
  <2> QED
    BY <2>1, CountSame DEF Good, Fits
<1> QED
  BY <1>0, <1>10, <1>11, <1>14, <1>15, <1>16, <1>17, <1>18 DEF Good, t

-----------------------------------------------------------------------------
(* Handlers that wait for the host.                                         *)

\* Another set of them.
LEMMA ChecksGood ==
    ASSUME NEW s, Good(s), NEW K \in SUBSET CheckState, IsFiniteSet(K),
           \A c \in K : /\ c.kind = "offer" => Of(s, c.req, c.peer, c.at)
                        /\ c.kind = "answer" => Of(s, c.req, c.at, c.peer),
           s.dials + Cardinality({c \in K : c.kind = "dial"}) <= MaxDials,
           \A u \in Viewers :
              Outgoing(s, u) + Cardinality({c \in K : c.kind = "dial" /\ c.at = u}) <= MaxDialsInFlight
    PROVE  LET t == [s EXCEPT !.checks = K] IN
           /\ Good(t) /\ t.checks = K /\ t.link = s.link /\ t.dial = s.dial /\ t.crowd = s.crowd
           /\ t.win = s.win /\ t.req = s.req /\ t.signals = s.signals /\ t.taken = s.taken
           /\ t.opened = s.opened /\ t.closed = s.closed /\ t.dials = s.dials /\ t.stopped = s.stopped
<1> DEFINE t == [s EXCEPT !.checks = K]
<1>1. s \in MeshState
  BY DEF Good
<1>2. t \in MeshState /\ t.checks = K /\ t.link = s.link /\ t.dial = s.dial /\ t.crowd = s.crowd
      /\ t.win = s.win /\ t.req = s.req /\ t.signals = s.signals /\ t.taken = s.taken
      /\ t.opened = s.opened /\ t.closed = s.closed /\ t.dials = s.dials /\ t.stopped = s.stopped
  BY <1>1 DEF MeshState
<1> HIDE DEF t
<1>3. Used(t) = Used(s) /\ \A r, u, y : Of(t, r, u, y) <=> Of(s, r, u, y)
  BY <1>2 DEF Used, Of
<1>4. Tidy(t)
  BY <1>2 DEF Good, Tidy, Linked, Dialling
<1>5. Named(t)
  BY <1>2, <1>3 DEF Good, Named, Linked, Dialling
<1>6. Counted(t)
  BY <1>2, <1>3 DEF Good, Counted, DialsOf
<1>7. Paired(t)
  BY <1>2 DEF Good, Paired, Ends, Linked
<1>8. ASSUME NEW u \in Viewers PROVE Fits(t, u)
  <2>1. Usage(t, u) = Usage(s, u) /\ Outgoing(t, u) = Outgoing(s, u)
    <3>1. SameTo(s, t, u)
      BY <1>2 DEF SameTo
    <3> QED
      BY <3>1, CountSame
  <2> QED
    BY <1>2, <2>1 DEF Good, Fits, DialChecks
<1> QED
  BY <1>2, <1>4, <1>5, <1>6, <1>7, <1>8 DEF Good, t

\* One more of them; one that is to dial is counted before it does.
LEMMA CheckedGood ==
    ASSUME NEW s, Good(s), NEW c \in CheckState,
           c.kind = "dial" => /\ s.dials + Cardinality(DialsOf(s)) < MaxDials
                              /\ Outgoing(s, c.at) + Cardinality(DialChecks(s, c.at)) < MaxDialsInFlight,
           c.kind = "offer" => Of(s, c.req, c.peer, c.at),
           c.kind = "answer" => Of(s, c.req, c.at, c.peer)
    PROVE  LET t == [s EXCEPT !.checks = s.checks \union {c}] IN Good(t) /\ t.dial = s.dial
<1> DEFINE K == s.checks \union {c}
           D == {x \in K : x.kind = "dial"}
           A(u) == {x \in K : x.kind = "dial" /\ x.at = u}
<1>1. s \in MeshState /\ IsFiniteSet(s.checks) /\ s.checks \subseteq CheckState /\ s.dials \in Nat
      /\ MaxDials \in Nat /\ MaxDialsInFlight \in Nat
  BY MeshAssumption DEF Good, MeshState
<1>2. K \in SUBSET CheckState /\ IsFiniteSet(K)
  BY <1>1, FS_AddElement
<1>3. \A x \in K : /\ x.kind = "offer" => Of(s, x.req, x.peer, x.at)
                   /\ x.kind = "answer" => Of(s, x.req, x.at, x.peer)
  BY DEF Good, Named
<1>4. s.dials + Cardinality(D) <= MaxDials
  <2>1. IsFiniteSet(DialsOf(s)) /\ Cardinality(DialsOf(s)) \in Nat
    BY <1>1, Tallies
  <2>2. CASE c.kind = "dial"
    <3>1. D = DialsOf(s) \union {c}
      BY <2>2 DEF DialsOf
    <3>2. Cardinality(D) = (IF c \in DialsOf(s) THEN Cardinality(DialsOf(s))
                            ELSE Cardinality(DialsOf(s)) + 1)
      BY <2>1, <3>1, FS_AddElement
    <3> HIDE DEF D
    <3> QED
      BY <1>1, <2>1, <2>2, <3>2
  <2>3. CASE c.kind # "dial"
    <3>1. D = DialsOf(s)
      BY <2>3 DEF DialsOf
    <3> QED
      BY <3>1 DEF Good, Counted
  <2> QED
    BY <2>2, <2>3
<1>5. ASSUME NEW u \in Viewers PROVE Outgoing(s, u) + Cardinality(A(u)) <= MaxDialsInFlight
  <2>1. IsFiniteSet(DialChecks(s, u)) /\ Cardinality(DialChecks(s, u)) \in Nat /\ Outgoing(s, u) \in Nat
    BY <1>1, Numbers
  <2>2. CASE c.kind = "dial" /\ c.at = u
    <3>1. A(u) = DialChecks(s, u) \union {c}
      BY <2>2 DEF DialChecks
    <3>2. Cardinality(A(u)) = (IF c \in DialChecks(s, u) THEN Cardinality(DialChecks(s, u))
                               ELSE Cardinality(DialChecks(s, u)) + 1)
      BY <2>1, <3>1, FS_AddElement
    <3>3. Outgoing(s, u) + Cardinality(DialChecks(s, u)) < MaxDialsInFlight
      BY <2>2
    <3> HIDE DEF A
    <3> QED
      BY <1>1, <2>1, <3>2, <3>3
  <2>3. CASE ~(c.kind = "dial" /\ c.at = u)
    <3>1. A(u) = DialChecks(s, u)
      BY <2>3 DEF DialChecks
    <3> QED
      BY <3>1 DEF Good, Fits
  <2> QED
    BY <2>2, <2>3
<1> HIDE DEF K
<1>6. LET t == [s EXCEPT !.checks = K] IN Good(t) /\ t.dial = s.dial
  BY <1>2, <1>3, <1>4, <1>5, ChecksGood
<1> QED
  BY <1>6 DEF K

\* One that is over; if it was to dial, there is room for its dial.
LEMMA UncheckedGood ==
    ASSUME NEW s, Good(s), NEW c \in s.checks
    PROVE  LET t == [s EXCEPT !.checks = s.checks \ {c}] IN
           /\ Good(t) /\ t.dial = s.dial /\ t.link = s.link /\ t.taken = s.taken /\ t.req = s.req
           /\ c.kind = "dial" => /\ t.dials + Cardinality(DialsOf(t)) < MaxDials
                                 /\ Outgoing(t, c.at) + Cardinality(DialChecks(t, c.at)) < MaxDialsInFlight
<1> DEFINE K == s.checks \ {c}
           D == {x \in K : x.kind = "dial"}
           A(u) == {x \in K : x.kind = "dial" /\ x.at = u}
           t == [s EXCEPT !.checks = K]
<1>1. s \in MeshState /\ IsFiniteSet(s.checks) /\ s.checks \subseteq CheckState /\ s.dials \in Nat
      /\ MaxDials \in Nat /\ MaxDialsInFlight \in Nat /\ c.at \in Viewers
  BY MeshAssumption DEF Good, MeshState, CheckState
<1>2. K \in SUBSET CheckState /\ IsFiniteSet(K)
  BY <1>1, FS_Subset
<1>3. \A x \in K : /\ x.kind = "offer" => Of(s, x.req, x.peer, x.at)
                   /\ x.kind = "answer" => Of(s, x.req, x.at, x.peer)
  BY DEF Good, Named
<1>4. s.dials + Cardinality(D) <= MaxDials /\ (c.kind = "dial" => s.dials + Cardinality(D) < MaxDials)
  <2>1. IsFiniteSet(DialsOf(s)) /\ Cardinality(DialsOf(s)) \in Nat
        /\ s.dials + Cardinality(DialsOf(s)) <= MaxDials
    BY <1>1, Tallies DEF Good, Counted
  <2>2. D = DialsOf(s) \ {c} /\ (c.kind = "dial" <=> c \in DialsOf(s))
    BY DEF DialsOf
  <2>3. Cardinality(D) = (IF c \in DialsOf(s) THEN Cardinality(DialsOf(s)) - 1 ELSE Cardinality(DialsOf(s)))
    BY <2>1, <2>2, FS_RemoveElement
  <2> HIDE DEF D
  <2> QED
    BY <1>1, <2>1, <2>2, <2>3
<1>5. ASSUME NEW u \in Viewers
      PROVE  /\ Outgoing(s, u) + Cardinality(A(u)) <= MaxDialsInFlight
             /\ c.kind = "dial" /\ c.at = u => Outgoing(s, u) + Cardinality(A(u)) < MaxDialsInFlight
  <2>1. IsFiniteSet(DialChecks(s, u)) /\ Cardinality(DialChecks(s, u)) \in Nat /\ Outgoing(s, u) \in Nat
        /\ Outgoing(s, u) + Cardinality(DialChecks(s, u)) <= MaxDialsInFlight
    BY <1>1, Numbers DEF Good, Fits
  <2>2. A(u) = DialChecks(s, u) \ {c} /\ (c.kind = "dial" /\ c.at = u <=> c \in DialChecks(s, u))
    BY DEF DialChecks
  <2>3. Cardinality(A(u)) = (IF c \in DialChecks(s, u) THEN Cardinality(DialChecks(s, u)) - 1
                             ELSE Cardinality(DialChecks(s, u)))
    BY <2>1, <2>2, FS_RemoveElement
  <2> HIDE DEF A
  <2> QED
    BY <1>1, <2>1, <2>2, <2>3
<1> HIDE DEF K
<1>6. /\ Good(t) /\ t.checks = K /\ t.link = s.link /\ t.dial = s.dial /\ t.taken = s.taken
      /\ t.dials = s.dials /\ t.req = s.req
  BY <1>2, <1>3, <1>4, <1>5, ChecksGood
<1> HIDE DEF t
<1>7. DialsOf(t) = D /\ DialChecks(t, c.at) = A(c.at) /\ Outgoing(t, c.at) = Outgoing(s, c.at)
  BY <1>6 DEF DialsOf, DialChecks, Outgoing
<1> HIDE DEF D, A
<1>8. /\ Good(t) /\ t.dial = s.dial /\ t.link = s.link /\ t.taken = s.taken /\ t.req = s.req
      /\ c.kind = "dial" => /\ t.dials + Cardinality(DialsOf(t)) < MaxDials
                            /\ Outgoing(t, c.at) + Cardinality(DialChecks(t, c.at)) < MaxDialsInFlight
  BY <1>1, <1>4, <1>5, <1>6, <1>7
<1> QED
  BY <1>8 DEF t, K

-----------------------------------------------------------------------------
(* Whose offers are answered.                                               *)

\* No dial of t answers an offer that no dial of s answered.
Kept(s, t) ==
    \A u, y \in Viewers :
        \/ t.dial[u][y].req = s.dial[u][y].req /\ t.dial[u][y].out = s.dial[u][y].out
        \/ t.dial[u][y].req = 0
        \/ t.dial[u][y].out

\* AnsweredOnce of one step.
Once(s, t) ==
    \A u, y \in Viewers :
        LET d == s.dial[u][y]
            e == t.dial[u][y]
        IN  e.req # d.req /\ e.req # 0 /\ ~e.out => e.req \notin s.taken

\* Steps that answer no offer, one after another, answer none.
LEMMA KeptAgain ==
    ASSUME NEW s, NEW t, NEW x, Kept(s, t), Kept(t, x)
    PROVE  Kept(s, x)
<1>1. ASSUME NEW u \in Viewers, NEW y \in Viewers
      PROVE  \/ x.dial[u][y].req = s.dial[u][y].req /\ x.dial[u][y].out = s.dial[u][y].out
             \/ x.dial[u][y].req = 0
             \/ x.dial[u][y].out
  <2>1. \/ t.dial[u][y].req = s.dial[u][y].req /\ t.dial[u][y].out = s.dial[u][y].out
        \/ t.dial[u][y].req = 0
        \/ t.dial[u][y].out
    BY DEF Kept
  <2>2. \/ x.dial[u][y].req = t.dial[u][y].req /\ x.dial[u][y].out = t.dial[u][y].out
        \/ x.dial[u][y].req = 0
        \/ x.dial[u][y].out
    BY DEF Kept
  <2> QED
    BY <2>1, <2>2
<1> QED
  BY <1>1 DEF Kept

\* Nor does a step that changes no dial.
LEMMA SameKept ==
    ASSUME NEW s, NEW t, t.dial = s.dial
    PROVE  Kept(s, t)
  BY DEF Kept

\* What answers no offer answers none twice.
LEMMA KeptOnce ==
    ASSUME NEW s, NEW t, Kept(s, t)
    PROVE  Once(s, t)
<1>1. ASSUME NEW u \in Viewers, NEW y \in Viewers,
             t.dial[u][y].req # s.dial[u][y].req, t.dial[u][y].req # 0, ~t.dial[u][y].out
      PROVE  FALSE
  BY <1>1 DEF Kept
<1> QED
  BY <1>1 DEF Once

\* What v gives up answers nobody.
LEMMA LessKept ==
    ASSUME NEW s, NEW t, NEW v \in Viewers, Good(s), Less(s, t, v)
    PROVE  Good(t) /\ Kept(s, t) /\ t.taken = s.taken /\ t.req = s.req
<1>1. Good(t) /\ t.taken = s.taken /\ t.req = s.req
  BY LessGood DEF Less
<1>2. ASSUME NEW u \in Viewers, NEW y \in Viewers
      PROVE  \/ t.dial[u][y].req = s.dial[u][y].req /\ t.dial[u][y].out = s.dial[u][y].out
             \/ t.dial[u][y].req = 0
  BY DEF Less, SameTo
<1> QED
  BY <1>1, <1>2 DEF Kept

\* A lapsed window ends, as every handler has it end first.
LEMMA ExpiredGood ==
    ASSUME NEW s, NEW v \in Viewers, Good(s)
    PROVE  LET t == Expired(s, v) IN
           /\ Good(t) /\ Kept(s, t) /\ Less(s, t, v) /\ t.win[v].phase # "lapsed"
           /\ t.link = s.link /\ t.taken = s.taken /\ t.req = s.req
<1> DEFINE t == Expired(s, v)
<1>1. s \in MeshState /\ IsFiniteSet(s.checks) /\ Tidy(s)
  BY DEF Good
<1>2. Less(s, t, v) /\ t.win[v].phase # "lapsed" /\ t.link = s.link
  BY <1>1, ExpiredLess
<1> HIDE DEF t
<1>3. Good(t) /\ Kept(s, t) /\ t.taken = s.taken /\ t.req = s.req
  BY <1>2, LessKept
<1> QED
  BY <1>2, <1>3 DEF t

\* A dial that fails.
LEMMA FailedGood ==
    ASSUME NEW s, NEW v \in Viewers, NEW w \in Viewers, Good(s), Dialling(s, v, w)
    PROVE  LET t == FailDial(s, v, w) IN
           /\ Good(t) /\ Kept(s, t) /\ t.link = s.link /\ t.taken = s.taken /\ t.req = s.req
           /\ ~Dialling(t, v, w)
<1> DEFINE t == FailDial(s, v, w)
<1>1. s \in MeshState /\ IsFiniteSet(s.checks) /\ Tidy(s)
  BY DEF Good
<1>2. Less(s, t, v) /\ t.link = s.link /\ ~Dialling(t, v, w)
  BY ZenonT(60), <1>1, FailDialLess
<1> HIDE DEF t
<1>3. Good(t) /\ Kept(s, t) /\ t.taken = s.taken /\ t.req = s.req
  BY <1>2, LessKept
<1> QED
  BY <1>2, <1>3 DEF t

\* Two states that differ in what no slot and no channel depends on: how far
\* dials are, what was said of a request, signals and offers taken.
Alike(s, t) ==
    /\ t \in MeshState
    /\ t.checks = s.checks /\ t.link = s.link /\ t.crowd = s.crowd /\ t.win = s.win
    /\ t.dials = s.dials /\ t.opened = s.opened /\ t.closed = s.closed
    /\ \A u, y \in Viewers : /\ t.dial[u][y].req = s.dial[u][y].req
                             /\ t.dial[u][y].out = s.dial[u][y].out
    /\ Used(t) = Used(s)
    /\ \A r \in Used(s) : t.req[r].from = s.req[r].from /\ t.req[r].to = s.req[r].to
    /\ \A m \in t.signals : m[2] \in Used(s)

\* Such a difference is of no consequence.
LEMMA AlikeGood ==
    ASSUME NEW s, NEW t, Good(s), Alike(s, t)
    PROVE  Good(t) /\ Kept(s, t)
<1>1. /\ s \in MeshState /\ t \in MeshState /\ IsFiniteSet(t.checks)
      /\ t.checks = s.checks /\ t.link = s.link /\ t.crowd = s.crowd /\ t.win = s.win
      /\ t.dials = s.dials /\ t.opened = s.opened /\ t.closed = s.closed
      /\ Used(t) = Used(s)
  BY DEF Good, Alike
<1>2. \A u, y \in Viewers : t.dial[u][y].req = s.dial[u][y].req /\ t.dial[u][y].out = s.dial[u][y].out
  BY DEF Alike
<1>3. \A r, u, y : Of(t, r, u, y) <=> Of(s, r, u, y)
  BY <1>1 DEF Alike, Of
<1>4. \A u, y \in Viewers : /\ Linked(t, u, y) <=> Linked(s, u, y)
                            /\ Dialling(t, u, y) <=> Dialling(s, u, y)
                            /\ Ends(t, u, y) = Ends(s, u, y)
  BY <1>1, <1>2 DEF Linked, Dialling, Ends
<1>5. Tidy(t)
  BY <1>1, <1>2, <1>4 DEF Good, Tidy
<1>6. Named(t)
  <2>1. ASSUME NEW u \in Viewers, NEW y \in Viewers
        PROVE  /\ Dialling(t, u, y) => IF t.dial[u][y].out THEN Of(t, t.dial[u][y].req, u, y)
                                       ELSE Of(t, t.dial[u][y].req, y, u)
               /\ Linked(t, u, y) => Of(t, t.link[u][y], u, y) \/ Of(t, t.link[u][y], y, u)
    BY <1>1, <1>2, <1>3, <1>4 DEF Good, Named
  <2>2. \A c \in t.checks : /\ c.kind = "offer" => Of(t, c.req, c.peer, c.at)
                            /\ c.kind = "answer" => Of(t, c.req, c.at, c.peer)
    BY <1>1, <1>3 DEF Good, Named
  <2>3. (\A m \in t.signals : m[2] \in Used(t)) /\ t.opened \subseteq Used(t)
    BY <1>1 DEF Good, Named, Alike
  <2> QED
    BY <2>1, <2>2, <2>3 DEF Named
<1>7. Counted(t)
  BY <1>1 DEF Good, Counted, DialsOf
<1>8. Paired(t)
  <2>1. ASSUME NEW r \in t.opened \ t.closed
        PROVE  /\ r \in Ends(t, t.req[r].from, t.req[r].to)
               /\ r \in Ends(t, t.req[r].to, t.req[r].from)
    <3>1. r \in Used(s) /\ r \in s.opened \ s.closed
      BY <1>1 DEF Good, Named
    <3>2. s.req[r].from \in Viewers /\ s.req[r].to \in Viewers
      BY <1>1, <3>1, UsedHas
    <3>3. t.req[r].from = s.req[r].from /\ t.req[r].to = s.req[r].to
      BY <3>1 DEF Alike
    <3>4. r \in Ends(s, s.req[r].from, s.req[r].to) /\ r \in Ends(s, s.req[r].to, s.req[r].from)
      BY <3>1 DEF Good, Paired
    <3> QED
      BY <1>4, <3>2, <3>3, <3>4
  <2>2. ASSUME NEW u \in Viewers, NEW y \in Viewers, Linked(t, u, y), t.link[u][y] \notin t.closed
        PROVE  t.link[u][y] \in Ends(t, y, u)
    BY <1>1, <1>4, <2>2 DEF Good, Paired
  <2> QED
    BY <2>1, <2>2 DEF Paired
<1>9. ASSUME NEW u \in Viewers PROVE Fits(t, u)
  <2>1. SameTo(s, t, u)
    BY <1>1, <1>2 DEF SameTo
  <2>2. Usage(t, u) = Usage(s, u) /\ Outgoing(t, u) = Outgoing(s, u)
    BY <2>1, CountSame
  <2>3. DialChecks(t, u) = DialChecks(s, u) /\ Fits(s, u)
    BY <1>1 DEF DialChecks, Good
  <2> QED
    BY <2>2, <2>3 DEF Fits
<1> QED
  BY <1>1, <1>2, <1>5, <1>6, <1>7, <1>8, <1>9 DEF Good, Kept

-----------------------------------------------------------------------------
(* The steps. Each forgets what Settled does after a state that is Good.    *)

Safe == IInv' /\ Once(mesh, mesh')

\* It is enough that the state a handler arrives at is Good.
LEMMA Ending ==
    ASSUME IInv, NEW x, Good(x), Once(mesh, x),
           Become(x) \/ \E cost \in {0, 1} : BecomeAt(cost, x)
    PROVE  Safe
<1>1. Good(Settled(x)) /\ Settled(x).dial = x.dial
  BY SettledGood
<1> DEFINE y == Settled(x)
<1>2. mesh' = y
  BY DEF Become, BecomeAt
<1>3. faults \in Nat /\ faults' \in Nat
  BY DEF IInv, Become, BecomeAt
<1>4. Good(y) /\ y.dial = x.dial
  BY <1>1
<1> HIDE DEF y
<1>5. Once(mesh, mesh')
  BY <1>2, <1>4 DEF Once
<1>6. IInv'
  BY <1>2, <1>3, <1>4 DEF IInv
<1> QED
  BY <1>5, <1>6 DEF Safe

\* What a fault costs.
LEMMA Costs == \A b \in BOOLEAN : Cost(b) \in {0, 1}
  BY DEF Cost

\* Each step of Next in turn.
LEMMA DialSafe ==
    ASSUME IInv, NEW v \in Viewers, NEW w \in Viewers, Dial(v, w)
    PROVE  Safe
<1> DEFINE s == Expired(mesh, v)
           c == Check("dial", v, w, 0, FALSE)
           t == [s EXCEPT !.checks = s.checks \union {c}]
<1>1. Good(mesh) /\ Become(t) /\ Dialable(s, v, w)
  BY DEF IInv, Dial
<1>2. Good(s) /\ Kept(mesh, s)
  BY <1>1, ExpiredGood
<1>3. c \in CheckState /\ c.kind = "dial" /\ c.at = v
  BY DEF Check, CheckState
<1> HIDE DEF c, s
<1>4. /\ s.dials + Cardinality(DialsOf(s)) < MaxDials
      /\ Outgoing(s, v) + Cardinality(DialChecks(s, v)) < MaxDialsInFlight
  BY <1>1 DEF Dialable, HasOutgoingSlot, DialsOf
<1>5. Good(t) /\ t.dial = s.dial
  BY <1>2, <1>3, <1>4, CheckedGood
<1> HIDE DEF t
<1>6. Once(mesh, t)
  BY <1>2, <1>5, SameKept, KeptAgain, KeptOnce
<1> QED
  BY <1>1, <1>5, <1>6, Ending

\* What is asked of a window only: that its candidate is dialled.
LEMMA SeekingGood ==
    ASSUME NEW s, NEW v \in Viewers, NEW w \in Viewers, Good(s), s.win[v].phase # "lapsed"
    PROVE  LET t == [s EXCEPT !.win[v] = [@ EXCEPT !.phase = "live", !.attempt = w]] IN
           /\ Good(t) /\ t.dial = s.dial /\ t.checks = s.checks /\ t.dials = s.dials
           /\ Outgoing(t, v) = Outgoing(s, v)
<1> DEFINE x == [s.win[v] EXCEPT !.phase = "live", !.attempt = w]
           t == [s EXCEPT !.win[v] = x]
<1>1. s \in MeshState /\ IsFiniteSet(s.checks) /\ s.win[v] \in WindowState /\ Idle(s.win[v])
  BY DEF Good, Tidy, MeshState
<1>2. x \in WindowState /\ Idle(x) /\ x.vacant = s.win[v].vacant
  BY <1>1 DEF WindowState, Idle
<1> HIDE DEF x
<1>3. WindowOnly(s, t, v) /\ t.win[v] = x
  BY <1>1, <1>2, WindowSet
<1> HIDE DEF t
<1>4. Reserved(t, v) => Reserved(s, v)
  <2>1. s.win[v].phase \in {"none", "live", "lapsed"} /\ (s.win[v].phase = "none" => ~s.win[v].vacant)
    BY <1>1 DEF WindowState, Idle
  <2> QED
    BY <1>2, <1>3, <2>1 DEF Reserved
<1>5. Less(s, t, v)
  BY <1>1, <1>3, <1>4, WindowLess
<1>6. Good(t)
  BY <1>5, LessGood
<1>7. t.dial = s.dial /\ t.checks = s.checks /\ t.dials = s.dials /\ Outgoing(t, v) = Outgoing(s, v)
  BY <1>1, <1>3, WindowCounts DEF WindowOnly
<1> QED
  BY <1>6, <1>7 DEF t, x

LEMMA SeekSafe ==
    ASSUME IInv, NEW v \in Viewers, NEW w \in Viewers, Seek(v, w)
    PROVE  Safe
<1> DEFINE s == Expired(mesh, v)
           c == Check("dial", v, w, 0, TRUE)
           u == [s EXCEPT !.win[v] = [@ EXCEPT !.phase = "live", !.attempt = w]]
           t == [u EXCEPT !.checks = u.checks \union {c}]
           x == [s EXCEPT !.checks = s.checks \union {c}, !.win[v].phase = "live", !.win[v].attempt = w]
<1>1. Good(mesh) /\ Become(x) /\ Dialable(s, v, w)
  BY DEF IInv, Seek
<1>2. Good(s) /\ Kept(mesh, s) /\ s.win[v].phase # "lapsed"
  BY <1>1, ExpiredGood
<1>3. c \in CheckState /\ c.kind = "dial" /\ c.at = v
  BY DEF Check, CheckState
<1> HIDE DEF c, s
<1>4. /\ s.dials + Cardinality(DialsOf(s)) < MaxDials
      /\ Outgoing(s, v) + Cardinality(DialChecks(s, v)) < MaxDialsInFlight
  BY <1>1 DEF Dialable, HasOutgoingSlot, DialsOf
<1>5. x = t
  BY <1>2 DEF Good, MeshState
<1>6. Good(u) /\ u.dial = s.dial /\ u.checks = s.checks /\ u.dials = s.dials
      /\ Outgoing(u, v) = Outgoing(s, v)
  BY <1>2, SeekingGood
<1> HIDE DEF u, x
<1>7. /\ u.dials + Cardinality(DialsOf(u)) < MaxDials
      /\ Outgoing(u, v) + Cardinality(DialChecks(u, v)) < MaxDialsInFlight
  BY <1>4, <1>6 DEF DialsOf, DialChecks
<1>8. Good(t) /\ t.dial = u.dial
  BY <1>3, <1>6, <1>7, CheckedGood
<1> HIDE DEF t
<1>9. Once(mesh, t)
  BY <1>2, <1>6, <1>8, SameKept, KeptAgain, KeptOnce
<1> QED
  BY <1>1, <1>5, <1>8, <1>9, Ending

LEMMA LinkClosesSafe ==
    ASSUME IInv, NEW v \in Viewers, NEW w \in Viewers, LinkCloses(v, w)
    PROVE  Safe
<1> DEFINE t == EndLink(mesh, v, w)
<1>1. Good(mesh) /\ Linked(mesh, v, w) /\ \E cost \in {0, 1} : BecomeAt(cost, t)
  BY Costs DEF IInv, LinkCloses
<1>2. mesh \in MeshState /\ IsFiniteSet(mesh.checks) /\ Tidy(mesh)
  BY <1>1 DEF Good
<1>3. Less(mesh, t, v)
  BY <1>1, <1>2, EndLinkLess
<1> HIDE DEF t
<1>4. Good(t) /\ Once(mesh, t)
  BY <1>1, <1>3, LessKept, KeptOnce
<1> QED
  BY <1>1, <1>4, Ending

LEMMA DialFailsSafe ==
    ASSUME IInv, NEW v \in Viewers, NEW w \in Viewers, DialFails(v, w)
    PROVE  Safe
<1> DEFINE t == FailDial(mesh, v, w)
<1>1. Good(mesh) /\ Dialling(mesh, v, w) /\ Become(t)
  BY DEF IInv, DialFails
<1>2. Good(t) /\ Once(mesh, t)
  BY <1>1, FailedGood, KeptOnce
<1> HIDE DEF t
<1> QED
  BY <1>1, <1>2, Ending

LEMMA RejectArrivesSafe ==
    ASSUME IInv, NEW r \in Requests, RejectArrives(r)
    PROVE  Safe
<1> DEFINE v == mesh.req[r].from
           w == mesh.req[r].to
           t == FailDial(mesh, v, w)
<1>1. Good(mesh) /\ <<"reject", r>> \in mesh.signals /\ mesh.dial[v][w].req = r /\ Become(t)
  BY DEF IInv, RejectArrives
<1>2. r \in Used(mesh) /\ mesh \in MeshState
  BY <1>1 DEF Good, Named
<1>3. v \in Viewers /\ w \in Viewers /\ r # 0
  BY <1>2, UsedHas
<1> HIDE DEF v, w
<1>4. Dialling(mesh, v, w)
  BY <1>1, <1>3 DEF Dialling
<1>5. Good(t) /\ Once(mesh, t)
  BY <1>1, <1>3, <1>4, FailedGood, KeptOnce
<1> HIDE DEF t
<1> QED
  BY <1>1, <1>5, Ending

LEMMA LapsesSafe ==
    ASSUME IInv, NEW v \in Viewers, Lapses(v)
    PROVE  Safe
<1> DEFINE x == [mesh.win[v] EXCEPT !.phase = "lapsed"]
           t == [mesh EXCEPT !.win[v] = x]
           y == [mesh EXCEPT !.win[v].phase = "lapsed"]
<1>1. Good(mesh) /\ mesh.win[v].phase = "live" /\ Become(y)
  BY DEF IInv, Lapses
<1>2. mesh \in MeshState /\ IsFiniteSet(mesh.checks) /\ mesh.win[v] \in WindowState
  BY <1>1 DEF Good, MeshState
<1>3. x \in WindowState /\ Idle(x) /\ x.phase = "lapsed"
  BY <1>2 DEF WindowState, Idle
<1>4. y = t
  OBVIOUS
<1> HIDE DEF x, y
<1>5. WindowOnly(mesh, t, v) /\ t.win[v] = x
  BY <1>2, <1>3, WindowSet
<1> HIDE DEF t
<1>6. Less(mesh, t, v)
  BY <1>2, <1>3, <1>5, WindowLess DEF Reserved
<1>7. Good(t) /\ Once(mesh, t)
  BY <1>1, <1>6, LessKept, KeptOnce
<1> QED
  BY <1>1, <1>4, <1>7, Ending

LEMMA WindowEndsSafe ==
    ASSUME IInv, NEW v \in Viewers, WindowEnds(v)
    PROVE  Safe
<1> DEFINE t == EndWindow(mesh, v)
<1>1. Good(mesh) /\ Become(t)
  BY DEF IInv, WindowEnds
<1>2. mesh \in MeshState /\ IsFiniteSet(mesh.checks) /\ Tidy(mesh)
  BY <1>1 DEF Good
<1>3. Less(mesh, t, v)
  BY <1>2, EndWindowLess
<1> HIDE DEF t
<1>4. Good(t) /\ Once(mesh, t)
  BY <1>1, <1>3, LessKept, KeptOnce
<1> QED
  BY <1>1, <1>4, Ending

\* As many of the crowd as there is room for.
LEMMA CrowdGood ==
    ASSUME NEW s, Good(s), NEW v \in Viewers, NEW n \in Nat,
           Usage(s, v) + n <= MaxPeers + s.crowd[v]
    PROVE  LET t == [s EXCEPT !.crowd[v] = n] IN Good(t) /\ Kept(s, t)
<1> DEFINE t == [s EXCEPT !.crowd[v] = n]
<1>1. s \in MeshState /\ IsFiniteSet(s.checks) /\ s.crowd[v] \in Nat
      /\ MaxPeers \in Nat /\ MaxDialsInFlight \in Nat
  BY MeshAssumption DEF Good, MeshState
<1>2. /\ t \in MeshState /\ t.link = s.link /\ t.closed = s.closed /\ t.dial = s.dial
      /\ t.checks = s.checks /\ t.win = s.win /\ t.dials = s.dials /\ t.req = s.req
      /\ t.signals = s.signals /\ t.taken = s.taken /\ t.opened = s.opened /\ t.stopped = s.stopped
      /\ \A y \in Viewers \ {v} : SameTo(s, t, y)
      /\ InUse(t, v) + s.crowd[v] = InUse(s, v) + n /\ Outgoing(t, v) = Outgoing(s, v)
  BY <1>1, CrowdSet
<1> HIDE DEF t
<1>3. Used(t) = Used(s) /\ \A r, u, y : Of(t, r, u, y) <=> Of(s, r, u, y)
  BY <1>2 DEF Used, Of
<1>4. Tidy(t)
  BY <1>2 DEF Good, Tidy, Linked, Dialling
<1>5. Named(t)
  BY <1>2, <1>3 DEF Good, Named, Linked, Dialling
<1>6. Counted(t)
  BY <1>2, <1>3 DEF Good, Counted, DialsOf
<1>7. Paired(t)
  BY ZenonT(60), <1>2 DEF Good, Paired, Ends, Linked
<1>8. ASSUME NEW u \in Viewers PROVE Fits(t, u)
  <2>1. DialChecks(t, u) = DialChecks(s, u) /\ Fits(s, u)
    BY <1>2 DEF DialChecks, Good
  <2>2. CASE u # v
    <3>1. Usage(t, u) = Usage(s, u) /\ Outgoing(t, u) = Outgoing(s, u)
      BY <1>2, <2>2, CountSame
    <3> QED
      BY <2>1, <3>1 DEF Fits
  <2>3. CASE u = v
    <3>1. InUse(s, v) \in Nat /\ InUse(t, v) \in Nat
      BY <1>1, <1>2, Numbers
    <3>2. Reserved(t, v) <=> Reserved(s, v)
      BY <1>2 DEF Reserved
    <3>3. Usage(t, v) <= MaxPeers
      BY <1>1, <1>2, <3>1, <3>2 DEF Usage
    <3> QED
      BY <1>2, <2>1, <2>3, <3>3 DEF Fits
  <2> QED
    BY <2>2, <2>3
<1>9. Good(t) /\ Kept(s, t)
  BY <1>1, <1>2, <1>4, <1>5, <1>6, <1>7, <1>8, SameKept DEF Good
<1> QED
  BY <1>9 DEF t

LEMMA CrowdClosesSafe ==
    ASSUME IInv, NEW v \in Viewers, CrowdCloses(v)
    PROVE  Safe
<1> DEFINE n == mesh.crowd[v] - 1
           t == [mesh EXCEPT !.crowd[v] = n]
<1>1. Good(mesh) /\ mesh.crowd[v] > 0 /\ BecomeAt(1, t)
  BY DEF IInv, CrowdCloses
<1>2. mesh \in MeshState /\ IsFiniteSet(mesh.checks) /\ mesh.crowd[v] \in Nat
      /\ MaxPeers \in Nat /\ Usage(mesh, v) <= MaxPeers
  BY <1>1, MeshAssumption DEF Good, MeshState, Fits
<1>3. Usage(mesh, v) \in Nat
  BY <1>2, Numbers
<1>4. n \in Nat /\ Usage(mesh, v) + n <= MaxPeers + mesh.crowd[v]
  BY <1>1, <1>2, <1>3
<1> HIDE DEF n
<1>5. Good(t) /\ Kept(mesh, t)
  BY <1>1, <1>4, CrowdGood
<1> HIDE DEF t
<1> QED
  BY <1>1, <1>5, KeptOnce, Ending

LEMMA CrowdJoinsSafe ==
    ASSUME IInv, NEW v \in Viewers, CrowdJoins(v)
    PROVE  Safe
<1> DEFINE s == Expired(mesh, v)
           n == s.crowd[v] + 1
           t == [s EXCEPT !.crowd[v] = n]
<1>1. Good(mesh) /\ HasCapacity(s, v) /\ BecomeAt(1, t)
  BY DEF IInv, CrowdJoins
<1>2. Good(s) /\ Kept(mesh, s)
  BY <1>1, ExpiredGood
<1> HIDE DEF s
<1>3. s \in MeshState /\ IsFiniteSet(s.checks) /\ s.crowd[v] \in Nat
      /\ MaxPeers \in Nat /\ Usage(s, v) < MaxPeers
  BY <1>1, <1>2, MeshAssumption DEF Good, MeshState, HasCapacity, Usage
<1>4. Usage(s, v) \in Nat
  BY <1>3, Numbers
<1>5. n \in Nat /\ Usage(s, v) + n <= MaxPeers + s.crowd[v]
  BY <1>3, <1>4
<1> HIDE DEF n
<1>6. Good(t) /\ Kept(s, t)
  BY <1>2, <1>5, CrowdGood
<1> HIDE DEF t
<1>7. Once(mesh, t)
  BY <1>2, <1>6, KeptAgain, KeptOnce
<1> QED
  BY <1>1, <1>6, <1>7, Ending

LEMMA OfferArrivesSafe ==
    ASSUME IInv, NEW r \in Requests, OfferArrives(r)
    PROVE  Safe
<1> DEFINE v == mesh.req[r].to
           w == mesh.req[r].from
           s == Expired(mesh, v)
           c == Check("offer", v, w, r, FALSE)
           t == [s EXCEPT !.checks = s.checks \union {c}]
<1>1. Good(mesh) /\ <<"offer", r>> \in mesh.signals /\ Become(t)
  BY DEF IInv, OfferArrives
<1>2. r \in Used(mesh) /\ mesh \in MeshState
  BY <1>1 DEF Good, Named
<1>3. v \in Viewers /\ w \in Viewers /\ Of(mesh, r, w, v)
  BY <1>2, UsedHas DEF Of
<1> HIDE DEF v, w
<1>4. Good(s) /\ Kept(mesh, s) /\ s.req = mesh.req
  BY <1>1, <1>3, ExpiredGood
<1>5. c \in CheckState /\ c.kind = "offer" /\ c.at = v /\ c.peer = w /\ c.req = r
  BY <1>3 DEF Check, CheckState
<1> HIDE DEF c, s
<1>6. Of(s, c.req, c.peer, c.at)
  BY <1>3, <1>4, <1>5 DEF Of, Used
<1>7. Good(t) /\ t.dial = s.dial
  BY <1>4, <1>5, <1>6, CheckedGood
<1> HIDE DEF t
<1>8. Once(mesh, t)
  BY <1>4, <1>7, SameKept, KeptAgain, KeptOnce
<1> QED
  BY <1>1, <1>7, <1>8, Ending

LEMMA AnswerArrivesSafe ==
    ASSUME IInv, NEW r \in Requests, AnswerArrives(r)
    PROVE  Safe
<1> DEFINE v == mesh.req[r].from
           w == mesh.req[r].to
           c == Check("answer", v, w, r, FALSE)
           t == [mesh EXCEPT !.checks = mesh.checks \union {c}]
<1>1. Good(mesh) /\ <<"answer", r>> \in mesh.signals /\ Become(t)
  BY DEF IInv, AnswerArrives
<1>2. r \in Used(mesh) /\ mesh \in MeshState
  BY <1>1 DEF Good, Named
<1>3. v \in Viewers /\ w \in Viewers /\ Of(mesh, r, v, w)
  BY <1>2, UsedHas DEF Of
<1> HIDE DEF v, w
<1>4. c \in CheckState /\ c.kind = "answer" /\ c.at = v /\ c.peer = w /\ c.req = r
  BY <1>3 DEF Check, CheckState
<1> HIDE DEF c
<1>5. Of(mesh, c.req, c.at, c.peer)
  BY <1>3, <1>4
<1>6. Good(t) /\ t.dial = mesh.dial
  BY <1>1, <1>4, <1>5, CheckedGood
<1> HIDE DEF t
<1> QED
  BY <1>1, <1>6, SameKept, KeptOnce, Ending

\* How far a dial is.
LEMMA StagedGood ==
    ASSUME NEW s, Good(s), NEW v \in Viewers, NEW w \in Viewers, NEW k \in Stages
    PROVE  LET t == [s EXCEPT !.dial[v][w].stage = k] IN
           /\ Good(t) /\ Kept(s, t)
           /\ t.req = s.req /\ t.signals = s.signals
<1> DEFINE d == [s.dial[v][w] EXCEPT !.stage = k]
           t == [s EXCEPT !.dial[v][w] = d]
<1>1. s \in MeshState /\ s.dial[v][w] \in DialState
  BY DEF Good, MeshState
<1>2. d \in DialState /\ d.req = s.dial[v][w].req /\ d.out = s.dial[v][w].out
  BY <1>1 DEF DialState
<1>3. [s EXCEPT !.dial[v][w].stage = k] = t
  OBVIOUS
<1> HIDE DEF d
<1>4. t \in MeshState
  BY <1>1, <1>2, DialSet
<1>5. /\ t.dial = [s.dial EXCEPT ![v][w] = d]
      /\ t.link = s.link /\ t.closed = s.closed /\ t.crowd = s.crowd /\ t.checks = s.checks
      /\ t.win = s.win /\ t.dials = s.dials /\ t.req = s.req /\ t.signals = s.signals
      /\ t.opened = s.opened
  BY <1>1 DEF MeshState
<1>6. t.dial[v][w] = d /\ \A u, y \in Viewers : u # v \/ y # w => t.dial[u][y] = s.dial[u][y]
  BY <1>1, <1>5 DEF MeshState
<1> HIDE DEF t
<1>7. \A u, y \in Viewers : /\ t.dial[u][y].req = s.dial[u][y].req
                            /\ t.dial[u][y].out = s.dial[u][y].out
  BY <1>2, <1>6
<1>8. Alike(s, t)
  <2>1. Used(t) = Used(s)
    BY <1>5 DEF Used
  <2>2. \A m \in t.signals : m[2] \in Used(s)
    BY <1>5 DEF Good, Named
  <2> QED
    BY <1>4, <1>5, <1>7, <2>1, <2>2 DEF Alike
<1>9. Good(t) /\ Kept(s, t)
  BY <1>8, AlikeGood
<1> QED
  BY <1>3, <1>5, <1>9

\* A signal of a request in use.
LEMMA PublishedGood ==
    ASSUME NEW s, Good(s), NEW k \in {"offer", "answer", "reject"}, NEW r \in Used(s)
    PROVE  LET t == Publish(s, k, r) IN
           /\ Good(t) /\ Kept(s, t) /\ t.dial = s.dial /\ t.req = s.req /\ Used(t) = Used(s)
<1> DEFINE t == Publish(s, k, r)
<1>1. s \in MeshState /\ r \in Requests
  BY DEF Good, Used
<1>2. <<k, r>> \in {"offer", "answer", "reject"} \X Requests /\ <<k, r>>[2] = r
  BY <1>1
<1>3. /\ t \in MeshState /\ t.signals = s.signals \union {<<k, r>>} /\ t.dial = s.dial
      /\ t.link = s.link /\ t.closed = s.closed /\ t.crowd = s.crowd /\ t.checks = s.checks
      /\ t.win = s.win /\ t.dials = s.dials /\ t.req = s.req /\ t.opened = s.opened
  BY <1>1, <1>2 DEF Publish, MeshState
<1> HIDE DEF t
<1>4. Used(t) = Used(s)
  BY <1>3 DEF Used
<1>5. \A m \in t.signals : m[2] \in Used(s)
  BY <1>2, <1>3 DEF Good, Named
<1>6. Alike(s, t)
  BY <1>3, <1>4, <1>5 DEF Alike
<1>7. Good(t) /\ Kept(s, t)
  BY <1>6, AlikeGood
<1> QED
  BY <1>3, <1>4, <1>7 DEF t

\* What an offer says of its sender.
LEMMA SaidGood ==
    ASSUME NEW s, Good(s), NEW r \in Used(s), NEW b \in BOOLEAN
    PROVE  LET t == [s EXCEPT !.req[r].poor = b] IN Good(t) /\ Kept(s, t)
<1> DEFINE q == [s.req[r] EXCEPT !.poor = b]
           t == [s EXCEPT !.req[r] = q]
<1>1. s \in MeshState /\ r \in Requests /\ s.req[r] \in RequestState /\ s.req[r] # NoRequest
  BY DEF Good, Used, MeshState
<1>2. s.req[r] \in [from : Viewers, to : Viewers, poor : BOOLEAN]
  BY <1>1 DEF RequestState
<1>3. /\ q \in [from : Viewers, to : Viewers, poor : BOOLEAN]
      /\ q.from = s.req[r].from /\ q.to = s.req[r].to /\ q.from \in Viewers
  BY <1>2
<1>4. q # NoRequest /\ q \in RequestState
  BY <1>3, Viewing DEF NoRequest, RequestState
<1>5. [s EXCEPT !.req[r].poor = b] = t
  OBVIOUS
<1> HIDE DEF q
<1>6. [s.req EXCEPT ![r] = q] \in [Requests -> RequestState]
  BY <1>1, <1>4 DEF MeshState
<1>7. /\ t \in MeshState /\ t.req = [s.req EXCEPT ![r] = q] /\ t.dial = s.dial
      /\ t.link = s.link /\ t.closed = s.closed /\ t.crowd = s.crowd /\ t.checks = s.checks
      /\ t.win = s.win /\ t.dials = s.dials /\ t.signals = s.signals /\ t.opened = s.opened
  BY <1>1, <1>6 DEF MeshState
<1> HIDE DEF t
<1>8. /\ t.req[r] = q /\ \A y \in Requests \ {r} : t.req[y] = s.req[y]
  BY <1>1, <1>7 DEF MeshState
<1>9. Used(t) = Used(s)
  BY <1>1, <1>4, <1>8 DEF Used
<1>10. \A y \in Used(s) : t.req[y].from = s.req[y].from /\ t.req[y].to = s.req[y].to
  BY <1>3, <1>8 DEF Used
<1>11. \A m \in t.signals : m[2] \in Used(s)
  BY <1>7 DEF Good, Named
<1>12. Alike(s, t)
  BY <1>7, <1>9, <1>10, <1>11 DEF Alike
<1>13. Good(t) /\ Kept(s, t)
  BY <1>12, AlikeGood
<1> QED
  BY <1>5, <1>13

\* A dial is of a request in use.
LEMMA DialUsed ==
    ASSUME NEW s, Good(s), NEW v \in Viewers, NEW w \in Viewers, Dialling(s, v, w)
    PROVE  s.dial[v][w].req \in Used(s) /\ s.dial[v][w] \in DialState
<1>1. s \in MeshState /\ Named(s)
  BY DEF Good
<1>2. s.dial[v][w] \in DialState
  BY <1>1 DEF MeshState
<1>3. Of(s, s.dial[v][w].req, v, w) \/ Of(s, s.dial[v][w].req, w, v)
  BY <1>1 DEF Named
<1> QED
  BY <1>2, <1>3 DEF Of

LEMMA OfferReadySafe ==
    ASSUME IInv, NEW v \in Viewers, NEW w \in Viewers, OfferReady(v, w)
    PROVE  Safe
<1> DEFINE d == mesh.dial[v][w]
           r == d.req
           b == d.disc \/ LinkCount(mesh, v) = 0
           p == Publish(mesh, "offer", r)
           s == [p EXCEPT !.dial[v][w].stage = "sent"]
           t == [s EXCEPT !.req[r].poor = b]
           x == [p EXCEPT !.dial[v][w].stage = "sent", !.req[r].poor = b]
<1>1. Good(mesh) /\ Dialling(mesh, v, w) /\ Become(x)
  BY DEF IInv, OfferReady, Current
<1>2. r \in Used(mesh) /\ d \in DialState
  BY <1>1, DialUsed
<1>3. b \in BOOLEAN
  BY <1>2 DEF DialState
<1> HIDE DEF d, r, b
<1>4. Good(p) /\ Kept(mesh, p) /\ r \in Used(p)
  BY <1>1, <1>2, PublishedGood
<1>5. x = t
  BY <1>4 DEF Good, MeshState
<1> HIDE DEF p, x
<1>6. "sent" \in Stages
  BY DEF Stages
<1>7. Good(s) /\ Kept(p, s) /\ s.req = p.req
  BY <1>4, <1>6, StagedGood
<1> HIDE DEF s
<1>8. r \in Used(s)
  BY <1>4, <1>7 DEF Used
<1>9. Good(t) /\ Kept(s, t)
  BY <1>3, <1>7, <1>8, SaidGood
<1> HIDE DEF t
<1>10. Once(mesh, t)
  BY <1>4, <1>7, <1>9, KeptAgain, KeptOnce
<1> QED
  BY <1>1, <1>5, <1>9, <1>10, Ending

LEMMA AnswerReadySafe ==
    ASSUME IInv, NEW v \in Viewers, NEW w \in Viewers, AnswerReady(v, w)
    PROVE  Safe
<1> DEFINE r == mesh.dial[v][w].req
           p == Publish(mesh, "answer", r)
           t == [p EXCEPT !.dial[v][w].stage = "ready"]
<1>1. Good(mesh) /\ Dialling(mesh, v, w) /\ Become(t)
  BY DEF IInv, AnswerReady, Current
<1>2. r \in Used(mesh)
  BY <1>1, DialUsed
<1> HIDE DEF r
<1>3. Good(p) /\ Kept(mesh, p)
  BY <1>1, <1>2, PublishedGood
<1> HIDE DEF p
<1>4. "ready" \in Stages
  BY DEF Stages
<1>5. Good(t) /\ Kept(p, t)
  BY <1>3, <1>4, StagedGood
<1> HIDE DEF t
<1>6. Once(mesh, t)
  BY <1>3, <1>5, KeptAgain, KeptOnce
<1> QED
  BY <1>1, <1>5, <1>6, Ending

LEMMA AnswerInstalledSafe ==
    ASSUME IInv, NEW v \in Viewers, NEW w \in Viewers, AnswerInstalled(v, w)
    PROVE  Safe
<1> DEFINE t == [mesh EXCEPT !.dial[v][w].stage = "ready"]
<1>1. Good(mesh) /\ Become(t)
  BY DEF IInv, AnswerInstalled
<1>2. "ready" \in Stages
  BY DEF Stages
<1>3. Good(t) /\ Kept(mesh, t)
  BY <1>1, <1>2, StagedGood
<1> HIDE DEF t
<1> QED
  BY <1>1, <1>3, KeptOnce, Ending

LEMMA AnswerAdmittedSafe ==
    ASSUME IInv, NEW c \in mesh.checks, NEW ok \in BOOLEAN, AnswerAdmitted(c, ok)
    PROVE  Safe
<1> DEFINE s == [mesh EXCEPT !.checks = mesh.checks \ {c}]
           v == c.at
           w == c.peer
           f == FailDial(s, v, w)
           i == [s EXCEPT !.dial[v][w].stage = "installing"]
<1>1. /\ Good(mesh)
      /\ \E cost \in {0, 1} : \/ BecomeAt(cost, s)
                              \/ BecomeAt(cost, i)
                              \/ (Dialling(s, v, w) /\ BecomeAt(cost, f))
  <2> DEFINE d == s.dial[v][w]
             x == IF ~Current(s, v, w) \/ d.req # c.req \/ ~d.out THEN s
                  ELSE IF ~ok THEN f
                  ELSE IF ~Awaited(c.req) THEN s
                  ELSE i
  <2>1. Good(mesh) /\ BecomeAt(Cost(~ok), x)
    BY DEF IInv, AnswerAdmitted
  <2>2. Cost(~ok) \in {0, 1}
    BY Costs
  <2>3. x = s \/ x = i \/ (Dialling(s, v, w) /\ x = f)
    BY DEF Current
  <2> HIDE DEF x, s, f, i
  <2> QED
    BY <2>1, <2>2, <2>3 DEF BecomeAt
<1>2. Good(s) /\ s.dial = mesh.dial
  BY <1>1, UncheckedGood
<1>3. v \in Viewers /\ w \in Viewers
  BY <1>1 DEF Good, MeshState, CheckState
<1> HIDE DEF s, v, w
<1>4. "installing" \in Stages
  BY DEF Stages
<1>5. Good(i) /\ Kept(s, i)
  BY <1>2, <1>3, <1>4, StagedGood
<1>6. Dialling(s, v, w) => Good(f) /\ Kept(s, f)
  BY <1>2, <1>3, FailedGood
<1> HIDE DEF f, i
<1>7. Kept(mesh, s)
  BY <1>2, SameKept
<1>8. Good(s) /\ Once(mesh, s)
  BY <1>2, <1>7, KeptOnce
<1>9. Good(i) /\ Once(mesh, i)
  BY <1>5, <1>7, KeptAgain, KeptOnce
<1>10. Dialling(s, v, w) => Good(f) /\ Once(mesh, f)
  BY <1>6, <1>7, KeptAgain, KeptOnce
<1>11. PICK cost \in {0, 1} : \/ BecomeAt(cost, s)
                              \/ BecomeAt(cost, i)
                              \/ (Dialling(s, v, w) /\ BecomeAt(cost, f))
  BY <1>1
<1> QED
  BY <1>8, <1>9, <1>10, <1>11, Ending

\* A dial that turns into a link keeps its slot and its channel.
LEMMA JoinedGood ==
    ASSUME NEW s, Good(s), NEW v \in Viewers, NEW w \in Viewers, NEW r,
           Dialling(s, v, w), r = s.dial[v][w].req, r \in s.opened
    PROVE  LET t == [s EXCEPT !.link[v][w] = r, !.dial[v][w] = NoDial] IN Good(t) /\ Kept(s, t)
<1> DEFINE x == [s EXCEPT !.dial[v][w] = NoDial]
           t == [x EXCEPT !.link[v][w] = r]
           z == [s EXCEPT !.link[v][w] = r, !.dial[v][w] = NoDial]
<1>1. s \in MeshState /\ IsFiniteSet(s.checks) /\ s.dial[v][w] \in DialState
      /\ MaxPeers \in Nat /\ MaxDialsInFlight \in Nat /\ s.crowd[v] \in Nat
  BY MeshAssumption DEF Good, MeshState
<1>2. r \in Requests /\ r # 0 /\ r \in Used(s)
  BY <1>1, DialUsed DEF Used, Requests
<1>3. NoDial \in DialState /\ NoDial.req = 0 /\ ~NoDial.out
  BY DEF NoDial, DialState, Stages
<1>4. x \in MeshState
  BY <1>1, <1>3, DialSet
<1>5. z = t
  BY <1>1 DEF MeshState
<1>6. /\ x.dial = [s.dial EXCEPT ![v][w] = NoDial] /\ x.link = s.link
      /\ x.closed = s.closed /\ x.crowd = s.crowd /\ x.checks = s.checks /\ x.win = s.win
      /\ x.dials = s.dials /\ x.req = s.req /\ x.signals = s.signals /\ x.opened = s.opened
  BY <1>1 DEF MeshState
<1> HIDE DEF x, z
<1>7. t \in MeshState
  BY <1>2, <1>4, LinkSet
<1>8. /\ t.dial = [s.dial EXCEPT ![v][w] = NoDial] /\ t.link = [s.link EXCEPT ![v][w] = r]
      /\ t.closed = s.closed /\ t.crowd = s.crowd /\ t.checks = s.checks /\ t.win = s.win
      /\ t.dials = s.dials /\ t.req = s.req /\ t.signals = s.signals /\ t.opened = s.opened
  BY <1>4, <1>6 DEF MeshState
<1> HIDE DEF t
<1>9. /\ t.dial[v][w] = NoDial /\ t.link[v][w] = r
      /\ \A u, y \in Viewers : u # v \/ y # w => /\ t.dial[u][y] = s.dial[u][y]
                                                 /\ t.link[u][y] = s.link[u][y]
  BY <1>1, <1>8 DEF MeshState
<1>10. s.link[v][w] = 0
  BY DEF Good, Tidy, Linked
<1>11. \A u, y \in Viewers : Ends(t, u, y) = Ends(s, u, y)
  BY <1>3, <1>9, <1>10 DEF Ends
<1>12. Used(t) = Used(s) /\ \A q, u, y : Of(t, q, u, y) <=> Of(s, q, u, y)
  BY <1>8 DEF Used, Of
<1>13. ASSUME NEW u \in Viewers, NEW y \in Viewers
       PROVE  /\ ~Dialling(t, u, y) => ~t.dial[u][y].out
              /\ ~(Linked(t, u, y) /\ Dialling(t, u, y))
              /\ Dialling(t, u, y) => IF t.dial[u][y].out THEN Of(t, t.dial[u][y].req, u, y)
                                      ELSE Of(t, t.dial[u][y].req, y, u)
              /\ Linked(t, u, y) => Of(t, t.link[u][y], u, y) \/ Of(t, t.link[u][y], y, u)
  <2>1. CASE u # v \/ y # w
    BY <1>9, <1>12, <2>1 DEF Good, Tidy, Named, Linked, Dialling
  <2>2. CASE u = v /\ y = w
    <3>1. Of(s, r, v, w) \/ Of(s, r, w, v)
      BY DEF Good, Named
    <3> QED
      BY <1>3, <1>9, <1>12, <2>2, <3>1 DEF Linked, Dialling
  <2> QED
    BY <2>1, <2>2
<1>14. Tidy(t)
  BY <1>8, <1>13 DEF Good, Tidy
<1>15. Named(t)
  BY <1>8, <1>12, <1>13 DEF Good, Named
<1>16. Counted(t)
  BY <1>8, <1>12 DEF Good, Counted, DialsOf
<1>17. Paired(t)
  <2>1. ASSUME NEW q \in t.opened \ t.closed
        PROVE  /\ q \in Ends(t, t.req[q].from, t.req[q].to)
               /\ q \in Ends(t, t.req[q].to, t.req[q].from)
    <3>1. q \in Used(s) /\ q \in s.opened \ s.closed
      BY <1>8 DEF Good, Named
    <3>2. s.req[q].from \in Viewers /\ s.req[q].to \in Viewers
      BY <1>1, <3>1, UsedHas
    <3>3. q \in Ends(s, s.req[q].from, s.req[q].to) /\ q \in Ends(s, s.req[q].to, s.req[q].from)
      BY <3>1 DEF Good, Paired
    <3> QED
      BY <1>8, <1>11, <3>2, <3>3
  <2>2. ASSUME NEW u \in Viewers, NEW y \in Viewers, Linked(t, u, y), t.link[u][y] \notin t.closed
        PROVE  t.link[u][y] \in Ends(t, y, u)
    <3>1. CASE u # v \/ y # w
      BY <1>8, <1>9, <1>11, <2>2, <3>1 DEF Good, Paired, Linked
    <3>2. CASE u = v /\ y = w
      <4>1. (s.req[r].from = v /\ s.req[r].to = w) \/ (s.req[r].from = w /\ s.req[r].to = v)
        <5>1. Of(s, r, v, w) \/ Of(s, r, w, v)
          BY DEF Good, Named
        <5> QED
          BY <5>1 DEF Of
      <4>2. r \in s.opened \ s.closed
        BY <1>8, <1>9, <2>2, <3>2
      <4>3. r \in Ends(s, s.req[r].from, s.req[r].to) /\ r \in Ends(s, s.req[r].to, s.req[r].from)
        BY <4>2 DEF Good, Paired
      <4>4. r \in Ends(s, w, v)
        BY <4>1, <4>3
      <4> QED
        BY <1>9, <1>11, <3>2, <4>4
    <3> QED
      BY <3>1, <3>2
  <2> QED
    BY <2>1, <2>2 DEF Paired
<1>18. ASSUME NEW u \in Viewers PROVE Fits(t, u)
  <2>1. DialChecks(t, u) = DialChecks(s, u) /\ Fits(s, u)
    BY <1>8 DEF DialChecks, Good
  <2>2. CASE u # v
    <3>1. SameTo(s, t, u)
      BY <1>8, <1>9, <2>2 DEF SameTo
    <3>2. Usage(t, u) = Usage(s, u) /\ Outgoing(t, u) = Outgoing(s, u)
      BY <3>1, CountSame
    <3> QED
      BY <2>1, <3>2 DEF Fits
  <2>3. CASE u = v
    <3>1. SameBut(s, t, v, w)
      BY <1>8, <1>9 DEF SameBut
    <3>2. /\ InUse(t, v) + LinkOf(s, v, w) + DialOf(s, v, w)
                = InUse(s, v) + LinkOf(t, v, w) + DialOf(t, v, w)
          /\ Outgoing(t, v) + OutOf(s, v, w) = Outgoing(s, v) + OutOf(t, v, w)
      <4>1. s.crowd[v] \in Nat
        BY <1>1
      <4> QED
        BY <3>1, <4>1, CountCell
    <3>3. /\ LinkOf(s, v, w) = 0 /\ DialOf(s, v, w) = 1 /\ LinkOf(t, v, w) = 1 /\ DialOf(t, v, w) = 0
          /\ OutOf(s, v, w) \in {0, 1} /\ OutOf(t, v, w) = 0
      BY <1>2, <1>3, <1>9, <1>10 DEF LinkOf, DialOf, OutOf, Linked, Dialling
    <3>4. InUse(s, v) \in Nat /\ InUse(t, v) \in Nat /\ Outgoing(s, v) \in Nat /\ Outgoing(t, v) \in Nat
          /\ Cardinality(DialChecks(s, v)) \in Nat
      BY <1>1, <1>7, <1>8, Numbers
    <3>5. InUse(t, v) = InUse(s, v) /\ Outgoing(t, v) <= Outgoing(s, v)
      BY <3>2, <3>3, <3>4
    <3>6. Reserved(t, v) <=> Reserved(s, v)
      BY <1>8 DEF Reserved
    <3>7. Usage(t, v) = Usage(s, v)
      BY <3>5, <3>6 DEF Usage
    <3> QED
      BY <1>1, <2>1, <2>3, <3>4, <3>5, <3>7 DEF Fits
  <2> QED
    BY <2>2, <2>3
<1>19. Good(t)
  BY <1>1, <1>7, <1>8, <1>14, <1>15, <1>16, <1>17, <1>18 DEF Good
<1>20. Kept(s, t)
  BY <1>3, <1>9 DEF Kept
<1> QED
  BY <1>5, <1>19, <1>20 DEF z

\* A channel that is closed.
LEMMA RetiredGood ==
    ASSUME NEW s, Good(s), NEW v \in Viewers, NEW r \in Requests
    PROVE  LET t == Retired(s, r) IN
           /\ Less(s, t, v) /\ Good(t) /\ Kept(s, t) /\ t.dial = s.dial /\ t.link = s.link
           /\ t.taken = s.taken /\ t.req = s.req /\ t.closed = s.closed \union {r}
<1> DEFINE t == Retired(s, r)
<1>1. s \in MeshState /\ IsFiniteSet(s.checks) /\ Tidy(s)
  BY DEF Good
<1>2. /\ t \in MeshState /\ t.closed = s.closed \union {r}
      /\ t.link = s.link /\ t.crowd = s.crowd /\ t.dial = s.dial /\ t.checks = s.checks
      /\ t.win = s.win /\ t.dials = s.dials /\ t.req = s.req /\ t.signals = s.signals
      /\ t.taken = s.taken /\ t.opened = s.opened /\ t.stopped = s.stopped
  BY <1>1, RetiredType
<1> HIDE DEF t
<1>3. \A u \in Viewers : SameTo(s, t, u)
  BY <1>2 DEF SameTo
<1>4. InUse(t, v) = InUse(s, v) /\ Usage(t, v) = Usage(s, v) /\ Outgoing(t, v) = Outgoing(s, v)
  BY <1>3, CountSame
<1>5. InUse(s, v) \in Nat /\ Usage(s, v) \in Nat /\ Outgoing(s, v) \in Nat
  BY <1>1, Numbers
<1>6. Less(s, t, v)
  BY <1>1, <1>2, <1>3, <1>4, <1>5 DEF Less, Tidy
<1>7. Good(t) /\ Kept(s, t)
  BY <1>6, LessKept
<1> QED
  BY <1>2, <1>6, <1>7 DEF t

LEMMA LinkOpensSafe ==
    ASSUME IInv, NEW v \in Viewers, NEW w \in Viewers, LinkOpens(v, w)
    PROVE  Safe
<1> DEFINE r == mesh.dial[v][w].req
           k == KeepDial(mesh, v, w)
           x == [k EXCEPT !.link[v][w] = r, !.dial[v][w] = NoDial]
           y == Retired(mesh, r)
<1>1. Good(mesh) /\ Dialling(mesh, v, w) /\ r \in mesh.opened /\ (Become(x) \/ Become(y))
  BY DEF IInv, LinkOpens
<1>2. mesh \in MeshState /\ IsFiniteSet(mesh.checks) /\ Tidy(mesh) /\ r \in Requests
  BY <1>1, DialUsed DEF Good, Used
<1>3. Less(mesh, k, v) /\ k.dial[v][w].req = r
  BY <1>2, KeepDialLess
<1>4. k.opened = mesh.opened
  BY <1>3 DEF Less
<1> HIDE DEF k
<1>5. Good(k) /\ Kept(mesh, k)
  BY <1>1, <1>3, LessKept
<1>6. Dialling(k, v, w)
  BY <1>1, <1>3 DEF Dialling
<1> HIDE DEF r
<1>7. Good(x) /\ Kept(k, x)
  BY <1>1, <1>3, <1>4, <1>5, <1>6, JoinedGood
<1>8. Good(y) /\ Kept(mesh, y)
  BY <1>1, <1>2, RetiredGood
<1> HIDE DEF x, y
<1>9. Once(mesh, x) /\ Once(mesh, y)
  BY <1>5, <1>7, <1>8, KeptAgain, KeptOnce
<1> QED
  BY <1>1, <1>7, <1>8, <1>9, Ending

LEMMA ChannelOpensSafe ==
    ASSUME IInv, NEW r \in Requests, ChannelOpens(r)
    PROVE  Safe
<1> DEFINE v == mesh.req[r].from
           w == mesh.req[r].to
           t == [mesh EXCEPT !.opened = @ \union {r}]
<1>1. Good(mesh) /\ v # Nobody /\ mesh.dial[v][w].req = r /\ mesh.dial[w][v].req = r /\ Become(t)
  BY DEF IInv, ChannelOpens
<1>2. r \in Used(mesh)
  BY <1>1 DEF Used, NoRequest
<1>3. mesh \in MeshState
  BY <1>1 DEF Good
<1>4. /\ t \in MeshState /\ t.opened = mesh.opened \union {r}
      /\ t.link = mesh.link /\ t.crowd = mesh.crowd /\ t.dial = mesh.dial /\ t.checks = mesh.checks
      /\ t.win = mesh.win /\ t.dials = mesh.dials /\ t.req = mesh.req /\ t.signals = mesh.signals
      /\ t.closed = mesh.closed
  BY <1>3 DEF MeshState
<1> HIDE DEF t
<1>5. Used(t) = Used(mesh) /\ \A q, u, y : Of(t, q, u, y) <=> Of(mesh, q, u, y)
  BY <1>4 DEF Used, Of
<1>6. Tidy(t)
  BY <1>1, <1>4 DEF Good, Tidy, Linked, Dialling
<1>7. Named(t)
  BY <1>1, <1>2, <1>4, <1>5 DEF Good, Named, Linked, Dialling
<1>8. Counted(t)
  BY <1>1, <1>4, <1>5 DEF Good, Counted, DialsOf
<1>9. Paired(t)
  <2>1. \A u, y : Ends(t, u, y) = Ends(mesh, u, y)
    BY <1>4 DEF Ends
  <2>2. r \in Ends(t, v, w) /\ r \in Ends(t, w, v)
    BY ZenonT(60), <1>1, <2>1 DEF Ends
  <2> QED
    BY <1>1, <1>4, <2>1, <2>2 DEF Good, Paired, Linked
<1>10. ASSUME NEW u \in Viewers PROVE Fits(t, u)
  <2>1. SameTo(mesh, t, u)
    BY <1>4 DEF SameTo
  <2>2. Usage(t, u) = Usage(mesh, u) /\ Outgoing(t, u) = Outgoing(mesh, u)
    BY <2>1, CountSame
  <2> QED
    BY <1>1, <1>4, <2>2 DEF Good, Fits, DialChecks
<1>11. Good(t)
  BY <1>1, <1>4, <1>6, <1>7, <1>8, <1>9, <1>10 DEF Good
<1> QED
  BY <1>1, <1>4, <1>11, SameKept, KeptOnce, Ending

-----------------------------------------------------------------------------
(* What follows when the host has answered.                                 *)

\* A window whose attempt is over keeps the slot it had vacated, if any.
LEMMA GoneGood ==
    ASSUME NEW s, Good(s), NEW v \in Viewers, NEW w \in Viewers
    PROVE  LET t == Abandoned(s, v, w, s.win[v].vacant) IN Good(t) /\ Kept(s, t)
<1> DEFINE t == Abandoned(s, v, w, s.win[v].vacant)
<1>1. s \in MeshState /\ IsFiniteSet(s.checks) /\ Tidy(s) /\ s.win[v].vacant \in BOOLEAN
  BY DEF Good, MeshState, WindowState
<1>2. /\ WindowOnly(s, t, v)
      /\ t.win[v].phase = s.win[v].phase /\ t.win[v].vacant \in {s.win[v].vacant, s.win[v].vacant}
  BY <1>1, AbandonedWindow
<1> HIDE DEF t
<1>3. Reserved(t, v) => Reserved(s, v)
  BY <1>2 DEF Reserved
<1>4. Less(s, t, v)
  BY <1>1, <1>2, <1>3, WindowLess
<1>5. Good(t) /\ Kept(s, t)
  BY <1>4, LessKept
<1> QED
  BY <1>5 DEF t

\* Whether s has room for one more dial of v's, of those counted.
Spare(s, v) ==
    /\ s.dials + Cardinality(DialsOf(s)) < MaxDials
    /\ Outgoing(s, v) + Cardinality(DialChecks(s, v)) < MaxDialsInFlight

\* Giving something up leaves that room.
LEMMA SpareLess ==
    ASSUME NEW s, Good(s), NEW v \in Viewers, NEW t, Less(s, t, v), Spare(s, v)
    PROVE  Spare(t, v)
<1>1. t.checks = s.checks /\ t.dials = s.dials /\ Outgoing(t, v) <= Outgoing(s, v)
      /\ s \in MeshState /\ t \in MeshState /\ IsFiniteSet(s.checks)
  BY DEF Less, Good
<1>2. DialsOf(t) = DialsOf(s) /\ DialChecks(t, v) = DialChecks(s, v)
  BY <1>1 DEF DialsOf, DialChecks
<1>3. Outgoing(s, v) \in Nat /\ Outgoing(t, v) \in Nat /\ Cardinality(DialChecks(s, v)) \in Nat
      /\ MaxDialsInFlight \in Nat
  BY <1>1, Numbers, MeshAssumption
<1> QED
  BY <1>1, <1>2, <1>3 DEF Spare

\* A dial of one's own answers nobody.
LEMMA CreatedKept ==
    ASSUME NEW s, NEW v \in Viewers, NEW w \in Viewers, NEW disc \in BOOLEAN, Good(s), Spare(s, v),
           ~Linked(s, v, w), ~Dialling(s, v, w),
           IF disc THEN InUse(s, v) < MaxPeers ELSE Usage(s, v) < MaxPeers
    PROVE  LET t == Created(s, v, w, disc) IN Good(t) /\ Kept(s, t)
<1> DEFINE t == Created(s, v, w, disc)
<1>1. Good(t) /\ t.dial[v][w].out
      /\ \A u, y \in Viewers : u # v \/ y # w => t.dial[u][y] = s.dial[u][y]
  BY CreatedGood DEF Spare
<1> HIDE DEF t
<1>2. Kept(s, t)
  BY <1>1 DEF Kept
<1> QED
  BY <1>1, <1>2 DEF t

\* A link that goes for a candidate of the window.
LEMMA ReplacedGood ==
    ASSUME NEW s, NEW v \in Viewers, NEW w \in Viewers, Good(s), Spare(s, v),
           ~Linked(s, v, w), ~Dialling(s, v, w), s.win[v].phase = "live",
           NEW t \in Replaced(s, v, w)
    PROVE  Good(t) /\ Kept(s, t)
<1>1. PICK x \in Victims(s, v) :
        t = Created(Drop([s EXCEPT !.win[v].dropped = TRUE, !.win[v].victim = x], v, x), v, w, TRUE)
  BY DEF Replaced
<1> DEFINE y == [s.win[v] EXCEPT !.dropped = TRUE, !.victim = x]
           a == [s EXCEPT !.win[v] = y]
           b == [s EXCEPT !.win[v].dropped = TRUE, !.win[v].victim = x]
           d == Drop(a, v, x)
           z == Created(d, v, w, TRUE)
<1>2. s \in MeshState /\ IsFiniteSet(s.checks) /\ Tidy(s) /\ s.win[v] \in WindowState
      /\ Idle(s.win[v]) /\ Usage(s, v) <= MaxPeers /\ MaxPeers \in Nat
  BY MeshAssumption DEF Good, Tidy, Fits, MeshState
<1>3. x \in SUBSET Viewers
  BY DEF Victims
<1>4. y \in WindowState /\ Idle(y) /\ y.phase = s.win[v].phase /\ y.vacant = s.win[v].vacant
  BY <1>2, <1>3 DEF WindowState, Idle
<1>5. b = a
  BY <1>2 DEF MeshState
<1>6. t = z
  BY <1>1, <1>5
<1> HIDE DEF y, b
<1>7. WindowOnly(s, a, v) /\ a.win[v] = y
  BY <1>2, <1>4, WindowSet
<1> HIDE DEF a
<1>8. Reserved(a, v) => Reserved(s, v)
  BY <1>4, <1>7 DEF Reserved
<1>9. Less(s, a, v)
  BY <1>2, <1>7, <1>8, WindowLess
<1>10. Good(a) /\ Kept(s, a) /\ Spare(a, v)
  BY <1>9, LessKept, SpareLess
<1>11. a.link = s.link /\ a.crowd = s.crowd /\ LinkCount(a, v) = LinkCount(s, v)
       /\ InUse(a, v) = InUse(s, v) /\ a.dial = s.dial
  BY <1>2, <1>7, WindowCounts DEF WindowOnly
<1>12. x \in Victims(a, v)
  BY <1>11 DEF Victims, Linked
<1>13. a \in MeshState /\ IsFiniteSet(a.checks) /\ Tidy(a)
  BY <1>10 DEF Good
<1>14. /\ Less(a, d, v) /\ InUse(d, v) = InUse(a, v) - 1 /\ d.dial = a.dial
       /\ \A u, q \in Viewers : d.link[u][q] \in {a.link[u][q], 0}
  BY <1>12, <1>13, DropLess
<1> HIDE DEF d
<1>15. Good(d) /\ Kept(a, d) /\ Spare(d, v)
  BY <1>10, <1>14, LessKept, SpareLess
<1>16. ~Linked(d, v, w) /\ ~Dialling(d, v, w)
  BY <1>11, <1>14 DEF Linked, Dialling
<1>17. InUse(d, v) < MaxPeers
  <2>1. InUse(s, v) \in Nat /\ Usage(s, v) \in Nat
    BY <1>2, Numbers
  <2>2. InUse(s, v) <= MaxPeers
    BY <1>2, <2>1 DEF Usage
  <2> QED
    BY <1>2, <1>11, <1>14, <2>1, <2>2
<1>18. Good(z) /\ Kept(d, z)
  BY <1>15, <1>16, <1>17, CreatedKept
<1> HIDE DEF z
<1> QED
  BY <1>6, <1>10, <1>15, <1>18, KeptAgain

LEMMA DialAdmittedSafe ==
    ASSUME IInv, NEW c \in mesh.checks, NEW ok \in BOOLEAN, NEW unmet \in BOOLEAN,
           DialAdmitted(c, ok, unmet)
    PROVE  Safe
<1> DEFINE v == c.at
           w == c.peer
           t == [mesh EXCEPT !.checks = mesh.checks \ {c}]
           s == IF c.disc THEN t ELSE Expired(t, v)
           gone == IF c.disc THEN Abandoned(s, v, c.peer, s.win[v].vacant) ELSE s
           after == IF ~ok \/ ~MayDial(s, v, c) \/ (c.disc /\ ~unmet) THEN {gone}
                    ELSE IF c.disc /\ InUse(s, v) >= MaxPeers THEN {gone} \union Replaced(s, v, c.peer)
                    ELSE {Created(s, v, c.peer, c.disc)}
<1>1. Good(mesh) /\ c.kind = "dial" /\ \E u \in after : BecomeAt(Cost(~ok), u)
  BY DEF IInv, DialAdmitted
<1>2. v \in Viewers /\ w \in Viewers /\ c.disc \in BOOLEAN
  BY <1>1 DEF Good, MeshState, CheckState
<1>3. Good(t) /\ t.dial = mesh.dial /\ Spare(t, v)
  BY <1>1, UncheckedGood DEF Spare
<1> HIDE DEF t
<1>4. Good(s) /\ Kept(mesh, s) /\ Spare(s, v)
  <2>1. Kept(mesh, t)
    BY <1>3, SameKept
  <2>2. CASE c.disc
    BY <1>3, <2>1, <2>2
  <2>3. CASE ~c.disc
    <3> DEFINE e == Expired(t, v)
    <3>1. Good(e) /\ Kept(t, e) /\ Less(t, e, v)
      BY <1>2, <1>3, ExpiredGood
    <3>2. s = e
      BY <2>3
    <3> HIDE DEF e, s
    <3>3. Spare(e, v)
      BY <1>2, <1>3, <3>1, SpareLess
    <3> QED
      BY <2>1, <3>1, <3>2, <3>3, KeptAgain
  <2> QED
    BY <2>2, <2>3, <1>2
<1> HIDE DEF s
<1>5. Good(gone) /\ Kept(s, gone)
  BY <1>2, <1>4, GoneGood, SameKept
<1> HIDE DEF gone
<1>6. ASSUME NEW u \in after PROVE Good(u) /\ Kept(s, u)
  <2>1. CASE u = gone
    BY <1>5, <2>1
  <2>2. CASE u # gone /\ c.disc /\ InUse(s, v) >= MaxPeers
    <3>1. MayDial(s, v, c) /\ u \in Replaced(s, v, w)
      BY <2>2
    <3>2. ~Linked(s, v, w) /\ ~Dialling(s, v, w) /\ s.win[v].phase = "live"
      BY <2>2, <3>1 DEF MayDial, Valid
    <3> QED
      BY <1>2, <1>4, <3>1, <3>2, ReplacedGood
  <2>3. CASE u # gone /\ ~(c.disc /\ InUse(s, v) >= MaxPeers)
    <3>1. MayDial(s, v, c) /\ u = Created(s, v, w, c.disc)
      BY <2>3
    <3>2. ~Linked(s, v, w) /\ ~Dialling(s, v, w) /\ (~c.disc => HasCapacity(s, v))
      BY <3>1 DEF MayDial
    <3>3. InUse(s, v) \in Nat /\ MaxPeers \in Nat
      BY <1>2, <1>4, Numbers, MeshAssumption DEF Good
    <3>4. IF c.disc THEN InUse(s, v) < MaxPeers ELSE Usage(s, v) < MaxPeers
      BY <2>3, <3>2, <3>3 DEF HasCapacity, Usage
    <3> QED
      BY <1>2, <1>4, <3>1, <3>2, <3>4, CreatedKept
  <2> QED
    BY <2>1, <2>2, <2>3
<1> HIDE DEF after, v
<1>7. Cost(~ok) \in {0, 1}
  BY Costs
<1>8. PICK u \in after : BecomeAt(Cost(~ok), u)
  BY <1>1
<1>9. Good(u) /\ Once(mesh, u)
  BY <1>4, <1>6, KeptAgain, KeptOnce
<1> QED
  BY <1>7, <1>8, <1>9, Ending

\* An answer to r is all that is new.
Answers(s, t, v, w, r) ==
    /\ t.dial[v][w].req = r
    /\ \A u, y \in Viewers : u # v \/ y # w => t.dial[u][y] = s.dial[u][y]
LEMMA AnsweredOne ==
    ASSUME NEW s, NEW t, NEW x, NEW v \in Viewers, NEW w \in Viewers, NEW r,
           Kept(s, t), r \notin s.taken, Answers(t, x, v, w, r)
    PROVE  Once(s, x)
<1>1. ASSUME NEW u \in Viewers, NEW y \in Viewers,
             x.dial[u][y].req # s.dial[u][y].req, x.dial[u][y].req # 0, ~x.dial[u][y].out
      PROVE  x.dial[u][y].req \notin s.taken
  <2>1. CASE u = v /\ y = w
    BY <2>1 DEF Answers
  <2>2. CASE u # v \/ y # w
    BY <1>1, <2>2 DEF Kept, Answers
  <2> QED
    BY <2>1, <2>2
<1> QED
  BY <1>1 DEF Once

\* An answer in the place of v's own dial of w.
LEMMA CrossedGood ==
    ASSUME NEW s, NEW v \in Viewers, NEW w \in Viewers, NEW r, Good(s), Of(s, r, w, v),
           Dialling(s, v, w), NEW x \in Crossed(s, v, w, r), NEW m, Kept(m, s), r \notin m.taken
    PROVE  Good(x) /\ Once(m, x)
<1> DEFINE q == s.dial[v][w].req
           f == FailDial(s, v, w)
           k == KeepDial(s, v, w)
           z == Retired(k, q)
           a == Answering(z, v, w, r)
<1>1. x = s \/ x = f \/ x = a
  BY DEF Crossed
<1>2. s \in MeshState /\ IsFiniteSet(s.checks) /\ Tidy(s) /\ q \in Requests /\ q # 0
  BY DialUsed DEF Good, Used, Dialling
<1>3. Good(f) /\ Kept(s, f)
  BY FailedGood
<1>4. /\ Less(s, k, v) /\ k.link = s.link
      /\ \A u, y \in Viewers : k.dial[u][y].req = s.dial[u][y].req
  BY <1>2, KeepDialLess
<1> HIDE DEF f, k
<1>5. Good(k) /\ Kept(s, k) /\ k.req = s.req
  BY <1>4, LessKept
<1>6. k.dial[v][w].req = q
  BY <1>4
<1> HIDE DEF q
<1>7. Good(z) /\ Kept(k, z) /\ z.dial = k.dial /\ z.link = k.link /\ z.req = k.req
      /\ z.closed = k.closed \union {q}
  BY <1>2, <1>5, RetiredGood
<1> HIDE DEF z
<1>8. Of(z, r, w, v) /\ ~Linked(z, v, w)
  BY <1>2, <1>4, <1>5, <1>7 DEF Of, Used, Linked, Tidy
<1>9. z.dial[v][w].req \in z.closed \union {0}
  BY <1>6, <1>7
<1>10. DialOf(z, v, w) = 1
  BY <1>2, <1>6, <1>7 DEF DialOf, Dialling
<1>11. Usage(z, v) + 1 <= MaxPeers + DialOf(z, v, w)
  <2>1. Usage(z, v) <= MaxPeers /\ MaxPeers \in Nat /\ z \in MeshState /\ IsFiniteSet(z.checks)
    BY <1>7, MeshAssumption DEF Good, Fits
  <2>2. Usage(z, v) \in Nat
    BY <2>1, Numbers
  <2> QED
    BY <1>10, <2>1, <2>2
<1>12. Good(a) /\ Answers(z, a, v, w, r)
  BY <1>7, <1>8, <1>9, <1>11, AnsweringGood DEF Answers
<1> HIDE DEF a
<1>13. Kept(m, z)
  BY <1>5, <1>7, KeptAgain
<1>14. Once(m, a)
  BY <1>12, <1>13, AnsweredOne
<1>15. Once(m, s) /\ Once(m, f)
  BY <1>3, KeptAgain, KeptOnce
<1> QED
  BY <1>1, <1>3, <1>12, <1>14, <1>15

\* An answer where nothing is dialled, if there is room.
LEMMA RoomGood ==
    ASSUME NEW s, NEW v \in Viewers, NEW w \in Viewers, NEW r, Good(s), Of(s, r, w, v),
           ~Dialling(s, v, w), ~Linked(s, v, w), Usage(s, v) < MaxPeers,
           NEW m, Kept(m, s), r \notin m.taken
    PROVE  LET x == Answering(s, v, w, r) IN Good(x) /\ Once(m, x)
<1> DEFINE x == Answering(s, v, w, r)
<1>1. s.dial[v][w].req \in s.closed \union {0} /\ DialOf(s, v, w) = 0
  BY DEF Dialling, DialOf
<1>2. Usage(s, v) + 1 <= MaxPeers + DialOf(s, v, w)
  <2>1. MaxPeers \in Nat /\ s \in MeshState /\ IsFiniteSet(s.checks)
    BY MeshAssumption DEF Good
  <2>2. Usage(s, v) \in Nat
    BY <2>1, Numbers
  <2> QED
    BY <1>1, <2>1, <2>2
<1>3. Good(x) /\ Answers(s, x, v, w, r)
  BY <1>1, <1>2, AnsweringGood DEF Answers
<1> HIDE DEF x
<1>4. Once(m, x)
  BY <1>3, AnsweredOne
<1> QED
  BY <1>3, <1>4 DEF x

\* An offer is answered, in a free slot or that of a link that goes, or rejected.
LEMMA TakenGood ==
    ASSUME NEW s, NEW v \in Viewers, NEW w \in Viewers, NEW r, Good(s), Of(s, r, w, v),
           ~Linked(s, v, w), NEW x \in Taken(s, v, w, r), NEW m, Kept(m, s), r \notin m.taken
    PROVE  Good(x) /\ Once(m, x)
<1> DEFINE t == IF Dialling(s, v, w) THEN FailDial(s, v, w) ELSE s
           p == Publish(t, "reject", r)
<1>1. \/ HasCapacity(t, v) /\ x = Answering(t, v, w, r)
      \/ x = p
      \/ ~Reserved(t, v) /\ \E y \in Victims(t, v) : x = Answering(Drop(t, v, y), v, w, r)
  BY DEF Taken
<1>2. Good(t) /\ Kept(s, t) /\ t.link = s.link /\ t.req = s.req /\ ~Dialling(t, v, w)
  BY FailedGood, SameKept
<1> HIDE DEF t
<1>3. Of(t, r, w, v) /\ ~Linked(t, v, w) /\ Kept(m, t)
  BY <1>2, KeptAgain DEF Of, Used, Linked
<1>4. t \in MeshState /\ IsFiniteSet(t.checks) /\ Tidy(t) /\ Usage(t, v) <= MaxPeers
      /\ MaxPeers \in Nat
  BY <1>2, MeshAssumption DEF Good, Fits
<1>5. CASE HasCapacity(t, v) /\ x = Answering(t, v, w, r)
  <2>1. Usage(t, v) < MaxPeers
    BY <1>5 DEF HasCapacity, Usage
  <2> QED
    BY <1>2, <1>3, <1>5, <2>1, RoomGood
<1>6. CASE x = p
  <2>1. r \in Used(t)
    BY <1>3 DEF Of
  <2>2. Good(p) /\ Kept(t, p)
    BY <1>2, <2>1, PublishedGood
  <2> HIDE DEF p
  <2> QED
    BY <1>3, <1>6, <2>2, KeptAgain, KeptOnce
<1>7. ASSUME ~Reserved(t, v), NEW y \in Victims(t, v), x = Answering(Drop(t, v, y), v, w, r)
      PROVE  Good(x) /\ Once(m, x)
  <2> DEFINE d == Drop(t, v, y)
             a == Answering(d, v, w, r)
  <2>1. /\ Less(t, d, v) /\ InUse(d, v) = InUse(t, v) - 1 /\ d.dial = t.dial /\ d.win = t.win
        /\ \A u, q \in Viewers : d.link[u][q] \in {t.link[u][q], 0}
    BY <1>4, <1>7, DropLess
  <2> HIDE DEF d
  <2>2. Good(d) /\ Kept(t, d) /\ d.req = t.req
    BY <1>2, <2>1, LessKept
  <2>3. Of(d, r, w, v) /\ ~Linked(d, v, w) /\ ~Dialling(d, v, w) /\ Kept(m, d)
    BY <1>2, <1>3, <2>1, <2>2, KeptAgain DEF Of, Used, Linked, Dialling
  <2>4. Usage(d, v) < MaxPeers
    <3>1. InUse(t, v) \in Nat
      BY <1>4, Numbers
    <3>2. Usage(t, v) = InUse(t, v) /\ Usage(d, v) = InUse(d, v)
      BY <1>7, <2>1, <3>1 DEF Usage, Reserved
    <3> QED
      BY <1>4, <2>1, <3>1, <3>2
  <2>5. Good(a) /\ Once(m, a)
    BY <2>2, <2>3, <2>4, RoomGood
  <2>6. x = a
    BY <1>7 DEF d
  <2> QED
    BY <2>5, <2>6
<1> QED
  BY <1>1, <1>5, <1>6, <1>7

LEMMA OfferAdmittedSafe ==
    ASSUME IInv, NEW c \in mesh.checks, NEW ok \in BOOLEAN, NEW twin \in BOOLEAN,
           OfferAdmitted(c, ok, twin)
    PROVE  Safe
<1> DEFINE v == c.at
           w == c.peer
           r == c.req
           t == IF twin THEN mesh ELSE [mesh EXCEPT !.checks = mesh.checks \ {c}]
           s == Expired(t, v)
           u == [s EXCEPT !.taken = s.taken \union {r}]
           after == IF ~ok \/ Linked(t, v, w) THEN {t}
                    ELSE IF Again(s, v, w, r) THEN {s}
                    ELSE IF s.dial[v][w].out THEN Crossed(u, v, w, r) ELSE Taken(u, v, w, r)
<1>1. Good(mesh) /\ c.kind = "offer" /\ \E x \in after : BecomeAt(Cost(~ok \/ twin), x)
  BY DEF IInv, OfferAdmitted
<1>2. v \in Viewers /\ w \in Viewers /\ Of(mesh, r, w, v)
  BY <1>1 DEF Good, MeshState, CheckState, Named
<1>3. Good(t) /\ t.dial = mesh.dial /\ t.taken = mesh.taken /\ t.req = mesh.req
  BY <1>1, UncheckedGood
<1> HIDE DEF t
<1>4. Good(s) /\ Kept(t, s) /\ s.taken = t.taken /\ s.req = t.req
  BY <1>2, <1>3, ExpiredGood
<1> HIDE DEF s
<1>5. Kept(mesh, t) /\ Kept(mesh, s)
  BY <1>3, <1>4, SameKept, KeptAgain
<1>6. Good(u) /\ Kept(s, u) /\ u.dial = s.dial /\ u.link = s.link /\ u.req = s.req
  <2>1. s \in MeshState /\ r \in Requests
    BY <1>2, <1>4 DEF Good, Of, Used
  <2>2. /\ u \in MeshState /\ u.dial = s.dial /\ u.checks = s.checks /\ u.link = s.link
        /\ u.crowd = s.crowd /\ u.win = s.win /\ u.dials = s.dials /\ u.opened = s.opened
        /\ u.closed = s.closed /\ u.req = s.req /\ u.signals = s.signals
    BY <2>1 DEF MeshState
  <2> HIDE DEF u
  <2>3. Used(u) = Used(s)
    BY <2>2 DEF Used
  <2>4. Alike(s, u)
    BY <1>4, <2>2, <2>3 DEF Alike, Good, Named
  <2> QED
    BY <1>4, <2>2, <2>4, AlikeGood
<1> HIDE DEF u
<1>7. Kept(mesh, u)
  BY <1>5, <1>6, KeptAgain
<1>8. Of(u, r, w, v)
  BY <1>2, <1>3, <1>4, <1>6 DEF Of, Used
<1>9. ASSUME NEW x \in after PROVE Good(x) /\ Once(mesh, x)
  <2>1. CASE x \in {t, s}
    BY <1>3, <1>4, <1>5, <2>1, KeptOnce
  <2>2. CASE x \notin {t, s}
    <3>1. ~Again(s, v, w, r) /\ x \in IF s.dial[v][w].out THEN Crossed(u, v, w, r) ELSE Taken(u, v, w, r)
      BY <2>2
    <3>2. r \notin mesh.taken /\ ~Linked(u, v, w)
      BY <1>3, <1>4, <1>6, <3>1 DEF Again, Ignored, Linked
    <3>3. CASE s.dial[v][w].out
      <4>1. Dialling(u, v, w)
        BY <1>2, <1>4, <1>6, <3>3 DEF Good, Tidy, Dialling
      <4>2. x \in Crossed(u, v, w, r)
        BY <3>1, <3>3
      <4> HIDE DEF v, w, r
      <4> QED
        BY <1>2, <1>6, <1>7, <1>8, <3>2, <4>1, <4>2, CrossedGood
    <3>4. CASE ~s.dial[v][w].out
      <4>1. x \in Taken(u, v, w, r)
        BY <3>1, <3>4
      <4> HIDE DEF v, w, r
      <4> QED
        BY <1>2, <1>6, <1>7, <1>8, <3>2, <4>1, TakenGood
    <3> QED
      BY <3>3, <3>4
  <2> QED
    BY <2>1, <2>2
<1> HIDE DEF after
<1>10. Cost(~ok \/ twin) \in {0, 1}
  BY Costs
<1>11. PICK x \in after : BecomeAt(Cost(~ok \/ twin), x)
  BY <1>1
<1> QED
  BY <1>9, <1>10, <1>11, Ending

\* All that v has: its links, its dials and the crowd's links to it.
Cleared(s, v) ==
    [s EXCEPT !.crowd[v] = 0, !.dial[v] = [w \in Viewers |-> NoDial],
              !.link[v] = [w \in Viewers |-> 0],
              !.closed = @ \union (({s.dial[v][w].req : w \in Viewers}
                                    \union {s.link[v][w] : w \in Viewers}) \ {0})]
LEMMA ClearedLess ==
    ASSUME NEW s \in MeshState, IsFiniteSet(s.checks), NEW v \in Viewers, Tidy(s), ~Reserved(s, v)
    PROVE  Less(s, Cleared(s, v), v)
<1> DEFINE t == Cleared(s, v)
           mine == ({s.dial[v][w].req : w \in Viewers} \union {s.link[v][w] : w \in Viewers}) \ {0}
           D == [w \in Viewers |-> NoDial]
           L == [w \in Viewers |-> 0]
<1>1. /\ \A w \in Viewers : s.dial[v][w].req \in Requests \union {0}
      /\ \A w \in Viewers : s.link[v][w] \in Requests \union {0}
  BY DEF MeshState, DialState
<1>2. mine \subseteq Requests
  BY <1>1
<1>3. \A w \in Viewers : s.dial[v][w].req \in mine \union {0} /\ s.link[v][w] \in mine \union {0}
  OBVIOUS
<1>4. NoDial \in DialState /\ NoDial.req = 0 /\ ~NoDial.out
  BY DEF NoDial, DialState, Stages
<1>5. D \in [Viewers -> DialState] /\ L \in [Viewers -> Requests \union {0}]
      /\ \A w \in Viewers : D[w] = NoDial /\ L[w] = 0
  BY <1>4
<1>6. t = [s EXCEPT !.crowd[v] = 0, !.dial[v] = D, !.link[v] = L, !.closed = s.closed \union mine]
  BY DEF Cleared
<1> HIDE DEF mine, D, L, t
<1>7. /\ [s.crowd EXCEPT ![v] = 0] \in [Viewers -> Nat]
      /\ [s.dial EXCEPT ![v] = D] \in [Viewers -> [Viewers -> DialState]]
      /\ [s.link EXCEPT ![v] = L] \in [Viewers -> [Viewers -> Requests \union {0}]]
      /\ s.closed \union mine \in SUBSET Requests
  BY <1>2, <1>5 DEF MeshState
<1>8. /\ t.crowd = [s.crowd EXCEPT ![v] = 0] /\ t.dial = [s.dial EXCEPT ![v] = D]
      /\ t.link = [s.link EXCEPT ![v] = L] /\ t.closed = s.closed \union mine
      /\ t.checks = s.checks /\ t.win = s.win /\ t.dials = s.dials /\ t.req = s.req
      /\ t.signals = s.signals /\ t.taken = s.taken /\ t.opened = s.opened /\ t.stopped = s.stopped
  BY <1>6 DEF MeshState
<1>9. t \in MeshState
  BY <1>6, <1>7 DEF MeshState
<1>10. /\ t.crowd[v] = 0 /\ t.dial[v] = D /\ t.link[v] = L
       /\ \A u \in Viewers \ {v} : /\ t.crowd[u] = s.crowd[u] /\ t.dial[u] = s.dial[u]
                                   /\ t.link[u] = s.link[u]
  BY <1>8 DEF MeshState
<1>11. \A u \in Viewers \ {v} : SameTo(s, t, u)
  BY <1>8, <1>10 DEF SameTo
<1>12. \A w \in Viewers : ~Linked(t, v, w) /\ ~Dialling(t, v, w) /\ ~t.dial[v][w].out
  BY <1>4, <1>5, <1>10 DEF Linked, Dialling
<1>13. InUse(t, v) = 0 /\ Outgoing(t, v) = 0
  <2> DEFINE A == {w \in Viewers : Linked(t, v, w)}
             B == {w \in Viewers : Dialling(t, v, w)}
             C == {w \in Viewers : t.dial[v][w].out}
  <2>1. A = {} /\ B = {} /\ C = {}
    BY <1>12
  <2>2. /\ InUse(t, v) = t.crowd[v] + Cardinality(A) + Cardinality(B)
        /\ Outgoing(t, v) = Cardinality(C)
    BY DEF InUse, LinkCount, Outgoing
  <2>3. Cardinality({}) = 0
    BY FS_EmptySet
  <2> HIDE DEF A, B, C
  <2>4. Cardinality(A) = 0 /\ Cardinality(B) = 0 /\ Cardinality(C) = 0
    BY <2>1, <2>3
  <2> QED
    BY <1>10, <2>2, <2>4
<1>14. InUse(s, v) \in Nat /\ Usage(s, v) \in Nat /\ Outgoing(s, v) \in Nat
  BY Numbers
<1>15. Usage(t, v) = 0
  BY <1>8, <1>13 DEF Usage, Reserved
<1>16. ASSUME NEW w \in Viewers
       PROVE  /\ \/ t.dial[v][w].req = s.dial[v][w].req /\ t.dial[v][w].out = s.dial[v][w].out
                 \/ t.dial[v][w].req = 0 /\ ~t.dial[v][w].out /\ s.dial[v][w].req \in t.closed
              /\ t.link[v][w] = s.link[v][w] \/ (t.link[v][w] = 0 /\ s.link[v][w] \in t.closed)
  <2>1. t.dial[v][w].req = 0 /\ t.dial[v][w].out = FALSE /\ t.link[v][w] = 0
    BY <1>4, <1>5, <1>10 DEF NoDial
  <2>2. s.dial[v][w].req \in t.closed \union {0} /\ s.link[v][w] \in t.closed \union {0}
    BY <1>3, <1>8
  <2>3. s.dial[v][w].req = 0 => s.dial[v][w].out = FALSE
    BY DEF Tidy, Dialling, MeshState, DialState
  <2> QED
    BY <2>1, <2>2, <2>3
<1>17. Idle(t.win[v])
  BY <1>8 DEF Tidy
<1>18. Less(s, t, v)
  BY <1>8, <1>9, <1>11, <1>13, <1>14, <1>15, <1>16, <1>17 DEF Less
<1> QED
  BY <1>18 DEF t

\* The host's answers do not matter any more to one that has stopped.
LEMMA CalledOffGood ==
    ASSUME NEW s, Good(s), NEW v \in Viewers
    PROVE  LET t == [s EXCEPT !.checks = {c \in s.checks : c.at # v}] IN Good(t) /\ Kept(s, t)
<1> DEFINE K == {c \in s.checks : c.at # v}
           t == [s EXCEPT !.checks = K]
<1>1. s \in MeshState /\ IsFiniteSet(s.checks) /\ s.checks \subseteq CheckState /\ s.dials \in Nat
      /\ MaxDials \in Nat /\ MaxDialsInFlight \in Nat
  BY MeshAssumption DEF Good, MeshState
<1>2. K \subseteq s.checks
  OBVIOUS
<1> HIDE DEF K
<1>3. K \in SUBSET CheckState /\ IsFiniteSet(K)
  BY <1>1, <1>2, FS_Subset
<1>4. \A c \in K : /\ c.kind = "offer" => Of(s, c.req, c.peer, c.at)
                   /\ c.kind = "answer" => Of(s, c.req, c.at, c.peer)
  BY <1>2 DEF Good, Named
<1>5. s.dials + Cardinality({c \in K : c.kind = "dial"}) <= MaxDials
  <2> DEFINE A == {c \in K : c.kind = "dial"}
  <2>1. IsFiniteSet(DialsOf(s)) /\ Cardinality(DialsOf(s)) \in Nat
        /\ s.dials + Cardinality(DialsOf(s)) <= MaxDials
    BY <1>1, Tallies DEF Good, Counted
  <2>2. A \subseteq DialsOf(s)
    BY <1>2 DEF DialsOf
  <2> HIDE DEF A
  <2>3. Cardinality(A) <= Cardinality(DialsOf(s)) /\ Cardinality(A) \in Nat
    BY <2>1, <2>2, FS_Subset, FS_CardinalityType
  <2>4. s.dials + Cardinality(A) <= MaxDials
    BY <1>1, <2>1, <2>3
  <2> QED
    BY <2>4 DEF A
<1>6. ASSUME NEW u \in Viewers
      PROVE  Outgoing(s, u) + Cardinality({c \in K : c.kind = "dial" /\ c.at = u}) <= MaxDialsInFlight
  <2> DEFINE A == {c \in K : c.kind = "dial" /\ c.at = u}
  <2>1. IsFiniteSet(DialChecks(s, u)) /\ Cardinality(DialChecks(s, u)) \in Nat /\ Outgoing(s, u) \in Nat
        /\ Outgoing(s, u) + Cardinality(DialChecks(s, u)) <= MaxDialsInFlight
    BY <1>1, Numbers DEF Good, Fits
  <2>2. A \subseteq DialChecks(s, u)
    BY <1>2 DEF DialChecks
  <2> HIDE DEF A
  <2>3. Cardinality(A) <= Cardinality(DialChecks(s, u)) /\ Cardinality(A) \in Nat
    BY <2>1, <2>2, FS_Subset, FS_CardinalityType
  <2>4. Outgoing(s, u) + Cardinality(A) <= MaxDialsInFlight
    BY <1>1, <2>1, <2>3
  <2> QED
    BY <2>4 DEF A
<1>7. Good(t) /\ t.dial = s.dial
  BY <1>3, <1>4, <1>5, <1>6, ChecksGood
<1> HIDE DEF t
<1>8. Kept(s, t)
  BY <1>7, SameKept
<1> QED
  BY <1>7, <1>8 DEF t, K

LEMMA StopSafe ==
    ASSUME IInv, NEW v \in Viewers, Stop(v)
    PROVE  Safe
<1> DEFINE s == EndWindow(mesh, v)
           a == Cleared(s, v)
           b == [a EXCEPT !.checks = {c \in a.checks : c.at # v}]
           t == [b EXCEPT !.stopped = b.stopped \union {v}]
           mine == {s.dial[v][w].req : w \in Viewers} \union {s.link[v][w] : w \in Viewers}
           x == [s EXCEPT !.stopped = s.stopped \union {v}, !.crowd[v] = 0,
                          !.dial[v] = [w \in Viewers |-> NoDial],
                          !.link[v] = [w \in Viewers |-> 0],
                          !.checks = {c \in s.checks : c.at # v},
                          !.closed = s.closed \union (mine \ {0})]
<1>1. Good(mesh) /\ BecomeAt(1, x)
  BY DEF IInv, Stop
<1>2. mesh \in MeshState /\ IsFiniteSet(mesh.checks) /\ Tidy(mesh)
  BY <1>1 DEF Good
<1>3. Less(mesh, s, v) /\ ~Reserved(s, v)
  BY <1>2, EndWindowLess
<1> HIDE DEF s
<1>4. Good(s) /\ Kept(mesh, s)
  BY <1>1, <1>3, LessKept
<1>5. s \in MeshState /\ IsFiniteSet(s.checks) /\ Tidy(s)
  BY <1>4 DEF Good
<1>6. Less(s, a, v)
  BY <1>3, <1>5, ClearedLess
<1>7. Good(a) /\ Kept(s, a)
  BY <1>4, <1>6, LessKept
<1>8. a.checks = s.checks /\ a.stopped = s.stopped
  BY <1>6 DEF Less
<1>9. x = t
  <2> DEFINE closed == s.closed \union (mine \ {0})
             D == [w \in Viewers |-> NoDial]
             L == [w \in Viewers |-> 0]
             K == {c \in s.checks : c.at # v}
  <2>1. a = [s EXCEPT !.crowd[v] = 0, !.dial[v] = D, !.link[v] = L, !.closed = closed]
    BY DEF Cleared
  <2>2. b = [a EXCEPT !.checks = K] /\ t = [b EXCEPT !.stopped = s.stopped \union {v}]
    BY <1>8
  <2>3. x = [s EXCEPT !.stopped = s.stopped \union {v}, !.crowd[v] = 0, !.dial[v] = D, !.link[v] = L,
                      !.checks = K, !.closed = closed]
    OBVIOUS
  <2> HIDE DEF closed, D, L, K, a, b, t, x
  <2> QED
    BY <1>5, <2>1, <2>2, <2>3 DEF MeshState
<1> HIDE DEF a, x
<1>10. Good(b) /\ Kept(a, b)
  BY <1>7, CalledOffGood
<1> HIDE DEF b
<1>11. Good(t) /\ Kept(b, t)
  <2>1. b \in MeshState
    BY <1>10 DEF Good
  <2>2. /\ t \in MeshState /\ t.dial = b.dial /\ t.checks = b.checks /\ t.link = b.link
        /\ t.crowd = b.crowd /\ t.win = b.win /\ t.dials = b.dials /\ t.opened = b.opened
        /\ t.closed = b.closed /\ t.req = b.req /\ t.signals = b.signals
    BY <2>1 DEF MeshState
  <2> HIDE DEF t
  <2>3. Used(t) = Used(b)
    BY <2>2 DEF Used
  <2>4. Alike(b, t)
    BY <1>10, <2>2, <2>3 DEF Alike, Good, Named
  <2> QED
    BY <1>10, <2>4, AlikeGood
<1> HIDE DEF t
<1>12. Once(mesh, t)
  BY <1>4, <1>7, <1>10, <1>11, KeptAgain, KeptOnce
<1> QED
  BY <1>1, <1>9, <1>11, <1>12, Ending

-----------------------------------------------------------------------------
(* The theorems.                                                            *)

\* Before anything happens there are links to the crowd only.
LEMMA InitGood == Init => IInv
<1> SUFFICES ASSUME Init PROVE IInv
  OBVIOUS
<1>1. PICK crowd \in [Viewers -> 0..MaxPeers] :
        mesh = [link |-> [v \in Viewers |-> [w \in Viewers |-> 0]], crowd |-> crowd,
                dial |-> [v \in Viewers |-> [w \in Viewers |-> NoDial]], checks |-> {},
                win |-> [v \in Viewers |-> NoWindow],
                dials |-> 0, req |-> [r \in Requests |-> NoRequest], signals |-> {}, taken |-> {},
                opened |-> {}, closed |-> {}, stopped |-> {}]
  BY DEF Init
<1>2. MaxPeers \in Nat /\ MaxDials \in Nat /\ MaxDialsInFlight \in Nat
  BY MeshAssumption
<1>3. NoDial \in DialState /\ NoDial.req = 0 /\ NoDial.out = FALSE
  BY DEF NoDial, DialState, Stages
<1>4. NoWindow \in WindowState /\ Idle(NoWindow) /\ NoWindow.phase = "none"
  BY DEF NoWindow, WindowState, Idle
<1>5. NoRequest \in RequestState
  BY DEF RequestState
<1>6. crowd \in [Viewers -> Nat] /\ \A v \in Viewers : crowd[v] <= MaxPeers
  BY <1>2
<1> HIDE DEF NoDial, NoWindow, NoRequest
<1>7. /\ mesh.checks = {} /\ mesh.signals = {} /\ mesh.opened = {} /\ mesh.dials = 0
      /\ mesh.crowd = crowd
      /\ \A v \in Viewers : mesh.win[v] = NoWindow
      /\ \A v, w \in Viewers : mesh.link[v][w] = 0 /\ mesh.dial[v][w] = NoDial
      /\ \A r \in Requests : mesh.req[r] = NoRequest
  BY <1>1
<1>8. mesh \in MeshState
  BY <1>1, <1>3, <1>4, <1>5, <1>6 DEF MeshState
<1>9. \A v, w \in Viewers : ~Linked(mesh, v, w) /\ ~Dialling(mesh, v, w) /\ ~mesh.dial[v][w].out
  BY <1>3, <1>7 DEF Linked, Dialling
<1>10. Tidy(mesh)
  BY <1>4, <1>7, <1>9 DEF Tidy
<1>11. Named(mesh)
  BY <1>7, <1>9 DEF Named
<1>12. Cardinality({}) = 0 /\ IsFiniteSet({})
  BY FS_EmptySet
<1>13. Counted(mesh)
  <2>1. Used(mesh) = {} /\ DialsOf(mesh) = {}
    BY <1>7 DEF Used, DialsOf
  <2> QED
    BY <1>2, <1>7, <1>12, <2>1 DEF Counted
<1>14. Paired(mesh)
  BY <1>7, <1>9 DEF Paired
<1>15. ASSUME NEW v \in Viewers PROVE Fits(mesh, v)
  <2> DEFINE A == {w \in Viewers : Linked(mesh, v, w)}
             B == {w \in Viewers : Dialling(mesh, v, w)}
             C == {w \in Viewers : mesh.dial[v][w].out}
  <2>1. A = {} /\ B = {} /\ C = {} /\ DialChecks(mesh, v) = {}
    BY <1>7, <1>9 DEF DialChecks
  <2>2. /\ InUse(mesh, v) = mesh.crowd[v] + Cardinality(A) + Cardinality(B)
        /\ Outgoing(mesh, v) = Cardinality(C)
    BY DEF InUse, LinkCount, Outgoing
  <2> HIDE DEF A, B, C
  <2>3. /\ Cardinality(A) = 0 /\ Cardinality(B) = 0 /\ Cardinality(C) = 0
        /\ Cardinality(DialChecks(mesh, v)) = 0
    BY <1>12, <2>1
  <2>4. InUse(mesh, v) <= MaxPeers /\ Outgoing(mesh, v) = 0 /\ InUse(mesh, v) \in Nat
    BY <1>6, <1>7, <2>2, <2>3
  <2>5. ~Reserved(mesh, v)
    BY <1>4, <1>7 DEF Reserved
  <2>6. Usage(mesh, v) <= MaxPeers
    BY <2>4, <2>5 DEF Usage
  <2> QED
    BY <1>2, <2>3, <2>4, <2>6 DEF Fits
<1>16. Good(mesh)
  BY <1>7, <1>8, <1>10, <1>11, <1>12, <1>13, <1>14, <1>15 DEF Good
<1>17. faults \in Nat
  BY DEF Init
<1> QED
  BY <1>16, <1>17 DEF IInv

\* Every step keeps the invariant and answers no offer again.
LEMMA NextSafe == IInv /\ Next => Safe
<1> SUFFICES ASSUME IInv, Next PROVE Safe
  OBVIOUS
<1>1. ASSUME NEW v \in Viewers, NEW w \in Viewers,
             \/ Dial(v, w) \/ Seek(v, w) \/ OfferReady(v, w) \/ AnswerReady(v, w)
             \/ AnswerInstalled(v, w) \/ LinkOpens(v, w) \/ LinkCloses(v, w) \/ DialFails(v, w)
      PROVE  Safe
  BY <1>1, DialSafe, SeekSafe, OfferReadySafe, AnswerReadySafe, AnswerInstalledSafe, LinkOpensSafe,
     LinkClosesSafe, DialFailsSafe
<1>2. ASSUME NEW c \in mesh.checks, NEW ok \in BOOLEAN, NEW also \in BOOLEAN,
             DialAdmitted(c, ok, also) \/ OfferAdmitted(c, ok, also) \/ (also /\ AnswerAdmitted(c, ok))
      PROVE  Safe
  BY <1>2, DialAdmittedSafe, OfferAdmittedSafe, AnswerAdmittedSafe
<1>3. ASSUME NEW r \in Requests,
             OfferArrives(r) \/ AnswerArrives(r) \/ RejectArrives(r) \/ ChannelOpens(r)
      PROVE  Safe
  BY <1>3, OfferArrivesSafe, AnswerArrivesSafe, RejectArrivesSafe, ChannelOpensSafe
<1>4. ASSUME NEW v \in Viewers,
             Lapses(v) \/ WindowEnds(v) \/ CrowdCloses(v) \/ CrowdJoins(v) \/ Stop(v)
      PROVE  Safe
  BY <1>4, LapsesSafe, WindowEndsSafe, CrowdClosesSafe, CrowdJoinsSafe, StopSafe
<1> QED
  BY <1>1, <1>2, <1>3, <1>4 DEF Next

\* The invariant holds of every reachable state.
LEMMA Invariance == Spec => []IInv
<1>1. IInv /\ [Next]_vars => IInv'
  <2>1. IInv /\ UNCHANGED vars => IInv'
    BY DEF vars, IInv
  <2>2. IInv /\ Next => IInv'
    BY NextSafe DEF Safe
  <2> QED
    BY <2>1, <2>2
<1> QED
  BY InitGood, <1>1, PTL DEF Spec

\* No viewer has more links, dials and kept slots than maxPeers, or more
\* dials of its own than maxDialsInFlight: whatever offers, referrals and
\* replacements are admitted while others wait (#hasPeerCapacity, and the
\* second look after every admitPeer).
THEOREM SlotsAlwaysKept == Spec => []SlotsKept
<1>1. IInv => SlotsKept
  BY DEF IInv, Good, Fits, Usage, SlotsKept
<1> QED
  BY Invariance, <1>1, PTL

\* Both ends of a link mean one channel, until one of them closes it:
\* crossed offers, rotation and late timers retire the connection they drop.
THEOREM LinksAlwaysAgree == Spec => []LinksAgree
<1>1. IInv => LinksAgree
  <2> SUFFICES ASSUME IInv, NEW v \in Viewers, NEW w \in Viewers,
                      mesh.link[v][w] \in Requests \ mesh.closed
               PROVE  mesh.link[v][w] \in {mesh.link[w][v], mesh.dial[w][v].req}
    BY DEF LinksAgree
  <2>1. Linked(mesh, v, w)
    BY DEF Linked, Requests
  <2>2. Paired(mesh)
    BY DEF IInv, Good
  <2> QED
    BY <2>1, <2>2 DEF Paired, Ends
<1> QED
  BY Invariance, <1>1, PTL

\* An offer that was answered or rejected once is never answered again,
\* however often relays repeat it and hosts admit its copies
\* (receivedOffers, looked at again after admitPeer).
THEOREM OffersAnsweredOnce == Spec => AnsweredOnce
<1> DEFINE Step == \A v, w \in Viewers :
                     LET d == mesh.dial[v][w]
                         e == mesh'.dial[v][w]
                     IN  e.req # d.req /\ e.req # 0 /\ ~e.out => e.req \notin mesh.taken
<1>1. IInv /\ Next => Step
  BY NextSafe DEF Safe, Once
<1>2. IInv /\ [Next]_vars => [Step]_vars
  BY <1>1
<1>3. []IInv /\ [][Next]_vars => [][Step]_vars
  BY <1>2, PTL
<1> QED
  BY Invariance, <1>3, PTL DEF Spec, AnsweredOnce
=============================================================================
