---------------------------- MODULE LoaderProofs ----------------------------
(***************************************************************************)
(* The player's loaders, for all values of the constants of Loader: what a *)
(* load takes is given back, a load always has somebody to end it, and     *)
(* each load is answered once (the refinement of LoadContract).            *)
(***************************************************************************)
EXTENDS Loader, FiniteSetTheorems, WellFoundedInduction, TLAPS

Fields == {"ld", "jobs", "use", "races", "ranges", "fetches", "asked"}
LoaderFields == {"plan", "tok", "due", "fired", "claim", "source", "claimed", "watch"}
JobFields == {"id", "kind", "run", "multi", "aborted"}
Ident == [l : Loaders, tok : Nat]
Fates == {"unasked", "open", "answered", "dropped"}
Answers == {"answered", "dropped"}

\* What transfers have taken for the loads they belong to.
Taken(s) == s.ranges \union ({s.use[k] : k \in Links} \ {NoId})

Typed(s) ==
    /\ DOMAIN s = Fields
    /\ DOMAIN s.ld = Loaders
    /\ \A l \in Loaders : DOMAIN s.ld[l] = LoaderFields /\ s.ld[l].tok \in Nat
    /\ IsFiniteSet(s.jobs)
    /\ \A j \in s.jobs : DOMAIN j = JobFields /\ j.id \in Ident
    /\ DOMAIN s.use = Links
    /\ IsFiniteSet(s.ranges)
    /\ Taken(s) \subseteq Ident /\ s.races \subseteq Ident
    /\ s.fetches \in Nat
    /\ s.asked \in [Loaders -> [1 .. MaxLoads -> Fates]]

\* Loads are asked for one after another, and only the last can be open.
InTurn(a, open) ==
    \E m \in 0 .. MaxLoads :
        /\ \A n \in 1 .. MaxLoads : a[n] = "unasked" <=> n > m
        /\ \A n \in 1 .. MaxLoads : n < m => a[n] \in Answers
        /\ m > 0 => IF open THEN a[m] = "open" ELSE a[m] \in Answers
        /\ open => m > 0

\* The plans that wait for peers, and those that the player's own loader runs for.
Waiting == {"peer", "steady", "mixed"}
Sourced == {"whole", "mixedWhole", "direct", "cached", "handed", "late"}
Peers(j) == j.kind \in {"peer", "wait"}

LoaderOrderly(s, l) ==
    /\ s.ld[l].plan \in Plan
    /\ s.ld[l].tok = 0 <=> s.ld[l].plan = "idle"
    /\ s.ld[l].source <=> s.ld[l].plan \in Sourced
    /\ s.ld[l].claim => s.ld[l].source
    /\ s.ld[l].watch \in {"dormant", "armed"} => s.ld[l].plan = "late"

JobOrderly(s, j) ==
    /\ j.id.tok # 0
    /\ j.kind \in {"peer", "wait", "key"}
    /\ j.run => j.kind = "peer" /\ ~ j.aborted
    /\ Peers(j) /\ ~ j.aborted => j.id = Id(s, j.id.l)
    /\ j.kind = "key" => j = Job(j.id, "key")
    /\ j.kind = "key" /\ j.id = Id(s, j.id.l) => s.ld[j.id.l].source /\ ~ s.ld[j.id.l].claim

\* What a load's unsettled work and what it holds say of the load.
WorkKept(s, l) ==
    /\ \A j \in s.jobs : j.id.l = l => JobOrderly(s, j)
    /\ \A i, j \in s.jobs : i.id = j.id /\ i.id.l = l /\ Peers(i) /\ Peers(j) => i = j
    /\ \A id \in Taken(s) : id.l = l => id = Id(s, l)
    /\ \A id \in s.races : id.l = l => id = Id(s, l)

Orderly(s, l) ==
    /\ LoaderOrderly(s, l)
    /\ WorkKept(s, l)
    /\ Open(s, l) \/ Id(s, l) \notin Taken(s)
    /\ Id(s, l) \in s.races => Races(s, l)

Sound(s) == Typed(s) /\ \A l \in Loaders : Orderly(s, l)
History(s) == \A l \in Loaders : InTurn(s.asked[l], Open(s, l))

\* The claims counted are those of ranges and of loads.
Claims(s) == {l \in Loaders : s.ld[l].claim}
Counted(s) == s.fetches = Cardinality(s.ranges) + Cardinality(Claims(s))

\* There is still the work that a load waits for or that holds something.
Backed(s, l) ==
    /\ s.ld[l].plan \in Waiting => \E j \in s.jobs : j.id = Id(s, l) /\ Peers(j)
    /\ Id(s, l) \in s.races => \E j \in s.jobs : j.id = Id(s, l) /\ j.kind = "peer"
    /\ Id(s, l) \in Taken(s) => \E j \in s.jobs : j.id = Id(s, l) /\ j.run


-----------------------------------------------------------------------------
(* What a step changes outside the loaders it is about: nothing, except     *)
(* that links are given back.                                               *)
Others(s, t, L) ==
    /\ \A l \in Loaders \ L : t.ld[l] = s.ld[l] /\ t.asked[l] = s.asked[l]
    /\ \A j \in s.jobs \union t.jobs : j.id.l \notin L => (j \in s.jobs <=> j \in t.jobs)
    /\ \A id \in Taken(t) : id.l \notin L => id \in Taken(s)
    /\ \A id \in t.races : id.l \notin L => id \in s.races

LEMMA OthersOrderly ==
    ASSUME NEW s, NEW t, NEW L, Others(s, t, L), NEW l \in Loaders \ L, Orderly(s, l)
    PROVE  Orderly(t, l)
<1>1. t.ld[l] = s.ld[l] /\ Id(t, l) = Id(s, l) /\ Open(t, l) = Open(s, l) /\ Races(t, l) = Races(s, l)
  BY DEF Others, Id, Open, Races
<1>2. LoaderOrderly(t, l)
  BY <1>1 DEF LoaderOrderly, Orderly
<1>3. \A j \in t.jobs : j.id.l = l => j \in s.jobs
  BY DEF Others
<1>4. WorkKept(t, l)
  <2>1. ASSUME NEW j \in t.jobs, j.id.l = l PROVE JobOrderly(t, j)
    BY <1>1, <1>3, <2>1 DEF Orderly, WorkKept, JobOrderly
  <2>2. \A i, j \in t.jobs : i.id = j.id /\ i.id.l = l /\ Peers(i) /\ Peers(j) => i = j
    BY <1>3 DEF Orderly, WorkKept
  <2>3. \A id \in Taken(t) : id.l = l => id = Id(t, l)
    BY <1>1 DEF Orderly, WorkKept, Others
  <2>4. \A id \in t.races : id.l = l => id = Id(t, l)
    BY <1>1 DEF Orderly, WorkKept, Others
  <2> QED
    BY <2>1, <2>2, <2>3, <2>4 DEF WorkKept
<1>5. Id(t, l).l = l
  BY DEF Id
<1>6. Open(t, l) \/ Id(t, l) \notin Taken(t)
  BY <1>1, <1>5 DEF Orderly, Others
<1>7. Id(t, l) \in t.races => Races(t, l)
  BY <1>1, <1>5 DEF Orderly, Others
<1> QED
  BY <1>2, <1>4, <1>6, <1>7 DEF Orderly

LEMMA OthersBacked ==
    ASSUME NEW s, NEW t, NEW L, Others(s, t, L), NEW l \in Loaders \ L, Backed(s, l)
    PROVE  Backed(t, l)
<1>1. t.ld[l] = s.ld[l] /\ Id(t, l) = Id(s, l) /\ Id(t, l).l = l
  BY DEF Others, Id
<1>2. \A j \in s.jobs : j.id = Id(s, l) => j \in t.jobs
  BY <1>1 DEF Others
<1>3. (Id(t, l) \in t.races => Id(s, l) \in s.races) /\ (Id(t, l) \in Taken(t) => Id(s, l) \in Taken(s))
  BY <1>1 DEF Others
<1> QED
  BY <1>1, <1>2, <1>3 DEF Backed

LEMMA OthersTransitive ==
    ASSUME NEW s, NEW t, NEW u, NEW L, Others(s, t, L), Others(t, u, L)
    PROVE  Others(s, u, L)
  BY DEF Others

\* What is done for the loads of L: the types stay, the count of claims
\* stays right, and the others' loads are as they were.
Touches(s, t, L) == Typed(t) /\ Others(s, t, L) /\ (Counted(s) => Counted(t))

LEMMA TouchesTransitive ==
    ASSUME NEW s, NEW t, NEW u, NEW L, Touches(s, t, L), Touches(t, u, L)
    PROVE  Touches(s, u, L)
  BY OthersTransitive DEF Touches

LEMMA TouchesSound ==
    ASSUME NEW s, NEW t, NEW L, Sound(s), Touches(s, t, L), \A l \in L : Orderly(t, l)
    PROVE  Sound(t)
  BY OthersOrderly DEF Touches, Sound

-----------------------------------------------------------------------------
(* Claims that are given back.                                              *)
Level(s, n) == s.fetches = Cardinality(s.ranges) + n

LEMMA UnclaimedLess ==
    ASSUME NEW s, DOMAIN s = Fields, s.fetches \in Nat, NEW n \in Nat
    PROVE  LET t == Unclaimed(s, n)
           IN  /\ DOMAIN t = Fields /\ t.ld = s.ld /\ t.jobs = s.jobs /\ t.use = s.use
               /\ t.races = s.races /\ t.ranges = s.ranges /\ t.asked = s.asked
               /\ t.fetches \in Nat
               /\ \A m \in Nat : s.fetches = m + n => t.fetches = m
  BY DEF Unclaimed, Fields

LEMMA TransfersEnded ==
    ASSUME NEW s, Typed(s), NEW ids
    PROVE  LET t == EndTransfers(s, ids)
           IN  /\ Typed(t)
               /\ t.ld = s.ld /\ t.jobs = s.jobs /\ t.races = s.races /\ t.asked = s.asked
               /\ Taken(t) = Taken(s) \ ids
               /\ \A n \in Nat : Level(s, n) => Level(t, n)
<1> DEFINE n == Cardinality(s.ranges \intersect ids)
           t == EndTransfers(s, ids)
           r == Unclaimed(s, n)
<1>1. IsFiniteSet(s.ranges) /\ IsFiniteSet(s.ranges \ ids) /\ IsFiniteSet(s.ranges \intersect ids)
  BY FS_Difference, FS_Intersection DEF Typed
<1>2. /\ n \in Nat /\ Cardinality(s.ranges) \in Nat /\ Cardinality(s.ranges \ ids) \in Nat
      /\ Cardinality(s.ranges \ ids) = Cardinality(s.ranges) - n
  BY <1>1, FS_Difference, FS_CardinalityType
<1>4. t = [r EXCEPT !.ranges = @ \ ids, !.use = [k \in Links |-> IF @[k] \in ids THEN NoId ELSE @[k]]]
  BY DEF EndTransfers
<1> HIDE DEF n, t
<1>3. /\ DOMAIN r = Fields /\ r.ld = s.ld /\ r.jobs = s.jobs /\ r.use = s.use
      /\ r.races = s.races /\ r.ranges = s.ranges /\ r.asked = s.asked
      /\ r.fetches \in Nat
      /\ \A m \in Nat : s.fetches = m + n => r.fetches = m
  <2>1. DOMAIN s = Fields /\ s.fetches \in Nat /\ n \in Nat
    BY <1>2 DEF Typed
  <2> QED
    BY <2>1, UnclaimedLess
<1> HIDE DEF r
<1>5. /\ DOMAIN t = Fields /\ t.ld = s.ld /\ t.jobs = s.jobs /\ t.races = s.races /\ t.asked = s.asked
      /\ t.fetches = r.fetches /\ t.ranges = s.ranges \ ids
      /\ t.use = [k \in Links |-> IF s.use[k] \in ids THEN NoId ELSE s.use[k]]
  BY <1>3, <1>4 DEF Fields
<1>6. Taken(t) = Taken(s) \ ids
  BY <1>5 DEF Taken
<1>7. Typed(t)
  BY <1>1, <1>3, <1>5, <1>6 DEF Typed
<1>8. ASSUME NEW m \in Nat, Level(s, m) PROVE Level(t, m)
  <2>1. Cardinality(s.ranges \ ids) + m \in Nat /\ s.fetches = (Cardinality(s.ranges \ ids) + m) + n
    BY <1>2, <1>8 DEF Level
  <2> QED
    BY <1>3, <1>5, <2>1 DEF Level
<1> QED
  BY <1>5, <1>6, <1>7, <1>8 DEF t

LEMMA CountedLevel ==
    ASSUME NEW s
    PROVE  /\ IsFiniteSet(Claims(s)) /\ Cardinality(Claims(s)) \in Nat
           /\ Counted(s) <=> Level(s, Cardinality(Claims(s)))
  BY LoaderAssumption, FS_Subset, FS_CardinalityType DEF Claims, Counted, Level

-----------------------------------------------------------------------------
(* Ends of work.                                                            *)
LEMMA MappedFinite ==
    ASSUME NEW S, IsFiniteSet(S), NEW f, DOMAIN f = S, f = [x \in S |-> f[x]]
    PROVE  IsFiniteSet({f[x] : x \in S})
<1>1. f \in Surjection(S, {f[x] : x \in S})
  BY DEF Surjection
<1> QED
  BY <1>1, FS_Surjection

LEMMA AbortedJob ==
    ASSUME NEW j, DOMAIN j = JobFields
    PROVE  /\ DOMAIN Aborted(j) = JobFields /\ Aborted(j).id = j.id /\ Aborted(j).kind = j.kind
           /\ Aborted(j).aborted /\ ~ Aborted(j).run
  BY DEF Aborted, JobFields

Ids(s, L) == {Id(s, l) : l \in L}

\* No work for the load goes on, and it has taken nothing.
Still(s, l) ==
    /\ \A j \in s.jobs : j.id.l = l /\ Peers(j) => j.aborted
    /\ \A id \in Taken(s) : id.l # l

\* The jobs that are left are those there were, with what was ended marked.
Marks(s, t, ids) ==
    /\ \A j \in t.jobs : \/ j \in s.jobs /\ ~ (j.id \in ids /\ Peers(j))
                         \/ \E i \in s.jobs : i.id \in ids /\ Peers(i) /\ j = Aborted(i)
    /\ \A i \in s.jobs : \/ i \in t.jobs
                         \/ i.id \in ids /\ Peers(i) /\ Aborted(i) \in t.jobs

LEMMA PeersAborted ==
    ASSUME NEW s, Typed(s), NEW L \in SUBSET Loaders
    PROVE  LET t == AbortPeers(s, L)
           IN  /\ Typed(t)
               /\ t.ld = s.ld /\ t.races = s.races /\ t.asked = s.asked
               /\ Taken(t) = Taken(s) \ Ids(s, L)
               /\ Marks(s, t, Ids(s, L))
               /\ \A n \in Nat : Level(s, n) => Level(t, n)
<1> DEFINE ids == Ids(s, L)
           J == {j \in s.jobs : j.id \in ids /\ j.kind \in {"peer", "wait"}}
           A == {Aborted(j) : j \in J}
           r == EndTransfers(s, ids)
           t == AbortPeers(s, L)
<1>1. /\ Typed(r) /\ r.ld = s.ld /\ r.jobs = s.jobs /\ r.races = s.races /\ r.asked = s.asked
      /\ Taken(r) = Taken(s) \ ids
      /\ \A n \in Nat : Level(s, n) => Level(r, n)
  BY TransfersEnded
<1>2. t = [r EXCEPT !.jobs = (@ \ J) \union A]
  BY DEF AbortPeers, Ids
<1>3. IsFiniteSet((s.jobs \ J) \union A)
  <2>1. IsFiniteSet(s.jobs \ J) /\ IsFiniteSet(J)
    BY FS_Difference, FS_Subset DEF Typed
  <2> DEFINE f == [j \in J |-> Aborted(j)]
  <2>2. A = {f[j] : j \in J}
    OBVIOUS
  <2> HIDE DEF J, A
  <2>3. IsFiniteSet({f[j] : j \in J})
    <3>1. DOMAIN f = J /\ f = [j \in J |-> f[j]]
      OBVIOUS
    <3> HIDE DEF f
    <3> QED
      BY <2>1, <3>1, MappedFinite
  <2> QED
    BY <2>1, <2>2, <2>3, FS_Union
<1>4. \A j \in (s.jobs \ J) \union A : DOMAIN j = JobFields /\ j.id \in Ident
  BY AbortedJob DEF Typed
<1>5. /\ DOMAIN t = Fields /\ t.ld = s.ld /\ t.use = r.use /\ t.races = s.races
      /\ t.ranges = r.ranges /\ t.fetches = r.fetches /\ t.asked = s.asked
      /\ t.jobs = (s.jobs \ J) \union A
  BY <1>1, <1>2 DEF Typed, Fields
<1> HIDE DEF t, r
<1>6. Taken(t) = Taken(r)
  BY <1>5 DEF Taken
<1>7. Typed(t)
  BY <1>1, <1>3, <1>4, <1>5, <1>6 DEF Typed
<1>8. Marks(s, t, ids)
  BY <1>5 DEF Marks, Peers
<1>9. \A n \in Nat : Level(s, n) => Level(t, n)
  BY <1>1, <1>5 DEF Level
<1> QED
  BY <1>1, <1>5, <1>6, <1>7, <1>8, <1>9 DEF t

\* What the marks leave of a load whose work has ended.
LEMMA MarkedStill ==
    ASSUME NEW s, NEW t, NEW L \in SUBSET Loaders, Typed(s), Marks(s, t, Ids(s, L)),
           Taken(t) = Taken(s) \ Ids(s, L), t.races \subseteq s.races,
           NEW l \in L, WorkKept(s, l), Id(t, l) = Id(s, l),
           t.ld[l].source = s.ld[l].source, t.ld[l].claim = s.ld[l].claim
    PROVE  WorkKept(t, l) /\ Still(t, l)
<1>1. Id(s, l) \in Ids(s, L) /\ \A id \in Ids(s, L) : id.l = l => id = Id(s, l)
  BY DEF Ids, Id
<1>2. ASSUME NEW j \in t.jobs, j.id.l = l
      PROVE  JobOrderly(t, j) /\ (Peers(j) => j.aborted)
  <2>1. CASE j \in s.jobs /\ ~ (j.id \in Ids(s, L) /\ Peers(j))
    BY <1>1, <1>2, <2>1 DEF WorkKept, JobOrderly
  <2>2. ASSUME NEW i \in s.jobs, i.id \in Ids(s, L), Peers(i), j = Aborted(i)
        PROVE  JobOrderly(t, j) /\ (Peers(j) => j.aborted)
    <3>1. j.id = i.id /\ j.kind = i.kind /\ j.aborted /\ ~ j.run
      BY <2>2, AbortedJob DEF Typed
    <3>2. JobOrderly(s, i)
      BY <1>2, <3>1 DEF WorkKept
    <3> QED
      BY <2>2, <3>1, <3>2 DEF JobOrderly, Peers
  <2> QED
    BY <2>1, <2>2 DEF Marks
<1>3. ASSUME NEW i \in t.jobs, NEW j \in t.jobs, i.id = j.id, i.id.l = l, Peers(i), Peers(j) PROVE i = j
  <2>1. \A k \in t.jobs : k.id.l = l /\ Peers(k) =>
           \E h \in s.jobs : h.id = k.id /\ Peers(h)
                /\ (k = IF h.id \in Ids(s, L) THEN Aborted(h) ELSE h)
    <3> SUFFICES ASSUME NEW k \in t.jobs, k.id.l = l, Peers(k)
                 PROVE  \E h \in s.jobs : h.id = k.id /\ Peers(h)
                             /\ (k = IF h.id \in Ids(s, L) THEN Aborted(h) ELSE h)
      OBVIOUS
    <3>1. CASE k \in s.jobs /\ ~ (k.id \in Ids(s, L) /\ Peers(k))
      BY <3>1
    <3>2. ASSUME NEW h \in s.jobs, h.id \in Ids(s, L), Peers(h), k = Aborted(h)
          PROVE  \E g \in s.jobs : g.id = k.id /\ Peers(g)
                             /\ (k = IF g.id \in Ids(s, L) THEN Aborted(g) ELSE g)
      BY <3>2, AbortedJob DEF Typed
    <3> QED
      BY <3>1, <3>2 DEF Marks
  <2>2. PICK g \in s.jobs : g.id = i.id /\ Peers(g) /\ (i = IF g.id \in Ids(s, L) THEN Aborted(g) ELSE g)
    BY <1>3, <2>1
  <2>3. PICK h \in s.jobs : h.id = j.id /\ Peers(h) /\ (j = IF h.id \in Ids(s, L) THEN Aborted(h) ELSE h)
    BY <1>3, <2>1
  <2>4. g = h
    BY <1>3, <2>2, <2>3 DEF WorkKept
  <2> QED
    BY <2>2, <2>3, <2>4
<1>4. \A id \in Taken(t) : id.l # l
  BY <1>1 DEF WorkKept
<1>5. \A id \in t.races : id.l = l => id = Id(t, l)
  BY DEF WorkKept
<1> QED
  BY <1>2, <1>3, <1>4, <1>5 DEF WorkKept, Still

\* What they leave of the work that backs a load.
LEMMA MarkedBacked ==
    ASSUME NEW s, NEW t, NEW ids, Typed(s), Marks(s, t, ids), NEW id
    PROVE  /\ (\E j \in s.jobs : j.id = id /\ Peers(j)) => \E j \in t.jobs : j.id = id /\ Peers(j)
           /\ (\E j \in s.jobs : j.id = id /\ j.kind = "peer") =>
                \E j \in t.jobs : j.id = id /\ j.kind = "peer"
<1>1. ASSUME NEW i \in s.jobs PROVE \E j \in t.jobs : j.id = i.id /\ j.kind = i.kind
  BY <1>1, AbortedJob DEF Marks, Typed
<1> QED
  BY <1>1 DEF Peers

LEMMA MarkedOthers ==
    ASSUME NEW s, NEW t, NEW L \in SUBSET Loaders, Typed(s), Marks(s, t, Ids(s, L)),
           Taken(t) \subseteq Taken(s), t.races \subseteq s.races,
           \A l \in Loaders \ L : t.ld[l] = s.ld[l] /\ t.asked[l] = s.asked[l]
    PROVE  Others(s, t, L)
<1>1. \A id \in Ids(s, L) : id.l \in L
  BY DEF Ids, Id
<1>2. ASSUME NEW j \in s.jobs \union t.jobs, j.id.l \notin L PROVE j \in s.jobs <=> j \in t.jobs
  <2>1. \A i \in s.jobs : i.id \in Ids(s, L) => Aborted(i).id.l \in L
    BY <1>1, AbortedJob DEF Typed
  <2> QED
    BY <1>1, <1>2, <2>1 DEF Marks
<1> QED
  BY <1>2 DEF Others

Without(o) == [o EXCEPT !.watch = None]

LEMMA PeersStopped ==
    ASSUME NEW s, Typed(s), NEW L \in SUBSET Loaders
    PROVE  LET t == StopPeers(s, L)
           IN  /\ Typed(t)
               /\ t.ld = [l \in Loaders |-> IF l \in L THEN Without(s.ld[l]) ELSE s.ld[l]]
               /\ t.races = s.races \ Ids(s, L) /\ t.asked = s.asked
               /\ Taken(t) = Taken(s) \ Ids(s, L)
               /\ Marks(s, t, Ids(s, L))
               /\ \A n \in Nat : Level(s, n) => Level(t, n)
<1> DEFINE r == AbortPeers(s, L)
           t == StopPeers(s, L)
<1>1. /\ Typed(r) /\ r.ld = s.ld /\ r.races = s.races /\ r.asked = s.asked
      /\ Taken(r) = Taken(s) \ Ids(s, L) /\ Marks(s, r, Ids(s, L))
      /\ \A n \in Nat : Level(s, n) => Level(r, n)
  BY PeersAborted
<1>2. t = [r EXCEPT !.races = @ \ Ids(s, L),
                    !.ld = [l \in Loaders |-> IF l \in L THEN Without(s.ld[l]) ELSE s.ld[l]]]
  BY DEF StopPeers, Ids, Without
<1> HIDE DEF r, t
<1>3. /\ DOMAIN t = Fields /\ t.use = r.use /\ t.jobs = r.jobs /\ t.ranges = r.ranges
      /\ t.fetches = r.fetches /\ t.asked = s.asked /\ t.races = s.races \ Ids(s, L)
      /\ t.ld = [l \in Loaders |-> IF l \in L THEN Without(s.ld[l]) ELSE s.ld[l]]
  BY <1>1, <1>2 DEF Typed, Fields
<1>4. Taken(t) = Taken(r) /\ Marks(s, t, Ids(s, L)) /\ \A n \in Nat : Level(s, n) => Level(t, n)
  BY <1>1, <1>3 DEF Taken, Marks, Level
<1>5. \A l \in Loaders : DOMAIN t.ld[l] = LoaderFields /\ t.ld[l].tok \in Nat
  BY <1>3 DEF Typed, Without, LoaderFields
<1>6. Typed(t)
  BY <1>1, <1>3, <1>4, <1>5 DEF Typed
<1> QED
  BY <1>1, <1>3, <1>4, <1>6 DEF t

\* A load that has no work and holds nothing can be given another token.
Vacant(s, l) == /\ Still(s, l)
                /\ \A id \in s.races : id.l # l

LEMMA VacantKept ==
    ASSUME NEW s, NEW t, NEW l, WorkKept(s, l), Vacant(s, l),
           t.jobs = s.jobs, Taken(t) = Taken(s), t.races = s.races,
           \A j \in s.jobs : j.id # Id(t, l)
    PROVE  WorkKept(t, l) /\ Vacant(t, l)
<1>1. \A j \in t.jobs : j.id.l = l => JobOrderly(t, j)
  BY DEF WorkKept, JobOrderly, Vacant, Still
<1> QED
  BY <1>1 DEF WorkKept, Vacant, Still

LEMMA ClaimsReleased ==
    ASSUME NEW s, NEW t, NEW L \in SUBSET Loaders, t.ranges = s.ranges,
           t.fetches = Unclaimed(s, Cardinality({l \in L : s.ld[l].claim})).fetches,
           DOMAIN s = Fields, s.fetches \in Nat, IsFiniteSet(s.ranges), Counted(s)
    PROVE  Level(t, Cardinality(Claims(s) \ L))
<1> DEFINE n == Cardinality({l \in L : s.ld[l].claim})
<1>1. Claims(s) \intersect L = {l \in L : s.ld[l].claim}
  BY DEF Claims
<1>2. /\ IsFiniteSet(Claims(s)) /\ Cardinality(Claims(s)) \in Nat
      /\ n \in Nat /\ Cardinality(Claims(s) \ L) = Cardinality(Claims(s)) - n
      /\ Cardinality(Claims(s) \ L) \in Nat /\ Cardinality(s.ranges) \in Nat
  BY <1>1, CountedLevel, FS_Difference, FS_Intersection, FS_CardinalityType
<1>3. \A m \in Nat : s.fetches = m + n => Unclaimed(s, n).fetches = m
  BY <1>2, UnclaimedLess
<1> HIDE DEF n
<1>4. /\ Cardinality(s.ranges) + Cardinality(Claims(s) \ L) \in Nat
      /\ s.fetches = (Cardinality(s.ranges) + Cardinality(Claims(s) \ L)) + n
  BY <1>2 DEF Counted
<1>5. t.fetches = Cardinality(s.ranges) + Cardinality(Claims(s) \ L)
  BY <1>3, <1>4 DEF n
<1> QED
  BY <1>5 DEF Level

\* A load that has ended: nothing of it is left but promises it has forgotten.
LEMMA LoadsEnded ==
    ASSUME NEW s, Typed(s), NEW L \in SUBSET Loaders, \A l \in L : WorkKept(s, l)
    PROVE  LET t == EndLoad(s, L)
           IN  /\ Touches(s, t, L) /\ t.asked = s.asked
               /\ \A l \in L : /\ t.ld[l] = NewLoader /\ Orderly(t, l) /\ Backed(t, l)
                               /\ Vacant(t, l)
<1> DEFINE n == Cardinality({l \in L : s.ld[l].claim})
           r == ReleaseFetch(s, L)
           u == StopPeers(r, L)
           t == EndLoad(s, L)
<1>1. n \in Nat
  <2>1. IsFiniteSet({l \in L : s.ld[l].claim})
    BY LoaderAssumption, FS_Subset
  <2> QED
    BY <2>1, FS_CardinalityType
<1>2. /\ DOMAIN r = Fields /\ r.ld = s.ld /\ r.jobs = s.jobs /\ r.use = s.use
      /\ r.races = s.races /\ r.ranges = s.ranges /\ r.asked = s.asked
      /\ r.fetches \in Nat /\ r.fetches = Unclaimed(s, n).fetches
  <2>1. DOMAIN s = Fields /\ s.fetches \in Nat /\ n \in Nat
    BY <1>1 DEF Typed
  <2>2. r = Unclaimed(s, n)
    BY DEF ReleaseFetch
  <2> HIDE DEF n, r
  <2> QED
    BY <2>1, <2>2, UnclaimedLess
<1>3. t = [u EXCEPT !.ld = [l \in Loaders |-> IF l \in L THEN NewLoader ELSE s.ld[l]]]
  BY DEF EndLoad
<1> HIDE DEF r, t
<1>4. Typed(r) /\ Taken(r) = Taken(s) /\ Ids(r, L) = Ids(s, L)
  BY <1>2 DEF Typed, Taken, Ids, Id
<1>5. /\ Typed(u)
      /\ u.ld = [l \in Loaders |-> IF l \in L THEN Without(r.ld[l]) ELSE r.ld[l]]
      /\ u.races = s.races \ Ids(s, L) /\ u.asked = s.asked
      /\ Taken(u) = Taken(s) \ Ids(s, L)
      /\ Marks(r, u, Ids(r, L))
      /\ \A m \in Nat : Level(r, m) => Level(u, m)
  BY <1>2, <1>4, PeersStopped
<1> HIDE DEF u
<1>6. /\ DOMAIN t = Fields /\ t.jobs = u.jobs /\ t.use = u.use /\ t.races = u.races
      /\ t.ranges = u.ranges /\ t.fetches = u.fetches /\ t.asked = s.asked
      /\ t.ld = [l \in Loaders |-> IF l \in L THEN NewLoader ELSE s.ld[l]]
  BY <1>3, <1>5 DEF Typed, Fields
<1>7. Taken(t) = Taken(u)
  BY <1>6 DEF Taken
<1>8. Typed(t)
  <2>1. \A l \in Loaders : DOMAIN t.ld[l] = LoaderFields /\ t.ld[l].tok \in Nat
    BY <1>6 DEF Typed, NewLoader, LoaderFields
  <2> QED
    BY <1>5, <1>6, <1>7, <2>1 DEF Typed
<1>9. Marks(s, t, Ids(s, L))
  BY <1>2, <1>4, <1>5, <1>6 DEF Marks
<1>10. Others(s, t, L)
  BY <1>5, <1>6, <1>7, <1>9, MarkedOthers
<1>11. ASSUME Counted(s) PROVE Counted(t)
  <2>1. Level(r, Cardinality(Claims(s) \ L))
    BY <1>2, <1>11, ClaimsReleased DEF Typed
  <2>2. Claims(t) = Claims(s) \ L
    BY <1>6 DEF Claims, NewLoader
  <2>3. Cardinality(Claims(t)) \in Nat
    BY CountedLevel
  <2>4. Level(u, Cardinality(Claims(t)))
    BY <1>5, <2>1, <2>2, <2>3
  <2> QED
    BY <1>6, <2>4 DEF Counted, Level
<1>12. ASSUME NEW l \in L
       PROVE  t.ld[l] = NewLoader /\ Orderly(t, l) /\ Backed(t, l) /\ Vacant(t, l)
  <2>0. l \in Loaders
    OBVIOUS
  <2>1. u.ld[l] = Without(s.ld[l])
    BY <1>2, <1>5, <2>0
  <2>2. Id(u, l) = Id(s, l) /\ u.ld[l].source = s.ld[l].source /\ u.ld[l].claim = s.ld[l].claim
    BY <2>0, <2>1 DEF Typed, LoaderFields, Without, Id
  <2>3. Marks(s, u, Ids(s, L)) /\ u.races \subseteq s.races /\ WorkKept(s, l)
    BY <1>5, <1>6, <1>9 DEF Marks
  <2>4. WorkKept(u, l) /\ Still(u, l)
    BY <1>5, <2>2, <2>3, MarkedStill
  <2>5. \A id \in u.races : id.l # l
    BY <1>5, <2>3 DEF WorkKept, Ids
  <2>6. t.ld[l] = NewLoader /\ Id(t, l) = [l |-> l, tok |-> 0]
    BY <1>6, <2>0 DEF NewLoader, Id
  <2>7. \A j \in u.jobs : j.id # Id(t, l)
    BY <2>4, <2>6 DEF WorkKept, JobOrderly
  <2>8. WorkKept(t, l) /\ Vacant(t, l)
    BY <1>6, <1>7, <2>4, <2>5, <2>7, VacantKept DEF Vacant
  <2>9. LoaderOrderly(t, l)
    BY <2>6 DEF LoaderOrderly, NewLoader, Plan, AllPlans, Sourced
  <2>10. Id(t, l) \notin t.races /\ Id(t, l) \notin Taken(t)
    BY <2>6, <2>8 DEF Vacant, Still
  <2>11. t.ld[l].plan \notin Waiting
    BY <2>6 DEF NewLoader, Waiting
  <2> QED
    BY <2>6, <2>8, <2>9, <2>10, <2>11 DEF Orderly, Backed
<1> QED
  BY <1>6, <1>8, <1>10, <1>11, <1>12 DEF Touches, t

-----------------------------------------------------------------------------
(* What becomes of a load: the history of each loader.                      *)
LEMMA AskedCounts ==
    ASSUME NEW a, NEW m \in 0 .. MaxLoads, \A n \in 1 .. MaxLoads : a[n] = "unasked" <=> n > m
    PROVE  Asked(a) = m
<1>0. MaxLoads \in Nat
  BY LoaderAssumption
<1>1. {n \in 1 .. MaxLoads : a[n] # "unasked"} = 1 .. m
  BY <1>0
<1>2. Cardinality(1 .. m) = m
  BY <1>0, FS_Interval
<1> QED
  BY <1>1, <1>2 DEF Asked

Onward(a, b) == \A n \in 1 .. MaxLoads : b[n] # a[n] => <<a[n], b[n]>> \in Contract!Moves

\* An open load is decided once.
LEMMA DecidedOnce ==
    ASSUME NEW a \in [1 .. MaxLoads -> Fates], InTurn(a, TRUE), NEW fate \in Answers
    PROVE  LET b == Decided(a, fate)
           IN  /\ b \in [1 .. MaxLoads -> Fates] /\ InTurn(b, FALSE) /\ Onward(a, b)
               /\ \A n \in 1 .. MaxLoads : a[n] = "unasked" <=> b[n] = "unasked"
<1>0. MaxLoads \in Nat
  BY LoaderAssumption
<1>1. PICK m \in 1 .. MaxLoads : /\ \A n \in 1 .. MaxLoads : a[n] = "unasked" <=> n > m
                                 /\ \A n \in 1 .. MaxLoads : n < m => a[n] \in Answers
                                 /\ a[m] = "open"
  BY <1>0 DEF InTurn
<1>2. Asked(a) = m
  BY <1>0, <1>1, AskedCounts
<1>3. Decided(a, fate) = [a EXCEPT ![m] = fate]
  BY <1>1, <1>2 DEF Decided
<1>4. /\ [a EXCEPT ![m] = fate] \in [1 .. MaxLoads -> Fates]
      /\ \A n \in 1 .. MaxLoads : [a EXCEPT ![m] = fate][n] = IF n = m THEN fate ELSE a[n]
  BY DEF Fates, Answers
<1> DEFINE b == [a EXCEPT ![m] = fate]
<1> HIDE DEF b
<1>5. InTurn(b, FALSE)
  <2>1. m \in 0 .. MaxLoads /\ m > 0
    BY <1>0
  <2>2. \A n \in 1 .. MaxLoads : b[n] = "unasked" <=> n > m
    BY <1>0, <1>1, <1>4 DEF b, Answers
  <2>3. \A n \in 1 .. MaxLoads : n < m => b[n] \in Answers
    BY <1>0, <1>1, <1>4 DEF b
  <2>4. b[m] \in Answers
    BY <1>4 DEF b
  <2> QED
    BY <2>1, <2>2, <2>3, <2>4 DEF InTurn
<1>6. Onward(a, b)
  BY <1>1, <1>4 DEF b, Onward, Contract!Moves, Answers
<1>7. \A n \in 1 .. MaxLoads : a[n] = "unasked" <=> b[n] = "unasked"
  BY <1>1, <1>4 DEF b, Answers
<1> QED
  BY <1>3, <1>4, <1>5, <1>6, <1>7 DEF b

\* The next load is asked for, when none is open.
LEMMA AskedNext ==
    ASSUME NEW a \in [1 .. MaxLoads -> Fates], InTurn(a, FALSE), Asked(a) < MaxLoads
    PROVE  LET b == [a EXCEPT ![Asked(a) + 1] = "open"]
           IN  /\ b \in [1 .. MaxLoads -> Fates] /\ InTurn(b, TRUE)
               /\ \A n \in 1 .. MaxLoads : b[n] # a[n] => a[n] = "unasked" /\ b[n] = "open"
<1>0. MaxLoads \in Nat
  BY LoaderAssumption
<1>1. PICK m \in 0 .. MaxLoads : /\ \A n \in 1 .. MaxLoads : a[n] = "unasked" <=> n > m
                                 /\ \A n \in 1 .. MaxLoads : n < m => a[n] \in Answers
                                 /\ m > 0 => a[m] \in Answers
  BY DEF InTurn
<1>2. Asked(a) = m /\ m + 1 \in 1 .. MaxLoads
  <2>1. Asked(a) = m
    BY <1>1, AskedCounts
  <2> QED
    BY <1>0, <2>1
<1> DEFINE b == [a EXCEPT ![m + 1] = "open"]
<1>4. /\ b \in [1 .. MaxLoads -> Fates]
      /\ \A n \in 1 .. MaxLoads : b[n] = IF n = m + 1 THEN "open" ELSE a[n]
  BY <1>2 DEF Fates
<1> HIDE DEF b
<1>5. InTurn(b, TRUE)
  <2>1. m + 1 \in 0 .. MaxLoads /\ m + 1 > 0
    BY <1>0, <1>2
  <2>2. \A n \in 1 .. MaxLoads : b[n] = "unasked" <=> n > m + 1
    BY <1>0, <1>1, <1>4
  <2>3. \A n \in 1 .. MaxLoads : n < m + 1 => b[n] \in Answers
    <3> SUFFICES ASSUME NEW n \in 1 .. MaxLoads, n < m + 1 PROVE b[n] \in Answers
      OBVIOUS
    <3>1. n < m \/ (n = m /\ m > 0)
      BY <1>0
    <3>2. n # m + 1
      BY <1>0
    <3> QED
      BY <1>1, <1>4, <3>1, <3>2
  <2>4. b[m + 1] = "open"
    BY <1>2, <1>4
  <2> QED
    BY <2>1, <2>2, <2>3, <2>4 DEF InTurn
<1>6. \A n \in 1 .. MaxLoads : b[n] # a[n] => a[n] = "unasked" /\ b[n] = "open"
  BY <1>0, <1>1, <1>4
<1> QED
  BY <1>2, <1>4, <1>5, <1>6 DEF b

\* The loads of L, which are over, are told so.
LEMMA FatesTold ==
    ASSUME NEW s, Typed(s), NEW L \in SUBSET Loaders, \A l \in L : InTurn(s.asked[l], TRUE),
           NEW fate \in Answers
    PROVE  LET t == Fate(s, L, fate)
           IN  /\ Touches(s, t, L)
               /\ t.ld = s.ld /\ t.jobs = s.jobs /\ t.races = s.races /\ Taken(t) = Taken(s)
               /\ \A l \in L : t.asked[l] = Decided(s.asked[l], fate)
<1> DEFINE t == Fate(s, L, fate)
           d == [l \in Loaders |-> IF l \in L THEN Decided(s.asked[l], fate) ELSE s.asked[l]]
<1>1. /\ DOMAIN t = Fields /\ t.ld = s.ld /\ t.jobs = s.jobs /\ t.races = s.races
      /\ t.use = s.use /\ t.ranges = s.ranges /\ t.fetches = s.fetches /\ t.asked = d
  BY DEF Fate, Typed, Fields
<1>2. d \in [Loaders -> [1 .. MaxLoads -> Fates]]
  <2>1. ASSUME NEW l \in Loaders
        PROVE  (IF l \in L THEN Decided(s.asked[l], fate) ELSE s.asked[l]) \in [1 .. MaxLoads -> Fates]
    <3>1. s.asked[l] \in [1 .. MaxLoads -> Fates]
      BY DEF Typed
    <3>2. CASE l \in L
      <4>1. InTurn(s.asked[l], TRUE)
        BY <3>2
      <4> QED
        BY <3>1, <3>2, <4>1, DecidedOnce
    <3> QED
      BY <3>1, <3>2
  <2> QED
    BY <2>1
<1> HIDE DEF t
<1>3. Taken(t) = Taken(s)
  BY <1>1 DEF Taken
<1>4. Typed(t)
  <2> HIDE DEF d
  <2> QED
    BY <1>1, <1>2, <1>3 DEF Typed
<1>5. Others(s, t, L)
  BY <1>1, <1>3 DEF Others
<1>6. Counted(s) => Counted(t)
  BY <1>1 DEF Counted, Claims
<1> QED
  BY <1>1, <1>3, <1>4, <1>5, <1>6 DEF t, Touches

-----------------------------------------------------------------------------
(* Whole steps.  What the handlers make of a page that is sound.            *)
Told(s, t) == \A l \in Loaders : Onward(s.asked[l], t.asked[l])

\* The loads of L end, and each is told how.
Over(s, L, fate) == Fate(EndLoad(s, L), L, fate)

LEMMA LoadsOver ==
    ASSUME NEW s, Typed(s), NEW L \in SUBSET Loaders, NEW fate \in Answers,
           \A l \in L : WorkKept(s, l) /\ InTurn(s.asked[l], TRUE)
    PROVE  LET t == Over(s, L, fate)
           IN  /\ Touches(s, t, L)
               /\ \A l \in L : /\ t.ld[l] = NewLoader /\ Orderly(t, l) /\ Backed(t, l)
                               /\ Vacant(t, l) /\ InTurn(t.asked[l], FALSE)
                               /\ Onward(s.asked[l], t.asked[l])
<1> DEFINE r == EndLoad(s, L)
           t == Over(s, L, fate)
<1>1. /\ Touches(s, r, L) /\ r.asked = s.asked
      /\ \A l \in L : r.ld[l] = NewLoader /\ Orderly(r, l) /\ Backed(r, l) /\ Vacant(r, l)
  BY LoadsEnded
<1>2. t = Fate(r, L, fate)
  BY DEF Over
<1> HIDE DEF r, t
<1>3. /\ Touches(r, t, L)
      /\ t.ld = r.ld /\ t.jobs = r.jobs /\ t.races = r.races /\ Taken(t) = Taken(r)
      /\ \A l \in L : t.asked[l] = Decided(s.asked[l], fate)
  <2>1. Typed(r) /\ \A l \in L : InTurn(r.asked[l], TRUE)
    BY <1>1 DEF Touches
  <2>2. /\ Touches(r, t, L)
        /\ t.ld = r.ld /\ t.jobs = r.jobs /\ t.races = r.races /\ Taken(t) = Taken(r)
        /\ \A l \in L : t.asked[l] = Decided(r.asked[l], fate)
    BY <1>2, <2>1, FatesTold
  <2> QED
    BY <1>1, <2>2
<1>4. ASSUME NEW l \in L
      PROVE  /\ t.ld[l] = NewLoader /\ Orderly(t, l) /\ Backed(t, l)
             /\ Vacant(t, l) /\ InTurn(t.asked[l], FALSE) /\ Onward(s.asked[l], t.asked[l])
  <2>1. Id(t, l) = Id(r, l) /\ Open(t, l) = Open(r, l) /\ Races(t, l) = Races(r, l)
    BY <1>3 DEF Id, Open, Races
  <2>2. \A j \in r.jobs : JobOrderly(r, j) => JobOrderly(t, j)
    BY <1>3 DEF JobOrderly, Id
  <2>3. Orderly(t, l)
    BY <1>1, <1>3, <2>1, <2>2 DEF Orderly, LoaderOrderly, WorkKept
  <2>4. Backed(t, l) /\ Vacant(t, l) /\ t.ld[l] = NewLoader
    BY <1>1, <1>3, <2>1 DEF Backed, Vacant, Still
  <2>5. s.asked[l] \in [1 .. MaxLoads -> Fates] /\ InTurn(s.asked[l], TRUE)
        /\ t.asked[l] = Decided(s.asked[l], fate)
    BY <1>3 DEF Typed
  <2>6. InTurn(t.asked[l], FALSE) /\ Onward(s.asked[l], t.asked[l])
    BY <2>5, DecidedOnce
  <2> QED
    BY <2>3, <2>4, <2>6
<1> QED
  BY <1>1, <1>3, <1>4, TouchesTransitive DEF t

-----------------------------------------------------------------------------
(* Beginnings of work.                                                      *)
Kinds == {"peer", "wait", "key"}

LEMMA JobFresh ==
    ASSUME NEW id, NEW kind
    PROVE  LET j == Job(id, kind)
           IN  DOMAIN j = JobFields /\ j.id = id /\ j.kind = kind /\ ~ j.run /\ ~ j.aborted
  BY DEF Job, JobFields

Adds(s, t, L, kind) ==
    /\ s.jobs \subseteq t.jobs
    /\ \A j \in t.jobs : j \in s.jobs \/ \E l \in L : j = Job(Id(s, l), kind)
    /\ \A l \in L : Job(Id(s, l), kind) \in t.jobs

LEMMA JobsAdded ==
    ASSUME NEW s, Typed(s), NEW L \in SUBSET Loaders, NEW kind
    PROVE  LET t == NewJobs(s, L, kind)
           IN  /\ Typed(t) /\ t.ld = s.ld /\ t.use = s.use /\ t.races = s.races
               /\ t.ranges = s.ranges /\ t.fetches = s.fetches /\ t.asked = s.asked
               /\ Taken(t) = Taken(s) /\ Adds(s, t, L, kind)
<1> DEFINE A == {Job(Id(s, l), kind) : l \in L}
           t == NewJobs(s, L, kind)
<1>1. /\ DOMAIN t = Fields /\ t.ld = s.ld /\ t.use = s.use /\ t.races = s.races
      /\ t.ranges = s.ranges /\ t.fetches = s.fetches /\ t.asked = s.asked
      /\ t.jobs = s.jobs \union A
  BY DEF NewJobs, Typed, Fields
<1> HIDE DEF t
<1>2. IsFiniteSet(s.jobs \union A)
  <2>1. IsFiniteSet(L) /\ IsFiniteSet(s.jobs)
    BY LoaderAssumption, FS_Subset DEF Typed
  <2> DEFINE f == [l \in L |-> Job(Id(s, l), kind)]
  <2>2. A = {f[l] : l \in L}
    OBVIOUS
  <2>3. DOMAIN f = L /\ f = [l \in L |-> f[l]]
    OBVIOUS
  <2> HIDE DEF f, A
  <2>4. IsFiniteSet({f[l] : l \in L})
    BY <2>1, <2>3, MappedFinite
  <2> QED
    BY <2>1, <2>2, <2>4, FS_Union
<1>3. Taken(t) = Taken(s)
  BY <1>1 DEF Taken
<1>4. \A l \in L : Id(s, l) \in Ident
  BY DEF Typed, Id, Ident
<1>5. \A j \in t.jobs : DOMAIN j = JobFields /\ j.id \in Ident
  BY <1>1, <1>4, JobFresh DEF Typed
<1>6. Typed(t)
  BY <1>1, <1>2, <1>3, <1>5 DEF Typed
<1>7. Adds(s, t, L, kind)
  BY <1>1 DEF Adds
<1> QED
  BY <1>1, <1>3, <1>6, <1>7 DEF t

\* The loads of L go on with the player's own loader.
LEMMA WholeStarted ==
    ASSUME NEW s, Typed(s), NEW L \in SUBSET Loaders,
           \A l \in L : /\ WorkKept(s, l) /\ s.ld[l].tok # 0 /\ ~ s.ld[l].claim
                        /\ \A id \in s.races : id.l # l
    PROVE  LET t == StartWhole(s, L)
           IN  /\ Touches(s, t, L) /\ t.asked = s.asked
               /\ \A l \in L : Orderly(t, l) /\ Backed(t, l) /\ Open(t, l)
<1> DEFINE r == AbortPeers(s, L)
           u == [r EXCEPT !.ld = [l \in Loaders |-> IF l \in L THEN Whole(s.ld[l]) ELSE s.ld[l]]]
           t == StartWhole(s, L)
<1>1. /\ Typed(r) /\ r.ld = s.ld /\ r.races = s.races /\ r.asked = s.asked
      /\ Taken(r) = Taken(s) \ Ids(s, L) /\ Marks(s, r, Ids(s, L))
      /\ \A n \in Nat : Level(s, n) => Level(r, n)
  BY PeersAborted
<1>2. t = NewJobs(u, L, "key")
  BY DEF StartWhole
<1> HIDE DEF r, t
<1>3. /\ DOMAIN u = Fields /\ u.use = r.use /\ u.jobs = r.jobs /\ u.ranges = r.ranges
      /\ u.fetches = r.fetches /\ u.asked = s.asked /\ u.races = s.races
      /\ u.ld = [l \in Loaders |-> IF l \in L THEN Whole(s.ld[l]) ELSE s.ld[l]]
  BY <1>1 DEF Typed, Fields
<1> HIDE DEF u
<1>4. \A l \in L : /\ u.ld[l] = Whole(s.ld[l]) /\ DOMAIN u.ld[l] = LoaderFields
                   /\ u.ld[l].tok = s.ld[l].tok /\ ~ u.ld[l].claim /\ u.ld[l].source
                   /\ u.ld[l].plan \in {"whole", "mixedWhole"} /\ u.ld[l].watch = "none"
  BY <1>3 DEF Whole, NewLoader, LoaderFields
<1>5. \A l \in Loaders \ L : u.ld[l] = s.ld[l]
  BY <1>3
<1>6. Typed(u) /\ Taken(u) = Taken(r)
  <2>1. Taken(u) = Taken(r)
    BY <1>3 DEF Taken
  <2>2. \A l \in Loaders : DOMAIN u.ld[l] = LoaderFields /\ u.ld[l].tok \in Nat
    BY <1>4, <1>5 DEF Typed
  <2>3. DOMAIN u.ld = Loaders
    BY <1>3
  <2> QED
    BY <1>1, <1>3, <2>1, <2>2, <2>3 DEF Typed
<1>7. /\ Typed(t) /\ t.ld = u.ld /\ t.use = u.use /\ t.races = u.races
      /\ t.ranges = u.ranges /\ t.fetches = u.fetches /\ t.asked = u.asked
      /\ Taken(t) = Taken(u) /\ Adds(u, t, L, "key")
  BY <1>2, <1>6, JobsAdded
<1>8. \A l \in Loaders : Id(u, l) = Id(s, l) /\ Id(t, l) = Id(s, l)
  BY <1>4, <1>5, <1>7 DEF Id
<1>9. Others(s, t, L)
  <2>1. Marks(s, u, Ids(s, L))
    BY <1>1, <1>3 DEF Marks
  <2>2. \A l \in Loaders \ L : u.ld[l] = s.ld[l] /\ u.asked[l] = s.asked[l]
    BY <1>3, <1>5
  <2>3. Others(s, u, L)
    BY <1>1, <1>3, <1>6, <2>1, <2>2, MarkedOthers
  <2>4. \A l \in L : Job(Id(u, l), "key").id.l = l
    BY JobFresh DEF Id
  <2>5. Others(u, t, L)
    BY <1>7, <2>4 DEF Others, Adds
  <2> QED
    BY <2>3, <2>5, OthersTransitive
<1>10. ASSUME Counted(s) PROVE Counted(t)
  <2>1. Claims(t) = Claims(s)
    BY <1>4, <1>5, <1>7 DEF Claims
  <2>2. Level(s, Cardinality(Claims(s))) /\ Cardinality(Claims(s)) \in Nat
    BY <1>10, CountedLevel
  <2>3. Level(r, Cardinality(Claims(s)))
    BY <1>1, <2>2
  <2> QED
    BY <1>3, <1>7, <2>1, <2>3 DEF Level, Counted
<1>11. ASSUME NEW l \in L PROVE Orderly(t, l) /\ Backed(t, l) /\ Open(t, l)
  <2>0. l \in Loaders /\ t.ld[l] = u.ld[l] /\ WorkKept(s, l) /\ s.ld[l].tok # 0
    BY <1>7
  <2>1. WorkKept(r, l) /\ Still(r, l)
    BY <1>1, <2>0, MarkedStill DEF Id
  <2>2. \A id \in t.races : id.l # l
    BY <1>3, <1>7
  <2>3. Id(t, l).l = l /\ Id(t, l).tok # 0
    BY <1>8, <2>0 DEF Id
  <2>4. \A j \in t.jobs : j \in r.jobs \/ \E m \in L : j = Job(Id(t, m), "key")
    BY <1>3, <1>7, <1>8 DEF Adds
  <2>5. ASSUME NEW j \in t.jobs, j.id.l = l PROVE JobOrderly(t, j)
    <3>1. CASE j \in r.jobs
      <4>1. JobOrderly(r, j) /\ Id(r, l) = Id(t, l)
        BY <1>1, <1>8, <2>1, <2>5, <3>1 DEF WorkKept, Id
      <4> QED
        BY <1>4, <2>0, <2>5, <4>1 DEF JobOrderly
    <3>2. ASSUME NEW m \in L, j = Job(Id(t, m), "key") PROVE JobOrderly(t, j)
      <4>1. j.id = Id(t, m) /\ j.kind = "key" /\ ~ j.run /\ ~ j.aborted /\ Id(t, m).l = m
        BY <3>2, JobFresh DEF Id
      <4>2. m = l
        BY <2>5, <4>1
      <4> QED
        BY <1>4, <2>0, <2>3, <3>2, <4>1, <4>2 DEF JobOrderly, Peers
    <3> QED
      BY <2>4, <3>1, <3>2
  <2>6. \A j \in t.jobs : Peers(j) => j \in r.jobs
    BY <2>4, JobFresh DEF Peers
  <2>7. WorkKept(t, l)
    <3>1. \A i, j \in t.jobs : i.id = j.id /\ i.id.l = l /\ Peers(i) /\ Peers(j) => i = j
      BY <2>1, <2>6 DEF WorkKept
    <3>2. \A id \in Taken(t) : id.l # l
      BY <1>6, <1>7, <2>1 DEF Still
    <3> QED
      BY <2>2, <2>5, <3>1, <3>2 DEF WorkKept
  <2>8. LoaderOrderly(t, l) /\ Open(t, l) /\ t.ld[l].plan \notin Waiting
    BY <1>4, <2>0 DEF LoaderOrderly, Open, Plan, AllPlans, Sourced, Waiting
  <2>9. Id(t, l) \notin t.races /\ Id(t, l) \notin Taken(t)
    BY <1>6, <1>7, <2>1, <2>2, <2>3 DEF Still
  <2> QED
    BY <2>7, <2>8, <2>9 DEF Orderly, Backed
<1> QED
  BY <1>3, <1>7, <1>9, <1>10, <1>11 DEF Touches, t

-----------------------------------------------------------------------------
(* Tokens.                                                                  *)
LEMMA LeastOfSet ==
    ASSUME NEW T \in SUBSET Nat, T # {} PROVE \E m \in T : \A x \in T : m <= x
<1> DEFINE R == {p \in Nat \X Nat : p[1] < p[2]}
<1>1. R = OpToRel(<, Nat)
  BY DEF OpToRel
<1>2. IsWellFoundedOn(R, Nat)
  BY <1>1, NatLessThanWellFounded
<1>3. \A x, y \in Nat : x < y => <<x, y>> \in R
  OBVIOUS
<1> HIDE DEF R
<1>4. PICK m \in T : \A x \in T : ~ (<<x, m>> \in R)
  BY <1>2, WFMin
<1>5. ASSUME NEW x \in T PROVE m <= x
  <2>1. x \in Nat /\ m \in Nat
    BY <1>4
  <2>2. ~ (x < m)
    BY <1>3, <1>4, <2>1
  <2> QED
    BY <2>1, <2>2
<1> QED
  BY <1>5

\* Of finitely many tokens one is left, and the least of those is chosen.
LEMMA TokenLeft ==
    ASSUME NEW seen \in SUBSET Nat, IsFiniteSet(seen)
    PROVE  \E n \in 1 .. (Cardinality(seen) + 1) : n \notin seen /\ \A m \in 1 .. (n - 1) : m \in seen
<1> DEFINE c == Cardinality(seen)
           F == (1 .. c + 1) \ seen
<1>1. c \in Nat
  BY FS_CardinalityType
<1>2. F # {}
  <2> SUFFICES ASSUME F = {} PROVE FALSE
    OBVIOUS
  <2>1. (1 .. c + 1) \in SUBSET seen
    OBVIOUS
  <2>2. IsFiniteSet(1 .. c + 1) /\ Cardinality(1 .. c + 1) = c + 1
    BY <1>1, FS_Interval
  <2>3. Cardinality(1 .. c + 1) <= Cardinality(seen)
    <3> HIDE DEF c, F
    <3> QED
      BY <2>1, FS_Subset
  <2>4. c + 1 <= c
    BY <2>2, <2>3
  <2> QED
    BY <1>1, <2>4
<1>3. F \in SUBSET Nat
  BY <1>1
<1>4. PICK n \in F : \A x \in F : n <= x
  BY <1>2, <1>3, LeastOfSet
<1> HIDE DEF c
<1>5. ASSUME NEW m \in 1 .. (n - 1) PROVE m \in seen
  <2>1. n \in Nat /\ n <= c + 1
    BY <1>1, <1>4
  <2>2. m \in 1 .. c + 1 /\ ~ (n <= m)
    BY <1>1, <1>5, <2>1
  <2> QED
    BY <1>4, <2>2
<1> QED
  BY <1>4, <1>5 DEF c

Renewed(plan, tok) == [NewLoader EXCEPT !.plan = plan, !.tok = tok]

\* A new token is unlike those of the work that is still to settle.
LEMMA TokenRenewed ==
    ASSUME NEW s, Typed(s), NEW l \in Loaders, WorkKept(s, l), Vacant(s, l), ~ s.ld[l].claim,
           NEW plan
    PROVE  LET t == NewToken(s, l, plan)
           IN  /\ Touches(s, t, {l}) /\ t.asked = s.asked
               /\ \E tok \in Nat \ {0} : t.ld[l] = Renewed(plan, tok)
               /\ \A j \in t.jobs : j.id # Id(t, l)
               /\ WorkKept(t, l) /\ Vacant(t, l)
<1> DEFINE I == {i \in s.jobs : i.id.l = l}
           seen == {s.ld[l].tok} \union {j.id.tok : j \in I}
           tok == CHOOSE n \in 1 .. (Cardinality(seen) + 1) :
                     n \notin seen /\ \A m \in 1 .. (n - 1) : m \in seen
           t == NewToken(s, l, plan)
<1>1. seen \in SUBSET Nat /\ IsFiniteSet(seen)
  <2>1. \A j \in s.jobs : j.id.tok \in Nat
    BY DEF Typed, Ident
  <2>2. s.ld[l].tok \in Nat
    BY DEF Typed
  <2>3. IsFiniteSet(I)
    BY FS_Subset DEF Typed
  <2> DEFINE f == [j \in I |-> j.id.tok]
  <2>4. {j.id.tok : j \in I} = {f[j] : j \in I}
    OBVIOUS
  <2>5. DOMAIN f = I /\ f = [j \in I |-> f[j]]
    OBVIOUS
  <2> HIDE DEF f
  <2>6. IsFiniteSet({f[j] : j \in I})
    <3> HIDE DEF I
    <3> QED
      BY <2>3, <2>5, MappedFinite
  <2>7. IsFiniteSet({s.ld[l].tok})
    BY FS_Singleton
  <2>8. IsFiniteSet(seen)
    BY <2>4, <2>6, <2>7, FS_Union
  <2> QED
    BY <2>1, <2>2, <2>8
<1>2. tok \in Nat \ {0} /\ tok \notin seen
  <2> HIDE DEF seen
  <2>1. \E n \in 1 .. (Cardinality(seen) + 1) : n \notin seen /\ \A m \in 1 .. (n - 1) : m \in seen
    BY <1>1, TokenLeft
  <2>2. Cardinality(seen) \in Nat
    BY <1>1, FS_CardinalityType
  <2>3. tok \in 1 .. (Cardinality(seen) + 1) /\ tok \notin seen
    BY <2>1
  <2> HIDE DEF tok
  <2> QED
    BY <2>2, <2>3
<1>3. t = [s EXCEPT !.ld[l] = Renewed(plan, tok)]
  BY DEF NewToken, Renewed
<1>4. \A j \in s.jobs : j.id.l = l => j.id.tok # tok
  <2>1. \A j \in I : j.id.tok \in seen
    OBVIOUS
  <2> HIDE DEF tok, seen
  <2> QED
    BY <1>2, <2>1
<1> HIDE DEF tok, t
<1>5. /\ DOMAIN t = Fields /\ t.jobs = s.jobs /\ t.use = s.use /\ t.races = s.races
      /\ t.ranges = s.ranges /\ t.fetches = s.fetches /\ t.asked = s.asked
      /\ t.ld = [s.ld EXCEPT ![l] = Renewed(plan, tok)]
  BY <1>3 DEF Typed, Fields
<1>6. /\ DOMAIN t.ld = Loaders /\ t.ld[l] = Renewed(plan, tok)
      /\ \A m \in Loaders \ {l} : t.ld[m] = s.ld[m]
  BY <1>5 DEF Typed
<1>7. /\ DOMAIN Renewed(plan, tok) = LoaderFields /\ Renewed(plan, tok).tok = tok
      /\ Renewed(plan, tok).claim = FALSE
  BY DEF Renewed, NewLoader, LoaderFields
<1>8. Taken(t) = Taken(s)
  BY <1>5 DEF Taken
<1>9. Typed(t)
  BY <1>2, <1>5, <1>6, <1>7, <1>8 DEF Typed
<1>10. Others(s, t, {l})
  BY <1>5, <1>6, <1>8 DEF Others
<1>11. Counted(s) => Counted(t)
  <2>1. Claims(t) = Claims(s)
    BY <1>6, <1>7 DEF Claims
  <2> QED
    BY <1>5, <2>1 DEF Counted
<1>12. \A j \in s.jobs : j.id # Id(t, l)
  BY <1>4, <1>6, <1>7 DEF Id
<1>13. WorkKept(t, l) /\ Vacant(t, l)
  BY <1>5, <1>8, <1>12, VacantKept
<1> QED
  BY <1>2, <1>5, <1>6, <1>9, <1>10, <1>11, <1>12, <1>13 DEF t, Touches

\* A load that has just got its token begins its work: the jobs of the kinds K.
LEMMA WorkBegun ==
    ASSUME NEW t, NEW u, Typed(t), Typed(u), NEW l \in Loaders, NEW K \in SUBSET Kinds,
           WorkKept(t, l), Vacant(t, l), \A j \in t.jobs : j.id # Id(t, l),
           \A j \in u.jobs : j \in t.jobs \/ \E k \in K : j = Job(Id(t, l), k),
           \A k \in K : Job(Id(t, l), k) \in u.jobs,
           Taken(u) = Taken(t), \A id \in u.races : id.l = l => id = Id(u, l) /\ "peer" \in K,
           ~ ({"peer", "wait"} \subseteq K), "key" \in K => u.ld[l].source,
           t.ld[l].tok # 0, u.ld[l].tok = t.ld[l].tok, ~ u.ld[l].claim,
           u.ld[l].plan \in Plan \ {"idle"},
           u.ld[l].source <=> u.ld[l].plan \in Sourced,
           u.ld[l].watch \in {"dormant", "armed"} => u.ld[l].plan = "late",
           Id(u, l) \in u.races => Races(u, l),
           u.ld[l].plan \in Waiting => "peer" \in K \/ "wait" \in K
    PROVE  Orderly(u, l) /\ Backed(u, l) /\ Open(u, l)
<1> DEFINE id == Id(t, l)
<1>1. Id(u, l) = id /\ id.l = l /\ id.tok # 0
  BY DEF Id
<1> HIDE DEF id
<1>2. ASSUME NEW j \in u.jobs, j.id.l = l PROVE JobOrderly(u, j)
  <2>1. CASE j \in t.jobs
    <3>1. JobOrderly(t, j) /\ j.id # id /\ (Peers(j) => j.aborted)
      BY <1>2, <2>1 DEF WorkKept, Vacant, Still, id
    <3> QED
      BY <1>1, <1>2, <3>1 DEF JobOrderly
  <2>2. ASSUME NEW k \in K, j = Job(id, k) PROVE JobOrderly(u, j)
    <3>1. j.id = id /\ j.kind = k /\ ~ j.run /\ ~ j.aborted
      BY <2>2, JobFresh
    <3> QED
      BY <1>1, <2>2, <3>1 DEF JobOrderly, Kinds
  <2> QED
    BY <2>1, <2>2 DEF id
<1>3. ASSUME NEW i \in u.jobs, NEW j \in u.jobs, i.id = j.id, i.id.l = l, Peers(i), Peers(j) PROVE i = j
  <2>1. \A k \in K : Job(id, k).id = id /\ Job(id, k).kind = k
    BY JobFresh
  <2>2. CASE i \in t.jobs
    <3>1. i.id # id
      BY <2>2 DEF id
    <3>2. j \in t.jobs
      BY <1>3, <2>1, <3>1 DEF id
    <3> QED
      BY <1>3, <2>2, <3>2 DEF WorkKept
  <2>3. ASSUME NEW k \in K, i = Job(id, k) PROVE i = j
    <3>1. i.id = id /\ i.kind = k
      BY <2>1, <2>3
    <3>2. j \notin t.jobs
      BY <1>3, <3>1 DEF id
    <3>3. PICK h \in K : j = Job(id, h)
      BY <3>2 DEF id
    <3>4. j.kind = h
      BY <2>1, <3>3
    <3>5. k = h
      BY <1>3, <3>1, <3>4 DEF Peers
    <3> QED
      BY <2>3, <3>3, <3>5
  <2> QED
    BY <2>2, <2>3 DEF id
<1>4. WorkKept(u, l)
  BY <1>2, <1>3 DEF WorkKept, Vacant, Still
<1>5. LoaderOrderly(u, l) /\ Open(u, l)
  BY DEF LoaderOrderly, Open
<1>6. id \notin Taken(u)
  BY <1>1 DEF Vacant, Still
<1>7. \A k \in K : Job(id, k) \in u.jobs /\ Job(id, k).id = id /\ Job(id, k).kind = k
  BY JobFresh DEF id
<1>8. Backed(u, l)
  BY <1>1, <1>6, <1>7 DEF Backed, Peers
<1> QED
  BY <1>1, <1>4, <1>5, <1>6, <1>8 DEF Orderly

\* What the beginnings have in common: v is t with jobs of the kinds K.
Works(t, v, l, K) ==
    /\ Typed(v) /\ v.ld = t.ld /\ v.asked = t.asked /\ v.races = t.races
    /\ Taken(v) = Taken(t) /\ v.ranges = t.ranges /\ v.fetches = t.fetches
    /\ t.jobs \subseteq v.jobs
    /\ \A j \in v.jobs : j \in t.jobs \/ \E k \in K : j = Job(Id(t, l), k)
    /\ \A k \in K : Job(Id(t, l), k) \in v.jobs

LEMMA OneJob ==
    ASSUME NEW t, Typed(t), NEW l \in Loaders, NEW kind
    PROVE  Works(t, NewJob(t, l, kind), l, {kind})
<1> DEFINE v == NewJob(t, l, kind)
<1>1. v = NewJobs(t, {l}, kind)
  BY DEF NewJob
<1> HIDE DEF v
<1>2. /\ Typed(v) /\ v.ld = t.ld /\ v.use = t.use /\ v.races = t.races
      /\ v.ranges = t.ranges /\ v.fetches = t.fetches /\ v.asked = t.asked
      /\ Taken(v) = Taken(t) /\ Adds(t, v, {l}, kind)
  BY <1>1, JobsAdded
<1> QED
  BY <1>2 DEF Works, Adds, v

LEMMA TwoJobs ==
    ASSUME NEW t, Typed(t), NEW l \in Loaders, NEW h, NEW k
    PROVE  Works(t, NewJob(NewJob(t, l, h), l, k), l, {h, k})
<1> DEFINE u == NewJob(t, l, h)
           v == NewJob(u, l, k)
<1>1. Works(t, u, l, {h})
  BY OneJob
<1>2. Typed(u) /\ Id(u, l) = Id(t, l)
  BY <1>1 DEF Works, Id
<1> HIDE DEF u
<1>3. Works(u, v, l, {k})
  BY <1>2, OneJob
<1> HIDE DEF v
<1> QED
  BY <1>1, <1>2, <1>3 DEF Works, u, v

Fresh(t, l) ==
    /\ WorkKept(t, l) /\ Vacant(t, l) /\ \A j \in t.jobs : j.id # Id(t, l)
    /\ t.ld[l].tok # 0 /\ ~ t.ld[l].claim

\* How a loader is left that has begun work of the kinds K.
Ready(o, K) ==
    /\ DOMAIN o = LoaderFields /\ o.plan \in Plan \ {"idle"} /\ ~ o.claim
    /\ o.source <=> o.plan \in Sourced
    /\ o.watch \in {"dormant", "armed"} => o.plan = "late"
    /\ ~ ({"peer", "wait"} \subseteq K)
    /\ "key" \in K => o.source
    /\ o.plan \in Waiting => "peer" \in K \/ "wait" \in K

Begins(s, t, l) ==
    Touches(s, t, {l}) /\ t.asked = s.asked /\ Orderly(t, l) /\ Backed(t, l) /\ Open(t, l)

Shown(v, u, l, o, R) ==
    /\ DOMAIN u = Fields /\ u.jobs = v.jobs /\ u.use = v.use /\ u.ranges = v.ranges
    /\ u.fetches = v.fetches /\ u.asked = v.asked /\ u.races = R
    /\ DOMAIN u.ld = Loaders /\ u.ld[l] = o /\ \A m \in Loaders \ {l} : u.ld[m] = v.ld[m]
Slot(t, l, o, K, R) ==
    \/ R = t.races
    \/ R = t.races \union {Id(t, l)} /\ "peer" \in K /\ o.plan \in {"cached", "handed", "late"}

LEMMA BegunWith ==
    ASSUME NEW t, Typed(t), NEW l \in Loaders, Fresh(t, l), NEW v, NEW K \in SUBSET Kinds,
           Works(t, v, l, K), NEW o, Ready(o, K), o.tok = t.ld[l].tok,
           NEW R, Slot(t, l, o, K, R), NEW u, Shown(v, u, l, o, R)
    PROVE  Begins(t, u, l)
<1>1. /\ DOMAIN u = Fields /\ u.jobs = v.jobs /\ u.use = v.use /\ u.ranges = v.ranges
      /\ u.fetches = v.fetches /\ u.asked = v.asked /\ u.races = R
  BY DEF Shown
<1>2. /\ DOMAIN u.ld = Loaders /\ u.ld[l] = o /\ \A m \in Loaders \ {l} : u.ld[m] = t.ld[m]
  BY DEF Works, Shown
<1>3. Taken(u) = Taken(t)
  BY <1>1 DEF Taken, Works
<1>4. R \subseteq Ident /\ Id(u, l) = Id(t, l) /\ Id(t, l).l = l
  BY <1>2 DEF Typed, Id, Ident, Slot
<1>5. Typed(u)
  BY <1>1, <1>2, <1>3, <1>4 DEF Works, Typed, Ready
<1>6. \A k \in K : Job(Id(t, l), k).id.l = l
  BY <1>4, JobFresh
<1>7. Others(t, u, {l})
  BY <1>1, <1>2, <1>3, <1>4, <1>6 DEF Others, Works, Slot
<1>8. Counted(t) => Counted(u)
  <2>1. Claims(u) = Claims(t)
    BY <1>2 DEF Claims, Ready, Fresh
  <2> QED
    BY <1>1, <2>1 DEF Counted, Works
<1>9. \A id \in u.races : id.l = l => id = Id(u, l) /\ "peer" \in K
  BY <1>1, <1>4 DEF Fresh, Vacant, Slot
<1>10. Id(u, l) \in u.races => Races(u, l)
  BY <1>1, <1>2, <1>4 DEF Fresh, Vacant, Races, Slot
<1>11. \A j \in u.jobs : j \in t.jobs \/ \E k \in K : j = Job(Id(t, l), k)
  BY <1>1 DEF Works
<1>12. \A k \in K : Job(Id(t, l), k) \in u.jobs
  BY <1>1 DEF Works
<1>13. /\ WorkKept(t, l) /\ Vacant(t, l) /\ \A j \in t.jobs : j.id # Id(t, l)
       /\ t.ld[l].tok # 0 /\ u.ld[l].tok = t.ld[l].tok
  BY <1>2 DEF Fresh
<1>14. /\ ~ u.ld[l].claim /\ u.ld[l].plan \in Plan \ {"idle"}
       /\ u.ld[l].source <=> u.ld[l].plan \in Sourced
       /\ u.ld[l].watch \in {"dormant", "armed"} => u.ld[l].plan = "late"
       /\ ~ ({"peer", "wait"} \subseteq K)
       /\ "key" \in K => u.ld[l].source
       /\ u.ld[l].plan \in Waiting => "peer" \in K \/ "wait" \in K
  BY <1>2 DEF Ready
<1>15. Orderly(u, l) /\ Backed(u, l) /\ Open(u, l)
  BY <1>3, <1>5, <1>9, <1>10, <1>11, <1>12, <1>13, <1>14, WorkBegun
<1> QED
  BY <1>1, <1>5, <1>7, <1>8, <1>15 DEF Begins, Touches, Works

LEMMA RaceStarted ==
    ASSUME NEW t, Typed(t), NEW l \in Loaders, Fresh(t, l), NEW o, t.ld[l] = o,
           DOMAIN o = LoaderFields, o.plan \in {"cached", "handed"}, o.watch = "none"
    PROVE  Begins(t, StartRace(t, l), l)
<1> DEFINE v == NewJob(NewJob(t, l, "key"), l, "peer")
           p == [o EXCEPT !.source = TRUE]
           u == StartRace(t, l)
<1>1. Works(t, v, l, {"key", "peer"})
  BY TwoJobs
<1>2. u = [v EXCEPT !.races = @ \union {Id(t, l)}, !.ld[l].source = TRUE]
  BY DEF StartRace
<1> HIDE DEF u, v
<1>3. Shown(v, u, l, p, t.races \union {Id(t, l)})
  <2>1. DOMAIN v = Fields /\ v.ld = t.ld /\ v.races = t.races /\ DOMAIN v.ld = Loaders
    BY <1>1 DEF Works, Typed
  <2>2. /\ DOMAIN u = Fields /\ u.jobs = v.jobs /\ u.use = v.use /\ u.ranges = v.ranges
        /\ u.fetches = v.fetches /\ u.asked = v.asked /\ u.races = t.races \union {Id(t, l)}
        /\ u.ld = [v.ld EXCEPT ![l] = [v.ld[l] EXCEPT !.source = TRUE]]
    BY <1>2, <2>1 DEF Fields
  <2> QED
    BY <2>1, <2>2 DEF Shown
<1>4. Ready(p, {"key", "peer"}) /\ p.tok = t.ld[l].tok /\ p.plan \in {"cached", "handed", "late"}
  BY DEF Fresh, Ready, LoaderFields, Plan, AllPlans, RacePlans, Sourced, Waiting
<1> HIDE DEF p
<1>5. {"key", "peer"} \in SUBSET Kinds
  BY DEF Kinds
<1>6. Slot(t, l, p, {"key", "peer"}, t.races \union {Id(t, l)})
  BY <1>4 DEF Slot
<1>7. Begins(t, u, l)
  BY <1>1, <1>3, <1>4, <1>5, <1>6, BegunWith
<1> QED
  BY <1>7 DEF u

LEMMA LoadBegun ==
    ASSUME NEW s, Typed(s), NEW l \in Loaders, WorkKept(s, l), Vacant(s, l), ~ s.ld[l].claim,
           NEW plan \in AllPlans \union {"direct"}
    PROVE  Begins(s, Begin(s, l, plan), l)
<1> DEFINE t == NewToken(s, l, plan)
           u == Begin(s, l, plan)
<1>1. /\ Touches(s, t, {l}) /\ t.asked = s.asked
      /\ \E tok \in Nat \ {0} : t.ld[l] = Renewed(plan, tok)
      /\ \A j \in t.jobs : j.id # Id(t, l)
      /\ WorkKept(t, l) /\ Vacant(t, l)
  BY TokenRenewed
<1>2. PICK tok \in Nat \ {0} : t.ld[l] = Renewed(plan, tok)
  BY <1>1
<1>3. u = CASE plan \in {"peer", "mixed"} -> NewJob(t, l, "peer")
            [] plan = "steady" -> NewJob(t, l, "wait")
            [] plan = "whole" -> StartWhole(t, {l})
            [] plan = "cached" -> StartRace(t, l)
            [] plan = "late" -> StartLate(t, l)
            [] plan = "direct" -> [t EXCEPT !.ld[l].source = TRUE]
  BY DEF Begin
<1> HIDE DEF t, u
<1> DEFINE o == t.ld[l]
<1>4. /\ DOMAIN o = LoaderFields /\ o.plan = plan /\ o.tok # 0 /\ ~ o.claim /\ ~ o.source
      /\ o.watch = "none"
  BY <1>2 DEF Renewed, NewLoader, LoaderFields
<1>5. Typed(t) /\ Fresh(t, l)
  BY <1>1, <1>4 DEF Touches, Fresh
<1>6. plan \in AllPlans \union {"direct"} /\ plan \in Plan \ {"idle"}
  BY DEF Plan, AllPlans, RacePlans
<1> SUFFICES Begins(t, u, l)
  BY <1>1, TouchesTransitive DEF Begins, u
<1>7. ASSUME NEW kind \in {"peer", "wait"}, plan \in Waiting, u = NewJob(t, l, kind)
      PROVE  Begins(t, u, l)
  <2>1. Works(t, u, l, {kind})
    BY <1>5, <1>7, OneJob
  <2>2. Shown(u, u, l, o, t.races)
    BY <2>1 DEF Works, Typed, Shown
  <2>3. Ready(o, {kind})
    BY <1>4, <1>6, <1>7 DEF Ready, Sourced, Waiting
  <2>4. Slot(t, l, o, {kind}, t.races) /\ {kind} \in SUBSET Kinds
    BY DEF Slot, Kinds
  <2> QED
    BY <1>5, <2>1, <2>2, <2>3, <2>4, BegunWith
<1>8. CASE plan \in {"peer", "mixed"}
  BY <1>3, <1>7, <1>8 DEF Waiting
<1>9. CASE plan = "steady"
  BY <1>3, <1>7, <1>9 DEF Waiting
<1>10. CASE plan = "whole"
  <2>1. u = StartWhole(t, {l})
    BY <1>3, <1>10
  <2>2. /\ Touches(t, u, {l}) /\ u.asked = t.asked
        /\ Orderly(u, l) /\ Backed(u, l) /\ Open(u, l)
    BY <1>5, <2>1, WholeStarted DEF Fresh, Vacant
  <2> QED
    BY <2>2 DEF Begins
<1>11. CASE plan = "cached"
  BY <1>3, <1>4, <1>5, <1>11, RaceStarted
<1>12. CASE plan = "late"
  <2> DEFINE v == NewJob(t, l, "key")
             p == [o EXCEPT !.source = TRUE, !.watch = IF moved THEN None ELSE "dormant"]
  <2>1. Works(t, v, l, {"key"})
    BY <1>5, OneJob
  <2>2. u = [v EXCEPT !.ld[l].source = TRUE, !.ld[l].watch = IF moved THEN None ELSE "dormant"]
    BY <1>3, <1>12 DEF StartLate
  <2> HIDE DEF v
  <2>3. Shown(v, u, l, p, t.races)
    BY <1>4, <2>1, <2>2 DEF Works, Typed, Shown, Fields, LoaderFields
  <2>4. Ready(p, {"key"}) /\ p.tok = t.ld[l].tok
    BY <1>4, <1>6, <1>12 DEF Ready, Sourced, Waiting, LoaderFields
  <2> HIDE DEF p
  <2>5. Slot(t, l, p, {"key"}, t.races) /\ {"key"} \in SUBSET Kinds
    BY DEF Slot, Kinds
  <2> QED
    BY <1>5, <2>1, <2>3, <2>4, <2>5, BegunWith
<1>13. CASE plan = "direct"
  <2> DEFINE p == [o EXCEPT !.source = TRUE]
  <2>1. Works(t, t, l, {})
    BY <1>5 DEF Works
  <2>2. u = [t EXCEPT !.ld[l].source = TRUE]
    BY <1>3, <1>13
  <2>3. Shown(t, u, l, p, t.races)
    BY <1>4, <2>1, <2>2 DEF Works, Typed, Shown, Fields, LoaderFields
  <2>4. Ready(p, {}) /\ p.tok = t.ld[l].tok
    BY <1>4, <1>6, <1>13 DEF Ready, Sourced, Waiting, LoaderFields
  <2> HIDE DEF p
  <2>5. Slot(t, l, p, {}, t.races) /\ {} \in SUBSET Kinds
    BY DEF Slot, Kinds
  <2> QED
    BY <1>5, <2>1, <2>3, <2>4, <2>5, BegunWith
<1> QED
  BY <1>6, <1>8, <1>9, <1>10, <1>11, <1>12, <1>13 DEF AllPlans, RacePlans

-----------------------------------------------------------------------------
(* Whole steps: a page in which every load is sound, backed and in turn.    *)
Good(s) == Sound(s) /\ History(s) /\ \A l \in Loaders : Backed(s, l)

\* The same, but for the work that the loads of L wait for.
But(s, L) == Sound(s) /\ History(s) /\ \A l \in Loaders \ L : Backed(s, l)
Makes(s, t) == Good(t) /\ (Counted(s) => Counted(t)) /\ Told(s, t)

LEMMA GoodBut == ASSUME NEW s, Good(s), NEW L PROVE But(s, L)
  BY DEF Good, But

LEMMA TouchesMakes ==
    ASSUME NEW s, NEW L \in SUBSET Loaders, But(s, L), NEW t, Touches(s, t, L),
           \A l \in L : /\ Orderly(t, l) /\ Backed(t, l)
                        /\ InTurn(t.asked[l], Open(t, l)) /\ Onward(s.asked[l], t.asked[l])
    PROVE  Makes(s, t)
<1>1. Sound(t)
  BY TouchesSound DEF But
<1>2. ASSUME NEW l \in Loaders
      PROVE  Backed(t, l) /\ InTurn(t.asked[l], Open(t, l)) /\ Onward(s.asked[l], t.asked[l])
  <2>1. CASE l \in L
    BY <2>1
  <2>2. CASE l \notin L
    <3>1. Others(s, t, L) /\ Backed(s, l) /\ l \in Loaders \ L
      BY <2>2 DEF Touches, But
    <3>2. Backed(t, l)
      BY <3>1, OthersBacked
    <3>3. t.ld[l] = s.ld[l] /\ t.asked[l] = s.asked[l]
      BY <3>1 DEF Others
    <3> QED
      BY <3>2, <3>3 DEF But, History, Open, Onward
  <2> QED
    BY <2>1, <2>2
<1> QED
  BY <1>1, <1>2 DEF Makes, Good, History, Told, Touches

LEMMA BeginsMakes ==
    ASSUME NEW s, NEW l \in Loaders, But(s, {l}), Open(s, l), NEW t, Begins(s, t, l)
    PROVE  Makes(s, t)
<1>1. InTurn(t.asked[l], Open(t, l)) /\ Onward(s.asked[l], t.asked[l])
  BY DEF Begins, But, History, Onward, Open
<1>2. /\ {l} \in SUBSET Loaders /\ Touches(s, t, {l})
      /\ \A m \in {l} : /\ Orderly(t, m) /\ Backed(t, m)
                         /\ InTurn(t.asked[m], Open(t, m)) /\ Onward(s.asked[m], t.asked[m])
  BY <1>1 DEF Begins
<1> QED
  BY <1>2, TouchesMakes

LEMMA OverMakes ==
    ASSUME NEW s, NEW L \in SUBSET Loaders, But(s, L), \A l \in L : Open(s, l),
           NEW fate \in Answers
    PROVE  Makes(s, Over(s, L, fate))
<1> DEFINE t == Over(s, L, fate)
<1>1. Typed(s) /\ \A l \in L : WorkKept(s, l) /\ InTurn(s.asked[l], TRUE)
  BY DEF But, Sound, Orderly, History, Open
<1>2. /\ Touches(s, t, L)
      /\ \A l \in L : /\ t.ld[l] = NewLoader /\ Orderly(t, l) /\ Backed(t, l)
                      /\ Vacant(t, l) /\ InTurn(t.asked[l], FALSE)
                      /\ Onward(s.asked[l], t.asked[l])
  BY <1>1, LoadsOver
<1> HIDE DEF t
<1>3. \A l \in L : InTurn(t.asked[l], Open(t, l))
  <2>1. \A l \in L : ~ Open(t, l)
    <3>1. \A l \in L : t.ld[l] = NewLoader
      BY <1>2
    <3>2. NewLoader.plan = "idle"
      BY DEF NewLoader
    <3> QED
      BY <3>1, <3>2 DEF Open
  <2> QED
    BY <1>2, <2>1 DEF InTurn
<1>4. Makes(s, t)
  BY <1>2, <1>3, TouchesMakes
<1> QED
  BY <1>4 DEF t

LEMMA AnswerMakes ==
    ASSUME NEW s, NEW L \in SUBSET Loaders, But(s, L), \A l \in L : Open(s, l)
    PROVE  Makes(s, Answer(s, L))
<1>1. Answer(s, L) = Over(s, L, "answered") /\ "answered" \in Answers
  BY DEF Answer, Over, Answers
<1> QED
  BY <1>1, OverMakes

\* A load that waits for peers has claimed nothing and has no race slot.
LEMMA WaitingBare ==
    ASSUME NEW s, Sound(s), NEW l \in Loaders, s.ld[l].plan \in Waiting
    PROVE  /\ WorkKept(s, l) /\ s.ld[l].tok # 0 /\ ~ s.ld[l].claim /\ Open(s, l)
           /\ \A id \in s.races : id.l # l
<1>1. Orderly(s, l)
  BY DEF Sound
<1>2. ~ s.ld[l].claim /\ s.ld[l].tok # 0 /\ Open(s, l) /\ ~ Races(s, l)
  BY <1>1 DEF Orderly, LoaderOrderly, Waiting, Sourced, Open, Races
<1> QED
  BY <1>1, <1>2 DEF Orderly, WorkKept

LEMMA WholeMakes ==
    ASSUME NEW s, NEW L \in SUBSET Loaders, But(s, L), \A l \in L : s.ld[l].plan \in Waiting
    PROVE  Makes(s, StartWhole(s, L))
<1> DEFINE t == StartWhole(s, L)
<1>1. Typed(s) /\ Sound(s)
  BY DEF But, Sound
<1>2. \A l \in L : /\ WorkKept(s, l) /\ s.ld[l].tok # 0 /\ ~ s.ld[l].claim
                   /\ \A id \in s.races : id.l # l
  BY <1>1, WaitingBare
<1>3. /\ Touches(s, t, L) /\ t.asked = s.asked
      /\ \A l \in L : Orderly(t, l) /\ Backed(t, l) /\ Open(t, l)
  BY <1>1, <1>2, WholeStarted
<1>4. \A l \in L : Open(s, l)
  BY <1>1, WaitingBare
<1> HIDE DEF t
<1>5. \A l \in L : InTurn(t.asked[l], Open(t, l)) /\ Onward(s.asked[l], t.asked[l])
  BY <1>3, <1>4 DEF But, History, Onward, Open
<1>6. Makes(s, t)
  BY <1>3, <1>5, TouchesMakes
<1> QED
  BY <1>6 DEF t

\* Races and late watches go on without their peers.
LEMMA StopMakes ==
    ASSUME NEW s, NEW L \in SUBSET Loaders, But(s, L), \A l \in L : Races(s, l)
    PROVE  Makes(s, StopPeers(s, L))
<1> DEFINE t == StopPeers(s, L)
<1>0. Typed(s)
  BY DEF But, Sound
<1>1. /\ Typed(t)
      /\ t.ld = [l \in Loaders |-> IF l \in L THEN Without(s.ld[l]) ELSE s.ld[l]]
      /\ t.races = s.races \ Ids(s, L) /\ t.asked = s.asked
      /\ Taken(t) = Taken(s) \ Ids(s, L)
      /\ Marks(s, t, Ids(s, L))
      /\ \A n \in Nat : Level(s, n) => Level(t, n)
  BY <1>0, PeersStopped
<1> HIDE DEF t
<1>2. \A l \in L : t.ld[l] = Without(s.ld[l])
  BY <1>1
<1>3. \A l \in Loaders \ L : t.ld[l] = s.ld[l]
  BY <1>1
<1>4. \A l \in L : /\ t.ld[l].plan = s.ld[l].plan /\ t.ld[l].tok = s.ld[l].tok
                   /\ t.ld[l].claim = s.ld[l].claim /\ t.ld[l].source = s.ld[l].source
                   /\ t.ld[l].watch = None
  BY <1>0, <1>2 DEF Without, Typed, LoaderFields
<1>5. Others(s, t, L)
  BY <1>0, <1>1, <1>3, MarkedOthers
<1>6. Counted(s) => Counted(t)
  <2>1. Claims(t) = Claims(s)
    BY <1>3, <1>4 DEF Claims
  <2> QED
    BY <1>1, <2>1, CountedLevel
<1>7. ASSUME NEW l \in L
      PROVE  /\ Orderly(t, l) /\ Backed(t, l)
             /\ InTurn(t.asked[l], Open(t, l)) /\ Onward(s.asked[l], t.asked[l])
  <2>1. Id(t, l) = Id(s, l) /\ Id(t, l).l = l /\ Open(t, l) = Open(s, l) /\ Races(t, l) = Races(s, l)
    BY <1>4 DEF Id, Open, Races
  <2>2. WorkKept(s, l) /\ LoaderOrderly(s, l)
    BY DEF But, Sound, Orderly
  <2>3. WorkKept(t, l) /\ Still(t, l)
    <3>1. t.races \subseteq s.races
      BY <1>1
    <3> QED
      BY <1>0, <1>1, <1>4, <2>1, <2>2, <3>1, MarkedStill
  <2>4. Id(t, l) \notin t.races /\ Id(t, l) \notin Taken(t)
    BY <1>1, <2>1, <2>3 DEF Ids, Still
  <2>5. LoaderOrderly(t, l)
    BY <1>4, <2>2 DEF LoaderOrderly, None
  <2>6. t.ld[l].plan \notin Waiting
    BY <1>4 DEF Races, Waiting
  <2>7. Orderly(t, l) /\ Backed(t, l)
    BY <2>3, <2>4, <2>5, <2>6 DEF Orderly, Backed
  <2> QED
    BY <1>1, <2>1, <2>7 DEF But, History, Onward
<1>8. Makes(s, t)
  BY <1>1, <1>5, <1>6, <1>7, TouchesMakes DEF Touches
<1> QED
  BY <1>8 DEF t

\* Work is told to end where it is.
LEMMA AbortMakes ==
    ASSUME NEW s, NEW L \in SUBSET Loaders, Good(s)
    PROVE  Makes(s, AbortPeers(s, L))
<1> DEFINE t == AbortPeers(s, L)
<1>0. Typed(s)
  BY DEF Good, Sound
<1>1. /\ Typed(t) /\ t.ld = s.ld /\ t.races = s.races /\ t.asked = s.asked
      /\ Taken(t) = Taken(s) \ Ids(s, L) /\ Marks(s, t, Ids(s, L))
      /\ \A n \in Nat : Level(s, n) => Level(t, n)
  BY <1>0, PeersAborted
<1> HIDE DEF t
<1>2. Others(s, t, L)
  BY <1>0, <1>1, MarkedOthers
<1>3. Counted(s) => Counted(t)
  <2>1. Claims(t) = Claims(s)
    BY <1>1 DEF Claims
  <2> QED
    BY <1>1, <2>1, CountedLevel
<1>4. ASSUME NEW l \in L
      PROVE  /\ Orderly(t, l) /\ Backed(t, l)
             /\ InTurn(t.asked[l], Open(t, l)) /\ Onward(s.asked[l], t.asked[l])
  <2>1. Id(t, l) = Id(s, l) /\ Id(t, l).l = l /\ Open(t, l) = Open(s, l) /\ Races(t, l) = Races(s, l)
    BY <1>1 DEF Id, Open, Races
  <2>2. WorkKept(s, l) /\ LoaderOrderly(s, l) /\ Orderly(s, l) /\ Backed(s, l)
    BY DEF Good, Sound, Orderly
  <2>3. WorkKept(t, l) /\ Still(t, l)
    BY <1>0, <1>1, <2>1, <2>2, MarkedStill
  <2>4. Id(t, l) \notin Taken(t)
    BY <2>1, <2>3 DEF Still
  <2>5. LoaderOrderly(t, l)
    BY <1>1, <2>2 DEF LoaderOrderly
  <2>6. Id(t, l) \in t.races => Races(t, l)
    BY <1>1, <2>1, <2>2 DEF Orderly
  <2>7. Backed(t, l)
    <3>1. (\E j \in s.jobs : j.id = Id(s, l) /\ Peers(j)) => \E j \in t.jobs : j.id = Id(s, l) /\ Peers(j)
      BY <1>0, <1>1, MarkedBacked
    <3>2. (\E j \in s.jobs : j.id = Id(s, l) /\ j.kind = "peer")
             => \E j \in t.jobs : j.id = Id(s, l) /\ j.kind = "peer"
      BY <1>0, <1>1, MarkedBacked
    <3> QED
      BY <1>1, <2>1, <2>2, <2>4, <3>1, <3>2 DEF Backed
  <2>8. Orderly(t, l)
    BY <2>3, <2>4, <2>5, <2>6 DEF Orderly
  <2> QED
    BY <1>1, <2>1, <2>7, <2>8 DEF Good, History, Onward
<1>5. Makes(s, t)
  BY <1>1, <1>2, <1>3, <1>4, TouchesMakes, GoodBut DEF Touches
<1> QED
  BY <1>5 DEF t

-----------------------------------------------------------------------------
(* The ways a load goes on or is taken up again.                            *)
LEMMA EndedBegins ==
    ASSUME NEW s, NEW l \in Loaders, But(s, {l}), NEW plan \in AllPlans \union {"direct"}
    PROVE  Begins(s, Begin(EndLoad(s, {l}), l, plan), l)
<1> DEFINE t == EndLoad(s, {l})
           u == Begin(t, l, plan)
<1>1. Typed(s) /\ {l} \in SUBSET Loaders /\ \A m \in {l} : WorkKept(s, m)
  BY DEF But, Sound, Orderly
<1>2. /\ Touches(s, t, {l}) /\ t.asked = s.asked
      /\ \A m \in {l} : /\ t.ld[m] = NewLoader /\ Orderly(t, m) /\ Backed(t, m)
                        /\ Vacant(t, m)
  BY <1>1, LoadsEnded
<1> HIDE DEF t
<1>3. Typed(t) /\ WorkKept(t, l) /\ Vacant(t, l) /\ ~ t.ld[l].claim
  BY <1>2 DEF Touches, Orderly, NewLoader
<1>4. Begins(t, u, l)
  BY <1>3, LoadBegun
<1> HIDE DEF u
<1>5. Begins(s, u, l)
  BY <1>2, <1>4, TouchesTransitive DEF Begins
<1> QED
  BY <1>5 DEF u, t

LEMMA HandBackMakes ==
    ASSUME NEW s, NEW l \in Loaders, But(s, {l}), s.ld[l].plan \in Waiting, NEW whole \in BOOLEAN,
           NEW t \in HandBacks(s, l, whole)
    PROVE  Makes(s, t)
<1>1. {l} \in SUBSET Loaders /\ Open(s, l)
  BY DEF Waiting, Open
<1>2. CASE s.ld[l].due = 2
  <2>1. t = Answer(s, {l})
    BY <1>2 DEF HandBacks
  <2> QED
    BY <1>1, <2>1, AnswerMakes
<1>3. CASE s.ld[l].due # 2 /\ whole
  <2>1. t = StartWhole(s, {l})
    BY <1>3 DEF HandBacks
  <2> QED
    BY <1>1, <2>1, WholeMakes
<1>4. CASE s.ld[l].due # 2 /\ ~ whole
  <2>1. PICK plan \in (Plans \ {"steady"}) \union {"direct"} : t = Begin(EndLoad(s, {l}), l, plan)
    BY <1>4 DEF HandBacks
  <2>2. plan \in AllPlans \union {"direct"}
    BY LoaderAssumption
  <2>3. Begins(s, t, l)
    BY <2>1, <2>2, EndedBegins
  <2> QED
    BY <1>1, <2>3, BeginsMakes
<1> QED
  BY <1>2, <1>3, <1>4

LEMMA FallbackMakes ==
    ASSUME NEW s, NEW l \in Loaders, But(s, {l}), s.ld[l].plan \in Waiting
    PROVE  Makes(s, Fallback(s, l))
<1>1. {l} \in SUBSET Loaders /\ Open(s, l)
  BY DEF Waiting, Open
<1>2. Fallback(s, l) = Answer(s, {l}) \/ Fallback(s, l) = StartWhole(s, {l})
  BY DEF Fallback
<1>3. Makes(s, Answer(s, {l}))
  BY <1>1, AnswerMakes
<1>4. Makes(s, StartWhole(s, {l}))
  BY <1>1, WholeMakes
<1> QED
  BY <1>2, <1>3, <1>4

\* A mixed load becomes a race under a new token.
LEMMA RaceMakes ==
    ASSUME NEW s, NEW l \in Loaders, But(s, {l}), s.ld[l].plan \in Waiting
    PROVE  Makes(s, HandToRace(s, l))
<1> DEFINE r == AbortPeers(s, {l})
           t == NewToken(r, l, "handed")
           v == [t EXCEPT !.ld[l].due = s.ld[l].due]
           u == StartRace(v, l)
<1>1. Typed(s) /\ Sound(s) /\ Open(s, l) /\ {l} \in SUBSET Loaders /\ l \in {l}
  BY DEF But, Sound, Waiting, Open
<1>2. /\ WorkKept(s, l) /\ s.ld[l].tok # 0 /\ ~ s.ld[l].claim
      /\ \A id \in s.races : id.l # l
  BY <1>1, WaitingBare
<1>3. /\ Typed(r) /\ r.ld = s.ld /\ r.races = s.races /\ r.asked = s.asked
      /\ Taken(r) = Taken(s) \ Ids(s, {l}) /\ Marks(s, r, Ids(s, {l}))
      /\ \A n \in Nat : Level(s, n) => Level(r, n)
  BY <1>1, PeersAborted
<1> HIDE DEF r
<1>4. WorkKept(r, l) /\ Vacant(r, l) /\ ~ r.ld[l].claim
  <2>1. Id(r, l) = Id(s, l) /\ r.races \subseteq s.races
    BY <1>3 DEF Id
  <2>2. WorkKept(r, l) /\ Still(r, l)
    BY <1>1, <1>2, <1>3, <2>1, MarkedStill
  <2> QED
    BY <1>2, <1>3, <2>2 DEF Vacant
<1>5. Touches(s, r, {l})
  <2>1. Others(s, r, {l})
    BY <1>1, <1>3, MarkedOthers
  <2>2. Claims(r) = Claims(s)
    BY <1>3 DEF Claims
  <2>3. Counted(s) => Counted(r)
    BY <1>3, <2>2, CountedLevel
  <2> QED
    BY <1>3, <2>1, <2>3 DEF Touches
<1>6. /\ Touches(r, t, {l}) /\ t.asked = r.asked
      /\ \E tok \in Nat \ {0} : t.ld[l] = Renewed("handed", tok)
      /\ \A j \in t.jobs : j.id # Id(t, l)
      /\ WorkKept(t, l) /\ Vacant(t, l)
  BY <1>3, <1>4, TokenRenewed
<1> HIDE DEF t
<1>7. PICK tok \in Nat \ {0} : t.ld[l] = Renewed("handed", tok)
  BY <1>6
<1>8. /\ DOMAIN t = Fields /\ DOMAIN t.ld = Loaders /\ Typed(t)
      /\ DOMAIN t.ld[l] = LoaderFields /\ t.ld[l].plan = "handed" /\ t.ld[l].tok # 0
      /\ ~ t.ld[l].claim /\ t.ld[l].watch = "none"
  BY <1>6, <1>7 DEF Touches, Typed, Renewed, NewLoader, LoaderFields
<1>9. /\ DOMAIN v = Fields /\ v.jobs = t.jobs /\ v.use = t.use /\ v.races = t.races
      /\ v.ranges = t.ranges /\ v.fetches = t.fetches /\ v.asked = t.asked
      /\ v.ld = [t.ld EXCEPT ![l] = [t.ld[l] EXCEPT !.due = s.ld[l].due]]
  BY <1>8 DEF Fields
<1> HIDE DEF v
<1>10. /\ DOMAIN v.ld = Loaders /\ \A m \in Loaders \ {l} : v.ld[m] = t.ld[m]
       /\ DOMAIN v.ld[l] = LoaderFields /\ v.ld[l].plan = "handed" /\ v.ld[l].tok = t.ld[l].tok
       /\ ~ v.ld[l].claim /\ v.ld[l].watch = "none"
  BY <1>8, <1>9 DEF LoaderFields
<1>11. Taken(v) = Taken(t) /\ Id(v, l) = Id(t, l)
  BY <1>9, <1>10 DEF Taken, Id
<1>12. Typed(v)
  BY <1>8, <1>9, <1>10, <1>11 DEF Typed
<1>13. Fresh(v, l)
  <2>1. \A j \in t.jobs : j.id # Id(v, l)
    BY <1>6, <1>11
  <2>2. WorkKept(v, l) /\ Vacant(v, l)
    BY <1>6, <1>9, <1>11, <2>1, VacantKept
  <2> QED
    BY <1>8, <1>9, <1>10, <2>1, <2>2 DEF Fresh
<1>14. Touches(t, v, {l})
  <2>1. Others(t, v, {l})
    BY <1>9, <1>10, <1>11 DEF Others
  <2>2. Claims(v) = Claims(t)
    BY <1>8, <1>10 DEF Claims
  <2> QED
    BY <1>9, <1>12, <2>1, <2>2 DEF Touches, Counted
<1>15. Begins(v, u, l)
  BY <1>10, <1>12, <1>13, RaceStarted
<1> HIDE DEF u
<1>16. Begins(s, u, l)
  <2>1. Touches(s, t, {l})
    BY <1>5, <1>6, TouchesTransitive
  <2>2. Touches(s, v, {l})
    BY <1>14, <2>1, TouchesTransitive
  <2>3. Touches(s, u, {l})
    BY <1>15, <2>2, TouchesTransitive DEF Begins
  <2> QED
    BY <1>3, <1>6, <1>9, <1>15, <2>3 DEF Begins
<1>17. Makes(s, u)
  BY <1>1, <1>16, BeginsMakes
<1> QED
  BY <1>17 DEF u, v, t, r, HandToRace

-----------------------------------------------------------------------------
(* Small changes.                                                           *)

\* The clock, a fired timer, the first bytes: what no work depends on.
Like(o, p) == /\ DOMAIN p = LoaderFields
              /\ p.plan = o.plan /\ p.tok = o.tok /\ p.claim = o.claim
              /\ p.source = o.source /\ p.watch = o.watch

LEMMA LikeOrderly ==
    ASSUME NEW s, NEW t, NEW l \in Loaders, Orderly(s, l), Like(s.ld[l], t.ld[l]),
           \A j \in t.jobs : j.id.l = l => j \in s.jobs,
           \A id \in Taken(t) : id.l = l => id \in Taken(s),
           \A id \in t.races : id.l = l => id \in s.races
    PROVE  Orderly(t, l)
<1>1. Id(t, l) = Id(s, l) /\ Id(t, l).l = l /\ Open(t, l) = Open(s, l) /\ Races(t, l) = Races(s, l)
  BY DEF Like, Id, Open, Races
<1>2. LoaderOrderly(t, l)
  BY DEF Like, Orderly, LoaderOrderly
<1>3. ASSUME NEW j \in t.jobs, j.id.l = l PROVE JobOrderly(t, j)
  BY <1>1, <1>3 DEF Like, Orderly, WorkKept, JobOrderly
<1>4. WorkKept(t, l)
  BY <1>1, <1>3 DEF Orderly, WorkKept
<1> QED
  BY <1>1, <1>2, <1>4 DEF Orderly

LEMMA LikeMakes ==
    ASSUME NEW s, NEW t, NEW l \in Loaders, Good(s), DOMAIN t = Fields, t.jobs = s.jobs,
           t.use = s.use, t.races = s.races, t.ranges = s.ranges, t.fetches = s.fetches,
           t.asked = s.asked, DOMAIN t.ld = Loaders, Like(s.ld[l], t.ld[l]),
           \A m \in Loaders \ {l} : t.ld[m] = s.ld[m]
    PROVE  Makes(s, t)
<1>0. Typed(s) /\ Sound(s) /\ Orderly(s, l) /\ Backed(s, l) /\ {l} \in SUBSET Loaders
  BY DEF Good, Sound
<1>1. Taken(t) = Taken(s) /\ Typed(t)
  <2>1. Taken(t) = Taken(s)
    BY DEF Taken
  <2>2. \A m \in Loaders : DOMAIN t.ld[m] = LoaderFields /\ t.ld[m].tok \in Nat
    BY <1>0 DEF Typed, Like
  <2> QED
    BY <1>0, <2>1, <2>2 DEF Typed
<1>2. Others(s, t, {l})
  BY <1>1 DEF Others
<1>3. Counted(s) => Counted(t)
  <2>1. Claims(t) = Claims(s)
    BY <1>1 DEF Claims, Like
  <2> QED
    BY <2>1 DEF Counted
<1>4. Orderly(t, l)
  BY <1>0, <1>1, LikeOrderly
<1>5. Backed(t, l)
  BY <1>0, <1>1 DEF Backed, Like, Id
<1>6. InTurn(t.asked[l], Open(t, l)) /\ Onward(s.asked[l], t.asked[l])
  BY <1>1 DEF Good, History, Open, Onward, Like
<1> QED
  BY <1>0, <1>1, <1>2, <1>3, <1>4, <1>5, <1>6, TouchesMakes, GoodBut DEF Touches

\* A promise settles.
LEMMA SettledBut ==
    ASSUME NEW s, Good(s), NEW j \in s.jobs, NEW t, t = [s EXCEPT !.jobs = @ \ {j}]
    PROVE  /\ But(t, {j.id.l}) /\ Touches(s, t, {j.id.l}) /\ Told(s, t)
           /\ t.ld = s.ld /\ t.asked = s.asked /\ t.races = s.races /\ t.fetches = s.fetches
           /\ t.ranges = s.ranges /\ t.use = s.use /\ t.jobs = s.jobs \ {j}
           /\ Taken(t) = Taken(s) /\ j.id.l \in Loaders
           /\ j.kind = "key" \/ j.id # Id(s, j.id.l) => Good(t)
<1> DEFINE l == j.id.l
<1>0. Typed(s) /\ l \in Loaders
  BY DEF Good, Sound, Typed, Ident
<1>1. /\ DOMAIN t = Fields /\ t.ld = s.ld /\ t.asked = s.asked /\ t.races = s.races
      /\ t.fetches = s.fetches /\ t.ranges = s.ranges /\ t.use = s.use /\ t.jobs = s.jobs \ {j}
  BY <1>0 DEF Typed, Fields
<1> HIDE DEF l
<1>2. Taken(t) = Taken(s)
  BY <1>1 DEF Taken
<1>3. Typed(t)
  <2>1. IsFiniteSet(t.jobs)
    BY <1>0, <1>1, FS_RemoveElement DEF Typed
  <2> QED
    BY <1>0, <1>1, <1>2, <2>1 DEF Typed
<1>4. Others(s, t, {l})
  BY <1>1, <1>2 DEF Others, l
<1>5. Counted(s) => Counted(t)
  BY <1>1 DEF Counted, Claims
<1>6. \A m \in Loaders : Orderly(t, m)
  <2> SUFFICES ASSUME NEW m \in Loaders PROVE Orderly(t, m)
    OBVIOUS
  <2>1. Orderly(s, m) /\ Like(s.ld[m], t.ld[m])
    BY <1>0, <1>1 DEF Good, Sound, Typed, Like
  <2> QED
    BY <1>1, <1>2, <2>1, LikeOrderly
<1>7. Sound(t)
  BY <1>3, <1>6 DEF Sound
<1>8. History(t) /\ Told(s, t)
  BY <1>1 DEF Good, History, Open, Told, Onward
<1>9. \A m \in Loaders \ {l} : Backed(t, m)
  BY <1>4, OthersBacked DEF Good
<1>10. ASSUME j.kind = "key" \/ j.id # Id(s, l) PROVE Backed(t, l)
  <2>1. Id(t, l) = Id(s, l) /\ Backed(s, l)
    BY <1>0, <1>1 DEF Id, Good
  <2>2. \A i \in s.jobs : i.run => i.kind = "peer"
    BY <1>0 DEF Good, Sound, Typed, Orderly, WorkKept, JobOrderly, Ident
  <2> QED
    BY <1>1, <1>2, <1>10, <2>1, <2>2 DEF Backed, Peers
<1> QED
  BY <1>0, <1>1, <1>2, <1>3, <1>4, <1>5, <1>7, <1>8, <1>9, <1>10 DEF But, Good, Touches, l

\* Its transfer gives back what it took.
LEMMA EndedBut ==
    ASSUME NEW s, NEW l \in Loaders, But(s, {l}), NEW ids
    PROVE  LET t == EndTransfers(s, ids)
           IN  /\ But(t, {l}) /\ (Good(s) => Good(t)) /\ (Counted(s) => Counted(t)) /\ Told(s, t)
               /\ t.ld = s.ld /\ t.jobs = s.jobs /\ t.races = s.races /\ t.asked = s.asked
<1> DEFINE t == EndTransfers(s, ids)
<1>0. Typed(s)
  BY DEF But, Sound
<1>1. /\ Typed(t)
      /\ t.ld = s.ld /\ t.jobs = s.jobs /\ t.races = s.races /\ t.asked = s.asked
      /\ Taken(t) = Taken(s) \ ids
      /\ \A n \in Nat : Level(s, n) => Level(t, n)
  BY <1>0, TransfersEnded
<1> HIDE DEF t
<1>2. \A m \in Loaders : Orderly(t, m)
  <2> SUFFICES ASSUME NEW m \in Loaders PROVE Orderly(t, m)
    OBVIOUS
  <2>1. Orderly(s, m) /\ Like(s.ld[m], t.ld[m])
    BY <1>0, <1>1 DEF But, Sound, Typed, Like
  <2> QED
    BY <1>1, <2>1, LikeOrderly
<1>3. Sound(t)
  BY <1>1, <1>2 DEF Sound
<1>4. History(t) /\ Told(s, t)
  BY <1>1 DEF But, History, Open, Told, Onward
<1>5. \A m \in Loaders : Backed(s, m) => Backed(t, m)
  BY <1>1 DEF Backed, Id
<1>6. Counted(s) => Counted(t)
  <2>1. Claims(t) = Claims(s)
    BY <1>1 DEF Claims
  <2> QED
    BY <1>1, <2>1, CountedLevel
<1> QED
  BY <1>1, <1>3, <1>4, <1>5, <1>6 DEF But, Good, t

\* A promise of peers goes on as another: it got its lease or its links.
LEMMA JobReplaced ==
    ASSUME NEW s, Good(s), NEW j \in s.jobs, Peers(j), j.id = Id(s, j.id.l),
           NEW k, DOMAIN k = JobFields, k.id = j.id, k.kind = "peer", j.run => k.run,
           k.run => ~ k.aborted,
           NEW t, Typed(t), t.jobs = (s.jobs \ {j}) \union {k}, t.races = s.races,
           t.asked = s.asked, DOMAIN t.ld = Loaders,
           \A m \in Loaders : Like(s.ld[m], t.ld[m]) /\ (m # j.id.l => t.ld[m] = s.ld[m]),
           \A id \in Taken(t) : id \in Taken(s) \/ (id = j.id /\ k.run),
           Counted(s) => Counted(t)
    PROVE  Makes(s, t)
<1> DEFINE l == j.id.l
<1>0. Typed(s) /\ Sound(s) /\ l \in Loaders /\ {l} \in SUBSET Loaders
  BY DEF Good, Sound, Typed, Ident
<1>1. Orderly(s, l) /\ Backed(s, l) /\ Like(s.ld[l], t.ld[l])
  BY <1>0 DEF Good, Sound
<1>2. JobOrderly(s, j) /\ j.id = Id(s, l)
  BY <1>1 DEF Orderly, WorkKept, JobOrderly
<1>3. j.id.l = l
  OBVIOUS
<1> HIDE DEF l
<1>4. Others(s, t, {l})
  BY <1>0, <1>3 DEF Others
<1>5. Id(t, l) = Id(s, l) /\ Open(t, l) = Open(s, l) /\ Races(t, l) = Races(s, l)
  BY <1>1 DEF Like, Id, Open, Races
<1>6. LoaderOrderly(t, l)
  BY <1>1 DEF Like, Orderly, LoaderOrderly
<1>7. Open(s, l) /\ Id(s, l).tok # 0
  BY <1>1, <1>2 DEF JobOrderly, Orderly, LoaderOrderly, Id, Open
<1>8. WorkKept(t, l)
  <2>1. ASSUME NEW i \in t.jobs, i.id.l = l PROVE JobOrderly(t, i)
    <3>1. CASE i \in s.jobs
      BY <1>1, <1>5, <2>1, <3>1 DEF Like, Orderly, WorkKept, JobOrderly
    <3>2. CASE i = k
      BY <1>2, <1>3, <1>5, <3>2 DEF JobOrderly, Peers
    <3> QED
      BY <3>1, <3>2
  <2>2. ASSUME NEW h \in t.jobs, NEW i \in t.jobs, h.id = i.id, h.id.l = l, Peers(h), Peers(i)
        PROVE  h = i
    <3>1. \A g \in s.jobs \ {j} : ~ (g.id = j.id /\ Peers(g))
      BY <1>1, <1>3 DEF Orderly, WorkKept
    <3>2. \A f, g \in s.jobs : f.id = g.id /\ f.id.l = l /\ Peers(f) /\ Peers(g) => f = g
      BY <1>1 DEF Orderly, WorkKept
    <3> QED
      BY <2>2, <3>1, <3>2
  <2>3. \A id \in Taken(t) : id.l = l => id = Id(t, l)
    BY <1>1, <1>2, <1>5 DEF Orderly, WorkKept
  <2>4. \A id \in t.races : id.l = l => id = Id(t, l)
    BY <1>1, <1>5 DEF Orderly, WorkKept
  <2> QED
    BY <2>1, <2>2, <2>3, <2>4 DEF WorkKept
<1>9. Orderly(t, l)
  BY <1>1, <1>5, <1>6, <1>7, <1>8 DEF Orderly
<1>10. Backed(t, l)
  <2>1. k \in t.jobs /\ k.id = Id(t, l) /\ Peers(k)
    BY <1>2, <1>5 DEF Peers
  <2>2. Id(t, l) \in Taken(t) => \E i \in t.jobs : i.id = Id(t, l) /\ i.run
    <3>1. CASE k.run
      BY <2>1, <3>1
    <3>2. CASE ~ k.run
      <4>1. Id(t, l) \in Taken(t) => Id(s, l) \in Taken(s)
        BY <1>5, <3>2
      <4>2. Id(t, l) \in Taken(t) => \E i \in s.jobs : i.id = Id(s, l) /\ i.run
        BY <1>1, <4>1 DEF Backed
      <4> QED
        BY <1>5, <3>2, <4>2
    <3> QED
      BY <3>1, <3>2
  <2> QED
    BY <2>1, <2>2 DEF Backed
<1>11. InTurn(t.asked[l], Open(t, l)) /\ Onward(s.asked[l], t.asked[l])
  BY <1>0, <1>5 DEF Good, History, Onward
<1> QED
  BY <1>0, <1>4, <1>9, <1>10, <1>11, TouchesMakes, GoodBut DEF Touches

\* A key that comes while the request runs claims it.
LEMMA ClaimMakes ==
    ASSUME NEW s, Good(s), NEW l \in Loaders, s.ld[l].source, ~ s.ld[l].claim,
           \A j \in s.jobs : j.kind = "key" => j.id # Id(s, l)
    PROVE  Makes(s, ClaimFetch(s, l))
<1> DEFINE t == ClaimFetch(s, l)
           o == [s.ld[l] EXCEPT !.claim = TRUE]
<1>0. Typed(s) /\ Sound(s) /\ Orderly(s, l) /\ Backed(s, l) /\ {l} \in SUBSET Loaders
  BY DEF Good, Sound
<1> SUFFICES Makes(s, t)
  OBVIOUS
<1>1. CASE t = s
  <2>1. Told(s, s)
    BY DEF Told, Onward
  <2> QED
    BY <1>1, <2>1 DEF Makes
<1>2. CASE t = [s EXCEPT !.fetches = @ + 1, !.ld[l].claim = TRUE]
  <2>1. /\ DOMAIN t = Fields /\ t.jobs = s.jobs /\ t.use = s.use /\ t.races = s.races
        /\ t.ranges = s.ranges /\ t.fetches = s.fetches + 1 /\ t.asked = s.asked
        /\ t.ld = [s.ld EXCEPT ![l] = o]
    BY <1>0, <1>2 DEF Typed, Fields
  <2> HIDE DEF t
  <2>2. DOMAIN t.ld = Loaders /\ t.ld[l] = o /\ \A m \in Loaders \ {l} : t.ld[m] = s.ld[m]
    BY <1>0, <2>1 DEF Typed
  <2>3. /\ DOMAIN t.ld[l] = LoaderFields /\ t.ld[l].plan = s.ld[l].plan /\ t.ld[l].tok = s.ld[l].tok
        /\ t.ld[l].claim /\ t.ld[l].source /\ t.ld[l].watch = s.ld[l].watch
    BY <1>0, <2>2 DEF Typed, LoaderFields
  <2>4. Taken(t) = Taken(s)
    BY <2>1 DEF Taken
  <2>5. Typed(t)
    BY <1>0, <2>1, <2>2, <2>3, <2>4 DEF Typed
  <2>6. Others(s, t, {l})
    BY <2>1, <2>2, <2>4 DEF Others
  <2>7. Counted(s) => Counted(t)
    <3>1. Claims(t) = Claims(s) \union {l} /\ l \notin Claims(s)
      BY <2>2, <2>3 DEF Claims
    <3>2. Cardinality(Claims(t)) = Cardinality(Claims(s)) + 1
      BY <3>1, CountedLevel, FS_AddElement
    <3>3. Cardinality(Claims(s)) \in Nat /\ Cardinality(s.ranges) \in Nat
      BY <1>0, CountedLevel, FS_CardinalityType DEF Typed
    <3> QED
      BY <2>1, <3>2, <3>3 DEF Counted
  <2>8. Id(t, l) = Id(s, l) /\ Open(t, l) = Open(s, l) /\ Races(t, l) = Races(s, l)
    BY <2>3 DEF Id, Open, Races
  <2>9. LoaderOrderly(t, l)
    BY <1>0, <2>3 DEF Orderly, LoaderOrderly
  <2>10. WorkKept(t, l)
    <3>1. ASSUME NEW j \in t.jobs, j.id.l = l PROVE JobOrderly(t, j)
      BY <1>0, <2>1, <2>8, <3>1 DEF Orderly, WorkKept, JobOrderly
    <3> QED
      BY <1>0, <2>1, <2>4, <2>8, <3>1 DEF Orderly, WorkKept
  <2>11. Orderly(t, l)
    BY <1>0, <2>1, <2>4, <2>8, <2>9, <2>10 DEF Orderly
  <2>12. Backed(t, l)
    BY <1>0, <2>1, <2>3, <2>4, <2>8 DEF Backed
  <2>13. InTurn(t.asked[l], Open(t, l)) /\ Onward(s.asked[l], t.asked[l])
    BY <2>1, <2>8 DEF Good, History, Onward
  <2> QED
    BY <1>0, <2>5, <2>6, <2>7, <2>11, <2>12, <2>13, TouchesMakes, GoodBut DEF Touches
<1>3. t = s \/ t = [s EXCEPT !.fetches = @ + 1, !.ld[l].claim = TRUE]
  BY DEF ClaimFetch
<1> HIDE DEF t
<1> QED
  BY <1>1, <1>2, <1>3

LEMMA MakesTransitive ==
    ASSUME NEW s, NEW t, NEW u, Told(s, t), Counted(s) => Counted(t), Makes(t, u),
           \A l \in Loaders : t.asked[l] = s.asked[l] \/ u.asked[l] = t.asked[l]
    PROVE  Makes(s, u)
<1>1. Told(s, u)
  BY DEF Makes, Told, Onward
<1> QED
  BY <1>1 DEF Makes

LEMMA MakesFurther ==
    ASSUME NEW s, NEW t, NEW u, Makes(s, t), t.asked = s.asked, Makes(t, u)
    PROVE  Makes(s, u)
<1>1. Told(s, t) /\ (Counted(s) => Counted(t)) /\ \A l \in Loaders : t.asked[l] = s.asked[l]
  BY DEF Makes
<1> QED
  BY <1>1, MakesTransitive

-----------------------------------------------------------------------------
(* The steps of the page.                                                   *)
IInv == Good(page) /\ (~ stopped => Counted(page))

\* Work that is current is that of a load that is open.
LEMMA CurrentId ==
    ASSUME NEW j \in page.jobs, Good(page)
    PROVE  /\ j.id.l \in Loaders /\ Id(page, j.id.l).l = j.id.l
           /\ Current(j) <=> j.id = Id(page, j.id.l)
<1>1. j.id.l \in Loaders /\ j.id \in Ident
  BY DEF Good, Sound, Typed, Ident
<1>2. JobOrderly(page, j) /\ LoaderOrderly(page, j.id.l)
  BY <1>1 DEF Good, Sound, Orderly, WorkKept
<1>3. Open(page, j.id.l) <=> page.ld[j.id.l].tok # 0
  BY <1>2 DEF LoaderOrderly, Open
<1>4. Id(page, j.id.l).tok = page.ld[j.id.l].tok /\ Id(page, j.id.l).l = j.id.l
  BY DEF Id
<1>5. ASSUME j.id = Id(page, j.id.l) PROVE Open(page, j.id.l)
  BY <1>2, <1>3, <1>4, <1>5 DEF JobOrderly
<1> QED
  BY <1>1, <1>4, <1>5 DEF Current

LEMMA IdleVacant ==
    ASSUME NEW s, NEW l \in Loaders, Orderly(s, l), ~ Open(s, l)
    PROVE  WorkKept(s, l) /\ Vacant(s, l) /\ ~ s.ld[l].claim
<1>1. s.ld[l].plan = "idle" /\ s.ld[l].tok = 0
  BY DEF Orderly, LoaderOrderly, Open
<1>2. Id(s, l).tok = 0 /\ Id(s, l).l = l /\ ~ Races(s, l)
  BY <1>1 DEF Id, Races
<1>3. ~ s.ld[l].claim
  BY <1>1 DEF Orderly, LoaderOrderly, Sourced
<1>4. \A j \in s.jobs : j.id.l = l /\ Peers(j) => j.aborted
  BY <1>2 DEF Orderly, WorkKept, JobOrderly
<1>5. \A id \in Taken(s) : id.l # l
  BY DEF Orderly, WorkKept
<1>6. \A id \in s.races : id.l # l
  BY <1>2 DEF Orderly, WorkKept
<1> QED
  BY <1>3, <1>4, <1>5, <1>6 DEF Orderly, Vacant, Still

\* The bound on all loads is one on the loads of each loader.
LEMMA RoomLeft ==
    ASSUME NEW asked \in [Loaders -> [1 .. MaxLoads -> Fates]], NEW l \in Loaders,
           NEW m \in 0 .. MaxLoads, \A n \in 1 .. MaxLoads : asked[l][n] = "unasked" <=> n > m,
           Cardinality({i \in Loaders \X (1 .. MaxLoads) : asked[i[1]][i[2]] # "unasked"}) < MaxLoads
    PROVE  m < MaxLoads
<1> DEFINE S == {i \in Loaders \X (1 .. MaxLoads) : asked[i[1]][i[2]] # "unasked"}
           T == {l} \X (1 .. MaxLoads)
<1>0. MaxLoads \in Nat \ {0} /\ IsFiniteSet(Loaders)
  BY LoaderAssumption
<1>1. /\ IsFiniteSet(1 .. MaxLoads) /\ Cardinality(1 .. MaxLoads) = MaxLoads
      /\ IsFiniteSet({l}) /\ Cardinality({l}) = 1
  <2>1. 1 \in Int /\ MaxLoads \in Int /\ ~ (1 > MaxLoads) /\ MaxLoads - 1 + 1 = MaxLoads
    BY <1>0
  <2>2. IsFiniteSet(1 .. MaxLoads) /\ Cardinality(1 .. MaxLoads) = MaxLoads
    BY <2>1, FS_Interval
  <2> QED
    BY <2>2, FS_Singleton
<1>2. IsFiniteSet(T) /\ Cardinality(T) = MaxLoads
  <2>1. IsFiniteSet(T) /\ Cardinality(T) = Cardinality({l}) * Cardinality(1 .. MaxLoads)
    BY <1>1, FS_Product
  <2>2. 1 * MaxLoads = MaxLoads
    BY <1>0
  <2> QED
    BY <1>1, <2>1, <2>2
<1>3. IsFiniteSet(S)
  <2>1. IsFiniteSet(Loaders \X (1 .. MaxLoads))
    BY <1>0, <1>1, FS_Product
  <2> QED
    BY <2>1, FS_Subset
<1>4. SUFFICES ASSUME m = MaxLoads PROVE FALSE
  BY <1>0
<1>5. T \in SUBSET S
  BY <1>0, <1>4
<1> HIDE DEF S, T
<1>6. Cardinality(T) <= Cardinality(S) /\ Cardinality(S) \in Nat
  BY <1>3, <1>5, FS_Subset, FS_CardinalityType
<1> QED
  BY <1>0, <1>2, <1>6 DEF S

\* What the abort before a load leaves: the loader as it was made.
LEMMA AbortedIdle ==
    ASSUME NEW s, Good(s), NEW l \in Loaders
    PROVE  LET t == AbortLoad(s, l)
           IN  Makes(s, t) /\ ~ Open(t, l) /\ \A m \in Loaders \ {l} : t.asked[m] = s.asked[m]
<1>0. {l} \in SUBSET Loaders /\ Typed(s) /\ Orderly(s, l)
  BY DEF Good, Sound
<1>1. CASE Open(s, l)
  <2>1. AbortLoad(s, l) = Answer(s, {l}) /\ Answer(s, {l}) = Over(s, {l}, "answered")
    BY <1>1 DEF AbortLoad, Answer, Over
  <2>2. Makes(s, Answer(s, {l}))
    BY <1>0, <1>1, AnswerMakes, GoodBut
  <2>3. \A m \in {l} : WorkKept(s, m) /\ InTurn(s.asked[m], TRUE)
    BY <1>0, <1>1 DEF Good, History, Orderly
  <2> DEFINE t == Over(s, {l}, "answered")
  <2>4. Touches(s, t, {l}) /\ \A m \in {l} : t.ld[m] = NewLoader
    BY <1>0, <2>3, LoadsOver DEF Answers
  <2> HIDE DEF t
  <2>5. ~ Open(t, l) /\ \A m \in Loaders \ {l} : t.asked[m] = s.asked[m]
    BY <2>4 DEF Open, NewLoader, Touches, Others
  <2> QED
    BY <2>1, <2>2, <2>5 DEF t
<1>2. CASE ~ Open(s, l)
  <2>1. AbortLoad(s, l) = s
    BY <1>2 DEF AbortLoad
  <2>2. Makes(s, s)
    BY DEF Makes, Told, Onward
  <2> QED
    BY <1>2, <2>1, <2>2
<1> QED
  BY <1>1, <1>2

LEMMA LoadMakes ==
    ASSUME Good(page), NEW l \in Loaders, NEW plan \in Plans \union {"direct"}, Load(l, plan)
    PROVE  Makes(page, page')
<1> DEFINE s == AbortLoad(page, l)
           n == Asked(s.asked[l]) + 1
           r == [s EXCEPT !.asked[l][n] = "open"]
           b == [s.asked[l] EXCEPT ![n] = "open"]
           t == Begin(r, l, plan)
<1>1. /\ Makes(page, s) /\ ~ Open(s, l)
      /\ \A m \in Loaders \ {l} : s.asked[m] = page.asked[m]
  BY AbortedIdle
<1>2. /\ Cardinality({i \in Loaders \X (1 .. MaxLoads) : s.asked[i[1]][i[2]] # "unasked"}) < MaxLoads
      /\ page' = t
  BY DEF Load, Step
<1>3. plan \in AllPlans \union {"direct"} /\ {l} \in SUBSET Loaders /\ MaxLoads \in Nat
  BY LoaderAssumption
<1> HIDE DEF s
<1>4. Good(s) /\ Typed(s) /\ Orderly(s, l) /\ InTurn(s.asked[l], FALSE)
  <2>1. Good(s) /\ Typed(s) /\ Orderly(s, l) /\ InTurn(s.asked[l], Open(s, l)) /\ ~ Open(s, l)
    BY <1>1 DEF Makes, Good, Sound, History
  <2> QED
    BY <2>1 DEF InTurn
<1>5. s.asked \in [Loaders -> [1 .. MaxLoads -> Fates]]
  BY <1>4 DEF Typed
<1>6. Asked(s.asked[l]) < MaxLoads
  <2>1. PICK m \in 0 .. MaxLoads : \A i \in 1 .. MaxLoads : s.asked[l][i] = "unasked" <=> i > m
    BY <1>4 DEF InTurn
  <2>2. Asked(s.asked[l]) = m
    BY <2>1, AskedCounts
  <2>3. m < MaxLoads
    BY <1>2, <1>5, <2>1, RoomLeft
  <2> QED
    BY <2>2, <2>3
<1>7. /\ b \in [1 .. MaxLoads -> Fates] /\ InTurn(b, TRUE)
      /\ \A i \in 1 .. MaxLoads : b[i] # s.asked[l][i] => s.asked[l][i] = "unasked" /\ b[i] = "open"
  BY <1>4, <1>5, <1>6, AskedNext
<1>8. /\ DOMAIN r = Fields /\ r.ld = s.ld /\ r.jobs = s.jobs /\ r.use = s.use /\ r.races = s.races
      /\ r.ranges = s.ranges /\ r.fetches = s.fetches /\ r.asked = [s.asked EXCEPT ![l] = b]
  BY <1>4 DEF Typed, Fields
<1> HIDE DEF n, b, r, t
<1>9. /\ r.asked \in [Loaders -> [1 .. MaxLoads -> Fates]] /\ r.asked[l] = b
      /\ \A m \in Loaders \ {l} : r.asked[m] = s.asked[m]
  BY <1>5, <1>7, <1>8
<1>10. Taken(r) = Taken(s) /\ Claims(r) = Claims(s)
  BY <1>8 DEF Taken, Claims
<1>11. Typed(r)
  BY <1>4, <1>8, <1>9, <1>10 DEF Typed
<1>12. Touches(s, r, {l})
  <2>1. Others(s, r, {l})
    BY <1>8, <1>9, <1>10 DEF Others
  <2>2. Counted(s) => Counted(r)
    BY <1>8, <1>10 DEF Counted
  <2> QED
    BY <1>11, <2>1, <2>2 DEF Touches
<1>13. WorkKept(r, l) /\ Vacant(r, l) /\ ~ r.ld[l].claim
  <2>1. \A m \in Loaders : Like(s.ld[m], r.ld[m])
    BY <1>4, <1>8 DEF Typed, Like
  <2>2. Orderly(r, l) /\ ~ Open(r, l)
    BY <1>1, <1>4, <1>8, <1>10, <2>1, LikeOrderly DEF Open
  <2> QED
    BY <2>2, IdleVacant
<1>14. Begins(r, t, l)
  BY <1>3, <1>11, <1>13, LoadBegun DEF t
<1>15. Touches(s, t, {l}) /\ Orderly(t, l) /\ Backed(t, l) /\ Open(t, l) /\ t.asked = r.asked
  BY <1>12, <1>14, TouchesTransitive DEF Begins
<1>16. InTurn(t.asked[l], Open(t, l)) /\ Onward(s.asked[l], t.asked[l])
  <2>1. t.asked[l] = b
    BY <1>9, <1>15
  <2>2. Onward(s.asked[l], b)
    BY <1>7 DEF Onward, Contract!Moves
  <2>3. InTurn(b, Open(t, l))
    BY <1>7, <1>15 DEF InTurn
  <2> QED
    BY <2>1, <2>2, <2>3
<1>17. Makes(s, t)
  BY <1>3, <1>4, <1>15, <1>16, TouchesMakes, GoodBut
<1>18. Told(page, t)
  <2> SUFFICES ASSUME NEW m \in Loaders PROVE Onward(page.asked[m], t.asked[m])
    BY DEF Told
  <2>1. Onward(page.asked[m], s.asked[m])
    BY <1>1 DEF Makes, Told
  <2>2. CASE m # l
    BY <1>9, <1>15, <2>1, <2>2
  <2>3. CASE m = l
    <3>1. t.asked[m] = b
      BY <1>9, <1>15, <2>3
    <3>2. ASSUME NEW i \in 1 .. MaxLoads, b[i] # page.asked[m][i]
          PROVE  <<page.asked[m][i], b[i]>> \in Contract!Moves
      <4>1. CASE b[i] = s.asked[m][i]
        BY <2>1, <3>2, <4>1 DEF Onward
      <4>2. CASE b[i] # s.asked[m][i]
        <5>1. s.asked[m][i] = "unasked" /\ b[i] = "open"
          BY <1>7, <2>3, <4>2
        <5>2. page.asked[m][i] = "unasked"
          BY <2>1, <5>1 DEF Onward, Contract!Moves
        <5> QED
          BY <5>1, <5>2 DEF Contract!Moves
      <4> QED
        BY <4>1, <4>2
    <3> QED
      BY <3>1, <3>2 DEF Onward
  <2> QED
    BY <2>2, <2>3
<1> QED
  BY <1>1, <1>2, <1>17, <1>18 DEF Makes

LEMMA AbortOneMakes == ASSUME Good(page), NEW l \in Loaders, Abort(l) PROVE Makes(page, page')
<1>1. page' = AbortLoad(page, l)
  BY DEF Abort, Step
<1> QED
  BY <1>1, AbortedIdle

LEMMA DestroyMakes == ASSUME Good(page), NEW l \in Loaders, Destroy(l) PROVE Makes(page, page')
<1>1. Open(page, l) /\ page' = Over(page, {l}, "dropped") /\ {l} \in SUBSET Loaders
  BY DEF Destroy, Step, Over
<1>2. Makes(page, Over(page, {l}, "dropped"))
  BY <1>1, OverMakes, GoodBut DEF Answers
<1> QED
  BY <1>1, <1>2

LEMMA KeyMakes == ASSUME Good(page), NEW j \in page.jobs, KeyKnown(j) PROVE Makes(page, page')
<1> DEFINE s == Settled(j)
           l == j.id.l
<1>1. s = [page EXCEPT !.jobs = @ \ {j}] /\ j.kind = "key"
  BY DEF Settled, KeyKnown
<1>2. page' = IF Current(j) /\ page.ld[l].source THEN ClaimFetch(s, l) ELSE s
  BY DEF KeyKnown, Step
<1> HIDE DEF s
<1>3. /\ But(s, {l}) /\ Touches(page, s, {l}) /\ Told(page, s) /\ Good(s)
      /\ s.ld = page.ld /\ s.asked = page.asked /\ s.jobs = page.jobs \ {j} /\ l \in Loaders
  <2>1. /\ But(s, {l}) /\ Touches(page, s, {l}) /\ Told(page, s)
        /\ s.ld = page.ld /\ s.asked = page.asked /\ s.jobs = page.jobs \ {j} /\ l \in Loaders
        /\ (j.kind = "key" \/ j.id # Id(page, l) => Good(s))
    BY <1>1, SettledBut
  <2> QED
    BY <1>1, <2>1
<1>4. CASE ~ (Current(j) /\ page.ld[l].source)
  BY <1>2, <1>3, <1>4 DEF Makes, Touches
<1>5. CASE Current(j) /\ page.ld[l].source
  <2>1. j.id = Id(page, l) /\ Id(s, l) = Id(page, l)
    BY <1>3, <1>5, CurrentId DEF Id
  <2>2. \A i \in page.jobs : i.id.l = l => JobOrderly(page, i)
    BY <1>3 DEF Good, Sound, Orderly, WorkKept
  <2>3. ~ s.ld[l].claim /\ s.ld[l].source
    BY <1>1, <1>3, <1>5, <2>1, <2>2 DEF JobOrderly
  <2>4. \A i \in s.jobs : i.kind = "key" => i.id # Id(s, l)
    <3> SUFFICES ASSUME NEW i \in page.jobs, i # j, i.kind = "key", i.id = j.id PROVE FALSE
      BY <1>3, <2>1
    <3>1. i = Job(i.id, "key") /\ j = Job(j.id, "key")
      BY <1>1, <2>2 DEF JobOrderly
    <3> QED
      BY <3>1
  <2>5. Makes(s, ClaimFetch(s, l))
    BY <1>3, <2>3, <2>4, ClaimMakes
  <2>6. page' = ClaimFetch(s, l) /\ \A m \in Loaders : s.asked[m] = page.asked[m]
    BY <1>2, <1>3, <1>5
  <2>7. Counted(page) => Counted(s)
    BY <1>3 DEF Touches
  <2> HIDE DEF l
  <2> QED
    BY <1>3, <2>5, <2>6, <2>7, MakesTransitive
<1> QED
  BY <1>4, <1>5

\* What an open load that its own loader does not run for waits for.
LEMMA OpenWaits ==
    ASSUME NEW s, NEW l \in Loaders, Sound(s), Open(s, l), ~ s.ld[l].source
    PROVE  s.ld[l].plan \in Waiting
  BY DEF Sound, Orderly, LoaderOrderly, Plan, AllPlans, RacePlans, Sourced, Waiting, Open

\* A wait that got its lease goes on as a wait for peers.
LEMMA HeldMakes ==
    ASSUME NEW s, Good(s), NEW j \in s.jobs, j.kind = "wait", j.id = Id(s, j.id.l),
           NEW t, t = [s EXCEPT !.jobs = (@ \ {j}) \union {[j EXCEPT !.kind = "peer"]}]
    PROVE  Makes(s, t)
<1> DEFINE k == [j EXCEPT !.kind = "peer"]
<1>1. Typed(s) /\ DOMAIN j = JobFields /\ j.id \in Ident /\ j.id.l \in Loaders
  BY DEF Good, Sound, Typed, Ident
<1>2. JobOrderly(s, j)
  BY <1>1 DEF Good, Sound, Orderly, WorkKept
<1>3. /\ DOMAIN k = JobFields /\ k.id = j.id /\ k.kind = "peer" /\ k.run = j.run /\ ~ j.run
  BY <1>1, <1>2 DEF JobFields, JobOrderly
<1>4. t = [s EXCEPT !.jobs = (@ \ {j}) \union {k}]
  OBVIOUS
<1> HIDE DEF k
<1>5. /\ DOMAIN t = Fields /\ t.ld = s.ld /\ t.use = s.use
      /\ t.races = s.races /\ t.ranges = s.ranges /\ t.fetches = s.fetches
      /\ t.asked = s.asked /\ t.jobs = (s.jobs \ {j}) \union {k}
  BY <1>1, <1>4 DEF Typed, Fields
<1>6. Taken(t) = Taken(s)
  BY <1>5 DEF Taken
<1>7. Typed(t)
  <2>1. IsFiniteSet(t.jobs)
    <3>1. IsFiniteSet(s.jobs \ {j})
      BY <1>1, FS_RemoveElement DEF Typed
    <3> QED
      BY <1>5, <3>1, FS_AddElement
  <2> QED
    BY <1>1, <1>3, <1>5, <1>6, <2>1 DEF Typed
<1>8. \A m \in Loaders : Like(s.ld[m], t.ld[m]) /\ t.ld[m] = s.ld[m]
  BY <1>1, <1>5 DEF Typed, Like
<1>9. (Counted(s) => Counted(t)) /\ DOMAIN t.ld = Loaders /\ Peers(j)
  BY <1>1, <1>5 DEF Counted, Claims, Typed, Peers
<1>10. /\ \A m \in Loaders : Like(s.ld[m], t.ld[m]) /\ (m # j.id.l => t.ld[m] = s.ld[m])
       /\ \A id \in Taken(t) : id \in Taken(s) \/ (id = j.id /\ k.run)
  BY <1>6, <1>8
<1>11. (j.run => k.run) /\ (k.run => ~ k.aborted)
  BY <1>3
<1> QED
  BY <1>3, <1>5, <1>7, <1>9, <1>10, <1>11, JobReplaced

LEMMA WaitMakes ==
    ASSUME Good(page), NEW j \in page.jobs, NEW next \in {"held", "ordinary", "source"},
           WaitEnds(j, next)
    PROVE  Makes(page, page')
<1> DEFINE s == Settled(j)
           l == j.id.l
<1>1. s = [page EXCEPT !.jobs = @ \ {j}] /\ j.kind = "wait"
  BY DEF Settled, WaitEnds
<1>2. IF ~ Current(j) \/ page.ld[l].source THEN page' = s
      ELSE IF next = "held"
      THEN page' = [page EXCEPT !.jobs = (@ \ {j}) \union {[j EXCEPT !.kind = "peer"]}]
      ELSE \E t \in HandBacks(s, l, next = "source") : page' = t
  BY DEF WaitEnds, Step
<1> HIDE DEF s
<1>3. /\ But(s, {l}) /\ Touches(page, s, {l}) /\ Told(page, s) /\ s.races = page.races
      /\ s.ld = page.ld /\ s.asked = page.asked /\ s.jobs = page.jobs \ {j} /\ l \in Loaders
      /\ Taken(s) = Taken(page) /\ (j.id # Id(page, l) => Good(s))
  BY <1>1, SettledBut
<1>4. Current(j) <=> j.id = Id(page, l)
  BY CurrentId
<1>5. JobOrderly(page, j) /\ DOMAIN j = JobFields /\ Typed(page) /\ Sound(page)
  BY <1>3 DEF Good, Sound, Typed, Orderly, WorkKept
<1> HIDE DEF l
<1>6. CASE ~ Current(j)
  BY <1>2, <1>3, <1>4, <1>6 DEF Makes, Touches
<1>7. CASE Current(j) /\ page.ld[l].source
  <2>1. page.ld[l].plan \notin Waiting /\ Backed(page, l) /\ Id(s, l) = Id(page, l)
    BY <1>3, <1>7 DEF Good, Sound, Orderly, LoaderOrderly, Waiting, Sourced, Id
  <2>2. \A i \in page.jobs : i.id = Id(page, l) /\ i.run => i.kind = "peer"
    <3>1. \A i \in page.jobs : i.id.l = l => JobOrderly(page, i)
      BY <1>3 DEF Good, Sound, Orderly, WorkKept
    <3> QED
      BY <3>1 DEF JobOrderly, Id
  <2>3. Backed(s, l)
    BY <1>1, <1>3, <2>1, <2>2 DEF Backed
  <2>4. Good(s)
    BY <1>3, <2>3 DEF But, Good
  <2> QED
    BY <1>2, <1>3, <1>7, <2>4 DEF Makes, Touches
<1>8. CASE Current(j) /\ ~ page.ld[l].source /\ next = "held"
  <2>1. page' = [page EXCEPT !.jobs = (@ \ {j}) \union {[j EXCEPT !.kind = "peer"]}]
    BY <1>2, <1>8
  <2>2. j.id = Id(page, j.id.l)
    BY <1>4, <1>8 DEF l
  <2> QED
    BY <1>1, <2>1, <2>2, HeldMakes
<1>9. CASE Current(j) /\ ~ page.ld[l].source /\ next # "held"
  <2>1. s.ld[l].plan \in Waiting
    BY <1>3, <1>5, <1>9, OpenWaits DEF Current, l
  <2>2. PICK t \in HandBacks(s, l, next = "source") : page' = t
    BY <1>2, <1>9
  <2>3. (next = "source") \in BOOLEAN
    OBVIOUS
  <2>4. Makes(s, t)
    BY <1>3, <2>1, <2>2, <2>3, HandBackMakes
  <2>5. \A m \in Loaders : s.asked[m] = page.asked[m]
    BY <1>3
  <2>6. Counted(page) => Counted(s)
    BY <1>3 DEF Touches
  <2> QED
    BY <1>3, <2>2, <2>4, <2>5, <2>6, MakesTransitive
<1> QED
  BY <1>6, <1>7, <1>8, <1>9

\* What is left when a promise of peers has settled and its transfer has ended.
LEMMA PeerSettled ==
    ASSUME NEW s, Good(s), NEW j \in s.jobs, j.kind = "peer", NEW r, r = [s EXCEPT !.jobs = @ \ {j}]
    PROVE  LET t == EndTransfers(r, {j.id})
               l == j.id.l
           IN  /\ But(t, {l}) /\ (Counted(s) => Counted(t)) /\ Told(s, t) /\ l \in Loaders
               /\ t.ld = s.ld /\ t.asked = s.asked
               /\ (j.id # Id(s, l) \/ s.ld[l].plan \in {"whole", "mixedWhole", "direct"}) => Good(t)
<1> DEFINE t == EndTransfers(r, {j.id})
           l == j.id.l
<1>1. /\ But(r, {l}) /\ Touches(s, r, {l}) /\ Told(s, r) /\ l \in Loaders
      /\ r.ld = s.ld /\ r.asked = s.asked /\ r.races = s.races
      /\ (j.kind = "key" \/ j.id # Id(s, l) => Good(r))
  BY SettledBut
<1>2. Typed(r)
  BY <1>1 DEF Touches
<1> HIDE DEF l
<1>3. /\ But(t, {l}) /\ (Good(r) => Good(t)) /\ (Counted(r) => Counted(t)) /\ Told(r, t)
      /\ t.ld = r.ld /\ t.jobs = r.jobs /\ t.races = r.races /\ t.asked = r.asked
  <2>1. l \in Loaders /\ But(r, {l})
    BY <1>1
  <2> DEFINE ids == {j.id}
  <2> HIDE DEF ids
  <2> DEFINE u == EndTransfers(r, ids)
  <2>2. /\ But(u, {l}) /\ (Good(r) => Good(u)) /\ (Counted(r) => Counted(u)) /\ Told(r, u)
        /\ u.ld = r.ld /\ u.jobs = r.jobs /\ u.races = r.races /\ u.asked = r.asked
    BY <2>1, EndedBut
  <2>3. u = t
    BY DEF ids
  <2> HIDE DEF u
  <2> QED
    BY <2>2, <2>3
<1>4. Taken(t) = Taken(r) \ {j.id}
  BY <1>2, TransfersEnded
<1> HIDE DEF t
<1>5. ASSUME j.id = Id(s, l), s.ld[l].plan \in {"whole", "mixedWhole", "direct"}
      PROVE  Good(t)
  <2>1. Id(t, l) = j.id /\ t.ld[l].plan \in {"whole", "mixedWhole", "direct"}
    BY <1>1, <1>3, <1>5 DEF Id
  <2>2. Id(t, l) \notin Taken(t)
    BY <1>4, <2>1
  <2>3. Id(t, l) \notin t.races
    <3>1. Orderly(t, l) /\ ~ Races(t, l)
      BY <1>1, <1>3, <2>1 DEF But, Sound, Races
    <3> QED
      BY <3>1 DEF Orderly
  <2>4. Backed(t, l)
    BY <2>1, <2>2, <2>3 DEF Backed, Waiting
  <2> QED
    BY <1>3, <2>4 DEF But, Good
<1>6. (Counted(s) => Counted(t)) /\ Told(s, t) /\ t.ld = s.ld /\ t.asked = s.asked
  BY <1>1, <1>3 DEF Touches, Told
<1>7. (j.id # Id(s, l) \/ s.ld[l].plan \in {"whole", "mixedWhole", "direct"}) => Good(t)
  BY <1>1, <1>3, <1>5
<1> QED
  BY <1>1, <1>3, <1>6, <1>7 DEF t, l

LEMMA PeerMakes ==
    ASSUME Good(page), NEW j \in page.jobs, NEW got \in BOOLEAN, PeerEnds(j, got)
    PROVE  Makes(page, page')
<1> DEFINE l == j.id.l
           o == page.ld[l]
           r == Settled(j)
           s == EndTransfers(r, {j.id})
<1>1. r = [page EXCEPT !.jobs = @ \ {j}] /\ j.kind = "peer"
  BY DEF Settled, PeerEnds
<1> HIDE DEF r
<1>2. /\ But(s, {l}) /\ (Counted(page) => Counted(s)) /\ Told(page, s) /\ l \in Loaders
      /\ s.ld = page.ld /\ s.asked = page.asked
      /\ (j.id # Id(page, l) \/ page.ld[l].plan \in {"whole", "mixedWhole", "direct"}) => Good(s)
  BY <1>1, PeerSettled
<1>3. \/ ~ Current(j) /\ page' = s
      \/ Current(j) /\ page' = Answer(s, {l})
      \/ o.plan = "peer" /\ page' = StartWhole(s, {l})
      \/ o.plan = "steady" /\ \E whole \in BOOLEAN : \E t \in HandBacks(s, l, whole) : page' = t
      \/ o.plan = "mixed" /\ (page' = Fallback(s, l) \/ page' = HandToRace(s, l))
      \/ Races(page, l) /\ page' = StopPeers(s, {l})
      \/ o.plan \in {"whole", "mixedWhole", "direct"} /\ page' = s
  BY DEF PeerEnds, Step, r
<1> HIDE DEF s
<1>4. SUFFICES Makes(s, page') \/ (page' = s /\ Good(s))
  <2>1. CASE page' = s /\ Good(s)
    BY <1>2, <2>1 DEF Makes
  <2>2. CASE Makes(s, page')
    <3>1. \A m \in Loaders : s.asked[m] = page.asked[m]
      BY <1>2
    <3> QED
      BY <1>2, <2>2, <3>1, MakesTransitive
  <2> QED
    BY <2>1, <2>2
<1>5. {l} \in SUBSET Loaders /\ s.ld[l] = o
  BY <1>2
<1>6. CASE ~ Current(j) /\ page' = s
  BY <1>2, <1>6, CurrentId
<1>7. CASE Current(j) /\ page' = Answer(s, {l})
  <2>1. Open(s, l)
    BY <1>5, <1>7 DEF Current, Open
  <2>2. Makes(s, Answer(s, {l}))
    BY <1>2, <1>5, <2>1, AnswerMakes
  <2> QED
    BY <1>7, <2>2
<1>8. CASE o.plan = "peer" /\ page' = StartWhole(s, {l})
  <2>1. \A m \in {l} : s.ld[m].plan \in Waiting
    BY <1>5, <1>8 DEF Waiting
  <2>2. Makes(s, StartWhole(s, {l}))
    BY <1>2, <1>5, <2>1, WholeMakes
  <2> QED
    BY <1>8, <2>2
<1>9. CASE o.plan = "steady" /\ \E whole \in BOOLEAN : \E t \in HandBacks(s, l, whole) : page' = t
  <2>1. PICK whole \in BOOLEAN : \E t \in HandBacks(s, l, whole) : page' = t
    BY <1>9
  <2>2. PICK t \in HandBacks(s, l, whole) : page' = t
    BY <2>1
  <2>3. s.ld[l].plan \in Waiting
    BY <1>5, <1>9 DEF Waiting
  <2>4. Makes(s, t)
    BY <1>2, <2>2, <2>3, HandBackMakes
  <2> QED
    BY <2>2, <2>4
<1>10. CASE o.plan = "mixed" /\ (page' = Fallback(s, l) \/ page' = HandToRace(s, l))
  <2>1. s.ld[l].plan \in Waiting
    BY <1>5, <1>10 DEF Waiting
  <2>2. Makes(s, Fallback(s, l)) /\ Makes(s, HandToRace(s, l))
    BY <1>2, <2>1, FallbackMakes, RaceMakes
  <2> QED
    BY <1>10, <2>2
<1>11. CASE Races(page, l) /\ page' = StopPeers(s, {l})
  <2>1. \A m \in {l} : Races(s, m)
    BY <1>5, <1>11 DEF Races
  <2>2. Makes(s, StopPeers(s, {l}))
    BY <1>2, <1>5, <2>1, StopMakes
  <2> QED
    BY <1>11, <2>2
<1>12. CASE o.plan \in {"whole", "mixedWhole", "direct"} /\ page' = s
  BY <1>2, <1>12
<1> QED
  BY <1>3, <1>6, <1>7, <1>8, <1>9, <1>10, <1>11, <1>12

\* A transfer that runs takes links, or a claim of its own.
LEMMA TakenMakes ==
    ASSUME NEW s, Good(s), NEW j \in s.jobs, j.kind = "peer", j.id = Id(s, j.id.l),
           NEW k, DOMAIN k = JobFields, k.id = j.id, k.kind = "peer", k.run, ~ k.aborted,
           NEW t, DOMAIN t = Fields, t.jobs = (s.jobs \ {j}) \union {k}, t.races = s.races,
           t.asked = s.asked, DOMAIN t.ld = Loaders, DOMAIN t.use = Links,
           \A m \in Loaders : Like(s.ld[m], t.ld[m]) /\ (m # j.id.l => t.ld[m] = s.ld[m]),
           \A i \in Links : t.use[i] = s.use[i] \/ t.use[i] = j.id,
           \/ t.ranges = s.ranges /\ t.fetches = s.fetches
           \/ j.id \notin s.ranges /\ t.ranges = s.ranges \union {j.id}
                                    /\ t.fetches = s.fetches + 1
    PROVE  Makes(s, t)
<1>0. Typed(s) /\ j.id \in Ident /\ DOMAIN j = JobFields /\ Peers(j)
  BY DEF Good, Sound, Typed, Peers
<1>1. \A id \in Taken(t) : id \in Taken(s) \/ (id = j.id /\ k.run)
  BY DEF Taken
<1>2. IsFiniteSet(t.jobs)
  <2>1. IsFiniteSet(s.jobs \ {j})
    BY <1>0, FS_RemoveElement DEF Typed
  <2> QED
    BY <2>1, FS_AddElement
<1>3. IsFiniteSet(s.ranges) /\ IsFiniteSet(s.ranges \union {j.id})
  BY <1>0, FS_AddElement DEF Typed
<1>4. \A m \in Loaders : DOMAIN t.ld[m] = LoaderFields /\ t.ld[m].tok \in Nat
  BY <1>0 DEF Typed, Like
<1>5. Taken(t) \subseteq Ident /\ s.fetches \in Nat /\ t.fetches \in Nat /\ IsFiniteSet(t.ranges)
  <2>1. Taken(s) \subseteq Ident /\ s.fetches \in Nat
    BY <1>0 DEF Typed
  <2>2. Taken(t) \subseteq Ident
    BY <1>0, <1>1, <2>1
  <2>3. IsFiniteSet(t.ranges) /\ t.fetches \in Nat
    <3>1. CASE t.ranges = s.ranges /\ t.fetches = s.fetches
      BY <1>3, <2>1, <3>1
    <3>2. CASE t.ranges = s.ranges \union {j.id} /\ t.fetches = s.fetches + 1
      <4>1. t.fetches \in Nat
        BY <2>1, <3>2
      <4> QED
        BY <1>3, <3>2, <4>1
    <3> QED
      BY <3>1, <3>2
  <2> QED
    BY <2>1, <2>2, <2>3
<1>6. \A i \in t.jobs : DOMAIN i = JobFields /\ i.id \in Ident
  BY <1>0 DEF Typed
<1>7. Typed(t)
  BY <1>0, <1>2, <1>4, <1>5, <1>6 DEF Typed
<1>8. Counted(s) => Counted(t)
  <2>1. Claims(t) = Claims(s)
    BY DEF Claims, Like
  <2>2. CASE t.ranges = s.ranges /\ t.fetches = s.fetches
    BY <2>1, <2>2 DEF Counted
  <2>3. CASE j.id \notin s.ranges /\ t.ranges = s.ranges \union {j.id} /\ t.fetches = s.fetches + 1
    <3>1. Cardinality(t.ranges) = Cardinality(s.ranges) + 1 /\ Cardinality(s.ranges) \in Nat
      BY <1>3, <2>3, FS_AddElement, FS_CardinalityType
    <3>2. Cardinality(Claims(s)) \in Nat
      BY CountedLevel
    <3> QED
      BY <2>1, <2>3, <3>1, <3>2 DEF Counted
  <2> QED
    BY <2>2, <2>3
<1>9. (j.run => k.run) /\ (k.run => ~ k.aborted)
  OBVIOUS
<1> QED
  BY <1>0, <1>1, <1>7, <1>8, <1>9, JobReplaced

\* A wait that does not run yet holds nothing.
LEMMA NothingTaken ==
    ASSUME NEW s, Good(s), NEW j \in s.jobs, j.kind = "peer", ~ j.run, ~ j.aborted
    PROVE  j.id = Id(s, j.id.l) /\ j.id \notin Taken(s) /\ j.id.l \in Loaders
<1>1. j.id.l \in Loaders
  BY DEF Good, Sound, Typed, Ident
<1>2. Orderly(s, j.id.l) /\ Backed(s, j.id.l)
  BY <1>1 DEF Good, Sound
<1>3. j.id = Id(s, j.id.l)
  BY <1>2 DEF Orderly, WorkKept, JobOrderly, Peers
<1>4. \A i \in s.jobs : i.id = j.id /\ i.run => i = j
  BY <1>2 DEF Orderly, WorkKept, JobOrderly, Peers
<1> QED
  BY <1>1, <1>2, <1>3, <1>4 DEF Backed

LEMMA TakeMakes ==
    ASSUME Good(page), NEW j \in page.jobs, NEW links \in SUBSET Links, NEW multi \in BOOLEAN,
           Take(j, links, multi)
    PROVE  Makes(page, page')
<1> DEFINE l == j.id.l
           k == [j EXCEPT !.run = TRUE, !.multi = multi]
           use == [i \in Links |-> IF i \in links THEN j.id ELSE page.use[i]]
           s == [page EXCEPT !.jobs = (@ \ {j}) \union {k}, !.use = use]
           t == [s EXCEPT !.ld[l].claimed = TRUE]
           u == [t EXCEPT !.fetches = @ + 1, !.ranges = @ \union {j.id}]
<1>1. j.kind = "peer" /\ ~ j.run /\ ~ j.aborted /\ (page' = s \/ page' = t \/ page' = u)
  <2>1. s = [page EXCEPT !.jobs = (@ \ {j}) \union {[j EXCEPT !.run = TRUE, !.multi = multi]},
                         !.use = [i \in Links |-> IF i \in links THEN j.id ELSE @[i]]]
    OBVIOUS
  <2> QED
    BY <2>1 DEF Take, Step
<1>2. j.id = Id(page, l) /\ j.id \notin page.ranges /\ l \in Loaders
  BY <1>1, NothingTaken DEF Taken
<1>3. Typed(page) /\ DOMAIN j = JobFields
  BY DEF Good, Sound, Typed
<1>4. DOMAIN k = JobFields /\ k.id = j.id /\ k.kind = "peer" /\ k.run /\ ~ k.aborted
  BY <1>1, <1>3 DEF JobFields
<1>5. DOMAIN use = Links /\ \A i \in Links : use[i] = page.use[i] \/ use[i] = j.id
  OBVIOUS
<1> HIDE DEF k, use
<1>6. /\ DOMAIN s = Fields /\ s.jobs = (page.jobs \ {j}) \union {k} /\ s.use = use
      /\ s.ld = page.ld /\ s.races = page.races /\ s.ranges = page.ranges
      /\ s.fetches = page.fetches /\ s.asked = page.asked
  BY <1>3 DEF Typed, Fields
<1> HIDE DEF s
<1> DEFINE o == [page.ld[l] EXCEPT !.claimed = TRUE]
<1>7. /\ DOMAIN t = Fields /\ t.jobs = s.jobs /\ t.use = use
      /\ t.ld = [page.ld EXCEPT ![l] = o] /\ t.races = page.races /\ t.ranges = page.ranges
      /\ t.fetches = page.fetches /\ t.asked = page.asked
  BY <1>6 DEF Fields
<1> HIDE DEF t
<1>8. /\ DOMAIN u = Fields /\ u.jobs = s.jobs /\ u.use = use
      /\ u.ld = t.ld /\ u.races = page.races /\ u.ranges = page.ranges \union {j.id}
      /\ u.fetches = page.fetches + 1 /\ u.asked = page.asked
  BY <1>7 DEF Fields
<1> HIDE DEF u
<1>9. \A m \in Loaders : Like(page.ld[m], page.ld[m])
  BY <1>3 DEF Typed, Like
<1>10. DOMAIN page.ld = Loaders /\ DOMAIN t.ld = Loaders
  BY <1>3, <1>7 DEF Typed
<1>11. \A m \in Loaders : Like(page.ld[m], t.ld[m]) /\ (m # l => t.ld[m] = page.ld[m])
  <2>1. Like(page.ld[l], o)
    BY <1>2, <1>3 DEF Typed, Like, LoaderFields
  <2> HIDE DEF o
  <2> QED
    BY <1>2, <1>3, <1>7, <1>9, <2>1 DEF Typed
<1>12. Makes(page, s)
  BY <1>1, <1>2, <1>4, <1>5, <1>6, <1>9, <1>10, TakenMakes
<1>13. Makes(page, t)
  BY <1>1, <1>2, <1>4, <1>5, <1>6, <1>7, <1>10, <1>11, TakenMakes
<1>14. Makes(page, u)
  BY <1>1, <1>2, <1>4, <1>5, <1>6, <1>8, <1>10, <1>11, TakenMakes
<1> QED
  BY <1>1, <1>12, <1>13, <1>14

LEMMA RangeMakes ==
    ASSUME Good(page), NEW j \in page.jobs, RangeBegins(j)
    PROVE  Makes(page, page')
<1> DEFINE t == [page EXCEPT !.fetches = @ + 1, !.ranges = @ \union {j.id}]
<1>1. j.run /\ ~ j.aborted /\ j.id \notin page.ranges /\ page' = t
  BY DEF RangeBegins, Step
<1>2. Typed(page) /\ DOMAIN j = JobFields /\ j.id.l \in Loaders
  BY DEF Good, Sound, Typed, Ident
<1>3. j.kind = "peer" /\ j.id = Id(page, j.id.l)
  BY <1>1, <1>2 DEF Good, Sound, Orderly, WorkKept, JobOrderly, Peers
<1>4. /\ DOMAIN t = Fields /\ t.jobs = page.jobs /\ t.use = page.use /\ t.ld = page.ld
      /\ t.races = page.races /\ t.ranges = page.ranges \union {j.id}
      /\ t.fetches = page.fetches + 1 /\ t.asked = page.asked
  BY <1>2 DEF Typed, Fields
<1> HIDE DEF t
<1>5. DOMAIN t.ld = Loaders /\ DOMAIN t.use = Links
  BY <1>2, <1>4 DEF Typed
<1>6. \A m \in Loaders : Like(page.ld[m], t.ld[m]) /\ (m # j.id.l => t.ld[m] = page.ld[m])
  BY <1>2, <1>4 DEF Typed, Like
<1>7. t.jobs = (page.jobs \ {j}) \union {j} /\ \A i \in Links : t.use[i] = page.use[i]
  BY <1>4
<1>8. /\ t.ranges = page.ranges \union {j.id} /\ j.id \notin page.ranges
      /\ t.fetches = page.fetches + 1
      /\ \A i \in Links : t.use[i] = page.use[i] \/ t.use[i] = j.id
  BY <1>1, <1>4, <1>7
<1>9. DOMAIN t = Fields /\ t.races = page.races /\ t.asked = page.asked
  BY <1>4
<1>10. Makes(page, t)
  BY <1>1, <1>2, <1>3, <1>5, <1>6, <1>7, <1>8, <1>9, TakenMakes
<1> QED
  BY <1>1, <1>10

\* One loader's clock or flag is set.
Flagged(s, l, o) == [s EXCEPT !.ld = [s.ld EXCEPT ![l] = o]]

LEMMA FlagMakes ==
    ASSUME NEW s, Good(s), NEW l \in Loaders, NEW o, Like(s.ld[l], o)
    PROVE  LET t == Flagged(s, l, o)
           IN  Makes(s, t) /\ Good(t) /\ t.ld[l] = o /\ t.asked = s.asked
<1> DEFINE t == Flagged(s, l, o)
<1>1. Typed(s)
  BY DEF Good, Sound
<1>2. /\ DOMAIN t = Fields /\ t.jobs = s.jobs /\ t.use = s.use /\ t.races = s.races
      /\ t.ranges = s.ranges /\ t.fetches = s.fetches /\ t.asked = s.asked
      /\ DOMAIN t.ld = Loaders /\ t.ld[l] = o /\ \A m \in Loaders \ {l} : t.ld[m] = s.ld[m]
  BY <1>1 DEF Flagged, Typed, Fields
<1> HIDE DEF t
<1>3. Like(s.ld[l], t.ld[l])
  BY <1>2
<1>4. Makes(s, t)
  BY <1>2, <1>3, LikeMakes
<1>5. Makes(s, t) /\ Good(t) /\ t.ld[l] = o /\ t.asked = s.asked
  BY <1>2, <1>4 DEF Makes
<1> QED
  BY <1>5 DEF t

LEMMA TimeMakes == ASSUME Good(page), NEW l \in Loaders, TimePasses(l) PROVE Makes(page, page')
<1> DEFINE o == [page.ld[l] EXCEPT !.due = page.ld[l].due + 1]
           t == Flagged(page, l, o)
<1>1. page' = t
  BY DEF Flagged, TimePasses, Step
<1>2. Like(page.ld[l], o)
  BY DEF Good, Sound, Typed, Like, LoaderFields
<1> HIDE DEF o
<1>3. Makes(page, t)
  BY <1>2, FlagMakes
<1> QED
  BY <1>1, <1>3

LEMMA DeadlineMakes ==
    ASSUME Good(page), NEW l \in Loaders, DeadlineTimer(l) PROVE Makes(page, page')
<1> DEFINE o == [page.ld[l] EXCEPT !.fired = TRUE]
           s == Flagged(page, l, o)
<1>1. \/ page' = s
      \/ page.ld[l].plan = "peer" /\ page' = StartWhole(s, {l})
      \/ page' = AbortPeers(s, {l})
      \/ Races(page, l) /\ page' = StopPeers(s, {l})
  <2>1. s = [page EXCEPT !.ld[l].fired = TRUE]
    BY DEF Flagged
  <2> HIDE DEF s
  <2> QED
    BY <2>1 DEF DeadlineTimer, Step
<1>2. Like(page.ld[l], o)
  BY DEF Good, Sound, Typed, Like, LoaderFields
<1> HIDE DEF o
<1>3. Makes(page, s) /\ Good(s) /\ s.ld[l] = o /\ s.asked = page.asked
  BY <1>2, FlagMakes
<1> HIDE DEF s
<1>4. {l} \in SUBSET Loaders /\ But(s, {l}) /\ s.ld[l].plan = page.ld[l].plan
  BY <1>2, <1>3, GoodBut DEF Like
<1>5. CASE page' = s
  BY <1>3, <1>5
<1>6. CASE page.ld[l].plan = "peer" /\ page' = StartWhole(s, {l})
  <2>1. \A m \in {l} : s.ld[m].plan \in Waiting
    BY <1>4, <1>6 DEF Waiting
  <2>2. Makes(s, StartWhole(s, {l}))
    BY <1>4, <2>1, WholeMakes
  <2> QED
    BY <1>3, <1>6, <2>2, MakesFurther
<1>7. CASE page' = AbortPeers(s, {l})
  <2>1. Makes(s, AbortPeers(s, {l}))
    BY <1>3, <1>4, AbortMakes
  <2> QED
    BY <1>3, <1>7, <2>1, MakesFurther
<1>8. CASE Races(page, l) /\ page' = StopPeers(s, {l})
  <2>1. \A m \in {l} : Races(s, m)
    BY <1>4, <1>8 DEF Races
  <2>2. Makes(s, StopPeers(s, {l}))
    BY <1>4, <2>1, StopMakes
  <2> QED
    BY <1>3, <1>8, <2>2, MakesFurther
<1> QED
  BY <1>1, <1>5, <1>6, <1>7, <1>8

LEMMA ProgressMakes ==
    ASSUME Good(page), NEW l \in Loaders, OriginProgress(l) PROVE Makes(page, page')
<1> DEFINE o == [page.ld[l] EXCEPT !.claimed = TRUE]
           s == Flagged(page, l, o)
<1>1. Races(page, l) /\ (page' = Answer(page, {l}) \/ page' = StopPeers(s, {l}))
  <2>1. s = [page EXCEPT !.ld[l].claimed = TRUE]
    BY DEF Flagged
  <2> HIDE DEF s
  <2> QED
    BY <2>1 DEF OriginProgress, Step
<1>2. Like(page.ld[l], o)
  BY DEF Good, Sound, Typed, Like, LoaderFields
<1> HIDE DEF o
<1>3. Makes(page, s) /\ Good(s) /\ s.ld[l] = o /\ s.asked = page.asked
  BY <1>2, FlagMakes
<1> HIDE DEF s
<1>4. {l} \in SUBSET Loaders /\ But(s, {l}) /\ But(page, {l}) /\ s.ld[l].plan = page.ld[l].plan
  BY <1>2, <1>3, GoodBut DEF Like
<1>5. \A m \in {l} : Races(s, m) /\ Open(page, m)
  BY <1>1, <1>4 DEF Races, Open
<1>6. Makes(s, StopPeers(s, {l})) /\ Makes(page, Answer(page, {l}))
  BY <1>4, <1>5, StopMakes, AnswerMakes
<1> QED
  BY <1>1, <1>3, <1>6, MakesFurther

\* The player's own loader, or the end of the budget, answers the load.
LEMMA AnsweredMakes ==
    ASSUME Good(page), NEW l \in Loaders, OriginEnds(l) \/ RecoveryTimer(l)
    PROVE  Makes(page, page')
<1>1. page' = Answer(page, {l}) /\ {l} \in SUBSET Loaders /\ But(page, {l})
  BY GoodBut DEF OriginEnds, RecoveryTimer, Step
<1>2. Open(page, l)
  BY DEF OriginEnds, RecoveryTimer, Good, Sound, Orderly, LoaderOrderly, Sourced, Open
<1>3. Makes(page, Answer(page, {l}))
  BY <1>1, <1>2, AnswerMakes
<1> QED
  BY <1>1, <1>3

LEMMA SetupMakes == ASSUME Good(page), NEW l \in Loaders, SetupTimer(l) PROVE Makes(page, page')
<1>1. page' = Fallback(page, l) /\ page.ld[l].plan \in Waiting /\ But(page, {l})
  BY GoodBut DEF SetupTimer, Step, Waiting
<1>2. Makes(page, Fallback(page, l))
  BY <1>1, FallbackMakes
<1> QED
  BY <1>1, <1>2

LEMMA WatchMakes == ASSUME Good(page), NEW l \in Loaders, WatchArms(l) PROVE Makes(page, page')
<1> DEFINE o == [page.ld[l] EXCEPT !.watch = "armed"]
           id == Id(page, l)
           s == [page EXCEPT !.ld = [page.ld EXCEPT ![l] = o], !.races = @ \union {id}]
           t == NewJob(s, l, "peer")
<1>1. /\ page' = t /\ page.ld[l].watch = "dormant"
      /\ \A j \in page.jobs : j.id # id
  BY DEF WatchArms, Step
<1>2. Typed(page) /\ Orderly(page, l) /\ Backed(page, l) /\ {l} \in SUBSET Loaders
  BY DEF Good, Sound
<1>3. /\ DOMAIN s = Fields /\ s.jobs = page.jobs /\ s.use = page.use /\ s.races = page.races \union {id}
      /\ s.ranges = page.ranges /\ s.fetches = page.fetches /\ s.asked = page.asked
      /\ s.ld = [page.ld EXCEPT ![l] = o]
  BY <1>2 DEF Typed, Fields
<1>4. /\ DOMAIN o = LoaderFields /\ o.watch = "armed" /\ o.plan = page.ld[l].plan
      /\ o.tok = page.ld[l].tok /\ o.claim = page.ld[l].claim /\ o.source = page.ld[l].source
  BY <1>2 DEF Typed, LoaderFields
<1>5. /\ id \in Ident /\ id.l = l /\ id.tok = page.ld[l].tok /\ page.ld[l].plan = "late"
      /\ page.ld[l].tok # 0
  BY <1>1, <1>2 DEF Id, Ident, Typed, Orderly, LoaderOrderly
<1> HIDE DEF o, s
<1>6. /\ DOMAIN s.ld = Loaders /\ s.ld[l] = o /\ \A m \in Loaders \ {l} : s.ld[m] = page.ld[m]
  BY <1>2, <1>3 DEF Typed
<1>7. Taken(s) = Taken(page) /\ Claims(s) = Claims(page) /\ Id(s, l) = id
  <2>1. Claims(s) = Claims(page)
    BY <1>4, <1>6 DEF Claims
  <2> QED
    BY <1>3, <1>4, <1>6, <2>1 DEF Taken, Id
<1>8. Typed(s)
  <2>1. \A m \in Loaders : DOMAIN s.ld[m] = LoaderFields /\ s.ld[m].tok \in Nat
    BY <1>2, <1>4, <1>6 DEF Typed
  <2>2. s.races \subseteq Ident
    BY <1>2, <1>3, <1>5 DEF Typed
  <2> QED
    BY <1>2, <1>3, <1>6, <1>7, <2>1, <2>2 DEF Typed
<1>9. Works(s, t, l, {"peer"})
  BY <1>8, OneJob
<1> HIDE DEF t, id
<1>10. /\ Typed(t) /\ t.ld = s.ld /\ t.asked = page.asked /\ t.races = page.races \union {id}
       /\ Taken(t) = Taken(page) /\ t.ranges = page.ranges /\ t.fetches = page.fetches
       /\ page.jobs \subseteq t.jobs /\ Job(id, "peer") \in t.jobs
       /\ \A j \in t.jobs : j \in page.jobs \/ j = Job(id, "peer")
  BY <1>3, <1>7, <1>9 DEF Works
<1>11. /\ DOMAIN Job(id, "peer") = JobFields /\ Job(id, "peer").id = id
       /\ Job(id, "peer").kind = "peer" /\ ~ Job(id, "peer").run /\ ~ Job(id, "peer").aborted
  BY JobFresh
<1>12. Others(page, t, {l})
  <2>1. \A j \in page.jobs \union t.jobs : j.id.l \notin {l} => (j \in page.jobs <=> j \in t.jobs)
    BY <1>5, <1>10, <1>11
  <2>2. \A m \in Loaders \ {l} : t.ld[m] = page.ld[m] /\ t.asked[m] = page.asked[m]
    BY <1>6, <1>10
  <2>3. \A i \in t.races : i.l \notin {l} => i \in page.races
    BY <1>5, <1>10
  <2> QED
    BY <1>10, <2>1, <2>2, <2>3 DEF Others
<1>13. Counted(page) => Counted(t)
  <2>1. Claims(t) = Claims(s)
    BY <1>10 DEF Claims
  <2> QED
    BY <1>7, <1>10, <2>1 DEF Counted
<1>14. /\ t.ld[l] = o /\ Id(t, l) = id /\ Open(t, l) /\ Races(t, l)
       /\ t.ld[l].plan \notin Waiting /\ id = Id(page, l)
  BY <1>4, <1>5, <1>6, <1>10 DEF Id, id, Open, Races, Waiting
<1>15. id \notin Taken(t)
  BY <1>1, <1>2, <1>10, <1>14 DEF Backed
<1>16. WorkKept(t, l)
  <2>1. ASSUME NEW j \in t.jobs, j.id.l = l PROVE JobOrderly(t, j)
    <3>1. CASE j \in page.jobs
      BY <1>2, <1>4, <1>14, <2>1, <3>1 DEF Orderly, WorkKept, JobOrderly
    <3>2. CASE j = Job(id, "peer")
      BY <1>5, <1>11, <1>14, <3>2 DEF JobOrderly
    <3> QED
      BY <1>10, <3>1, <3>2
  <2>2. ASSUME NEW h \in t.jobs, NEW i \in t.jobs, h.id = i.id, h.id.l = l, Peers(h), Peers(i)
        PROVE  h = i
    BY <1>1, <1>2, <1>10, <1>11, <2>2 DEF Orderly, WorkKept
  <2>3. \A i \in Taken(t) : i.l = l => i = Id(t, l)
    BY <1>2, <1>10, <1>14 DEF Orderly, WorkKept
  <2>4. \A i \in t.races : i.l = l => i = Id(t, l)
    BY <1>2, <1>10, <1>14 DEF Orderly, WorkKept
  <2> QED
    BY <2>1, <2>2, <2>3, <2>4 DEF WorkKept
<1>17. LoaderOrderly(t, l)
  BY <1>2, <1>4, <1>5, <1>14 DEF Orderly, LoaderOrderly
<1>18. Orderly(t, l)
  BY <1>14, <1>16, <1>17 DEF Orderly
<1>19. Backed(t, l)
  BY <1>10, <1>11, <1>14, <1>15 DEF Backed
<1>20. InTurn(t.asked[l], Open(t, l)) /\ Onward(page.asked[l], t.asked[l])
  <2>1. Open(page, l)
    BY <1>5 DEF Open
  <2> QED
    BY <1>10, <1>14, <2>1 DEF Good, History, InTurn, Onward
<1>21. Touches(page, t, {l})
  BY <1>10, <1>12, <1>13 DEF Touches
<1>22. Makes(page, t)
  BY <1>2, <1>18, <1>19, <1>20, <1>21, TouchesMakes, GoodBut
<1> QED
  BY <1>1, <1>22

\* Links, slots and counts that are dropped leave a sound page.
LEMMA LessMakes ==
    ASSUME NEW s, Good(s), NEW t, DOMAIN t = Fields, t.ld = s.ld, t.jobs = s.jobs,
           DOMAIN t.use = Links, Taken(t) \subseteq Taken(s), t.races \subseteq s.races,
           t.ranges = s.ranges, t.fetches \in Nat, t.asked = s.asked
    PROVE  Good(t) /\ Told(s, t) /\ (t.fetches = s.fetches => Makes(s, t))
<1>1. Typed(s)
  BY DEF Good, Sound
<1>2. Typed(t)
  BY <1>1 DEF Typed
<1>3. \A l \in Loaders : Orderly(t, l)
  <2> SUFFICES ASSUME NEW l \in Loaders PROVE Orderly(t, l)
    OBVIOUS
  <2>1. Orderly(s, l) /\ Like(s.ld[l], t.ld[l])
    BY <1>1 DEF Good, Sound, Typed, Like
  <2> QED
    BY <2>1, LikeOrderly
<1>4. \A l \in Loaders : Backed(t, l)
  BY DEF Good, Backed, Id
<1>5. History(t) /\ Told(s, t)
  BY DEF Good, History, Open, Told, Onward
<1>6. Good(t)
  BY <1>2, <1>3, <1>4, <1>5 DEF Good, Sound
<1>7. ASSUME t.fetches = s.fetches PROVE Counted(s) => Counted(t)
  BY <1>7 DEF Counted, Claims
<1> QED
  BY <1>5, <1>6, <1>7 DEF Makes

LEMMA LinkMakes ==
    ASSUME Good(page), NEW k \in Links, LinkOpens(k) \/ LinkCloses(k)
    PROVE  Makes(page, page')
<1> DEFINE t == [page EXCEPT !.use[k] = NoId]
<1>1. page' = page \/ page' = t
  BY DEF LinkOpens, LinkCloses
<1>2. Makes(page, page)
  BY DEF Makes, Told, Onward
<1>3. Typed(page)
  BY DEF Good, Sound
<1>4. /\ DOMAIN t = Fields /\ t.ld = page.ld /\ t.jobs = page.jobs /\ DOMAIN t.use = Links
      /\ t.races = page.races /\ t.ranges = page.ranges /\ t.fetches = page.fetches
      /\ t.asked = page.asked /\ \A i \in Links : t.use[i] = page.use[i] \/ t.use[i] = NoId
  BY <1>3 DEF Typed, Fields
<1> HIDE DEF t
<1>5. Taken(t) \subseteq Taken(page)
  BY <1>4 DEF Taken
<1>6. t.fetches \in Nat /\ t.races \subseteq page.races
  BY <1>3, <1>4 DEF Typed
<1>7. Makes(page, t)
  BY <1>4, <1>5, <1>6, LessMakes
<1> QED
  BY <1>1, <1>2, <1>7

LEMMA MovesMakes == ASSUME Good(page), PlayerMoves PROVE Makes(page, page')
<1> DEFINE L == {l \in Loaders : page.ld[l].watch \in {"dormant", "armed"}}
<1>1. page' = StopPeers(page, L) /\ L \in SUBSET Loaders
  BY DEF PlayerMoves, CloseWatches
<1>2. \A l \in L : Races(page, l)
  BY DEF Good, Sound, Orderly, LoaderOrderly, Races
<1> HIDE DEF L
<1>3. Makes(page, StopPeers(page, L))
  BY <1>1, <1>2, StopMakes, GoodBut
<1> QED
  BY <1>1, <1>3

LEMMA WithdrawMakes == ASSUME Good(page), Withdraw PROVE Makes(page, page')
<1> DEFINE L == {l \in Loaders : Id(page, l) \in page.races}
<1>1. page' = AbortPeers(page, L) /\ L \in SUBSET Loaders
  BY DEF Withdraw, AbortRaces
<1> HIDE DEF L
<1>2. Makes(page, AbortPeers(page, L))
  BY <1>1, AbortMakes
<1> QED
  BY <1>1, <1>2

\* A stop answers, sends to origin and frees the loads of the page in turn.
LEMMA LoadsStopped ==
    ASSUME NEW s, Good(s)
    PROVE  Good(StopLoads(s)) /\ Told(s, StopLoads(s))
<1> DEFINE waiting == {l \in Loaders : s.ld[l].plan \in {"peer", "steady", "mixed"}}
           spent == {l \in waiting : s.ld[l].plan # "peer" /\ s.ld[l].due = 2}
           others == waiting \ spent
           racing == {l \in Loaders : Races(s, l)}
           a == Answer(s, spent)
           b == StartWhole(a, others)
           c == StopPeers(b, racing)
<1>1. c = StopLoads(s)
  BY DEF StopLoads
<1>2. /\ spent \in SUBSET Loaders /\ others \in SUBSET Loaders /\ racing \in SUBSET Loaders
      /\ \A l \in spent : Open(s, l)
      /\ \A l \in others : l \in Loaders \ spent /\ s.ld[l].plan \in Waiting
      /\ \A l \in racing : l \in Loaders \ spent /\ l \notin others /\ Races(s, l)
  BY DEF Open, Races, Waiting
<1> HIDE DEF waiting, spent, others, racing
<1>3. Makes(s, a) /\ Touches(s, a, spent)
  <2>1. \A l \in spent : WorkKept(s, l) /\ InTurn(s.asked[l], TRUE)
    BY <1>2 DEF Good, Sound, Orderly, History, Open
  <2>2. Typed(s) /\ "answered" \in Answers
    BY DEF Good, Sound, Answers
  <2> DEFINE v == Over(s, spent, "answered")
  <2>3. Touches(s, v, spent)
    BY <1>2, <2>1, <2>2, LoadsOver
  <2>4. v = a
    BY DEF Over, Answer
  <2>5. Makes(s, a)
    BY <1>2, AnswerMakes, GoodBut
  <2> QED
    BY <2>3, <2>4, <2>5
<1> HIDE DEF a
<1>4. /\ Good(a) /\ \A l \in others : a.ld[l].plan \in Waiting
      /\ \A l \in racing : a.ld[l] = s.ld[l]
  BY <1>2, <1>3 DEF Makes, Touches, Others
<1>5. Makes(a, b) /\ Touches(a, b, others) /\ b.asked = a.asked
  <2>1. Makes(a, b)
    BY <1>2, <1>4, WholeMakes, GoodBut
  <2>2. \A l \in others : /\ WorkKept(a, l) /\ a.ld[l].tok # 0 /\ ~ a.ld[l].claim
                          /\ \A id \in a.races : id.l # l
    <3>1. Sound(a)
      BY <1>4 DEF Good
    <3> QED
      BY <1>2, <1>4, <3>1, WaitingBare
  <2>3. Typed(a)
    BY <1>4 DEF Good, Sound
  <2>4. Touches(a, b, others) /\ b.asked = a.asked
    BY <1>2, <2>2, <2>3, WholeStarted
  <2> QED
    BY <2>1, <2>4
<1> HIDE DEF b
<1>6. Good(b) /\ \A l \in racing : Races(b, l)
  <2>1. \A l \in racing : b.ld[l] = a.ld[l]
    BY <1>2, <1>5 DEF Touches, Others
  <2> QED
    BY <1>2, <1>4, <1>5, <2>1 DEF Makes, Races
<1>7. Makes(b, c)
  BY <1>2, <1>6, StopMakes, GoodBut
<1>8. c.asked = b.asked
  <2>1. Typed(b)
    BY <1>6 DEF Good, Sound
  <2> QED
    BY <1>2, <2>1, PeersStopped
<1> HIDE DEF c
<1>9. Good(c) /\ Told(s, c)
  BY <1>3, <1>5, <1>7, <1>8 DEF Makes, Told
<1> QED
  BY <1>1, <1>9

LEMMA StopTold == ASSUME Good(page), Stop PROVE Good(page') /\ Told(page, page')
<1> DEFINE s == StopLoads(page)
           t == [s EXCEPT !.use = [k \in Links |-> NoId], !.races = {}, !.fetches = 0]
<1>1. page' = t
  BY DEF Stop
<1>2. Good(s) /\ Told(page, s)
  BY LoadsStopped
<1> HIDE DEF s
<1>3. Typed(s)
  BY <1>2 DEF Good, Sound
<1>4. /\ DOMAIN t = Fields /\ t.ld = s.ld /\ t.jobs = s.jobs /\ t.use = [k \in Links |-> NoId]
      /\ t.races = {} /\ t.ranges = s.ranges /\ t.fetches = 0 /\ t.asked = s.asked
  BY <1>3 DEF Typed, Fields
<1> HIDE DEF t
<1>5. Taken(t) \subseteq Taken(s) /\ DOMAIN t.use = Links /\ t.races \subseteq s.races
      /\ t.fetches \in Nat
  BY <1>4 DEF Taken
<1>6. Good(t) /\ Told(s, t)
  BY <1>2, <1>4, <1>5, LessMakes
<1>7. Told(page, t)
  BY <1>2, <1>4 DEF Told
<1> QED
  BY <1>1, <1>6, <1>7

-----------------------------------------------------------------------------
(* Every step keeps the invariant and tells the player no more than it may.  *)
LEMMA InitKept == Init => IInv
<1> SUFFICES ASSUME Init PROVE IInv
  OBVIOUS
<1> DEFINE s == page
<1>1. /\ DOMAIN s = Fields /\ s.ld = [l \in Loaders |-> NewLoader] /\ s.jobs = {}
      /\ s.use = [k \in Links |-> NoId] /\ s.races = {} /\ s.ranges = {} /\ s.fetches = 0
      /\ s.asked = [l \in Loaders |-> [n \in 1 .. MaxLoads |-> "unasked"]]
  BY DEF Init, Fields
<1> HIDE DEF s
<1>2. Taken(s) = {} /\ Claims(s) = {}
  BY <1>1 DEF Taken, Claims, NewLoader
<1>3. \A l \in Loaders : /\ s.ld[l] = NewLoader /\ DOMAIN s.ld[l] = LoaderFields /\ s.ld[l].tok = 0
                         /\ s.ld[l].plan = "idle" /\ ~ s.ld[l].source /\ ~ s.ld[l].claim
                         /\ s.ld[l].watch = "none"
  BY <1>1 DEF NewLoader, LoaderFields
<1>4. Typed(s)
  <2>1. IsFiniteSet(s.jobs) /\ IsFiniteSet(s.ranges)
    BY <1>1, FS_EmptySet
  <2>2. s.asked \in [Loaders -> [1 .. MaxLoads -> Fates]]
    BY <1>1 DEF Fates
  <2> QED
    BY <1>1, <1>2, <1>3, <2>1, <2>2 DEF Typed
<1>5. \A l \in Loaders : Orderly(s, l) /\ Backed(s, l)
  <2> SUFFICES ASSUME NEW l \in Loaders PROVE Orderly(s, l) /\ Backed(s, l)
    OBVIOUS
  <2>1. LoaderOrderly(s, l)
    BY <1>3 DEF LoaderOrderly, Plan, Sourced
  <2>2. WorkKept(s, l)
    BY <1>1, <1>2 DEF WorkKept
  <2>3. Orderly(s, l)
    BY <1>1, <1>2, <2>1, <2>2 DEF Orderly
  <2> QED
    BY <1>1, <1>2, <1>3, <2>3 DEF Backed, Waiting
<1>6. History(s)
  <2> SUFFICES ASSUME NEW l \in Loaders PROVE InTurn(s.asked[l], Open(s, l))
    BY DEF History
  <2>1. ~ Open(s, l)
    BY <1>3 DEF Open
  <2>2. /\ 0 \in 0 .. MaxLoads
        /\ \A n \in 1 .. MaxLoads : s.asked[l][n] = "unasked" /\ n > 0 /\ ~ (n < 0)
    BY <1>1, LoaderAssumption
  <2> QED
    BY <2>1, <2>2 DEF InTurn
<1>7. Counted(s)
  BY <1>1, <1>2, FS_EmptySet DEF Counted
<1> QED
  BY <1>4, <1>5, <1>6, <1>7 DEF IInv, Good, Sound, s

LEMMA NextKept == ASSUME IInv, [Next]_vars PROVE IInv' /\ Told(page, page')
<1>1. Good(page) /\ (~ stopped => Counted(page))
  BY DEF IInv
<1>2. ASSUME Makes(page, page'), stopped' = stopped PROVE IInv' /\ Told(page, page')
  <2>1. (Good(page))' /\ (~ stopped' => (Counted(page))')
    BY <1>1, <1>2 DEF Makes
  <2> QED
    BY <1>2, <2>1 DEF IInv, Makes
<1>3. ASSUME NEW l \in Loaders, NEW plan \in Plans \union {"direct"}, Load(l, plan)
      PROVE  IInv' /\ Told(page, page')
  <2>1. stopped' = stopped
    BY <1>3 DEF Load, Step, Kept
  <2> QED
    BY <1>1, <1>2, <1>3, <2>1, LoadMakes
<1>4. ASSUME NEW l \in Loaders, Abort(l) \/ Destroy(l) PROVE IInv' /\ Told(page, page')
  <2>1. stopped' = stopped
    BY <1>4 DEF Abort, Destroy, Step, Kept
  <2>2. Makes(page, page')
    BY <1>1, <1>4, AbortOneMakes, DestroyMakes
  <2> QED
    BY <1>2, <2>1, <2>2
<1>5. ASSUME NEW l \in Loaders, WatchArms(l) \/ OriginProgress(l) \/ OriginEnds(l)
      PROVE  IInv' /\ Told(page, page')
  <2>1. stopped' = stopped
    BY <1>5 DEF WatchArms, OriginProgress, OriginEnds, Step, Kept
  <2>2. Makes(page, page')
    BY <1>1, <1>5, WatchMakes, ProgressMakes, AnsweredMakes
  <2> QED
    BY <1>2, <2>1, <2>2
<1>6. ASSUME NEW l \in Loaders,
             TimePasses(l) \/ DeadlineTimer(l) \/ SetupTimer(l) \/ RecoveryTimer(l)
      PROVE  IInv' /\ Told(page, page')
  <2>1. stopped' = stopped
    BY <1>6 DEF TimePasses, DeadlineTimer, SetupTimer, RecoveryTimer, Step, Kept
  <2>2. Makes(page, page')
    BY <1>1, <1>6, TimeMakes, DeadlineMakes, SetupMakes, AnsweredMakes
  <2> QED
    BY <1>2, <2>1, <2>2
<1>7. ASSUME NEW j \in page.jobs, JobEnds(j) PROVE IInv' /\ Told(page, page')
  <2>1. stopped' = stopped
    BY <1>7 DEF JobEnds, KeyKnown, WaitEnds, PeerEnds, Step, Kept
  <2>2. Makes(page, page')
    BY <1>1, <1>7, KeyMakes, WaitMakes, PeerMakes DEF JobEnds
  <2> QED
    BY <1>2, <2>1, <2>2
<1>8. ASSUME NEW j \in page.jobs, RangeBegins(j) PROVE IInv' /\ Told(page, page')
  <2>1. stopped' = stopped
    BY <1>8 DEF RangeBegins, Step, Kept
  <2> QED
    BY <1>1, <1>2, <1>8, <2>1, RangeMakes
<1>9. ASSUME NEW j \in page.jobs, NEW links \in SUBSET Links, NEW multi \in BOOLEAN,
             Take(j, links, multi)
      PROVE  IInv' /\ Told(page, page')
  <2>1. stopped' = stopped
    BY <1>9 DEF Take, Step, Kept
  <2> QED
    BY <1>1, <1>2, <1>9, <2>1, TakeMakes
<1>10. ASSUME NEW k \in Links, LinkOpens(k) \/ LinkCloses(k) PROVE IInv' /\ Told(page, page')
  <2>1. stopped' = stopped
    BY <1>10 DEF LinkOpens, LinkCloses
  <2> QED
    BY <1>1, <1>2, <1>10, <2>1, LinkMakes
<1>11. CASE PlayerMoves \/ Withdraw
  <2>1. stopped' = stopped
    BY <1>11 DEF PlayerMoves, Withdraw
  <2>2. Makes(page, page')
    BY <1>1, <1>11, MovesMakes, WithdrawMakes
  <2> QED
    BY <1>2, <2>1, <2>2
<1>12. CASE Stop
  <2>1. Good(page') /\ Told(page, page')
    BY <1>1, <1>12, StopTold
  <2>2. stopped'
    BY <1>12 DEF Stop
  <2> QED
    BY <2>1, <2>2 DEF IInv
<1>13. CASE UNCHANGED vars
  <2>1. page' = page /\ stopped' = stopped
    BY <1>13 DEF vars
  <2>2. Makes(page, page')
    BY <1>1, <2>1 DEF Makes, Told, Onward
  <2> QED
    BY <1>2, <2>1, <2>2
<1> QED
  BY <1>3, <1>4, <1>5, <1>6, <1>7, <1>8, <1>9, <1>10, <1>11, <1>12, <1>13 DEF Next

LEMMA Invariant == Spec => []IInv
<1>1. IInv /\ [Next]_vars => IInv'
  BY NextKept
<1> QED
  BY <1>1, InitKept, PTL DEF Spec

\* Whatever a load of the player takes, claims, links and race slots, it has
\* given back when it ends (hls-swarm.mjs: releaseFetch, releaseOrigin,
\* peerLeases and cachedRaces), whichever plan it ended in.
THEOREM NothingIsKept == Spec => []NothingKept
<1>1. IInv => NothingKept
  <2> SUFFICES ASSUME IInv PROVE NothingKept
    OBVIOUS
  <2>1. Good(page) /\ Typed(page) /\ \A l \in Loaders : Orderly(page, l) /\ Backed(page, l)
    BY DEF IInv, Good, Sound
  <2>2. ~ stopped => page.fetches = Cardinality(page.ranges)
                                    + Cardinality({l \in Loaders : page.ld[l].claim})
    BY DEF IInv, Counted, Claims
  <2>3. \A l \in Loaders : page.ld[l].claim => page.ld[l].source
    BY <2>1 DEF Orderly, LoaderOrderly
  <2>4. ASSUME NEW id \in page.ranges \union ({page.use[k] : k \in Links} \ {NoId})
        PROVE  \E j \in page.jobs : j.id = id /\ j.run /\ ~ j.aborted
    <3>1. id \in Taken(page) /\ id.l \in Loaders
      BY <2>1 DEF Typed, Taken, Ident
    <3>2. id = Id(page, id.l)
      BY <2>1, <3>1 DEF Orderly, WorkKept
    <3>3. PICK j \in page.jobs : j.id = id /\ j.run
      BY <2>1, <3>1, <3>2 DEF Backed
    <3>4. ~ j.aborted
      BY <2>1, <3>1, <3>3 DEF Orderly, WorkKept, JobOrderly
    <3> QED
      BY <3>3, <3>4
  <2>5. ASSUME NEW id \in page.races
        PROVE  Id(page, id.l) = id /\ Races(page, id.l)
               /\ \E j \in page.jobs : j.id = id /\ j.kind = "peer"
    <3>1. id.l \in Loaders
      BY <2>1 DEF Typed, Ident
    <3>2. id = Id(page, id.l)
      BY <2>1, <3>1 DEF Orderly, WorkKept
    <3> QED
      BY <2>1, <3>1, <3>2 DEF Orderly, Backed
  <2> QED
    BY <2>2, <2>3, <2>4, <2>5 DEF NothingKept
<1> QED
  BY <1>1, Invariant, PTL

\* While a load is open somebody ends it: the player's own loader, or a wait
\* for peers that settles of itself (the plans of #peerFirstLoader).
THEOREM NoLoadStranded == Spec => []NeverStranded
<1>1. IInv => NeverStranded
  <2> SUFFICES ASSUME IInv, NEW l \in Loaders, Open(page, l), ~ page.ld[l].source
               PROVE  \E j \in page.jobs : j.id = Id(page, l) /\ j.kind \in {"peer", "wait"}
    BY DEF NeverStranded
  <2>1. page.ld[l].plan \in Waiting /\ Backed(page, l)
    BY OpenWaits DEF IInv, Good
  <2> QED
    BY <2>1 DEF Backed, Peers
<1> QED
  BY <1>1, Invariant, PTL

\* Each load asked for is answered once, none after the loader was given up,
\* through every change of plan: the page implements LoadContract.
THEOREM LoadsAnsweredOnce == Spec => AnsweredOnce
<1>1. Init => Contract!Init
  BY DEF Init, Contract!Init, Contract!Loads
<1>2. ASSUME IInv, [Next]_vars PROVE [Contract!Next]_(page.asked)
  <2>1. IInv' /\ Told(page, page')
    BY <1>2, NextKept
  <2>2. page'.asked \in [Loaders -> [1 .. MaxLoads -> Fates]] /\ History(page')
    BY <2>1 DEF IInv, Good, Sound, Typed
  <2>3. \A l \in Loaders, n \in 1 .. MaxLoads :
          page'.asked[l][n] # page.asked[l][n]
             => <<page.asked[l][n], page'.asked[l][n]>> \in Contract!Moves
    BY <2>1 DEF Told, Onward
  <2>4. Contract!InOrder(page'.asked)
    <3> SUFFICES ASSUME NEW l \in Loaders, NEW n \in 1 .. MaxLoads, n + 1 \in 1 .. MaxLoads,
                        page'.asked[l][n + 1] # "unasked"
                 PROVE  page'.asked[l][n] \in {"answered", "dropped"}
      BY DEF Contract!InOrder, Contract!Loads
    <3>0. MaxLoads \in Nat
      BY LoaderAssumption
    <3>1. PICK m \in 0 .. MaxLoads :
            /\ \A q \in 1 .. MaxLoads : page'.asked[l][q] = "unasked" <=> q > m
            /\ \A q \in 1 .. MaxLoads : q < m => page'.asked[l][q] \in Answers
      BY <2>2 DEF History, InTurn
    <3> QED
      BY <3>0, <3>1 DEF Answers
  <2> QED
    BY <2>2, <2>3, <2>4 DEF Contract!Next, Contract!Loads, Contract!Fates, Fates
<1> QED
  BY <1>1, <1>2, Invariant, PTL DEF Spec, AnsweredOnce, Contract!Spec
=============================================================================
