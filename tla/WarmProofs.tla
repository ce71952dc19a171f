----------------------------- MODULE WarmProofs -----------------------------
(***************************************************************************)
(* Loading ahead of the player, for all values of the constants of         *)
(* WarmAhead: no load is stranded, no pin outlives the wait it was taken   *)
(* for, each load is answered once (the refinement of LoadContract), and   *)
(* what is held and fetched ahead stays within its bounds.                 *)
(***************************************************************************)
EXTENDS WarmAhead, FiniteSetTheorems, WellFoundedInduction, TLAPS

Fields == {"ld", "conts", "demand", "jobs", "active", "queue", "cache", "latest", "declined",
           "due", "asked"}
Ends == {"row", "null", "fail"}
Fates == {"unasked", "open", "answered", "dropped"}
Answers == {"answered", "dropped"}

LoaderFields == {"token", "open", "k", "src", "reuse", "won", "pin"}
LoaderStates(ld) ==
    DOMAIN ld = Loaders /\ \A l \in Loaders : DOMAIN ld[l] = LoaderFields /\ ld[l].token \in Nat
Promise == [l : Loaders, id : Nat \ {0}, k : Items, got : {"pending", "auth"} \union Ends]
Demand == [l : Loaders, id : Nat \ {0}, k : Items]
JobFields == {"at", "dead", "by", "up", "size", "re", "seen"}
Jobs(jobs) == DOMAIN jobs = Items /\ \A k \in Items : DOMAIN jobs[k] = JobFields

\* The fields that decide what becomes of a load.
Typed(s) ==
    /\ DOMAIN s = Fields
    /\ LoaderStates(s.ld)
    /\ s.conts \subseteq Promise
    /\ s.demand \subseteq Loaders
    /\ Jobs(s.jobs)
    /\ s.latest \subseteq Demand
    /\ s.asked \in [Loaders -> [1 .. MaxLoads -> Fates]]

\* Loads are asked for one after another, and only the last can be open.
InTurn(a, open) ==
    \E m \in 0 .. MaxLoads :
        /\ \A n \in 1 .. MaxLoads : a[n] = "unasked" <=> n > m
        /\ \A n \in 1 .. MaxLoads : n < m => a[n] \in Answers
        /\ m > 0 => IF open THEN a[m] = "open" ELSE a[m] \in Answers
        /\ open => m > 0

\* The ids that something still refers to: never more than loads asked for,
\* so that a new load finds one of its own.
Promises(s, l) == {c \in s.conts : c.l = l}
Demands(s, l) == {d \in s.latest : d.l = l}
Ids(s, l) == {c.id : c \in Promises(s, l)} \union {d.id : d \in Demands(s, l)}
             \union ({s.ld[l].token} \ {0})
Counted(s, l) == IsFiniteSet(Ids(s, l)) /\ Cardinality(Ids(s, l)) <= Asked(s, l)

\* What a wrapped loader's own state says of it.
LoaderOrderly(s, l) ==
    /\ s.ld[l].open => s.ld[l].token # 0
    /\ s.ld[l].reuse => s.ld[l].open
    /\ s.ld[l].pin # {} => s.ld[l].reuse /\ s.ld[l].won = "none" /\ s.ld[l].pin = {s.ld[l].k}
    /\ s.ld[l].open /\ (s.ld[l].src \/ s.ld[l].won # "none") => l \in s.demand
    /\ l \in s.demand => s.ld[l].src

\* A promise that has not come to the authority yet finds its load as it was
\* when it began to wait.
Undecided(s, l, k) ==
    /\ s.ld[l].reuse /\ s.ld[l].won = "none" /\ ~s.ld[l].src
    /\ s.ld[l].pin = {} /\ s.ld[l].k = k
PromiseOrderly(s, c) ==
    /\ c.got = "pending" => s.jobs[c.k].at # "none"
    /\ Current(s, c) /\ c.got # "auth" => Undecided(s, c.l, c.k)

Orderly(s, l) ==
    /\ LoaderOrderly(s, l)
    /\ InTurn(s.asked[l], s.ld[l].open)
    /\ Counted(s, l)
    /\ \A c \in Promises(s, l) : PromiseOrderly(s, c)
    /\ \A c, d \in Promises(s, l) : c.id = d.id => c = d

\* The inductive invariant.  NeverStranded alone is not inductive: a load is
\* answered or resumed when a promise settles, so the promise has to be the
\* only one of its load and has to find it undecided.
Core(s) == Typed(s) /\ \A l \in Loaders : Orderly(s, l)
Waits(s, l) ==
    s.ld[l].open => l \in s.demand \/ \E c \in Promises(s, l) : Current(s, c)
IInv == Core(w) /\ \A l \in Loaders : Waits(w, l)

-----------------------------------------------------------------------------
(* What the history says.                                                   *)

LEMMA AskedCounts ==
    ASSUME NEW s, NEW l \in Loaders, NEW m \in 0 .. MaxLoads,
           \A n \in 1 .. MaxLoads : s.asked[l][n] = "unasked" <=> n > m
    PROVE  Asked(s, l) = m
<1>0. MaxLoads \in Nat
  BY WarmAssumption
<1>1. {n \in 1 .. MaxLoads : s.asked[l][n] # "unasked"} = 1 .. m
  BY <1>0
<1>2. Cardinality(1 .. m) = m
  BY <1>0, FS_Interval
<1> QED
  BY <1>1, <1>2 DEF Asked

LEMMA FewerIds ==
    ASSUME NEW s, NEW t, NEW l \in Loaders, Counted(s, l), Ids(t, l) \subseteq Ids(s, l),
           \A n \in 1 .. MaxLoads : t.asked[l][n] = "unasked" <=> s.asked[l][n] = "unasked"
    PROVE  Counted(t, l)
<1>1. Asked(t, l) = Asked(s, l)
  BY DEF Asked
<1>2. Asked(s, l) \in Nat
  <2>1. IsFiniteSet(1 .. MaxLoads)
    BY FS_Interval, WarmAssumption
  <2>2. {n \in 1 .. MaxLoads : s.asked[l][n] # "unasked"} \subseteq 1 .. MaxLoads
    OBVIOUS
  <2> QED
    BY <2>1, <2>2, FS_Subset, FS_CardinalityType DEF Asked
<1>3. IsFiniteSet(Ids(t, l)) /\ Cardinality(Ids(t, l)) <= Cardinality(Ids(s, l))
      /\ Cardinality(Ids(t, l)) \in Nat /\ Cardinality(Ids(s, l)) \in Nat
  BY FS_Subset, FS_CardinalityType DEF Counted
<1> QED
  BY <1>1, <1>2, <1>3 DEF Counted

-----------------------------------------------------------------------------
(* Calls that leave every load's own state alone.                           *)

\* Promises may settle, and a demand may be noted of a load that is there.
Settled(c, d) ==
    /\ d \in Promise /\ d.l = c.l /\ d.id = c.id /\ d.k = c.k
    /\ \/ d.got = c.got
       \/ c.got = "pending" /\ d.got \in Ends
Quiet(s, t) ==
    /\ DOMAIN t = Fields
    /\ t.ld = s.ld /\ t.demand = s.demand /\ t.asked = s.asked
    /\ Jobs(t.jobs)
    /\ \A d \in t.latest : d \in Demand /\ (d \in s.latest \/ d.id = s.ld[d.l].token)
    /\ \A d \in t.conts : \E c \in s.conts : Settled(c, d)
    /\ \A c \in s.conts : \E d \in t.conts : Settled(c, d)
    /\ \A c \in t.conts : c.got = "pending" /\ s.jobs[c.k].at # "none" => t.jobs[c.k].at # "none"
    /\ \A c, d \in t.conts :
          /\ c.l = d.l /\ c.id = d.id
          /\ \A p, q \in s.conts : p.l = c.l /\ q.l = c.l /\ p.id = q.id => p = q
          => c = d

LEMMA SettledTransitive ==
    ASSUME NEW c, NEW d, NEW e, Settled(c, d), Settled(d, e) PROVE Settled(c, e)
BY DEF Settled, Ends

LEMMA SettledSelf == \A c \in Promise : Settled(c, c)
BY DEF Settled

LEMMA QuietSelf == ASSUME NEW s, Typed(s) PROVE Quiet(s, s)
BY SettledSelf DEF Quiet, Typed

LEMMA QuietTransitive ==
    ASSUME NEW s, NEW t, NEW u, Quiet(s, t), Quiet(t, u) PROVE Quiet(s, u)
<1>1. \A d \in u.conts : \E c \in s.conts : Settled(c, d)
  BY SettledTransitive DEF Quiet
<1>2. \A c \in s.conts : \E d \in u.conts : Settled(c, d)
  BY SettledTransitive DEF Quiet
<1>3. \A c \in u.conts : c.got = "pending" => \E d \in t.conts : d.got = "pending" /\ d.k = c.k
  <2> SUFFICES ASSUME NEW c \in u.conts, c.got = "pending"
               PROVE  \E d \in t.conts : d.got = "pending" /\ d.k = c.k
    OBVIOUS
  <2>1. PICK d \in t.conts : Settled(d, c)
    BY DEF Quiet
  <2> QED
    BY <2>1 DEF Settled, Ends
<1>4. \A c \in u.conts : c.got = "pending" /\ s.jobs[c.k].at # "none" => u.jobs[c.k].at # "none"
  BY <1>3 DEF Quiet
<1>5. ASSUME NEW c \in u.conts, NEW d \in u.conts, c.l = d.l, c.id = d.id,
             \A p, q \in s.conts : p.l = c.l /\ q.l = c.l /\ p.id = q.id => p = q
      PROVE  c = d
  <2>1. ASSUME NEW p \in t.conts, NEW q \in t.conts, p.l = c.l, q.l = c.l, p.id = q.id
        PROVE  p = q
    BY <1>5, <2>1 DEF Quiet
  <2> QED
    BY <1>5, <2>1 DEF Quiet
<1>6. \A d \in u.latest : d \in Demand /\ (d \in s.latest \/ d.id = s.ld[d.l].token)
  BY DEF Quiet
<1> QED
  BY <1>1, <1>2, <1>4, <1>5, <1>6 DEF Quiet

LEMMA QuietTyped == ASSUME NEW s, NEW t, Typed(s), Quiet(s, t) PROVE Typed(t)
BY DEF Quiet, Typed, Settled

\* A quiet call keeps everything that is said of a load.
LEMMA QuietOrderly ==
    ASSUME NEW s, NEW t, Typed(s), Quiet(s, t), NEW l \in Loaders, Orderly(s, l)
    PROVE  Orderly(t, l)
<1>1. LoaderOrderly(t, l) /\ InTurn(t.asked[l], t.ld[l].open)
  BY DEF Quiet, Orderly, LoaderOrderly
<1>2. Counted(t, l)
  <2>1. Ids(t, l) \subseteq Ids(s, l)
    BY DEF Quiet, Ids, Promises, Demands, Settled, Demand
  <2> QED
    BY <2>1, FewerIds DEF Quiet, Orderly
<1>3. ASSUME NEW d \in Promises(t, l) PROVE PromiseOrderly(t, d)
  <2>1. PICK c \in s.conts : Settled(c, d)
    BY DEF Quiet, Promises
  <2>2. PromiseOrderly(s, c) /\ c.l = l /\ d.l = l
    BY <2>1 DEF Orderly, Settled, Promises
  <2>3. d.got = "pending" => c.got = "pending" /\ c.k = d.k
    BY <2>1 DEF Settled, Ends
  <2>4. d.got = "pending" => t.jobs[d.k].at # "none"
    BY <2>2, <2>3 DEF PromiseOrderly, Quiet, Promises
  <2>5. Current(t, d) /\ d.got # "auth" => Undecided(t, d.l, d.k)
    BY <2>1, <2>2 DEF PromiseOrderly, Quiet, Settled, Current, Undecided
  <2> QED
    BY <2>4, <2>5 DEF PromiseOrderly
<1>4. \A c, d \in Promises(t, l) : c.id = d.id => c = d
  BY DEF Quiet, Orderly, Promises
<1> QED
  BY <1>1, <1>2, <1>3, <1>4 DEF Orderly

LEMMA QuietWaits ==
    ASSUME NEW s, NEW t, Quiet(s, t), NEW l \in Loaders, Waits(s, l)
    PROVE  Waits(t, l)
BY DEF Quiet, Waits, Settled, Promises, Current

LEMMA QuietCore ==
    ASSUME NEW s, NEW t, Core(s), Quiet(s, t)
    PROVE  Core(t)
BY QuietTyped, QuietOrderly DEF Core

\* A fetch that ends settles the promises that wait on it.
LEMMA FinishQuiet ==
    ASSUME NEW s, Typed(s), NEW K, NEW got \in Ends
    PROVE  Quiet(s, Finish(s, K, got))
<1> DEFINE t == Finish(s, K, got)
           F(c) == IF c.k \in K /\ c.got = "pending" THEN [c EXCEPT !.got = got] ELSE c
<1>1. /\ DOMAIN t = Fields /\ t.ld = s.ld /\ t.demand = s.demand /\ t.asked = s.asked
      /\ t.latest = s.latest
      /\ t.jobs = [k \in Items |-> IF k \in K THEN NoJob ELSE s.jobs[k]]
      /\ t.conts = {F(c) : c \in s.conts}
  BY DEF Finish, Typed, Fields
<1>2. DOMAIN NoJob = JobFields
  BY DEF NoJob, JobFields
<1>3. Jobs(t.jobs)
  BY <1>1, <1>2 DEF Typed, Jobs
<1>4. \A c \in s.conts : F(c) \in t.conts /\ Settled(c, F(c)) /\ F(c).l = c.l /\ F(c).id = c.id
                         /\ (F(c).got = "pending" => F(c) = c /\ c.k \notin K)
  BY <1>1 DEF Settled, Typed, Promise, Ends
<1>5. \A d \in t.conts : \E c \in s.conts : d = F(c)
  BY <1>1
<1> HIDE DEF F
<1>6. ASSUME NEW c \in t.conts, c.got = "pending", s.jobs[c.k].at # "none"
      PROVE  t.jobs[c.k].at # "none"
  <2>1. c \in s.conts /\ c.k \notin K /\ c.k \in Items
    BY <1>4, <1>5, <1>6 DEF Typed, Promise
  <2> QED
    BY <1>1, <1>6, <2>1
<1>7. \A d \in t.latest : d \in Demand /\ d \in s.latest
  BY <1>1 DEF Typed
<1> QED
  BY <1>1, <1>3, <1>4, <1>5, <1>6, <1>7 DEF Quiet

\* So does what only moves fetches, the plan and the verified bytes.
LEMMA RestQuiet ==
    ASSUME NEW s, NEW t, Typed(s), DOMAIN t = Fields,
           t.ld = s.ld, t.demand = s.demand, t.asked = s.asked, t.conts = s.conts,
           \A d \in t.latest : d \in Demand /\ (d \in s.latest \/ d.id = s.ld[d.l].token),
           Jobs(t.jobs),
           \A k \in Items : s.jobs[k].at # "none" => t.jobs[k].at # "none"
    PROVE  Quiet(s, t)
BY SettledSelf DEF Quiet, Typed, Promise

LEMMA CancelQuiet ==
    ASSUME NEW s, Typed(s), NEW K PROVE Quiet(s, Cancel(s, K))
<1> DEFINE hit == {k \in K : Live(s, k)}
           s1 == [s EXCEPT !.jobs = [k \in Items |-> IF k \in hit THEN [@[k] EXCEPT !.dead = TRUE] ELSE @[k]]]
<1>1. Cancel(s, K) = Finish(s1, {k \in hit : s.jobs[k].at = "load"}, "null")
  BY DEF Cancel
<1> HIDE DEF hit
<1>2. /\ DOMAIN s1 = Fields /\ s1.ld = s.ld /\ s1.demand = s.demand /\ s1.asked = s.asked
      /\ s1.conts = s.conts /\ s1.latest = s.latest
      /\ s1.jobs = [k \in Items |-> IF k \in hit THEN [s.jobs[k] EXCEPT !.dead = TRUE] ELSE s.jobs[k]]
  BY DEF Typed, Fields
<1> HIDE DEF s1
<1>3. \A k \in Items : DOMAIN s1.jobs[k] = JobFields /\ s1.jobs[k].at = s.jobs[k].at
  BY <1>2 DEF Typed, Jobs, JobFields
<1>4. Jobs(s1.jobs)
  BY <1>2, <1>3 DEF Jobs
<1>5. Quiet(s, s1)
  <2>1. \A d \in s1.latest : d \in Demand /\ d \in s.latest
    BY <1>2 DEF Typed
  <2> QED
    BY <1>2, <1>3, <1>4, <2>1, RestQuiet
<1>6. Typed(s1)
  BY <1>5, QuietTyped
<1>7. Quiet(s1, Cancel(s, K))
  BY <1>1, <1>6, FinishQuiet DEF Ends
<1> QED
  BY <1>5, <1>7, QuietTransitive

LEMMA LeaveQuiet ==
    ASSUME NEW s, Typed(s), NEW l PROVE Quiet(s, Leave(s, l))
<1> DEFINE s1 == [s EXCEPT !.jobs = [k \in Items |-> [s.jobs[k] EXCEPT !.by = @ \ {l}]]]
<1>1. \E left : Leave(s, l) = Cancel(s1, left)
  BY DEF Leave
<1>2. /\ DOMAIN s1 = Fields /\ s1.ld = s.ld /\ s1.demand = s.demand /\ s1.asked = s.asked
      /\ s1.conts = s.conts /\ s1.latest = s.latest
      /\ s1.jobs = [k \in Items |-> [s.jobs[k] EXCEPT !.by = s.jobs[k].by \ {l}]]
  BY DEF Typed, Fields
<1> HIDE DEF s1
<1>3. \A k \in Items : DOMAIN s1.jobs[k] = JobFields /\ s1.jobs[k].at = s.jobs[k].at
  BY <1>2 DEF Typed, Jobs, JobFields
<1>4. Jobs(s1.jobs)
  BY <1>2, <1>3 DEF Jobs
<1>5. Quiet(s, s1)
  <2>1. \A d \in s1.latest : d \in Demand /\ d \in s.latest
    BY <1>2 DEF Typed
  <2> QED
    BY <1>2, <1>3, <1>4, <2>1, RestQuiet
<1>6. Typed(s1)
  BY <1>5, QuietTyped
<1> QED
  BY <1>1, <1>5, <1>6, CancelQuiet, QuietTransitive

LEMMA PlanQuiet ==
    ASSUME NEW s, NEW t, Typed(s), DOMAIN t = Fields, t.ld = s.ld, t.demand = s.demand,
           t.asked = s.asked, t.conts = s.conts, t.jobs = s.jobs,
           t.latest = s.latest \/ t.latest = {}
    PROVE  Quiet(s, t)
<1>1. \A d \in t.latest : d \in Demand /\ d \in s.latest
  BY DEF Typed
<1> QED
  BY <1>1, RestQuiet DEF Typed

LEMMA WithoutQuiet ==
    ASSUME NEW s, Typed(s), NEW K PROVE Quiet(s, Without(s, K))
<1>1. LET t == Without(s, K)
      IN  /\ DOMAIN t = Fields /\ t.ld = s.ld /\ t.demand = s.demand /\ t.asked = s.asked
          /\ t.conts = s.conts /\ t.latest = s.latest /\ t.jobs = s.jobs
  BY DEF Without, Typed, Fields
<1> QED
  BY <1>1, PlanQuiet

\* A set of numbers that is not empty has a least one.
LEMMA LeastOfSet ==
    ASSUME NEW T \in SUBSET Nat, T # {} PROVE \E m \in T : \A x \in T : m <= x
<1> DEFINE R == {p \in Nat \X Nat : p[1] < p[2]}
<1>1. R = OpToRel(<, Nat)
  BY DEF OpToRel
<1>2. IsWellFoundedOn(R, Nat)
  BY <1>1, NatLessThanWellFounded
<1>3. \A x, y \in Nat : x < y => <<x, y>> \in R
  OBVIOUS
<1> HIDE DEF R
<1>4. PICK m \in T : \A x \in T : ~ (<<x, m>> \in R)
  BY <1>2, WFMin
<1>5. ASSUME NEW x \in T PROVE m <= x
  <2>1. x \in Nat /\ m \in Nat
    BY <1>4
  <2>2. ~ (x < m)
    BY <1>3, <1>4, <2>1
  <2> QED
    BY <2>1, <2>2
<1> QED
  BY <1>5

\* An id that nothing refers to is left.
LEMMA NewTokenIsNew ==
    ASSUME NEW s, NEW l \in Loaders, Typed(s), Counted(s, l), Asked(s, l) \in 0 .. MaxLoads
    PROVE  NewToken(s, l) \in Nat \ {0} /\ NewToken(s, l) \notin {c.id : c \in Promises(s, l)}
<1> DEFINE P == {c.id : c \in Promises(s, l)} \union {d.id : d \in Demands(s, l)}
           F == (1 .. MaxLoads + 1) \ P
<1>0. MaxLoads \in Nat
  BY WarmAssumption
<1>1. NewToken(s, l) = Min(F)
  BY DEF NewToken, Promises, Demands
<1>2. P \subseteq Ids(s, l)
  BY DEF Ids
<1> HIDE DEF P
<1>3. IsFiniteSet(P) /\ Cardinality(P) <= MaxLoads /\ Cardinality(P) \in Nat
  <2>1. IsFiniteSet(P) /\ Cardinality(P) <= Cardinality(Ids(s, l)) /\ Cardinality(Ids(s, l)) \in Nat
        /\ Cardinality(P) \in Nat
    BY <1>2, FS_Subset, FS_CardinalityType DEF Counted
  <2> QED
    BY <1>0, <2>1 DEF Counted
<1>4. F # {}
  <2> SUFFICES ASSUME F = {} PROVE FALSE
    OBVIOUS
  <2>1. 1 .. MaxLoads + 1 \subseteq P
    OBVIOUS
  <2>2. Cardinality(1 .. MaxLoads + 1) = MaxLoads + 1
    BY <1>0, FS_Interval
  <2>3. Cardinality(1 .. MaxLoads + 1) <= Cardinality(P)
    BY <1>3, <2>1, FS_Subset
  <2> QED
    BY <1>0, <1>3, <2>2, <2>3
<1>5. F \subseteq Nat
  BY <1>0
<1> HIDE DEF F
<1>6. Min(F) \in F
  <2>1. \E x \in F : \A y \in F : x <= y
    BY <1>4, <1>5, LeastOfSet
  <2> QED
    BY <2>1 DEF Min
<1> QED
  BY <1>0, <1>1, <1>6 DEF F, P

-----------------------------------------------------------------------------
(* The calls that make a load's plan and join it to a fetch.                *)

LEMMA NoteQuiet ==
    ASSUME NEW s, Typed(s), NEW l \in Loaders, NEW k \in Items, s.ld[l].token # 0
    PROVE  Quiet(s, Note(s, l, k))
<1> DEFINE s1 == [s EXCEPT !.latest = {}, !.declined = {}]
           K == Items \ ({k} \union Upcoming(k))
           s2 == Cancel(Without(s1, K), K)
<1>1. Quiet(s, s1) /\ Typed(s1)
  <2>1. /\ DOMAIN s1 = Fields /\ s1.ld = s.ld /\ s1.demand = s.demand /\ s1.asked = s.asked
        /\ s1.conts = s.conts /\ s1.latest = {} /\ s1.jobs = s.jobs
    BY DEF Typed, Fields
  <2> QED
    BY <2>1, PlanQuiet, QuietTyped
<1> HIDE DEF s1
<1>2. Quiet(s, s2) /\ Typed(s2)
  BY <1>1, WithoutQuiet, CancelQuiet, QuietTransitive, QuietTyped
<1>3. PICK queue : Note(s, l, k) = IF closed THEN s1
                                   ELSE [s2 EXCEPT !.queue = queue,
                                                   !.latest = {[l |-> l, id |-> s.ld[l].token, k |-> k]}]
  BY DEF Note, s1
<1>4. CASE closed
  BY <1>1, <1>3, <1>4
<1>5. CASE ~closed
  <2> HIDE DEF s2
  <2> DEFINE t == [s2 EXCEPT !.queue = queue, !.latest = {[l |-> l, id |-> s.ld[l].token, k |-> k]}]
  <2>1. /\ DOMAIN t = Fields /\ t.ld = s2.ld /\ t.demand = s2.demand /\ t.asked = s2.asked
        /\ t.conts = s2.conts /\ t.jobs = s2.jobs
        /\ t.latest = {[l |-> l, id |-> s.ld[l].token, k |-> k]}
    BY <1>2 DEF Typed, Fields
  <2>2. s2.ld = s.ld
    BY <1>2 DEF Quiet
  <2>3. \A d \in t.latest : d \in Demand /\ d.id = s2.ld[d.l].token
    BY <2>1, <2>2 DEF Demand, Typed, LoaderStates
  <2> HIDE DEF t
  <2>4. Quiet(s2, t)
    BY <1>2, <2>1, <2>3, RestQuiet DEF Typed
  <2> QED
    BY <1>2, <1>3, <1>5, <2>4, QuietTransitive DEF t
<1> QED
  BY <1>4, <1>5

LEMMA JoinQuiet ==
    ASSUME NEW s, Typed(s), NEW l, NEW k \in Items
    PROVE  Quiet(s, Join(s, l, k)) /\ \A n \in Items : Join(s, l, k).jobs[n].at = s.jobs[n].at
<1> DEFINE s1 == [s EXCEPT !.jobs[k].by = @ \union {l}]
           s2 == [s1 EXCEPT !.active = {}, !.jobs[k].up = TRUE]
<1>1. /\ DOMAIN s1 = Fields /\ s1.ld = s.ld /\ s1.demand = s.demand /\ s1.asked = s.asked
      /\ s1.conts = s.conts /\ s1.latest = s.latest /\ Jobs(s1.jobs)
      /\ \A n \in Items : s1.jobs[n].at = s.jobs[n].at
  BY DEF Typed, Fields, Jobs, JobFields
<1>2. Join(s, l, k) \in {s1, s2}
  BY DEF Join
<1> HIDE DEF s1
<1>3. /\ DOMAIN s2 = Fields /\ s2.ld = s.ld /\ s2.demand = s.demand /\ s2.asked = s.asked
      /\ s2.conts = s.conts /\ s2.latest = s.latest /\ Jobs(s2.jobs)
      /\ \A n \in Items : s2.jobs[n].at = s.jobs[n].at
  BY <1>1 DEF Fields, Jobs, JobFields
<1> HIDE DEF s2
<1>4. \A d \in s.latest : d \in Demand
  BY DEF Typed
<1>5. Quiet(s, s1) /\ Quiet(s, s2)
  BY <1>1, <1>3, <1>4, RestQuiet
<1> QED
  BY <1>1, <1>2, <1>3, <1>5

-----------------------------------------------------------------------------
(* Calls that change the state of one load.                                 *)

\* Nothing but l's own state, history and promises has changed.
Own(s, t, l) ==
    /\ Typed(t)
    /\ \A k \in Items : s.jobs[k].at # "none" => t.jobs[k].at # "none"
    /\ t.latest \subseteq s.latest
    /\ \A m \in Loaders \ {l} :
          /\ t.ld[m] = s.ld[m] /\ t.asked[m] = s.asked[m]
          /\ (m \in t.demand <=> m \in s.demand)
          /\ Promises(t, m) = Promises(s, m)

LEMMA OwnOthers ==
    ASSUME NEW s, NEW t, NEW l \in Loaders, Typed(s), Own(s, t, l), NEW m \in Loaders \ {l},
           Orderly(s, m)
    PROVE  Orderly(t, m) /\ (Waits(s, m) => Waits(t, m))
<1>1. LoaderOrderly(t, m) /\ InTurn(t.asked[m], t.ld[m].open)
  BY DEF Orderly, LoaderOrderly, Own
<1>2. Counted(t, m)
  <2>1. Ids(t, m) \subseteq Ids(s, m)
    BY DEF Own, Ids, Demands
  <2> QED
    BY <2>1, FewerIds DEF Own, Orderly
<1>3. \A c \in Promises(t, m) : c.l = m /\ c.k \in Items /\ c \in Promises(s, m)
  BY DEF Own, Typed, Promises, Promise
<1>4. \A c \in Promises(t, m) : PromiseOrderly(t, c)
  BY <1>3 DEF Own, Orderly, PromiseOrderly, Current, Undecided
<1>5. \A c, d \in Promises(t, m) : c.id = d.id => c = d
  BY DEF Own, Orderly
<1>6. Waits(s, m) => Waits(t, m)
  BY <1>3 DEF Own, Waits, Current
<1> QED
  BY <1>1, <1>2, <1>4, <1>5, <1>6 DEF Orderly

LEMMA OwnCore ==
    ASSUME NEW s, NEW t, NEW l \in Loaders, Core(s), Own(s, t, l), Orderly(t, l)
    PROVE  Core(t)
BY OwnOthers DEF Core, Own

\* What l has when nothing is added to it: ids and promises stay in order.
Fewer(s, t, l) ==
    /\ Promises(t, l) \subseteq Promises(s, l)
    /\ t.ld[l].token \in {s.ld[l].token, 0}
    /\ \A n \in 1 .. MaxLoads : t.asked[l][n] = "unasked" <=> s.asked[l][n] = "unasked"

LEMMA FewerOrderly ==
    ASSUME NEW s, NEW t, NEW l \in Loaders, Core(s), Own(s, t, l), Fewer(s, t, l),
           LoaderOrderly(t, l), InTurn(t.asked[l], t.ld[l].open),
           \A c \in Promises(t, l) : Current(t, c) /\ c.got # "auth" => Undecided(t, l, c.k)
    PROVE  Core(t)
<1>1. Counted(t, l)
  <2>1. Ids(t, l) \subseteq Ids(s, l)
    BY DEF Own, Fewer, Ids, Demands
  <2> QED
    BY <2>1, FewerIds DEF Fewer, Core, Orderly
<1>2. \A c \in Promises(t, l) : c.l = l /\ c.k \in Items /\ c \in Promises(s, l)
  BY DEF Own, Fewer, Typed, Promises, Promise
<1>3. \A c \in Promises(t, l) : PromiseOrderly(t, c)
  BY <1>2 DEF Own, Core, Orderly, PromiseOrderly
<1>4. \A c, d \in Promises(t, l) : c.id = d.id => c = d
  BY DEF Fewer, Core, Orderly
<1> QED
  BY <1>1, <1>3, <1>4, OwnCore DEF Orderly

\* The inner loader is started once no promise of the load is undecided.
Decided(s, l) == \A c \in Promises(s, l) : Current(s, c) => c.got = "auth"

LEMMA StartInnerCore ==
    ASSUME NEW s, NEW l \in Loaders, Core(s), Decided(s, l)
    PROVE  LET t == StartInner(s, l)
           IN  /\ Core(t) /\ t.asked = s.asked
               /\ Waits(t, l) /\ \A m \in Loaders : Waits(s, m) => Waits(t, m)
<1> DEFINE s1 == [s EXCEPT !.demand = @ \union {l}, !.ld[l].src = TRUE]
           t == StartInner(s, l)
<1>1. /\ DOMAIN s1 = Fields /\ s1.demand = s.demand \union {l} /\ s1.jobs = s.jobs
      /\ s1.conts = s.conts /\ s1.latest = s.latest /\ s1.asked = s.asked
      /\ s1.ld = [s.ld EXCEPT ![l].src = TRUE]
  BY DEF Core, Typed, Fields
<1>2. /\ t = s1 \/ t = Cancel(s1, s1.active)
  BY DEF StartInner
<1> HIDE DEF s1
<1>3. LoaderStates(s1.ld) /\ \A m \in Loaders \ {l} : s1.ld[m] = s.ld[m]
  BY <1>1 DEF Core, Typed, LoaderStates, LoaderFields
<1>4. /\ s1.ld[l].src = TRUE /\ s1.ld[l].token = s.ld[l].token /\ s1.ld[l].open = s.ld[l].open
      /\ s1.ld[l].reuse = s.ld[l].reuse /\ s1.ld[l].won = s.ld[l].won /\ s1.ld[l].pin = s.ld[l].pin
      /\ s1.ld[l].k = s.ld[l].k
  BY <1>1 DEF Core, Typed, LoaderStates, LoaderFields
<1>5. Own(s, s1, l)
  BY <1>1, <1>3 DEF Own, Core, Typed, Promises
<1>6. LoaderOrderly(s1, l)
  BY <1>1, <1>4 DEF Core, Orderly, LoaderOrderly
<1>7. InTurn(s1.asked[l], s1.ld[l].open)
  BY <1>1, <1>4 DEF Core, Orderly
<1>8. Fewer(s, s1, l)
  BY <1>1, <1>4 DEF Fewer, Promises
<1>9. \A c \in Promises(s1, l) : Current(s1, c) => c.got = "auth"
  BY <1>1, <1>4 DEF Decided, Promises, Current
<1>10. Core(s1)
  BY <1>5, <1>6, <1>7, <1>8, <1>9, FewerOrderly
<1>11. Waits(s1, l) /\ \A m \in Loaders : Waits(s, m) => Waits(s1, m)
  <2>1. Waits(s1, l)
    BY <1>1 DEF Waits
  <2> QED
    BY <2>1, <1>5, OwnOthers DEF Core
<1>12. Quiet(s1, t)
  BY <1>2, <1>10, CancelQuiet, QuietSelf DEF Core
<1> QED
  BY <1>1, <1>10, <1>11, <1>12, QuietCore, QuietWaits DEF Quiet

\* A load that is open is told once; the history moves on by that.
Moved(a, b) ==
    \A l \in Loaders, n \in 1 .. MaxLoads :
        \/ b[l][n] = a[l][n]
        \/ a[l][n] = "unasked" /\ b[l][n] = "open"
        \/ a[l][n] = "open" /\ b[l][n] \in Answers

LEMMA FateIs ==
    ASSUME NEW s, NEW l \in Loaders, Typed(s), InTurn(s.asked[l], TRUE), NEW fate \in Answers
    PROVE  LET t == Fate(s, l, fate)
           IN  /\ Typed(t)
               /\ t.ld = s.ld /\ t.conts = s.conts /\ t.demand = s.demand /\ t.jobs = s.jobs
               /\ t.latest = s.latest
               /\ \A m \in Loaders \ {l} : t.asked[m] = s.asked[m]
               /\ InTurn(t.asked[l], FALSE)
               /\ \A n \in 1 .. MaxLoads : t.asked[l][n] = "unasked" <=> s.asked[l][n] = "unasked"
               /\ Moved(s.asked, t.asked)
<1> DEFINE t == Fate(s, l, fate)
<1>0. MaxLoads \in Nat
  BY WarmAssumption
<1>1. PICK m \in 0 .. MaxLoads :
        /\ \A n \in 1 .. MaxLoads : s.asked[l][n] = "unasked" <=> n > m
        /\ \A n \in 1 .. MaxLoads : n < m => s.asked[l][n] \in Answers
        /\ m > 0 /\ s.asked[l][m] = "open"
  BY DEF InTurn
<1>2. Asked(s, l) = m
  BY <1>1, AskedCounts
<1>3. /\ DOMAIN t = Fields
      /\ t.ld = s.ld /\ t.conts = s.conts /\ t.demand = s.demand /\ t.jobs = s.jobs
      /\ t.latest = s.latest
      /\ t.asked = [s.asked EXCEPT ![l][m] = fate]
  BY <1>1, <1>2 DEF Fate, Typed, Fields
<1> HIDE DEF t
<1>4. t.asked \in [Loaders -> [1 .. MaxLoads -> Fates]]
  <2>1. s.asked[l] \in [1 .. MaxLoads -> Fates] /\ fate \in Fates
    BY DEF Typed, Fates, Answers
  <2>2. t.asked = [s.asked EXCEPT ![l] = [s.asked[l] EXCEPT ![m] = fate]]
    BY <1>3
  <2>3. [s.asked[l] EXCEPT ![m] = fate] \in [1 .. MaxLoads -> Fates]
    BY <2>1
  <2> QED
    BY <2>2, <2>3 DEF Typed
<1>5. \A n \in 1 .. MaxLoads : t.asked[l][n] = IF n = m THEN fate ELSE s.asked[l][n]
  BY <1>3 DEF Typed
<1>6. \A k \in Loaders \ {l} : t.asked[k] = s.asked[k]
  BY <1>3 DEF Typed
<1>7. m \in 1 .. MaxLoads
  BY <1>0, <1>1
<1>8. InTurn(t.asked[l], FALSE)
  BY <1>1, <1>5, <1>7 DEF InTurn, Answers
<1>9. \A n \in 1 .. MaxLoads : t.asked[l][n] = "unasked" <=> s.asked[l][n] = "unasked"
  BY <1>1, <1>5, <1>7 DEF Answers
<1>10. Moved(s.asked, t.asked)
  BY <1>1, <1>5, <1>6 DEF Moved
<1> QED
  BY <1>3, <1>4, <1>6, <1>8, <1>9, <1>10 DEF Typed, t

LEMMA MovedSelf == \A a : Moved(a, a)
BY DEF Moved

LEMMA SettleIs ==
    ASSUME NEW s, NEW l \in Loaders, Typed(s)
    PROVE  LET t == Settle(s, l)
           IN  /\ Own(s, t, l)
               /\ t.ld[l].reuse = FALSE /\ t.ld[l].pin = {}
               /\ t.ld[l].token = s.ld[l].token /\ t.ld[l].open = s.ld[l].open
               /\ t.ld[l].src = s.ld[l].src /\ t.ld[l].won = s.ld[l].won
               /\ t.conts = s.conts /\ t.demand = s.demand /\ t.jobs = s.jobs
               /\ t.latest = s.latest /\ t.asked = s.asked
<1> DEFINE t == Settle(s, l)
<1>1. /\ DOMAIN t = Fields /\ t.conts = s.conts /\ t.demand = s.demand /\ t.jobs = s.jobs
      /\ t.latest = s.latest /\ t.asked = s.asked
      /\ t.ld = [s.ld EXCEPT ![l].reuse = FALSE, ![l].pin = {}]
  BY DEF Settle, Typed, Fields
<1> HIDE DEF t
<1>2. LoaderStates(t.ld) /\ \A m \in Loaders \ {l} : t.ld[m] = s.ld[m]
  BY <1>1 DEF Typed, LoaderStates, LoaderFields
<1>3. /\ t.ld[l].reuse = FALSE /\ t.ld[l].pin = {}
      /\ t.ld[l].token = s.ld[l].token /\ t.ld[l].open = s.ld[l].open
      /\ t.ld[l].src = s.ld[l].src /\ t.ld[l].won = s.ld[l].won
  BY <1>1 DEF Typed, LoaderStates, LoaderFields
<1>4. Own(s, t, l)
  BY <1>1, <1>2 DEF Own, Typed, Promises
<1> QED
  BY <1>1, <1>3, <1>4 DEF t

LEMMA ForgetIs ==
    ASSUME NEW s, NEW l \in Loaders, Typed(s)
    PROVE  LET t == Forget(s, l)
           IN  /\ Typed(t) /\ t.ld = s.ld /\ t.conts = s.conts /\ t.demand = s.demand
               /\ t.jobs = s.jobs /\ t.latest \subseteq s.latest /\ t.asked = s.asked
<1>1. LET t == Forget(s, l)
      IN  /\ DOMAIN t = Fields /\ t.ld = s.ld /\ t.conts = s.conts /\ t.demand = s.demand
          /\ t.jobs = s.jobs /\ t.asked = s.asked
          /\ t.latest = {d \in s.latest : d.l # l \/ d.id # s.ld[l].token}
  BY DEF Forget, Typed, Fields
<1> QED
  BY <1>1 DEF Typed

\* Whatever races with it, a load that is given up leaves nothing behind.
LEMMA GiveUpCore ==
    ASSUME NEW s, NEW l \in Loaders, Core(s), NEW fate \in Answers
    PROVE  LET t == GiveUp(s, l, fate)
           IN  /\ Core(t) /\ Moved(s.asked, t.asked)
               /\ t.ld[l].token = 0 /\ t.ld[l].open = FALSE /\ l \notin t.demand
               /\ \A m \in Loaders \ {l} : t.asked[m] = s.asked[m]
               /\ \A n \in 1 .. MaxLoads : t.asked[l][n] = "unasked" <=> s.asked[l][n] = "unasked"
               /\ \A m \in Loaders : Waits(s, m) => Waits(t, m)
<1> DEFINE s1 == IF s.ld[l].open THEN Forget(s, l) ELSE s
           u == Settle(s1, l)
           v == Leave(u, l)
           x == [v EXCEPT !.ld[l].token = 0, !.ld[l].src = FALSE, !.ld[l].open = FALSE,
                          !.demand = @ \ {l}]
           t == GiveUp(s, l, fate)
<1>0. t = IF s.ld[l].open THEN Fate(x, l, fate) ELSE x
  BY DEF GiveUp
<1>1. /\ Typed(s1) /\ s1.ld = s.ld /\ s1.conts = s.conts /\ s1.demand = s.demand
      /\ s1.jobs = s.jobs /\ s1.latest \subseteq s.latest /\ s1.asked = s.asked
  BY ForgetIs DEF Core
<1> HIDE DEF s1
<1>2. /\ Own(s1, u, l) /\ u.ld[l].reuse = FALSE /\ u.ld[l].pin = {}
      /\ u.ld[l].token = s.ld[l].token
      /\ u.conts = s.conts /\ u.demand = s.demand /\ u.jobs = s.jobs /\ u.asked = s.asked
      /\ u.latest = s1.latest
  <2>1. Typed(s1)
    BY <1>1
  <2>2. /\ Own(s1, u, l) /\ u.ld[l].reuse = FALSE /\ u.ld[l].pin = {}
        /\ u.ld[l].token = s1.ld[l].token
        /\ u.conts = s1.conts /\ u.demand = s1.demand /\ u.jobs = s1.jobs
        /\ u.asked = s1.asked /\ u.latest = s1.latest
    BY <2>1, SettleIs
  <2> QED
    BY <1>1, <2>2
<1> HIDE DEF u
<1>3. Own(s, u, l)
  BY <1>1, <1>2 DEF Own, Promises
<1>4. Quiet(u, v) /\ Typed(v)
  BY <1>2, LeaveQuiet, QuietTyped DEF Own
<1> HIDE DEF v
<1>5. /\ DOMAIN x = Fields /\ x.conts = v.conts /\ x.jobs = v.jobs /\ x.latest = v.latest
      /\ x.asked = v.asked /\ x.demand = v.demand \ {l}
      /\ x.ld = [v.ld EXCEPT ![l].token = 0, ![l].src = FALSE, ![l].open = FALSE]
  BY <1>4 DEF Typed, Fields
<1> HIDE DEF x
<1>6. LoaderStates(x.ld) /\ \A m \in Loaders \ {l} : x.ld[m] = v.ld[m]
  BY <1>4, <1>5 DEF Typed, LoaderStates, LoaderFields
<1>7. /\ x.ld[l].token = 0 /\ x.ld[l].src = FALSE /\ x.ld[l].open = FALSE
      /\ x.ld[l].reuse = FALSE /\ x.ld[l].pin = {} /\ l \notin x.demand
  <2>1. v.ld[l].reuse = FALSE /\ v.ld[l].pin = {}
    BY <1>2, <1>4 DEF Quiet
  <2> QED
    BY <2>1, <1>4, <1>5 DEF Typed, LoaderStates, LoaderFields
<1>8. Own(v, x, l)
  BY <1>4, <1>5, <1>6 DEF Own, Typed, Promises
<1>9. \A m \in Loaders \ {l} : Orderly(x, m) /\ (Waits(s, m) => Waits(x, m))
  BY <1>2, <1>3, <1>4, <1>8, OwnOthers, QuietOrderly, QuietWaits DEF Core, Own
<1>10. x.asked = s.asked
  BY <1>2, <1>4, <1>5 DEF Quiet
<1>11. ASSUME NEW z, Own(x, z, l), z.ld = x.ld, z.conts = x.conts, z.demand = x.demand,
              z.jobs = x.jobs, z.latest = x.latest, InTurn(z.asked[l], FALSE),
              \A n \in 1 .. MaxLoads : z.asked[l][n] = "unasked" <=> s.asked[l][n] = "unasked"
       PROVE  Orderly(z, l)
  <2>1. LoaderOrderly(z, l) /\ InTurn(z.asked[l], z.ld[l].open)
    BY <1>7, <1>11 DEF LoaderOrderly
  <2>2. \A d \in Promises(z, l) : \E c \in Promises(s, l) : Settled(c, d)
    BY <1>2, <1>4, <1>5, <1>11 DEF Quiet, Promises, Settled
  <2>3. Counted(z, l)
    <3>1. z.latest \subseteq v.latest /\ v.ld = u.ld /\ u.latest \subseteq s.latest
      BY <1>1, <1>2, <1>4, <1>5, <1>11 DEF Quiet
    <3>2. \A d \in Demands(z, l) : d.id \in Ids(s, l)
      <4> SUFFICES ASSUME NEW d \in Demands(z, l) PROVE d.id \in Ids(s, l)
        OBVIOUS
      <4>1. d \in Demand /\ d.l = l /\ (d \in u.latest \/ d.id = u.ld[d.l].token)
        BY <1>4, <3>1 DEF Quiet, Demands
      <4> QED
        BY <1>2, <3>1, <4>1 DEF Ids, Demands, Demand
    <3>3. Ids(z, l) \subseteq Ids(s, l)
      BY <1>7, <1>11, <2>2, <3>2 DEF Ids, Settled
    <3> QED
      BY <1>11, <3>3, FewerIds DEF Core, Orderly
  <2>4. ASSUME NEW d \in Promises(z, l) PROVE PromiseOrderly(z, d)
    <3>1. PICK c \in Promises(s, l) : Settled(c, d)
      BY <2>2
    <3>2. d.got = "pending" => z.jobs[d.k].at # "none"
      BY <1>2, <1>4, <1>5, <1>11, <3>1
         DEF Quiet, Settled, Ends, Core, Orderly, PromiseOrderly, Promises
    <3>3. ~ Current(z, d)
      BY <1>7, <1>11, <3>1 DEF Current, Settled, Promise, Promises
    <3> QED
      BY <3>2, <3>3 DEF PromiseOrderly
  <2>5. \A c, d \in Promises(z, l) : c.id = d.id => c = d
    BY <1>2, <1>4, <1>5, <1>11 DEF Quiet, Promises, Core, Orderly
  <2> QED
    BY <2>1, <2>3, <2>4, <2>5 DEF Orderly
<1>12. Waits(x, l)
  BY <1>7 DEF Waits
<1>13. CASE ~ s.ld[l].open
  <2>1. Own(x, x, l)
    BY <1>8 DEF Own
  <2>2. InTurn(x.asked[l], FALSE)
    BY <1>10, <1>13 DEF Core, Orderly, InTurn
  <2>3. Orderly(x, l)
    BY <1>10, <1>11, <2>1, <2>2
  <2> QED
    BY <1>0, <1>7, <1>8, <1>9, <1>10, <1>12, <1>13, <2>3, MovedSelf DEF Core, Own
<1>14. CASE s.ld[l].open
  <2>1. Typed(x) /\ InTurn(x.asked[l], TRUE)
    BY <1>8, <1>10, <1>14 DEF Own, Core, Orderly, InTurn
  <2>2. /\ Typed(t)
        /\ t.ld = x.ld /\ t.conts = x.conts /\ t.demand = x.demand /\ t.jobs = x.jobs
        /\ t.latest = x.latest
        /\ \A m \in Loaders \ {l} : t.asked[m] = x.asked[m]
        /\ InTurn(t.asked[l], FALSE)
        /\ \A n \in 1 .. MaxLoads : t.asked[l][n] = "unasked" <=> x.asked[l][n] = "unasked"
        /\ Moved(x.asked, t.asked)
    <3>1. t = Fate(x, l, fate)
      BY <1>0, <1>14
    <3> HIDE DEF t
    <3> QED
      BY <2>1, <3>1, FateIs
  <2> HIDE DEF t
  <2>3. Own(x, t, l)
    BY <2>2 DEF Own, Promises
  <2>4. Orderly(t, l)
    BY <1>10, <1>11, <2>2, <2>3
  <2>5. \A m \in Loaders \ {l} : Orderly(t, m) /\ (Waits(s, m) => Waits(t, m))
    BY <1>9, <2>1, <2>3, OwnOthers
  <2>6. Waits(t, l)
    BY <1>7, <2>2 DEF Waits
  <2> QED
    BY <1>7, <1>10, <2>2, <2>4, <2>5, <2>6 DEF Core, t
<1> QED
  BY <1>13, <1>14

\* There is room in the history for a load that may be asked for.
LEMMA AskedBelow ==
    ASSUME NEW s, NEW l \in Loaders, Typed(s),
           Cardinality({m \in Loaders \X (1 .. MaxLoads) : s.asked[m[1]][m[2]] # "unasked"}) < MaxLoads
    PROVE  Asked(s, l) \in Nat /\ Asked(s, l) < MaxLoads
<1> DEFINE N == {n \in 1 .. MaxLoads : s.asked[l][n] # "unasked"}
           P == {m \in Loaders \X (1 .. MaxLoads) : s.asked[m[1]][m[2]] # "unasked"}
           f == [n \in N |-> <<l, n>>]
<1>0. MaxLoads \in Nat /\ IsFiniteSet(Loaders)
  BY WarmAssumption
<1>1. IsFiniteSet(1 .. MaxLoads)
  BY <1>0, FS_Interval
<1>2. IsFiniteSet(Loaders \X (1 .. MaxLoads))
  BY <1>0, <1>1, FS_Product
<1>3. IsFiniteSet(P) /\ Cardinality(P) \in Nat
  BY <1>2, FS_Subset, FS_CardinalityType
<1>4. IsFiniteSet(N) /\ Cardinality(N) \in Nat
  BY <1>1, FS_Subset, FS_CardinalityType
<1>5. f \in Injection(N, P)
  BY DEF Injection, IsInjective
<1>6. Cardinality(N) <= Cardinality(P)
  BY <1>3, <1>5, FS_Injection
<1> QED
  BY <1>0, <1>3, <1>4, <1>6 DEF Asked

\* A load that has begun: nothing waits for it yet.
Begun(s, l, k) ==
    /\ s.ld[l].open = TRUE /\ s.ld[l].token # 0 /\ s.ld[l].reuse = FALSE
    /\ s.ld[l].won = "none" /\ s.ld[l].src = FALSE /\ s.ld[l].pin = {} /\ s.ld[l].k = k
    /\ \A c \in Promises(s, l) : ~ Current(s, c)

Begin(s, l, k) ==
    [s EXCEPT !.ld[l] = [NewLoader EXCEPT !.token = NewToken(s, l), !.open = TRUE, !.k = k],
              !.asked[l][Asked(s, l) + 1] = "open", !.due = TRUE]

\* The other loads are left alone, and the history gains one open load.
OneMore(s, t, l) ==
    /\ \A m \in Loaders : Waits(s, m) /\ m # l => Waits(t, m)
    /\ \A m \in Loaders \ {l} : t.asked[m] = s.asked[m]
    /\ \A n \in 1 .. MaxLoads :
          \/ t.asked[l][n] = s.asked[l][n]
          \/ s.asked[l][n] = "unasked" /\ t.asked[l][n] = "open"

LEMMA BeginCore ==
    ASSUME NEW s, NEW l \in Loaders, Core(s), NEW k \in Items,
           s.ld[l].token = 0, s.ld[l].open = FALSE, l \notin s.demand,
           Asked(s, l) \in Nat, Asked(s, l) < MaxLoads
    PROVE  LET t == Begin(s, l, k)
           IN  Core(t) /\ Begun(t, l, k) /\ OneMore(s, t, l)
<1> DEFINE id == NewToken(s, l)
           m == Asked(s, l)
           t == Begin(s, l, k)
<1>0. MaxLoads \in Nat /\ m \in Nat /\ m + 1 \in 1 .. MaxLoads /\ m \in 0 .. MaxLoads
  BY WarmAssumption
<1>1. id \in Nat \ {0} /\ id \notin {c.id : c \in Promises(s, l)}
  BY <1>0, NewTokenIsNew DEF Core, Orderly
<1>2. /\ \A n \in 1 .. MaxLoads : s.asked[l][n] = "unasked" <=> n > m
      /\ \A n \in 1 .. MaxLoads : n <= m => s.asked[l][n] \in Answers
  <2>1. PICK q \in 0 .. MaxLoads :
          /\ \A n \in 1 .. MaxLoads : s.asked[l][n] = "unasked" <=> n > q
          /\ \A n \in 1 .. MaxLoads : n < q => s.asked[l][n] \in Answers
          /\ q > 0 => s.asked[l][q] \in Answers
    BY DEF Core, Orderly, InTurn
  <2>2. m = q
    BY <2>1, AskedCounts
  <2> QED
    BY <1>0, <2>1, <2>2
<1> HIDE DEF id, m
<1>3. /\ DOMAIN t = Fields /\ t.conts = s.conts /\ t.demand = s.demand /\ t.jobs = s.jobs
      /\ t.latest = s.latest
      /\ t.ld = [s.ld EXCEPT ![l] = [NewLoader EXCEPT !.token = id, !.open = TRUE, !.k = k]]
      /\ t.asked = [s.asked EXCEPT ![l] = [s.asked[l] EXCEPT ![m + 1] = "open"]]
  BY DEF Begin, Core, Typed, Fields, id, m
<1> HIDE DEF t
<1>4. /\ LoaderStates(t.ld) /\ \A n \in Loaders \ {l} : t.ld[n] = s.ld[n]
      /\ t.ld[l].token = id /\ t.ld[l].open = TRUE /\ t.ld[l].k = k /\ t.ld[l].src = FALSE
      /\ t.ld[l].reuse = FALSE /\ t.ld[l].won = "none" /\ t.ld[l].pin = {}
  BY <1>1, <1>3 DEF Core, Typed, LoaderStates, LoaderFields, NewLoader
<1>5. /\ t.asked \in [Loaders -> [1 .. MaxLoads -> Fates]]
      /\ \A n \in Loaders \ {l} : t.asked[n] = s.asked[n]
      /\ \A n \in 1 .. MaxLoads : t.asked[l][n] = IF n = m + 1 THEN "open" ELSE s.asked[l][n]
  <2>1. s.asked \in [Loaders -> [1 .. MaxLoads -> Fates]] /\ "open" \in Fates
    BY DEF Core, Typed, Fates
  <2>2. [s.asked[l] EXCEPT ![m + 1] = "open"] \in [1 .. MaxLoads -> Fates]
    BY <2>1
  <2> QED
    BY <1>3, <2>1, <2>2
<1>6. Own(s, t, l)
  BY <1>3, <1>4, <1>5 DEF Own, Core, Typed, Promises
<1>7. LoaderOrderly(t, l)
  BY <1>1, <1>3, <1>4 DEF LoaderOrderly
<1>8. InTurn(t.asked[l], TRUE)
  <2>1. /\ \A n \in 1 .. MaxLoads : t.asked[l][n] = "unasked" <=> n > m + 1
        /\ \A n \in 1 .. MaxLoads : n < m + 1 => t.asked[l][n] \in Answers
        /\ t.asked[l][m + 1] = "open"
    BY <1>0, <1>2, <1>5
  <2> QED
    BY <1>0, <2>1 DEF InTurn
<1>9. Counted(t, l)
  <2>1. Ids(t, l) \subseteq Ids(s, l) \union {id}
    BY <1>3, <1>4 DEF Ids, Promises, Demands
  <2>2. IsFiniteSet(Ids(s, l) \union {id}) /\ Cardinality(Ids(s, l) \union {id}) <= m + 1
    <3>1. IsFiniteSet(Ids(s, l)) /\ Cardinality(Ids(s, l)) <= m /\ Cardinality(Ids(s, l)) \in Nat
      BY FS_CardinalityType DEF Core, Orderly, Counted, m
    <3>2. /\ IsFiniteSet(Ids(s, l) \union {id})
          /\ Cardinality(Ids(s, l) \union {id})
                = IF id \in Ids(s, l) THEN Cardinality(Ids(s, l)) ELSE Cardinality(Ids(s, l)) + 1
      BY <3>1, FS_AddElement
    <3> QED
      BY <1>0, <3>1, <3>2
  <2>3. IsFiniteSet(Ids(t, l)) /\ Cardinality(Ids(t, l)) <= Cardinality(Ids(s, l) \union {id})
        /\ Cardinality(Ids(t, l)) \in Nat /\ Cardinality(Ids(s, l) \union {id}) \in Nat
    BY <2>1, <2>2, FS_Subset, FS_CardinalityType
  <2>4. Asked(t, l) = m + 1
    <3>1. \A n \in 1 .. MaxLoads : t.asked[l][n] = "unasked" <=> n > m + 1
      BY <1>0, <1>2, <1>5
    <3> QED
      BY <1>0, <3>1, AskedCounts
  <2> QED
    BY <1>0, <2>2, <2>3, <2>4 DEF Counted
<1>10. \A c \in Promises(t, l) : c \in Promises(s, l) /\ c.l = l /\ ~ Current(t, c)
  BY <1>1, <1>3, <1>4 DEF Promises, Current
<1>11. \A c \in Promises(t, l) : PromiseOrderly(t, c)
  BY <1>3, <1>10 DEF Core, Orderly, PromiseOrderly
<1>12. \A c, d \in Promises(t, l) : c.id = d.id => c = d
  BY <1>10 DEF Core, Orderly
<1>13. Core(t)
  BY <1>4, <1>6, <1>7, <1>8, <1>9, <1>11, <1>12, OwnCore DEF Orderly
<1>14. Begun(t, l, k)
  BY <1>1, <1>4, <1>10 DEF Begun
<1>15. \A n \in Loaders : Waits(s, n) /\ n # l => Waits(t, n)
  BY <1>6, OwnOthers DEF Core
<1>16. \A n \in 1 .. MaxLoads :
          \/ t.asked[l][n] = s.asked[l][n]
          \/ s.asked[l][n] = "unasked" /\ t.asked[l][n] = "open"
  BY <1>0, <1>2, <1>5
<1> QED
  BY <1>5, <1>13, <1>14, <1>15, <1>16 DEF OneMore, t, m, id

\* A load that has begun waits on what it finds.
LEMMA WaitCore ==
    ASSUME NEW s, NEW l \in Loaders, NEW k \in Items, Core(s), Begun(s, l, k),
           NEW got \in {"row", "pending"}, got = "pending" => s.jobs[k].at # "none"
    PROVE  LET t == Wait(s, l, k, got)
           IN  /\ Core(t) /\ t.asked = s.asked
               /\ \A m \in Loaders : m = l \/ Waits(s, m) => Waits(t, m)
<1> DEFINE p == [l |-> l, id |-> s.ld[l].token, k |-> k, got |-> got]
           t == Wait(s, l, k, got)
<1>1. /\ DOMAIN t = Fields /\ t.conts = s.conts \union {p} /\ t.demand = s.demand
      /\ t.jobs = s.jobs /\ t.latest = s.latest /\ t.asked = s.asked
      /\ t.ld = [s.ld EXCEPT ![l].reuse = TRUE]
  BY DEF Wait, Core, Typed, Fields
<1> HIDE DEF t
<1>2. p \in Promise
  BY DEF Core, Typed, LoaderStates, Promise, Ends, Begun
<1>3. p.l = l /\ p.id = s.ld[l].token /\ p.k = k /\ p.got = got
  OBVIOUS
<1> HIDE DEF p
<1>4. /\ LoaderStates(t.ld) /\ \A n \in Loaders \ {l} : t.ld[n] = s.ld[n]
      /\ t.ld[l].reuse = TRUE /\ t.ld[l].token = s.ld[l].token /\ t.ld[l].open = s.ld[l].open
      /\ t.ld[l].src = s.ld[l].src /\ t.ld[l].won = s.ld[l].won /\ t.ld[l].pin = s.ld[l].pin
      /\ t.ld[l].k = s.ld[l].k
  BY <1>1 DEF Core, Typed, LoaderStates, LoaderFields
<1>5. \A m \in Loaders \ {l} : Promises(t, m) = Promises(s, m)
  BY <1>1, <1>3 DEF Promises
<1>6. Own(s, t, l)
  BY <1>1, <1>2, <1>4, <1>5 DEF Own, Core, Typed
<1>7. Promises(t, l) = Promises(s, l) \union {p}
  BY <1>1, <1>3 DEF Promises
<1>8. LoaderOrderly(t, l)
  BY <1>1, <1>4 DEF LoaderOrderly, Core, Orderly, Begun
<1>9. InTurn(t.asked[l], t.ld[l].open)
  BY <1>1, <1>4 DEF Core, Orderly
<1>10. Counted(t, l)
  <2>1. s.ld[l].token \in Ids(s, l)
    BY DEF Ids, Begun
  <2>2. Ids(t, l) \subseteq Ids(s, l)
    BY <1>1, <1>3, <1>4, <1>7, <2>1 DEF Ids, Demands
  <2> QED
    BY <1>1, <2>2, FewerIds DEF Core, Orderly
<1>11. \A c \in Promises(s, l) : PromiseOrderly(t, c)
  BY <1>1, <1>4 DEF PromiseOrderly, Begun, Core, Orderly, Promises, Current
<1>12. PromiseOrderly(t, p)
  BY <1>1, <1>3, <1>4 DEF PromiseOrderly, Undecided, Begun
<1>13. \A c, d \in Promises(t, l) : c.id = d.id => c = d
  <2>1. \A c \in Promises(s, l) : c.id # p.id
    BY <1>3 DEF Begun, Current, Promises
  <2> QED
    BY <1>7, <2>1 DEF Core, Orderly
<1>14. Core(t)
  BY <1>6, <1>7, <1>8, <1>9, <1>10, <1>11, <1>12, <1>13, OwnCore DEF Orderly
<1>15. Waits(t, l)
  BY <1>3, <1>4, <1>7 DEF Waits, Current
<1> QED
  BY <1>1, <1>6, <1>14, <1>15, OwnOthers DEF Core, t

-----------------------------------------------------------------------------
(* The page's actions.                                                      *)

\* What every step does.
Kept(s, t) == Core(t) /\ (\A l \in Loaders : Waits(t, l)) /\ Moved(s.asked, t.asked)

LEMMA QuietKept ==
    ASSUME NEW s, NEW t, Core(s), \A l \in Loaders : Waits(s, l), Quiet(s, t) PROVE Kept(s, t)
<1>1. Core(t) /\ \A l \in Loaders : Waits(t, l)
  BY QuietCore, QuietWaits
<1>2. Moved(s.asked, t.asked)
  BY MovedSelf DEF Quiet
<1> QED
  BY <1>1, <1>2 DEF Kept

LEMMA BegunQuiet ==
    ASSUME NEW s, NEW t, NEW l \in Loaders, NEW k, Quiet(s, t), Begun(s, l, k)
    PROVE  Begun(t, l, k)
<1>1. ASSUME NEW d \in Promises(t, l) PROVE ~ Current(t, d)
  <2>1. PICK c \in s.conts : Settled(c, d)
    BY DEF Quiet, Promises
  <2>2. c \in Promises(s, l) /\ c.id = d.id /\ c.l = l /\ d.l = l
    BY <2>1 DEF Settled, Promises
  <2>3. ~ Current(s, c) /\ s.ld = t.ld
    BY <2>2 DEF Begun, Quiet
  <2> QED
    BY <2>2, <2>3 DEF Current
<1> QED
  BY <1>1 DEF Quiet, Begun

LEMMA LoadKept ==
    ASSUME IInv, NEW l \in Loaders, NEW k \in Plays, Load(l, k) PROVE Kept(w, w')
<1> DEFINE s0 == GiveUp(w, l, "answered")
           s1 == Begin(s0, l, k)
           s2 == Note(s1, l, k)
           s3 == Join(s2, l, k)
<1>0. k \in Items
  BY WarmAssumption
<1>1. /\ Core(s0) /\ Moved(w.asked, s0.asked)
      /\ s0.ld[l].token = 0 /\ s0.ld[l].open = FALSE /\ l \notin s0.demand
      /\ \A m \in Loaders \ {l} : s0.asked[m] = w.asked[m]
      /\ \A n \in 1 .. MaxLoads : s0.asked[l][n] = "unasked" <=> w.asked[l][n] = "unasked"
      /\ \A m \in Loaders : Waits(s0, m)
  BY GiveUpCore DEF IInv, Answers
<1>2. Asked(s0, l) \in Nat /\ Asked(s0, l) < MaxLoads
  <2>1. Asked(w, l) \in Nat /\ Asked(w, l) < MaxLoads
    BY AskedBelow DEF IInv, Core, Load
  <2>2. Asked(s0, l) = Asked(w, l)
    BY <1>1 DEF Asked
  <2> QED
    BY <2>1, <2>2
<1>3. \/ w' = Wait(s2, l, k, "row")
      \/ Live(s2, k) /\ w' = Wait(s3, l, k, "pending")
      \/ w' = StartInner(s2, l)
  BY DEF Load, Step, Begin
<1> HIDE DEF s0
<1>4. /\ Core(s1) /\ Begun(s1, l, k)
      /\ \A m \in Loaders : m # l => Waits(s1, m)
      /\ \A m \in Loaders \ {l} : s1.asked[m] = s0.asked[m]
      /\ \A n \in 1 .. MaxLoads :
            \/ s1.asked[l][n] = s0.asked[l][n]
            \/ s0.asked[l][n] = "unasked" /\ s1.asked[l][n] = "open"
  <2>1. Core(s0) /\ s0.ld[l].token = 0 /\ s0.ld[l].open = FALSE /\ l \notin s0.demand
    BY <1>1
  <2>2. Core(s1) /\ Begun(s1, l, k) /\ OneMore(s0, s1, l)
    BY <1>0, <1>2, <2>1, BeginCore
  <2> HIDE DEF s1
  <2> QED
    BY <1>1, <2>2 DEF OneMore
<1> HIDE DEF s1
<1>5. Moved(w.asked, s1.asked)
  BY <1>1, <1>4 DEF Moved, Answers
<1>6. Quiet(s1, s2)
  BY <1>0, <1>4, NoteQuiet DEF Begun, Core
<1> HIDE DEF s2
<1>7. Core(s2) /\ Begun(s2, l, k) /\ s2.asked = s1.asked /\ \A m \in Loaders : m # l => Waits(s2, m)
  BY <1>4, <1>6, QuietCore, QuietWaits, BegunQuiet DEF Quiet
<1>8. Quiet(s2, s3) /\ \A n \in Items : s3.jobs[n].at = s2.jobs[n].at
  BY <1>0, <1>7, JoinQuiet DEF Core
<1> HIDE DEF s3
<1>9. Core(s3) /\ Begun(s3, l, k) /\ s3.asked = s1.asked /\ \A m \in Loaders : m # l => Waits(s3, m)
  BY <1>7, <1>8, QuietCore, QuietWaits, BegunQuiet DEF Quiet
<1>10. CASE w' = Wait(s2, l, k, "row")
  BY <1>0, <1>5, <1>7, <1>10, WaitCore DEF Kept
<1>11. CASE Live(s2, k) /\ w' = Wait(s3, l, k, "pending")
  <2>1. s3.jobs[k].at # "none"
    BY <1>0, <1>8, <1>11 DEF Live
  <2> QED
    BY <1>0, <1>5, <1>9, <1>11, <2>1, WaitCore DEF Kept
<1>12. CASE w' = StartInner(s2, l)
  <2>1. Decided(s2, l)
    BY <1>7 DEF Begun, Decided
  <2>2. /\ Core(w') /\ w'.asked = s2.asked /\ Waits(w', l)
        /\ \A m \in Loaders : Waits(s2, m) => Waits(w', m)
    BY <1>7, <1>12, <2>1, StartInnerCore
  <2> QED
    BY <1>5, <1>7, <2>2 DEF Kept
<1> QED
  BY <1>3, <1>10, <1>11, <1>12

LEMMA GiveUpKept ==
    ASSUME IInv, NEW l \in Loaders, Abort(l) \/ Destroy(l) PROVE Kept(w, w')
<1>1. PICK fate \in Answers : w' = GiveUp(w, l, fate)
  BY DEF Abort, Destroy, Step, Answers
<1>2. /\ Core(w') /\ Moved(w.asked, w'.asked)
      /\ \A m \in Loaders : Waits(w, m) => Waits(w', m)
  BY <1>1, GiveUpCore DEF IInv
<1> QED
  BY <1>2 DEF IInv, Kept

-----------------------------------------------------------------------------
(* The answers.                                                             *)

\* l waits on reuse no more.
Over(s, t, l) ==
    /\ Own(s, t, l)
    /\ t.conts = s.conts
    /\ t.ld[l].token = s.ld[l].token /\ t.ld[l].src = s.ld[l].src
    /\ t.ld[l].reuse = FALSE /\ t.ld[l].pin = {}
    /\ l \in t.demand => l \in s.demand
    /\ \A n \in 1 .. MaxLoads : t.asked[l][n] = "unasked" <=> s.asked[l][n] = "unasked"

LEMMA OverCore ==
    ASSUME NEW s, NEW t, NEW l \in Loaders, Core(s), Over(s, t, l), Decided(s, l),
           InTurn(t.asked[l], t.ld[l].open),
           t.ld[l].open /\ (t.ld[l].src \/ t.ld[l].won # "none") => l \in t.demand,
           t.ld[l].open => s.ld[l].open
    PROVE  Core(t) /\ \A m \in Loaders \ {l} : Waits(s, m) => Waits(t, m)
<1>1. LoaderOrderly(t, l)
  BY DEF LoaderOrderly, Over, Core, Orderly
<1>2. Fewer(s, t, l)
  BY DEF Over, Fewer, Promises
<1>3. \A c \in Promises(t, l) : Current(t, c) => c.got = "auth"
  BY DEF Over, Decided, Promises, Current
<1>4. Own(s, t, l)
  BY DEF Over
<1> QED
  BY <1>1, <1>2, <1>3, <1>4, FewerOrderly, OwnOthers DEF Core

LEMMA WonOver ==
    ASSUME NEW s, NEW l \in Loaders, Typed(s), NEW v
    PROVE  LET t == [Settle(s, l) EXCEPT !.ld[l].won = v]
           IN  /\ Over(s, t, l) /\ t.asked = s.asked /\ t.demand = s.demand /\ t.jobs = s.jobs
               /\ t.ld[l].open = s.ld[l].open /\ t.ld[l].won = v
<1> DEFINE u == Settle(s, l)
           t == [u EXCEPT !.ld[l].won = v]
<1>1. /\ Own(s, u, l)
      /\ u.ld[l].reuse = FALSE /\ u.ld[l].pin = {}
      /\ u.ld[l].token = s.ld[l].token /\ u.ld[l].open = s.ld[l].open
      /\ u.ld[l].src = s.ld[l].src
      /\ u.conts = s.conts /\ u.demand = s.demand /\ u.jobs = s.jobs
      /\ u.latest = s.latest /\ u.asked = s.asked
  BY SettleIs
<1> HIDE DEF u
<1>2. /\ DOMAIN t = Fields /\ t.conts = u.conts /\ t.demand = u.demand /\ t.jobs = u.jobs
      /\ t.latest = u.latest /\ t.asked = u.asked
      /\ t.ld = [u.ld EXCEPT ![l].won = v]
  BY <1>1 DEF Own, Typed, Fields
<1> HIDE DEF t
<1>3. /\ LoaderStates(t.ld) /\ \A m \in Loaders \ {l} : t.ld[m] = u.ld[m]
      /\ t.ld[l].reuse = FALSE /\ t.ld[l].pin = {}
      /\ t.ld[l].token = s.ld[l].token /\ t.ld[l].open = s.ld[l].open
      /\ t.ld[l].src = s.ld[l].src /\ t.ld[l].won = v
  BY <1>1, <1>2 DEF Own, Typed, LoaderStates, LoaderFields
<1>4. Own(s, t, l)
  BY <1>1, <1>2, <1>3 DEF Own, Typed, Promises
<1>5. Over(s, t, l)
  BY <1>1, <1>2, <1>3, <1>4 DEF Over
<1> QED
  BY <1>1, <1>2, <1>3, <1>5 DEF t, u

LEMMA LessDemandOver ==
    ASSUME NEW s, NEW t, NEW l \in Loaders, Over(s, t, l)
    PROVE  LET u == [t EXCEPT !.demand = @ \ {l}, !.due = TRUE]
           IN  /\ Over(s, u, l) /\ u.asked = t.asked /\ u.ld = t.ld /\ l \notin u.demand
<1> DEFINE u == [t EXCEPT !.demand = @ \ {l}, !.due = TRUE]
<1>1. /\ DOMAIN u = Fields /\ u.conts = t.conts /\ u.demand = t.demand \ {l} /\ u.jobs = t.jobs
      /\ u.latest = t.latest /\ u.asked = t.asked /\ u.ld = t.ld
  BY DEF Over, Own, Typed, Fields
<1> HIDE DEF u
<1>2. Own(s, u, l)
  BY <1>1 DEF Over, Own, Typed, Promises
<1> QED
  BY <1>1, <1>2 DEF Over, u

LEMMA DeliverOver ==
    ASSUME NEW s, NEW t, NEW l \in Loaders, Over(s, t, l), InTurn(t.asked[l], t.ld[l].open), NEW good
    PROVE  LET u == Deliver(t, l, good)
           IN  /\ Over(s, u, l) /\ Moved(t.asked, u.asked)
               /\ InTurn(u.asked[l], u.ld[l].open) /\ ~ u.ld[l].open
<1> DEFINE b == IF good THEN t ELSE Forget(t, l)
           x == [b EXCEPT !.ld[l].open = FALSE]
           u == Deliver(t, l, good)
<1>0. u = IF ~t.ld[l].open THEN t ELSE Fate(x, l, "answered")
  BY DEF Deliver
<1>1. CASE ~ t.ld[l].open
  BY <1>0, <1>1, MovedSelf DEF InTurn
<1>2. CASE t.ld[l].open
  <2>1. Typed(t)
    BY DEF Over, Own
  <2>2. /\ Typed(b) /\ b.ld = t.ld /\ b.conts = t.conts /\ b.demand = t.demand
        /\ b.jobs = t.jobs /\ b.latest \subseteq t.latest /\ b.asked = t.asked
    BY <2>1, ForgetIs
  <2> HIDE DEF b
  <2>3. /\ DOMAIN x = Fields /\ x.conts = b.conts /\ x.demand = b.demand /\ x.jobs = b.jobs
        /\ x.latest = b.latest /\ x.asked = b.asked /\ x.ld = [b.ld EXCEPT ![l].open = FALSE]
    BY <2>2 DEF Typed, Fields
  <2> HIDE DEF x
  <2>4. /\ LoaderStates(x.ld) /\ \A m \in Loaders \ {l} : x.ld[m] = b.ld[m]
        /\ x.ld[l].reuse = t.ld[l].reuse /\ x.ld[l].pin = t.ld[l].pin
        /\ x.ld[l].token = t.ld[l].token /\ x.ld[l].open = FALSE
        /\ x.ld[l].src = t.ld[l].src
    BY <2>2, <2>3 DEF Typed, LoaderStates, LoaderFields
  <2>5. Typed(x) /\ InTurn(x.asked[l], TRUE)
    BY <1>2, <2>2, <2>3, <2>4 DEF Typed, InTurn
  <2>6. u = Fate(x, l, "answered") /\ "answered" \in Answers
    BY <1>0, <1>2 DEF Answers
  <2> HIDE DEF u
  <2>7. /\ Typed(u)
        /\ u.ld = x.ld /\ u.conts = x.conts /\ u.demand = x.demand /\ u.jobs = x.jobs
        /\ u.latest = x.latest
        /\ \A m \in Loaders \ {l} : u.asked[m] = x.asked[m]
        /\ InTurn(u.asked[l], FALSE)
        /\ \A n \in 1 .. MaxLoads : u.asked[l][n] = "unasked" <=> x.asked[l][n] = "unasked"
        /\ Moved(x.asked, u.asked)
    BY <2>5, <2>6, FateIs
  <2>8. Own(s, u, l)
    BY <2>2, <2>3, <2>4, <2>7 DEF Over, Own, Promises
  <2>9. Over(s, u, l)
    BY <2>2, <2>3, <2>4, <2>7, <2>8 DEF Over
  <2>10. InTurn(u.asked[l], u.ld[l].open) /\ ~ u.ld[l].open
    BY <2>4, <2>7
  <2> QED
    BY <2>2, <2>3, <2>7, <2>9, <2>10 DEF u
<1> QED
  BY <1>1, <1>2

\* A promise that is taken away was the only one of its load.
LEMMA DropCore ==
    ASSUME NEW s, Core(s), NEW c \in s.conts
    PROVE  LET t == Drop(s, c)
           IN  /\ c.l \in Loaders /\ c \in Promises(s, c.l)
               /\ Core(t) /\ t.asked = s.asked /\ t.ld = s.ld /\ t.demand = s.demand
               /\ t.jobs = s.jobs
               /\ \A m \in Loaders \ {c.l} : Waits(s, m) => Waits(t, m)
               /\ ~ Current(s, c) /\ Waits(s, c.l) => Waits(t, c.l)
               /\ Current(s, c) => \A d \in Promises(t, c.l) : ~ Current(t, d)
<1> DEFINE t == Drop(s, c)
           l == c.l
<1>1. l \in Loaders /\ c \in Promises(s, l)
  BY DEF Core, Typed, Promise, Promises
<1>2. /\ DOMAIN t = Fields /\ t.conts = s.conts \ {c} /\ t.demand = s.demand /\ t.jobs = s.jobs
      /\ t.latest = s.latest /\ t.asked = s.asked /\ t.ld = s.ld
  BY DEF Drop, Core, Typed, Fields
<1> HIDE DEF t
<1>3. /\ \A m \in Loaders \ {l} : Promises(t, m) = Promises(s, m)
      /\ Promises(t, l) = Promises(s, l) \ {c}
  BY <1>1, <1>2 DEF Promises
<1>4. Own(s, t, l)
  BY <1>2, <1>3 DEF Own, Core, Typed
<1>5. LoaderOrderly(t, l) /\ InTurn(t.asked[l], t.ld[l].open) /\ Fewer(s, t, l)
  BY <1>1, <1>2, <1>3 DEF Core, Orderly, LoaderOrderly, Fewer
<1>6. \A d \in Promises(t, l) : Current(t, d) /\ d.got # "auth" => Undecided(t, l, d.k)
  BY <1>1, <1>2, <1>3 DEF Core, Orderly, PromiseOrderly, Current, Undecided, Promises
<1>7. Core(t)
  BY <1>1, <1>4, <1>5, <1>6, FewerOrderly
<1>8. ~ Current(s, c) /\ Waits(s, l) => Waits(t, l)
  BY <1>2, <1>3 DEF Waits, Current, Promises
<1>9. Current(s, c) => \A d \in Promises(t, l) : ~ Current(t, d)
  BY <1>1, <1>2, <1>3 DEF Core, Orderly, Current, Promises
<1> QED
  BY <1>1, <1>2, <1>4, <1>7, <1>8, <1>9, OwnOthers DEF Core, t

LEMMA StartOriginKept ==
    ASSUME NEW s, NEW l \in Loaders, Core(s), Decided(s, l), NEW r, r.asked = s.asked,
           \A m \in Loaders \ {l} : Waits(s, m)
    PROVE  Kept(r, StartOrigin(s, l))
<1>1. CASE s.ld[l].won # "none" \/ s.ld[l].src
  <2>1. StartOrigin(s, l) = s
    BY <1>1 DEF StartOrigin
  <2>2. Waits(s, l)
    BY <1>1 DEF Waits, Core, Orderly, LoaderOrderly
  <2> QED
    BY <2>1, <2>2, MovedSelf DEF Kept
<1>2. CASE ~ (s.ld[l].won # "none" \/ s.ld[l].src)
  <2>1. StartOrigin(s, l) = StartInner(s, l)
    BY <1>2 DEF StartOrigin
  <2>2. /\ Core(StartInner(s, l)) /\ StartInner(s, l).asked = s.asked
        /\ Waits(StartInner(s, l), l) /\ \A m \in Loaders : Waits(s, m) => Waits(StartInner(s, l), m)
    BY StartInnerCore
  <2> QED
    BY <2>1, <2>2, MovedSelf DEF Kept
<1> QED
  BY <1>1, <1>2

\* The load is answered, whatever it waited on.
LEMMA AnswerKept ==
    ASSUME NEW r, NEW s, NEW t, NEW l \in Loaders, Core(s), Over(s, t, l), Decided(s, l),
           r.asked = s.asked, Moved(s.asked, t.asked), InTurn(t.asked[l], t.ld[l].open),
           ~ t.ld[l].open, \A m \in Loaders \ {l} : Waits(s, m)
    PROVE  Kept(r, t)
<1>1. Core(t) /\ \A m \in Loaders \ {l} : Waits(s, m) => Waits(t, m)
  BY OverCore
<1>2. Waits(t, l)
  BY DEF Waits
<1> QED
  BY <1>1, <1>2 DEF Kept

LEMMA ContinueKept ==
    ASSUME IInv, NEW c \in w.conts, Continue(c) PROVE Kept(w, w')
<1> DEFINE d == Drop(w, c)
           l == c.l
           s == Leave(d, l)
<1>1. /\ l \in Loaders /\ c \in Promises(w, l)
      /\ Core(d) /\ d.asked = w.asked /\ d.ld = w.ld /\ d.demand = w.demand /\ d.jobs = w.jobs
      /\ \A m \in Loaders \ {l} : Waits(w, m) => Waits(d, m)
      /\ ~ Current(w, c) /\ Waits(w, l) => Waits(d, l)
      /\ Current(w, c) => \A p \in Promises(d, l) : ~ Current(d, p)
  BY DropCore DEF IInv
<1>2. c \in Promise /\ c.got \in Ends
  BY DEF IInv, Core, Typed, Continue, Ends
<1>3. \/ ~ Current(w, c) /\ w' = d
      \/ Current(w, c) /\ w' = StartOrigin(Settle(s, l), l)
      \/ Current(w, c) /\ w' = Deliver([Settle(s, l) EXCEPT !.ld[l].won = "origin"], l, FALSE)
      \/ /\ Current(w, c)
         /\ LET held == [s EXCEPT !.ld[l].pin = {c.k}, !.conts = @ \union {[c EXCEPT !.got = "auth"]}]
            IN  w' = held \/ w' = StartOrigin(held, l)
  BY DEF Continue, Step
<1> HIDE DEF d, l
<1>4. CASE ~ Current(w, c) /\ w' = d
  BY <1>1, <1>4, MovedSelf DEF Kept, IInv
<1>5. Quiet(d, s)
  BY <1>1, LeaveQuiet DEF Core
<1> HIDE DEF s
<1>6. /\ Core(s) /\ s.asked = w.asked /\ s.ld = w.ld /\ s.demand = w.demand
      /\ \A m \in Loaders \ {l} : Waits(s, m)
  BY <1>1, <1>5, QuietCore, QuietWaits DEF Quiet, IInv
<1>7. ASSUME Current(w, c)
      PROVE  \A p \in Promises(s, l) : ~ Current(s, p)
  <2>1. ASSUME NEW p \in Promises(s, l) PROVE ~ Current(s, p)
    <3>1. PICK q \in d.conts : Settled(q, p)
      BY <1>5 DEF Quiet, Promises
    <3>2. q \in Promises(d, l) /\ q.id = p.id /\ q.l = l /\ p.l = l
      BY <3>1 DEF Settled, Promises
    <3> QED
      BY <1>1, <1>6, <1>7, <3>2 DEF Current
  <2> QED
    BY <2>1
<1>8. Current(w, c) => Decided(s, l)
  BY <1>7 DEF Decided
<1>9. CASE Current(w, c) /\ w' = StartOrigin(Settle(s, l), l)
  <2> DEFINE t == Settle(s, l)
  <2>1. /\ Own(s, t, l)
        /\ t.ld[l].reuse = FALSE /\ t.ld[l].pin = {}
        /\ t.ld[l].token = s.ld[l].token /\ t.ld[l].open = s.ld[l].open
        /\ t.ld[l].src = s.ld[l].src /\ t.ld[l].won = s.ld[l].won
        /\ t.conts = s.conts /\ t.demand = s.demand /\ t.jobs = s.jobs
        /\ t.latest = s.latest /\ t.asked = s.asked
    BY <1>1, <1>6, SettleIs DEF Core
  <2> HIDE DEF t
  <2>2. Over(s, t, l)
    BY <2>1 DEF Over
  <2>3. t.ld[l].open /\ (t.ld[l].src \/ t.ld[l].won # "none") => l \in t.demand
    BY <1>1, <1>6, <2>1 DEF Core, Orderly, LoaderOrderly
  <2>4. InTurn(t.asked[l], t.ld[l].open)
    BY <1>1, <1>6, <2>1 DEF Core, Orderly
  <2>5. Core(t) /\ \A m \in Loaders \ {l} : Waits(s, m) => Waits(t, m)
    BY <1>1, <1>6, <1>8, <1>9, <2>1, <2>2, <2>3, <2>4, OverCore
  <2>6. Decided(t, l)
    BY <1>8, <1>9, <2>1 DEF Decided, Current, Promises
  <2>7. w' = StartOrigin(t, l) /\ w.asked = t.asked
    BY <1>6, <1>9, <2>1 DEF t
  <2> QED
    BY <1>1, <1>6, <2>5, <2>6, <2>7, StartOriginKept
<1>10. CASE Current(w, c) /\ w' = Deliver([Settle(s, l) EXCEPT !.ld[l].won = "origin"], l, FALSE)
  <2> DEFINE t == [Settle(s, l) EXCEPT !.ld[l].won = "origin"]
  <2>1. /\ Over(s, t, l) /\ t.asked = s.asked /\ t.demand = s.demand /\ t.jobs = s.jobs
        /\ t.ld[l].open = s.ld[l].open /\ t.ld[l].won = "origin"
    BY <1>1, <1>6, WonOver DEF Core
  <2>2. w' = Deliver(t, l, FALSE)
    BY <1>10
  <2> HIDE DEF t
  <2>3. InTurn(t.asked[l], t.ld[l].open)
    BY <1>1, <1>6, <2>1 DEF Core, Orderly
  <2>4. /\ Over(s, w', l) /\ Moved(t.asked, w'.asked)
        /\ InTurn(w'.asked[l], w'.ld[l].open) /\ ~ w'.ld[l].open
    BY <1>1, <2>1, <2>2, <2>3, DeliverOver
  <2> QED
    BY <1>1, <1>6, <1>8, <1>10, <2>1, <2>4, AnswerKept
<1>11. ASSUME Current(w, c),
              LET held == [s EXCEPT !.ld[l].pin = {c.k}, !.conts = @ \union {[c EXCEPT !.got = "auth"]}]
              IN  w' = held \/ w' = StartOrigin(held, l)
       PROVE  Kept(w, w')
  <2> DEFINE a == [c EXCEPT !.got = "auth"]
             t == [s EXCEPT !.ld[l].pin = {c.k}, !.conts = @ \union {a}]
  <2>1. w' = t \/ w' = StartOrigin(t, l)
    BY <1>11
  <2>2. a \in Promise /\ a.l = l /\ a.id = c.id /\ a.k = c.k /\ a.got = "auth" /\ c.l = l
    BY <1>2 DEF Promise, l
  <2> HIDE DEF a
  <2>3. /\ DOMAIN t = Fields /\ t.conts = s.conts \union {a} /\ t.demand = s.demand /\ t.jobs = s.jobs
        /\ t.latest = s.latest /\ t.asked = s.asked /\ t.ld = [s.ld EXCEPT ![l].pin = {c.k}]
    BY <1>6 DEF Core, Typed, Fields
  <2> HIDE DEF t
  <2>4. /\ LoaderStates(t.ld) /\ \A m \in Loaders \ {l} : t.ld[m] = s.ld[m]
        /\ t.ld[l].pin = {c.k} /\ t.ld[l].token = s.ld[l].token /\ t.ld[l].open = s.ld[l].open
        /\ t.ld[l].src = s.ld[l].src /\ t.ld[l].won = s.ld[l].won /\ t.ld[l].k = s.ld[l].k
        /\ t.ld[l].reuse = s.ld[l].reuse
    BY <1>1, <1>6, <2>3 DEF Core, Typed, LoaderStates, LoaderFields
  <2>5. \A m \in Loaders \ {l} : Promises(t, m) = Promises(s, m)
    BY <2>2, <2>3 DEF Promises
  <2>6. Promises(t, l) = Promises(s, l) \union {a}
    BY <2>2, <2>3 DEF Promises
  <2>7. Own(s, t, l)
    BY <1>6, <2>2, <2>3, <2>4, <2>5 DEF Own, Core, Typed
  <2>8. Undecided(s, l, c.k) /\ c.id = s.ld[l].token
    BY <1>1, <1>2, <1>6, <1>11, <2>2
       DEF IInv, Core, Orderly, PromiseOrderly, Current, Ends, Undecided
  <2>9. LoaderOrderly(t, l) /\ InTurn(t.asked[l], t.ld[l].open)
    BY <1>1, <1>6, <2>3, <2>4, <2>8 DEF Core, Orderly, LoaderOrderly, Undecided
  <2>10. Counted(t, l)
    <3>1. a.id # 0
      BY <2>2 DEF Promise
    <3>2. Ids(t, l) \subseteq Ids(s, l)
      BY <2>2, <2>3, <2>4, <2>6, <2>8, <3>1 DEF Ids, Demands
    <3> QED
      BY <1>1, <1>6, <2>3, <3>2, FewerIds DEF Core, Orderly
  <2>11. \A p \in Promises(s, l) : ~ Current(t, p) /\ p.l = l
    BY <1>7, <1>11, <2>4 DEF Current, Promises
  <2>12. \A p \in Promises(t, l) : PromiseOrderly(t, p)
    BY <1>1, <1>6, <2>2, <2>3, <2>6, <2>11 DEF Core, Orderly, PromiseOrderly
  <2>13. \A p, q \in Promises(t, l) : p.id = q.id => p = q
    BY <1>1, <1>6, <2>2, <2>4, <2>6, <2>8, <2>11 DEF Core, Orderly, Current
  <2>14. Core(t)
    BY <1>1, <1>6, <2>7, <2>9, <2>10, <2>12, <2>13, OwnCore DEF Orderly
  <2>15. Waits(t, l) /\ Decided(t, l)
    BY <2>2, <2>4, <2>6, <2>8, <2>11 DEF Waits, Decided, Current
  <2>16. \A m \in Loaders \ {l} : Waits(t, m)
    BY <1>1, <1>6, <2>7, OwnOthers DEF Core
  <2>17. CASE w' = t
    BY <1>6, <2>3, <2>14, <2>15, <2>16, <2>17, MovedSelf DEF Kept
  <2>18. CASE w' = StartOrigin(t, l)
    BY <1>1, <1>6, <2>3, <2>14, <2>15, <2>16, <2>18, StartOriginKept
  <2> QED
    BY <2>1, <2>17, <2>18
<1> QED
  BY <1>3, <1>4, <1>9, <1>10, <1>11

LEMMA ReuseTimerKept ==
    ASSUME IInv, NEW l \in Loaders, ReuseTimer(l) PROVE Kept(w, w')
<1>1. Decided(w, l)
  BY DEF Decided, IInv, Core, Orderly, PromiseOrderly, Undecided, ReuseTimer, Promises
<1> QED
  BY <1>1, StartOriginKept DEF IInv, ReuseTimer, Step

LEMMA AuthAnswersKept ==
    ASSUME IInv, NEW c \in w.conts, NEW ok \in BOOLEAN, AuthAnswers(c, ok) PROVE Kept(w, w')
<1> DEFINE s == Drop(w, c)
           l == c.l
           x == [Settle(s, l) EXCEPT !.ld[l].won = "cache"]
           y == Deliver(x, l, TRUE)
           z == [y EXCEPT !.demand = @ \ {l}, !.due = TRUE]
<1>1. /\ l \in Loaders /\ c \in Promises(w, l)
      /\ Core(s) /\ s.asked = w.asked /\ s.ld = w.ld /\ s.demand = w.demand /\ s.jobs = w.jobs
      /\ \A m \in Loaders \ {l} : Waits(w, m) => Waits(s, m)
      /\ ~ Current(w, c) /\ Waits(w, l) => Waits(s, l)
      /\ Current(w, c) => \A p \in Promises(s, l) : ~ Current(s, p)
  BY DropCore DEF IInv
<1>2. \/ (~ Current(w, c) \/ w.ld[l].won = "origin") /\ w' = s
      \/ Current(w, c) /\ w' = z
      \/ Current(w, c) /\ w' = StartOrigin(Without(s, {c.k}), l)
  BY DEF AuthAnswers, Step
<1> HIDE DEF s, l
<1>3. Current(w, c) => Decided(s, l)
  BY <1>1 DEF Decided
<1>4. \A m \in Loaders \ {l} : Waits(s, m)
  BY <1>1 DEF IInv
<1>5. CASE (~ Current(w, c) \/ w.ld[l].won = "origin") /\ w' = s
  <2>1. Waits(s, l)
    <3>1. CASE w.ld[l].won = "origin"
      BY <1>1, <3>1 DEF Core, Orderly, LoaderOrderly, Waits
    <3> QED
      BY <1>1, <1>5, <3>1 DEF IInv
  <2> QED
    BY <1>1, <1>4, <1>5, <2>1, MovedSelf DEF Kept
<1>6. CASE Current(w, c) /\ w' = z
  <2>1. /\ Over(s, x, l) /\ x.asked = s.asked /\ x.demand = s.demand /\ x.jobs = s.jobs
        /\ x.ld[l].open = s.ld[l].open /\ x.ld[l].won = "cache"
    BY <1>1, WonOver DEF Core
  <2> HIDE DEF x
  <2>2. InTurn(x.asked[l], x.ld[l].open)
    BY <1>1, <2>1 DEF Core, Orderly
  <2>3. /\ Over(s, y, l) /\ Moved(x.asked, y.asked)
        /\ InTurn(y.asked[l], y.ld[l].open) /\ ~ y.ld[l].open
    BY <1>1, <2>1, <2>2, DeliverOver
  <2> HIDE DEF y
  <2>4. Over(s, z, l) /\ z.asked = y.asked /\ z.ld = y.ld
    <3>1. l \in Loaders /\ Over(s, y, l)
      BY <1>1, <2>3
    <3> QED
      BY <3>1, LessDemandOver
  <2> HIDE DEF z
  <2>5. Kept(w, z)
    BY <1>1, <1>3, <1>4, <1>6, <2>1, <2>3, <2>4, AnswerKept
  <2> QED
    BY <1>6, <2>5
<1>7. CASE Current(w, c) /\ w' = StartOrigin(Without(s, {c.k}), l)
  <2> DEFINE t == Without(s, {c.k})
  <2>1. Quiet(s, t) /\ t.conts = s.conts
    <3>1. Typed(s)
      BY <1>1 DEF Core
    <3>2. Quiet(s, t)
      BY <3>1, WithoutQuiet
    <3>3. t.conts = s.conts
      BY <3>1 DEF Without, Typed, Fields
    <3> QED
      BY <3>2, <3>3
  <2> HIDE DEF t
  <2>2. Core(t) /\ t.asked = w.asked /\ \A m \in Loaders \ {l} : Waits(t, m)
    BY <1>1, <1>4, <2>1, QuietCore, QuietWaits DEF Quiet
  <2>3. Decided(t, l)
    BY <1>3, <1>7, <2>1 DEF Decided, Promises, Current, Quiet
  <2>4. w' = StartOrigin(t, l)
    BY <1>7 DEF t
  <2> QED
    BY <1>1, <2>2, <2>3, <2>4, StartOriginKept
<1> QED
  BY <1>2, <1>5, <1>6, <1>7

\* Its inner loader runs, so no promise of it is undecided.
LEMMA SourceDecides ==
    ASSUME NEW s, Core(s), NEW l \in Loaders, s.ld[l].src PROVE Decided(s, l)
BY DEF Decided, Core, Orderly, PromiseOrderly, Undecided, Promises

LEMMA OriginProgressKept ==
    ASSUME IInv, NEW l \in Loaders, OriginProgress(l) PROVE Kept(w, w')
<1> DEFINE x == [Settle(w, l) EXCEPT !.ld[l].won = "origin"]
<1>1. /\ Over(w, x, l) /\ x.asked = w.asked /\ x.demand = w.demand /\ x.jobs = w.jobs
      /\ x.ld[l].open = w.ld[l].open /\ x.ld[l].won = "origin"
  BY WonOver DEF IInv, Core
<1>2. w' = x /\ l \in w.demand /\ w.ld[l].src
  BY DEF OriginProgress, Step
<1> HIDE DEF x
<1>3. InTurn(x.asked[l], x.ld[l].open)
  BY <1>1 DEF IInv, Core, Orderly
<1>4. Core(x) /\ \A m \in Loaders \ {l} : Waits(w, m) => Waits(x, m)
  BY <1>1, <1>2, <1>3, OverCore, SourceDecides DEF IInv
<1>5. Waits(x, l)
  BY <1>1, <1>2 DEF Waits
<1> QED
  BY <1>1, <1>2, <1>4, <1>5, MovedSelf DEF Kept, IInv

LEMMA OriginEndsKept ==
    ASSUME IInv, NEW l \in Loaders, NEW good \in BOOLEAN, OriginEnds(l, good) PROVE Kept(w, w')
<1> DEFINE x == [Settle(w, l) EXCEPT !.ld[l].won = "origin"]
           y == [x EXCEPT !.demand = @ \ {l}, !.due = TRUE]
<1>1. /\ Over(w, x, l) /\ x.asked = w.asked /\ x.demand = w.demand /\ x.jobs = w.jobs
      /\ x.ld[l].open = w.ld[l].open /\ x.ld[l].won = "origin"
  BY WonOver DEF IInv, Core
<1>2. w' = Deliver(y, l, good) /\ l \in w.demand
  BY DEF OriginEnds, Step
<1> HIDE DEF x
<1>3. Over(w, y, l) /\ y.asked = x.asked /\ y.ld = x.ld
  BY <1>1, LessDemandOver
<1> HIDE DEF y
<1>4. InTurn(y.asked[l], y.ld[l].open)
  BY <1>1, <1>3 DEF IInv, Core, Orderly
<1>5. /\ Over(w, w', l) /\ Moved(y.asked, w'.asked)
      /\ InTurn(w'.asked[l], w'.ld[l].open) /\ ~ w'.ld[l].open
  BY <1>2, <1>3, <1>4, DeliverOver
<1>6. Decided(w, l)
  BY <1>2, SourceDecides DEF IInv, Core, Orderly, LoaderOrderly
<1> QED
  BY <1>1, <1>3, <1>5, <1>6, AnswerKept DEF IInv

-----------------------------------------------------------------------------
(* Fetching ahead leaves every load alone, except that promises settle.     *)

LEMMA PumpKept ==
    ASSUME IInv, Pump PROVE Kept(w, w')
<1>1. PICK headroom \in BOOLEAN, late \in BOOLEAN :
        LET s == [w EXCEPT !.due = FALSE]
            item == Head(s.queue)
            rest == [s EXCEPT !.queue = Tail(@)]
            room == Room(rest)
            seen == IF item.re THEN s.latest ELSE {}
        IN  \/ w' = s \/ w' = [rest EXCEPT !.due = TRUE] \/ w' = room
            \/ w' = [room EXCEPT
                        !.active = {item.k},
                        !.jobs[item.k] = [NoJob EXCEPT !.at = "auth", !.re = item.re, !.seen = seen]]
  BY DEF Pump, Step
<1> DEFINE s == [w EXCEPT !.due = FALSE]
           rest == [s EXCEPT !.queue = Tail(@)]
           again == [rest EXCEPT !.due = TRUE]
           room == Room(rest)
<1>2. PICK job, k :
        /\ DOMAIN job = JobFields /\ job.at = "auth"
        /\ w' = s \/ w' = again \/ w' = room \/ w' = [room EXCEPT !.active = {k}, !.jobs[k] = job]
  <2> DEFINE job == [NoJob EXCEPT !.at = "auth", !.re = Head(s.queue).re,
                                  !.seen = IF Head(s.queue).re THEN s.latest ELSE {}]
  <2>1. DOMAIN job = JobFields /\ job.at = "auth"
    BY DEF NoJob, JobFields
  <2> QED
    BY <1>1, <2>1
<1>3. /\ DOMAIN s = Fields /\ s.ld = w.ld /\ s.demand = w.demand /\ s.asked = w.asked
      /\ s.conts = w.conts /\ s.jobs = w.jobs /\ s.latest = w.latest
  BY DEF IInv, Core, Typed, Fields
<1> HIDE DEF s
<1>4. /\ DOMAIN rest = Fields /\ rest.ld = w.ld /\ rest.demand = w.demand /\ rest.asked = w.asked
      /\ rest.conts = w.conts /\ rest.jobs = w.jobs /\ rest.latest = w.latest
  BY <1>3 DEF Fields
<1> HIDE DEF rest
<1>5. /\ DOMAIN again = Fields /\ again.ld = w.ld /\ again.demand = w.demand
      /\ again.asked = w.asked
      /\ again.conts = w.conts /\ again.jobs = w.jobs /\ again.latest = w.latest
  BY <1>4 DEF Fields
<1> HIDE DEF again
<1>6. /\ DOMAIN room = Fields /\ room.ld = w.ld /\ room.demand = w.demand /\ room.asked = w.asked
      /\ room.conts = w.conts /\ room.jobs = w.jobs /\ room.latest = w.latest
  BY <1>4 DEF Room, WithoutOldest, Without, Fields
<1> HIDE DEF room
<1>7. Quiet(w, s) /\ Quiet(w, again) /\ Quiet(w, room)
  BY <1>3, <1>5, <1>6, PlanQuiet DEF IInv, Core
<1>8. CASE w' = [room EXCEPT !.active = {k}, !.jobs[k] = job]
  <2> DEFINE t == [room EXCEPT !.active = {k}, !.jobs[k] = job]
  <2>1. /\ DOMAIN t = Fields /\ t.ld = w.ld /\ t.demand = w.demand /\ t.asked = w.asked
        /\ t.conts = w.conts /\ t.latest = w.latest /\ t.jobs = [w.jobs EXCEPT ![k] = job]
    BY <1>6 DEF Fields
  <2> HIDE DEF t
  <2>2. Jobs(t.jobs) /\ \A n \in Items : w.jobs[n].at # "none" => t.jobs[n].at # "none"
    BY <1>2, <2>1 DEF IInv, Core, Typed, Jobs
  <2>3. \A d \in t.latest : d \in Demand /\ d \in w.latest
    BY <2>1 DEF IInv, Core, Typed
  <2>4. Quiet(w, t)
    BY <2>1, <2>2, <2>3, RestQuiet DEF IInv, Core
  <2> QED
    BY <1>8, <2>4, QuietKept DEF IInv, t
<1> QED
  BY <1>2, <1>7, <1>8, QuietKept DEF IInv

LEMMA DeferQuiet ==
    ASSUME NEW s, Typed(s), NEW k PROVE Quiet(s, Defer(s, k)) /\ Quiet(s, Decline(s, k))
<1>1. \A t \in {Defer(s, k), Decline(s, k)} :
        /\ DOMAIN t = Fields /\ t.ld = s.ld /\ t.demand = s.demand /\ t.asked = s.asked
        /\ t.conts = s.conts /\ t.jobs = s.jobs /\ t.latest = s.latest
  <2>1. PICK queue : Defer(s, k) \in {s, [s EXCEPT !.queue = queue]}
    BY DEF Defer
  <2>2. PICK declined : Decline(s, k) \in {s, [s EXCEPT !.declined = declined]}
    BY DEF Decline
  <2> QED
    BY <2>1, <2>2 DEF Typed, Fields
<1> QED
  BY <1>1, PlanQuiet

LEMMA ReserveQuiet ==
    ASSUME NEW s, Typed(s), NEW k \in Items PROVE Quiet(s, Reserve(s, k))
<1>1. PICK K :
        \/ Reserve(s, k) = Finish(Without(s, K), {k}, "null")
        \/ Reserve(s, k) = [Without(s, K) EXCEPT !.jobs[k].at = "load", !.jobs[k].size = Size[k]]
  BY DEF Reserve, WithoutOldest
<1> DEFINE a == Without(s, K)
           t == [a EXCEPT !.jobs[k].at = "load", !.jobs[k].size = Size[k]]
<1>2. Reserve(s, k) = Finish(a, {k}, "null") \/ Reserve(s, k) = t
  BY <1>1
<1>3. /\ DOMAIN a = Fields /\ a.ld = s.ld /\ a.demand = s.demand /\ a.asked = s.asked
      /\ a.conts = s.conts /\ a.jobs = s.jobs /\ a.latest = s.latest
  BY DEF Without, Typed, Fields
<1> HIDE DEF a
<1>4. Quiet(s, a) /\ Typed(a)
  BY <1>3, PlanQuiet, QuietTyped
<1>5. Quiet(a, Finish(a, {k}, "null"))
  BY <1>4, FinishQuiet DEF Ends
<1>6. /\ DOMAIN t = Fields /\ t.ld = a.ld /\ t.demand = a.demand /\ t.asked = a.asked
      /\ t.conts = a.conts /\ t.latest = a.latest
      /\ t.jobs = [a.jobs EXCEPT ![k].at = "load", ![k].size = Size[k]]
  BY <1>3 DEF Fields
<1> HIDE DEF t
<1>7. Jobs(t.jobs) /\ \A m \in Items : a.jobs[m].at # "none" => t.jobs[m].at # "none"
  BY <1>4, <1>6 DEF Typed, Jobs, JobFields
<1>8. \A d \in t.latest : d \in Demand /\ d \in a.latest
  BY <1>4, <1>6 DEF Typed
<1>9. Quiet(a, t)
  BY <1>4, <1>6, <1>7, <1>8, RestQuiet
<1> QED
  BY <1>2, <1>4, <1>5, <1>9, QuietTransitive

LEMMA FetchKept ==
    ASSUME IInv, NEW k \in Items,
           \/ \E ok \in BOOLEAN : AuthEnds(k, ok) \/ CheckEnds(k, ok)
           \/ \E got \in {"data", "fail", "null"} : LoadEnds(k, got)
           \/ JobTimer(k) \/ ReconsiderHave(k) \/ Release(k)
    PROVE  Kept(w, w')
<1>0. Core(w) /\ Typed(w)
  BY DEF IInv, Core
<1>1. SUFFICES Quiet(w, w')
  BY <1>1, QuietKept DEF IInv
<1>2. ASSUME NEW ok \in BOOLEAN, AuthEnds(k, ok) PROVE Quiet(w, w')
  <2>1. \/ \E s \in {w, Defer(w, k), Decline(w, k)} : w' = Finish(s, {k}, "null")
        \/ w' = Reserve(w, k)
    BY <1>2 DEF AuthEnds, Step
  <2>2. ASSUME NEW s \in {w, Defer(w, k), Decline(w, k)} PROVE Quiet(w, Finish(s, {k}, "null"))
    <3>1. Quiet(w, s) /\ Typed(s)
      BY <1>0, DeferQuiet, QuietSelf, QuietTyped
    <3>2. Quiet(s, Finish(s, {k}, "null"))
      BY <3>1, FinishQuiet DEF Ends
    <3> QED
      BY <3>1, <3>2, QuietTransitive
  <2> QED
    BY <1>0, <2>1, <2>2, ReserveQuiet
<1>3. ASSUME NEW ok \in BOOLEAN, CheckEnds(k, ok) PROVE Quiet(w, w')
  <2> DEFINE s == Keep(w, k)
  <2>1. w' = Finish(w, {k}, "null") \/ w' = Finish(s, {k}, "row")
    BY <1>3 DEF CheckEnds, Step
  <2>2. /\ DOMAIN s = Fields /\ s.ld = w.ld /\ s.demand = w.demand /\ s.asked = w.asked
        /\ s.conts = w.conts /\ s.jobs = w.jobs /\ s.latest = w.latest
    BY <1>0 DEF Keep, Typed, Fields
  <2> HIDE DEF s
  <2>3. Quiet(w, s) /\ Typed(s)
    BY <1>0, <2>2, PlanQuiet, QuietTyped
  <2>4. Quiet(s, Finish(s, {k}, "row")) /\ Quiet(w, Finish(w, {k}, "null"))
    BY <1>0, <2>3, FinishQuiet DEF Ends
  <2> QED
    BY <2>1, <2>3, <2>4, QuietTransitive
<1>4. ASSUME NEW got \in {"data", "fail", "null"}, LoadEnds(k, got) PROVE Quiet(w, w')
  <2> DEFINE t == [w EXCEPT !.jobs[k].at = "check"]
  <2>1. CASE got = "data"
    <3>1. w' = t
      BY <1>4, <2>1 DEF LoadEnds, Step
    <3>2. /\ DOMAIN t = Fields /\ t.ld = w.ld /\ t.demand = w.demand /\ t.asked = w.asked
          /\ t.conts = w.conts /\ t.latest = w.latest /\ t.jobs = [w.jobs EXCEPT ![k].at = "check"]
      BY <1>0 DEF Typed, Fields
    <3> HIDE DEF t
    <3>3. Jobs(t.jobs) /\ \A n \in Items : w.jobs[n].at # "none" => t.jobs[n].at # "none"
      BY <1>0, <3>2 DEF Typed, Jobs, JobFields
    <3>4. \A d \in t.latest : d \in Demand /\ d \in w.latest
      BY <1>0, <3>2 DEF Typed
    <3> QED
      BY <1>0, <3>1, <3>2, <3>3, <3>4, RestQuiet
  <2>2. CASE got \in {"fail", "null"}
    <3>1. w' = Finish(w, {k}, got) /\ got \in Ends
      BY <1>4, <2>2 DEF LoadEnds, Step, Ends
    <3> QED
      BY <1>0, <3>1, FinishQuiet
  <2> QED
    BY <2>1, <2>2
<1>5. ASSUME JobTimer(k) PROVE Quiet(w, w')
  BY <1>0, <1>5, CancelQuiet DEF JobTimer, Step
<1>6. ASSUME ReconsiderHave(k) PROVE Quiet(w, w')
  <2>1. /\ DOMAIN w' = Fields /\ w'.ld = w.ld /\ w'.demand = w.demand /\ w'.asked = w.asked
        /\ w'.conts = w.conts /\ w'.jobs = w.jobs /\ w'.latest = w.latest
    <3> DEFINE s == [w EXCEPT !.declined = @ \ {k}]
    <3>1. w' = s \/ w' = [s EXCEPT !.queue = Append(@, [k |-> k, kept |-> TRUE, re |-> TRUE]), !.due = TRUE]
      BY <1>6 DEF ReconsiderHave, Step
    <3> QED
      BY <1>0, <3>1 DEF Typed, Fields
  <2> QED
    BY <1>0, <2>1, PlanQuiet
<1>7. ASSUME Release(k) PROVE Quiet(w, w')
  BY <1>0, <1>7, WithoutQuiet DEF Release, Step
<1> QED
  BY <1>2, <1>3, <1>4, <1>5, <1>6, <1>7

-----------------------------------------------------------------------------
(* The host's actions.                                                      *)

\* The loads that wait on reuse go to their inner loaders.
LEMMA ClearKept ==
    ASSUME NEW s, Core(s), \A l \in Loaders : Waits(s, l) PROVE Kept(s, Clear(s))
<1> DEFINE s0 == [s EXCEPT !.queue = <<>>, !.latest = {}, !.declined = {}]
           s1 == Without(Cancel(s0, Items), Items)
           waiting == {l \in Loaders : s.ld[l].reuse}
           t == Clear(s)
<1>1. /\ DOMAIN s0 = Fields /\ s0.ld = s.ld /\ s0.demand = s.demand /\ s0.asked = s.asked
      /\ s0.conts = s.conts /\ s0.jobs = s.jobs /\ s0.latest = {}
  BY DEF Core, Typed, Fields
<1>2. t = [s1 EXCEPT !.conts = {c \in @ : c.l \notin waiting},
                     !.ld = [l \in Loaders |->
                               IF l \in waiting
                               THEN [@[l] EXCEPT !.reuse = FALSE, !.pin = {}, !.src = TRUE]
                               ELSE @[l]],
                     !.demand = @ \union {l \in waiting : ~s.ld[l].src}]
  BY DEF Clear
<1> HIDE DEF s0, t
<1>3. Quiet(s, s1)
  <2>1. Quiet(s, s0) /\ Typed(s0)
    BY <1>1, PlanQuiet, QuietTyped DEF Core
  <2>2. Quiet(s0, Cancel(s0, Items)) /\ Typed(Cancel(s0, Items))
    BY <2>1, CancelQuiet, QuietTyped
  <2>3. Quiet(Cancel(s0, Items), s1)
    BY <2>2, WithoutQuiet
  <2> QED
    BY <2>1, <2>2, <2>3, QuietTransitive
<1> HIDE DEF s1
<1>4. /\ Core(s1) /\ s1.ld = s.ld /\ s1.demand = s.demand /\ s1.asked = s.asked
      /\ \A l \in Loaders : Waits(s1, l)
  BY <1>3, QuietCore, QuietWaits DEF Quiet
<1>5. /\ DOMAIN t = Fields /\ t.conts = {c \in s1.conts : c.l \notin waiting}
      /\ t.demand = s.demand \union {l \in waiting : ~s.ld[l].src}
      /\ t.jobs = s1.jobs /\ t.latest = s1.latest /\ t.asked = s.asked
      /\ t.ld = [l \in Loaders |->
                   IF l \in waiting
                   THEN [s.ld[l] EXCEPT !.reuse = FALSE, !.pin = {}, !.src = TRUE]
                   ELSE s.ld[l]]
  BY <1>2, <1>4 DEF Core, Typed, Fields
<1>6. \A l \in Loaders :
        /\ l \in waiting => /\ t.ld[l].reuse = FALSE /\ t.ld[l].pin = {} /\ t.ld[l].src = TRUE
                            /\ t.ld[l].token = s.ld[l].token /\ t.ld[l].open = s.ld[l].open
        /\ l \notin waiting => t.ld[l] = s.ld[l]
        /\ DOMAIN t.ld[l] = LoaderFields /\ t.ld[l].token \in Nat
  <2> SUFFICES ASSUME NEW l \in Loaders
               PROVE  /\ l \in waiting => /\ t.ld[l].reuse = FALSE /\ t.ld[l].pin = {}
                                          /\ t.ld[l].src = TRUE /\ t.ld[l].token = s.ld[l].token
                                          /\ t.ld[l].open = s.ld[l].open
                      /\ l \notin waiting => t.ld[l] = s.ld[l]
                      /\ DOMAIN t.ld[l] = LoaderFields /\ t.ld[l].token \in Nat
    OBVIOUS
  <2> HIDE DEF waiting
  <2>1. DOMAIN s.ld[l] = LoaderFields /\ s.ld[l].token \in Nat
    BY DEF Core, Typed, LoaderStates
  <2>2. CASE l \in waiting
    <3>1. t.ld[l] = [s.ld[l] EXCEPT !.reuse = FALSE, !.pin = {}, !.src = TRUE]
      BY <1>5, <2>2
    <3> QED
      BY <2>1, <2>2, <3>1 DEF LoaderFields
  <2>3. CASE l \notin waiting
    BY <1>5, <2>1, <2>3
  <2> QED
    BY <2>2, <2>3
<1>7. Typed(t)
  BY <1>4, <1>5, <1>6 DEF Core, Typed, LoaderStates
<1>8. ASSUME NEW l \in Loaders PROVE Orderly(t, l) /\ Waits(t, l)
  <2>1. t.ld[l].open = s.ld[l].open /\ t.ld[l].token = s.ld[l].token
    BY <1>6
  <2>2. l \in t.demand <=> l \in s.demand \/ l \in waiting
    BY <1>5 DEF Core, Orderly, LoaderOrderly
  <2>3. LoaderOrderly(t, l)
    <3>1. CASE l \in waiting
      BY <1>6, <2>1, <2>2, <3>1 DEF Core, Orderly, LoaderOrderly
    <3>2. CASE l \notin waiting
      BY <1>6, <2>2, <3>2 DEF Core, Orderly, LoaderOrderly
    <3> QED
      BY <3>1, <3>2
  <2>4. InTurn(t.asked[l], t.ld[l].open)
    BY <1>5, <2>1 DEF Core, Orderly
  <2>5. Promises(t, l) = IF l \in waiting THEN {} ELSE Promises(s1, l)
    BY <1>5 DEF Promises
  <2>6. Counted(t, l)
    <3>1. Ids(t, l) \subseteq Ids(s1, l)
      BY <1>4, <1>5, <2>1, <2>5 DEF Ids, Demands
    <3>2. Counted(s1, l) /\ t.asked = s1.asked
      BY <1>4, <1>5 DEF Core, Orderly
    <3> QED
      BY <3>1, <3>2, FewerIds
  <2>7. ASSUME NEW c \in Promises(t, l) PROVE PromiseOrderly(t, c)
    <3>1. c \in Promises(s1, l) /\ l \notin waiting /\ c.l = l
      BY <2>5 DEF Promises
    <3>2. t.ld[l] = s.ld[l]
      BY <1>6, <3>1
    <3>3. t.ld[l] = s1.ld[l] /\ t.jobs = s1.jobs
      BY <1>4, <1>5, <3>2
    <3> QED
      BY <1>4, <3>1, <3>3 DEF Core, Orderly, PromiseOrderly, Current, Undecided
  <2>8. \A c, d \in Promises(t, l) : c.id = d.id => c = d
    BY <1>4, <2>5 DEF Core, Orderly
  <2>9. Waits(t, l)
    <3>1. CASE l \in waiting
      BY <2>2, <3>1 DEF Waits
    <3>2. CASE l \notin waiting
      <4>1. \A c \in Promises(s1, l) : c.l = l
        BY DEF Promises
      <4> QED
        BY <1>4, <1>6, <2>2, <2>5, <3>2, <4>1 DEF Waits, Current
    <3> QED
      BY <3>1, <3>2
  <2> QED
    BY <2>3, <2>4, <2>6, <2>7, <2>8, <2>9 DEF Orderly
<1> QED
  BY <1>5, <1>7, <1>8, MovedSelf DEF Kept, Core, t

LEMMA InitIInv == Init => IInv
<1> SUFFICES ASSUME Init PROVE IInv
  OBVIOUS
<1>1. /\ DOMAIN w = Fields /\ w.ld = [l \in Loaders |-> NewLoader] /\ w.conts = {} /\ w.demand = {}
      /\ w.jobs = [k \in Items |-> NoJob] /\ w.latest = {}
      /\ w.asked = [l \in Loaders |-> [n \in 1 .. MaxLoads |-> "unasked"]]
  BY DEF Init, Fields
<1>2. Typed(w)
  BY <1>1 DEF Typed, LoaderStates, LoaderFields, NewLoader, Jobs, JobFields, NoJob, Fates
<1>3. ASSUME NEW l \in Loaders PROVE Orderly(w, l) /\ Waits(w, l)
  <2>1. /\ w.ld[l].open = FALSE /\ w.ld[l].token = 0 /\ w.ld[l].reuse = FALSE
        /\ w.ld[l].pin = {} /\ Promises(w, l) = {} /\ Demands(w, l) = {} /\ l \notin w.demand
    BY <1>1 DEF NewLoader, Promises, Demands
  <2>2. LoaderOrderly(w, l) /\ Waits(w, l)
    BY <2>1 DEF LoaderOrderly, Waits
  <2>3. MaxLoads \in Nat /\ 0 \in 0 .. MaxLoads
    BY WarmAssumption
  <2>4. \A n \in 1 .. MaxLoads : w.asked[l][n] = "unasked" <=> n > 0
    BY <1>1, <2>3
  <2>5. InTurn(w.asked[l], w.ld[l].open)
    BY <1>1, <2>1, <2>3, <2>4 DEF InTurn
  <2>6. Ids(w, l) = {}
    BY <2>1 DEF Ids
  <2>7. Asked(w, l) = 0
    BY <2>3, <2>4, AskedCounts
  <2>8. Counted(w, l)
    BY <2>6, <2>7, FS_EmptySet DEF Counted
  <2> QED
    BY <2>1, <2>2, <2>5, <2>8 DEF Orderly
<1> QED
  BY <1>2, <1>3 DEF IInv, Core

LEMMA NextKept == ASSUME IInv, [Next]_vars PROVE Kept(w, w')
<1>0. \A l \in Loaders : Waits(w, l)
  BY DEF IInv
<1>1. CASE w' = w
  BY <1>0, <1>1, MovedSelf DEF Kept, IInv
<1>2. CASE ClearAll \/ Stop
  <2>1. w' = Clear(w)
    BY <1>2 DEF ClearAll, Stop, Step
  <2> QED
    BY <1>0, <2>1, ClearKept DEF IInv
<1>3. CASE Next
  BY <1>1, <1>2, <1>3, LoadKept, GiveUpKept, ReuseTimerKept, OriginProgressKept, OriginEndsKept,
     ContinueKept, AuthAnswersKept, PumpKept, FetchKept DEF Next, Allow
<1> QED
  BY <1>1, <1>3 DEF vars

LEMMA KeptIInv == ASSUME IInv, [Next]_vars PROVE IInv'
BY NextKept DEF Kept, IInv

-----------------------------------------------------------------------------
(* The inductive invariant holds in every reachable state: each load's own  *)
(* state, its promises and its history agree (load, cancel, current).       *)
THEOREM Invariant == Spec => []IInv
BY InitIInv, KeptIInv, PTL DEF Spec

(* A load that is not answered yet has its inner loader running or waits on *)
(* a promise that will settle (startOrigin, reuseWaiters, clear).           *)
THEOREM NoLoadStranded == Spec => []NeverStranded
<1>1. IInv => NeverStranded
  BY DEF IInv, Core, Orderly, PromiseOrderly, Waits, Promises, NeverStranded, Fetching, Typed, Promise
<1> QED
  BY <1>1, Invariant, PTL

(* Bytes are pinned for a load that still waits, and only its own fragment's*)
(* (current, cleanup).                                                      *)
THEOREM PinsAreFreed == Spec => []PinsFreed
<1>1. IInv => PinsFreed
  BY DEF IInv, Core, Orderly, LoaderOrderly, PinsFreed
<1> QED
  BY <1>1, Invariant, PTL

(* Each load is answered by exactly one callback and a new one begins only  *)
(* when it is: WarmAhead implements LoadContract (terminal.settled, token). *)
THEOREM LoadsAnsweredOnce == Spec => AnsweredOnce
<1>1. Init => Contract!Init
  BY DEF Init, Contract!Init, Contract!Loads
<1>2. ASSUME IInv, [Next]_vars PROVE [Contract!Next]_(w.asked)
  <2>1. Core(w') /\ Moved(w.asked, w'.asked)
    BY <1>2, NextKept DEF Kept
  <2>2. w'.asked \in [Loaders -> [1 .. MaxLoads -> Fates]]
    BY <2>1 DEF Core, Typed
  <2>3. \A l \in Loaders, n \in 1 .. MaxLoads :
          w'.asked[l][n] # w.asked[l][n] => <<w.asked[l][n], w'.asked[l][n]>> \in Contract!Moves
    BY <2>1 DEF Moved, Answers, Contract!Moves
  <2>4. Contract!InOrder(w'.asked)
    <3> SUFFICES ASSUME NEW l \in Loaders, NEW n \in 1 .. MaxLoads, n + 1 \in 1 .. MaxLoads,
                        w'.asked[l][n + 1] # "unasked"
                 PROVE  w'.asked[l][n] \in {"answered", "dropped"}
      BY DEF Contract!InOrder, Contract!Loads
    <3>0. MaxLoads \in Nat
      BY WarmAssumption
    <3>1. PICK m \in 0 .. MaxLoads :
            /\ \A q \in 1 .. MaxLoads : w'.asked[l][q] = "unasked" <=> q > m
            /\ \A q \in 1 .. MaxLoads : q < m => w'.asked[l][q] \in Answers
      BY <2>1 DEF Core, Orderly, InTurn
    <3> QED
      BY <3>0, <3>1 DEF Answers
  <2> QED
    BY <2>2, <2>3, <2>4 DEF Contract!Next, Contract!Loads, Contract!Fates, Fates
<1> QED
  BY <1>1, <1>2, Invariant, PTL DEF Spec, AnsweredOnce, Contract!Spec
-----------------------------------------------------------------------------
(* What is held and fetched ahead.                                          *)

Stored(s) == DOMAIN s = Fields /\ Jobs(s.jobs)

\* A fetch that no load has taken over.
Speculative(s, k) == Live(s, k) /\ ~ s.jobs[k].up

\* BoundsKept is not inductive: bytes are reserved for one fetch at a time and
\* move to the cache with it, and a speculative fetch is the active one.
Within(s) ==
    /\ Cached(s) \subseteq Items /\ Cached(s) \intersect Fetching(s) = {}
    /\ \A k \in Items :
          /\ s.jobs[k].at \in {"none", "auth", "load", "check"}
          /\ s.jobs[k].size = IF s.jobs[k].at \in {"load", "check"} THEN Size[k] ELSE 0
          /\ Speculative(s, k) => k \in s.active
    /\ \A i, j \in s.active : i = j
    /\ Cardinality(Tracked(s)) <= MaxObjects
    /\ BytesHeld(s) <= MaxBytes

\* Nothing is added: what a call does that starts no fetch, reserves nothing and
\* keeps no new fragment.
Frees(s, t) ==
    /\ Stored(t)
    /\ Cached(t) \subseteq Cached(s) /\ t.active \subseteq s.active
    /\ \A k \in Items :
          /\ \/ t.jobs[k].at = "none" /\ t.jobs[k].size = 0
             \/ t.jobs[k].at = s.jobs[k].at /\ t.jobs[k].size = s.jobs[k].size
          /\ Speculative(t, k) => Speculative(s, k) /\ (k \in s.active => k \in t.active)

LEMMA FreesTransitive ==
    ASSUME NEW s, NEW t, NEW u, Frees(s, t), Frees(t, u) PROVE Frees(s, u)
BY DEF Frees

LEMMA FewItems == IsFiniteSet(Items)
BY FS_Interval, WarmAssumption DEF Items

LEMMA BytesFinite ==
    ASSUME NEW x, \A k \in Items : Taken(x, k) \in Nat
    PROVE  IsFiniteSet(UNION {{k} \X (1 .. Taken(x, k)) : k \in Items})
<1> DEFINE Bytes(y, k) == {k} \X (1 .. Taken(y, k))
<1>1. ASSUME NEW k \in Items PROVE IsFiniteSet(Bytes(x, k))
  <2>1. IsFiniteSet(1 .. Taken(x, k))
    BY FS_Interval
  <2>2. IsFiniteSet({k})
    BY FS_Singleton
  <2> QED
    BY <2>1, <2>2, FS_Product
<1> DEFINE byteOf == [k \in Items |-> Bytes(x, k)]
           sets == {byteOf[k] : k \in Items}
<1> HIDE DEF Bytes
<1>2. byteOf \in [Items -> sets]
  OBVIOUS
<1>3. byteOf \in Surjection(Items, sets)
  BY <1>2 DEF Surjection
<1>4. IsFiniteSet(sets)
  BY <1>3, FewItems, FS_Surjection
<1>5. \A T \in sets : IsFiniteSet(T)
  BY <1>1
<1>6. sets = {Bytes(x, k) : k \in Items}
  OBVIOUS
<1> HIDE DEF sets
<1>7. IsFiniteSet(UNION sets)
  BY <1>4, <1>5, FS_UNION
<1> QED
  BY <1>6, <1>7 DEF Bytes

\* Bytes of more fragments, or more of them, are more.
LEMMA BytesGrow ==
    ASSUME NEW s, NEW t, \A k \in Items : Taken(s, k) \in Nat /\ Taken(t, k) \in Nat /\ Taken(s, k) <= Taken(t, k)
    PROVE  BytesHeld(s) \in Nat /\ BytesHeld(t) \in Nat /\ BytesHeld(s) <= BytesHeld(t)
<1> DEFINE Bytes(x, k) == {k} \X (1 .. Taken(x, k))
           All(x) == UNION {Bytes(x, k) : k \in Items}
<1>1. ASSUME NEW x, \A k \in Items : Taken(x, k) \in Nat PROVE IsFiniteSet(All(x))
  BY <1>1, BytesFinite
<1>2. All(s) \subseteq All(t)
  OBVIOUS
<1>3. IsFiniteSet(All(s)) /\ IsFiniteSet(All(t))
  BY <1>1
<1> HIDE DEF All
<1>4. Cardinality(All(s)) \in Nat /\ Cardinality(All(t)) \in Nat /\ Cardinality(All(s)) <= Cardinality(All(t))
  BY <1>2, <1>3, FS_Subset, FS_CardinalityType
<1> QED
  BY <1>4 DEF BytesHeld, All

\* What one fragment takes more is that much more in all.
LEMMA BytesMore ==
    ASSUME NEW s, NEW t, NEW k \in Items, NEW n \in Nat, \A i \in Items : Taken(s, i) \in Nat,
           Taken(s, k) = 0, Taken(t, k) = n, \A i \in Items \ {k} : Taken(t, i) = Taken(s, i)
    PROVE  BytesHeld(s) \in Nat /\ BytesHeld(t) \in Nat /\ BytesHeld(t) = BytesHeld(s) + n
<1> DEFINE Bytes(x, i) == {i} \X (1 .. Taken(x, i))
           All(x) == UNION {Bytes(x, i) : i \in Items}
<1>1. All(t) = All(s) \union Bytes(t, k)
  OBVIOUS
<1>2. All(s) \intersect Bytes(t, k) = {}
  OBVIOUS
<1>3. IsFiniteSet(All(s))
  BY BytesFinite
<1>4. IsFiniteSet(Bytes(t, k)) /\ Cardinality(Bytes(t, k)) = n
  <2>1. IsFiniteSet(1 .. n) /\ Cardinality(1 .. n) = n
    BY FS_Interval
  <2>2. IsFiniteSet({k}) /\ Cardinality({k}) = 1
    BY FS_Singleton
  <2>3. IsFiniteSet({k} \X (1 .. n)) /\ Cardinality({k} \X (1 .. n)) = 1 * n
    BY <2>1, <2>2, FS_Product
  <2> QED
    BY <2>3
<1> HIDE DEF All, Bytes
<1>5. Cardinality(All(t)) = Cardinality(All(s)) + Cardinality(Bytes(t, k)) /\ Cardinality(All(s)) \in Nat
  <2>1. Cardinality(All(t)) = Cardinality(All(s)) + Cardinality(Bytes(t, k))
                              - Cardinality(All(s) \intersect Bytes(t, k))
    BY <1>1, <1>3, <1>4, FS_Union
  <2>2. Cardinality(All(s) \intersect Bytes(t, k)) = 0
    BY <1>2, FS_EmptySet
  <2>3. Cardinality(All(s)) \in Nat
    BY <1>3, FS_CardinalityType
  <2> QED
    BY <1>4, <2>1, <2>2, <2>3
<1> QED
  BY <1>4, <1>5 DEF BytesHeld, All, Bytes

LEMMA WithinTaken ==
    ASSUME NEW s, Within(s), NEW k \in Items
    PROVE  Taken(s, k) \in Nat /\ s.jobs[k].size \in Nat /\ Size[k] \in Nat
BY WarmAssumption DEF Within, Taken

LEMMA TrackedItems == ASSUME NEW s, Within(s) PROVE Tracked(s) \subseteq Items
BY DEF Within, Tracked, Fetching

LEMMA TrackedFew ==
    ASSUME NEW s, NEW t, Cached(s) \subseteq Items, Tracked(t) \subseteq Tracked(s)
    PROVE  Cardinality(Tracked(t)) \in Nat /\ Cardinality(Tracked(s)) \in Nat
           /\ Cardinality(Tracked(t)) <= Cardinality(Tracked(s))
<1>1. IsFiniteSet(Items) /\ Tracked(s) \subseteq Items
  BY FewItems DEF Tracked, Fetching
<1>2. IsFiniteSet(Tracked(s))
  BY <1>1, FS_Subset
<1> QED
  BY <1>2, FS_Subset, FS_CardinalityType

LEMMA FreesWithin ==
    ASSUME NEW s, NEW t, Within(s), Frees(s, t) PROVE Within(t)
<1>1. Cached(t) \subseteq Items /\ Cached(t) \intersect Fetching(t) = {} /\ Tracked(t) \subseteq Tracked(s)
  BY DEF Within, Frees, Tracked, Fetching
<1>2. ASSUME NEW k \in Items
      PROVE  /\ t.jobs[k].at \in {"none", "auth", "load", "check"}
             /\ t.jobs[k].size = IF t.jobs[k].at \in {"load", "check"} THEN Size[k] ELSE 0
             /\ Speculative(t, k) => k \in t.active
  BY DEF Within, Frees
<1>3. \A i, j \in t.active : i = j
  BY DEF Within, Frees
<1>4. Cardinality(Tracked(t)) <= MaxObjects
  BY <1>1, TrackedFew, WarmAssumption DEF Within
<1>5. \A k \in Items : Taken(t, k) \in Nat /\ Taken(s, k) \in Nat /\ Taken(t, k) <= Taken(s, k)
  <2> SUFFICES ASSUME NEW k \in Items PROVE Taken(t, k) \in Nat /\ Taken(s, k) \in Nat /\ Taken(t, k) <= Taken(s, k)
    OBVIOUS
  <2>1. Taken(s, k) \in Nat /\ s.jobs[k].size \in Nat /\ Size[k] \in Nat
    BY WithinTaken
  <2>2. t.jobs[k].size = 0 \/ t.jobs[k].size = s.jobs[k].size
    BY DEF Frees
  <2>3. k \in Cached(t) => k \in Cached(s)
    BY DEF Frees
  <2> QED
    BY <2>1, <2>2, <2>3 DEF Taken
<1>6. BytesHeld(t) <= MaxBytes
  BY <1>5, BytesGrow, WarmAssumption DEF Within
<1> QED
  BY <1>1, <1>2, <1>3, <1>4, <1>6 DEF Within

\* Calls that touch neither the cache nor a fetch.
LEMMA SameFrees ==
    ASSUME NEW s, NEW t, Stored(s), DOMAIN t = Fields, t.cache = s.cache, t.jobs = s.jobs, t.active = s.active
    PROVE  Frees(s, t)
BY DEF Frees, Stored, Cached, Speculative, Live

LEMMA FinishFrees ==
    ASSUME NEW s, Stored(s), NEW K, NEW got PROVE Frees(s, Finish(s, K, got))
<1> DEFINE t == Finish(s, K, got)
<1>1. /\ DOMAIN t = Fields /\ t.cache = s.cache /\ t.active = s.active \ K
      /\ t.jobs = [k \in Items |-> IF k \in K THEN NoJob ELSE s.jobs[k]]
  BY DEF Finish, Stored, Fields
<1> HIDE DEF t
<1>2. \A k \in Items : t.jobs[k] = IF k \in K THEN NoJob ELSE s.jobs[k]
  BY <1>1
<1>3. NoJob.at = "none" /\ NoJob.size = 0 /\ DOMAIN NoJob = JobFields
  BY DEF NoJob, JobFields
<1>4. Stored(t)
  BY <1>1, <1>2, <1>3 DEF Stored, Jobs
<1>5. \A k \in Items : Speculative(t, k) => k \notin K /\ Speculative(s, k)
  BY <1>2, <1>3 DEF Speculative, Live
<1> QED
  BY <1>1, <1>2, <1>3, <1>4, <1>5 DEF Frees, Cached, t

\* Fetches are left, cancelled or taken over: each is awaited as before.
LEMMA JobsFrees ==
    ASSUME NEW s, NEW t, Stored(s), DOMAIN t = Fields, t.cache = s.cache, t.active = s.active, Jobs(t.jobs),
           \A k \in Items :
              /\ t.jobs[k].at = s.jobs[k].at /\ t.jobs[k].size = s.jobs[k].size
              /\ Speculative(t, k) => Speculative(s, k)
    PROVE  Frees(s, t)
BY DEF Frees, Stored, Cached

LEMMA CancelFrees ==
    ASSUME NEW s, Stored(s), NEW K PROVE Frees(s, Cancel(s, K))
<1> DEFINE hit == {k \in K : Live(s, k)}
           s1 == [s EXCEPT !.jobs = [k \in Items |-> IF k \in hit THEN [@[k] EXCEPT !.dead = TRUE] ELSE @[k]]]
           L == {k \in hit : s.jobs[k].at = "load"}
<1>1. Cancel(s, K) = Finish(s1, L, "null")
  BY DEF Cancel
<1>2. /\ DOMAIN s1 = Fields /\ s1.cache = s.cache /\ s1.active = s.active
      /\ s1.jobs = [k \in Items |-> IF k \in hit THEN [s.jobs[k] EXCEPT !.dead = TRUE] ELSE s.jobs[k]]
  BY DEF Stored, Fields
<1> HIDE DEF hit, s1, L
<1>3. \A k \in Items : /\ DOMAIN s1.jobs[k] = JobFields
                       /\ s1.jobs[k].at = s.jobs[k].at /\ s1.jobs[k].size = s.jobs[k].size
                       /\ s1.jobs[k].up = s.jobs[k].up /\ (s1.jobs[k].dead = TRUE \/ s1.jobs[k].dead = s.jobs[k].dead)
  BY <1>2 DEF Stored, Jobs, JobFields
<1>4. Jobs(s1.jobs)
  BY <1>2, <1>3 DEF Jobs
<1>5. Frees(s, s1)
  BY <1>2, <1>3, <1>4, JobsFrees DEF Speculative, Live
<1>6. Frees(s1, Finish(s1, L, "null"))
  BY <1>5, FinishFrees DEF Frees
<1> QED
  BY <1>1, <1>5, <1>6, FreesTransitive

LEMMA LeaveFrees ==
    ASSUME NEW s, Stored(s), NEW l PROVE Frees(s, Leave(s, l))
<1> DEFINE s1 == [s EXCEPT !.jobs = [k \in Items |-> [s.jobs[k] EXCEPT !.by = @ \ {l}]]]
<1>1. \E left : Leave(s, l) = Cancel(s1, left)
  BY DEF Leave
<1>2. /\ DOMAIN s1 = Fields /\ s1.cache = s.cache /\ s1.active = s.active
      /\ s1.jobs = [k \in Items |-> [s.jobs[k] EXCEPT !.by = s.jobs[k].by \ {l}]]
  BY DEF Stored, Fields
<1> HIDE DEF s1
<1>3. \A k \in Items : /\ DOMAIN s1.jobs[k] = JobFields
                       /\ s1.jobs[k].at = s.jobs[k].at /\ s1.jobs[k].size = s.jobs[k].size
                       /\ s1.jobs[k].up = s.jobs[k].up /\ s1.jobs[k].dead = s.jobs[k].dead
  BY <1>2 DEF Stored, Jobs, JobFields
<1>4. Jobs(s1.jobs)
  BY <1>2, <1>3 DEF Jobs
<1>5. Frees(s, s1)
  BY <1>2, <1>3, <1>4, JobsFrees DEF Speculative, Live
<1> QED
  BY <1>1, <1>5, CancelFrees, FreesTransitive DEF Frees

LEMMA WithoutFrees ==
    ASSUME NEW s, Stored(s), NEW K PROVE Frees(s, Without(s, K))
<1> DEFINE t == Without(s, K)
<1>1. /\ DOMAIN t = Fields /\ t.jobs = s.jobs /\ t.active = s.active
      /\ t.cache = [k \in Cached(s) \ K |-> s.cache[k] \ K]
  BY DEF Without, Stored, Fields
<1> HIDE DEF t
<1> QED
  BY <1>1 DEF Frees, Stored, Cached, Speculative, Live, t

\* What the calls below leave alone.
Untouched(s, t) ==
    DOMAIN t = Fields /\ t.cache = s.cache /\ t.jobs = s.jobs /\ t.active = s.active

LEMMA UntouchedFrees ==
    ASSUME NEW s, NEW t, Stored(s), Untouched(s, t) PROVE Frees(s, t)
BY SameFrees DEF Untouched

LEMMA LoaderCalls ==
    ASSUME NEW s, Stored(s), NEW l
    PROVE  /\ Untouched(s, Settle(s, l)) /\ Untouched(s, Forget(s, l))
           /\ \A c : Untouched(s, Drop(s, c))
           /\ \A fate : Untouched(s, Fate(s, l, fate))
           /\ \A v : Untouched(s, [s EXCEPT !.ld[l].won = v])
           /\ \A k, got : Untouched(s, Wait(s, l, k, got))
           /\ \A k : Untouched(s, Begin(s, l, k))
           /\ \A d : Untouched(s, [s EXCEPT !.demand = @ \ {l}, !.due = d])
BY DEF Untouched, Settle, Forget, Drop, Fate, Wait, Begin, Stored, Fields

LEMMA WonFrees ==
    ASSUME NEW s, Stored(s), NEW l, NEW v PROVE Frees(s, [s EXCEPT !.ld[l].won = v])
BY LoaderCalls, UntouchedFrees

LEMMA WaitFrees ==
    ASSUME NEW s, Stored(s), NEW l, NEW k, NEW got PROVE Frees(s, Wait(s, l, k, got))
BY LoaderCalls, UntouchedFrees

LEMMA DeliverUntouched ==
    ASSUME NEW s, Stored(s), NEW l, NEW good PROVE Untouched(s, Deliver(s, l, good))
<1> DEFINE a == IF good THEN s ELSE Forget(s, l)
           b == [a EXCEPT !.ld[l].open = FALSE]
<1>1. Deliver(s, l, good) = s \/ Deliver(s, l, good) = Fate(b, l, "answered")
  BY DEF Deliver
<1>2. Untouched(s, s) /\ Untouched(s, a)
  BY LoaderCalls DEF Untouched, Stored
<1> HIDE DEF a
<1>3. Untouched(a, b) /\ Stored(b)
  BY <1>2 DEF Untouched, Stored, Fields
<1> HIDE DEF b
<1>4. Untouched(b, Fate(b, l, "answered"))
  BY <1>3, LoaderCalls
<1> QED
  BY <1>1, <1>2, <1>3, <1>4 DEF Untouched

LEMMA StartInnerFrees ==
    ASSUME NEW s, Stored(s), NEW l PROVE Frees(s, StartInner(s, l))
<1> DEFINE s1 == [s EXCEPT !.demand = @ \union {l}, !.ld[l].src = TRUE]
<1>1. StartInner(s, l) = Cancel(s1, s1.active) \/ StartInner(s, l) = s1
  BY DEF StartInner
<1>2. Frees(s, s1)
  <2>1. DOMAIN s1 = Fields /\ s1.cache = s.cache /\ s1.jobs = s.jobs /\ s1.active = s.active
    BY DEF Stored, Fields
  <2> HIDE DEF s1
  <2> QED
    BY <2>1, SameFrees
<1> HIDE DEF s1
<1>3. Frees(s1, Cancel(s1, s1.active))
  BY <1>2, CancelFrees DEF Frees
<1> QED
  BY <1>1, <1>2, <1>3, FreesTransitive

LEMMA StartOriginFrees ==
    ASSUME NEW s, Stored(s), NEW l PROVE Frees(s, StartOrigin(s, l))
BY StartInnerFrees, SameFrees DEF StartOrigin, Stored

LEMMA GiveUpFrees ==
    ASSUME NEW s, Stored(s), NEW l, NEW fate PROVE Frees(s, GiveUp(s, l, fate))
<1> DEFINE s1 == IF s.ld[l].open THEN Forget(s, l) ELSE s
           a == Settle(s1, l)
           b == Leave(a, l)
           s2 == [b EXCEPT !.ld[l].token = 0, !.ld[l].src = FALSE, !.ld[l].open = FALSE,
                           !.demand = @ \ {l}]
<1>1. GiveUp(s, l, fate) = Fate(s2, l, fate) \/ GiveUp(s, l, fate) = s2
  BY DEF GiveUp
<1>2. Frees(s, s1)
  BY LoaderCalls, UntouchedFrees, SameFrees DEF Stored
<1> HIDE DEF s1
<1>3. Frees(s1, a)
  BY <1>2, LoaderCalls, UntouchedFrees DEF Frees
<1> HIDE DEF a
<1>4. Frees(a, b)
  BY <1>3, LeaveFrees DEF Frees
<1> HIDE DEF b
<1>5. Frees(b, s2)
  <2>1. Untouched(b, s2)
    BY <1>4 DEF Frees, Stored, Untouched, Fields
  <2> HIDE DEF s2
  <2> QED
    BY <1>4, <2>1, UntouchedFrees DEF Frees
<1> HIDE DEF s2
<1>6. Frees(s2, Fate(s2, l, fate))
  BY <1>5, LoaderCalls, UntouchedFrees DEF Frees
<1>7. Frees(s, s2)
  BY <1>2, <1>3, <1>4, <1>5, FreesTransitive
<1> QED
  BY <1>1, <1>6, <1>7, FreesTransitive

LEMMA ClearFrees ==
    ASSUME NEW s, Stored(s) PROVE Frees(s, Clear(s))
<1> DEFINE s0 == [s EXCEPT !.queue = <<>>, !.latest = {}, !.declined = {}]
           a == Cancel(s0, Items)
           s1 == Without(a, Items)
<1>1. PICK C, L, D : Clear(s) = [s1 EXCEPT !.conts = C, !.ld = L, !.demand = D]
  BY DEF Clear
<1> DEFINE t == [s1 EXCEPT !.conts = C, !.ld = L, !.demand = D]
<1>2. Frees(s, s0)
  <2>1. Untouched(s, s0)
    BY DEF Untouched, Stored, Fields
  <2> QED
    BY <2>1, UntouchedFrees
<1> HIDE DEF s0
<1>3. Frees(s0, a)
  BY <1>2, CancelFrees DEF Frees
<1> HIDE DEF a
<1>4. Frees(a, s1)
  BY <1>3, WithoutFrees DEF Frees
<1> HIDE DEF s1
<1>5. Frees(s1, t)
  <2>1. Untouched(s1, t)
    BY <1>4 DEF Untouched, Frees, Stored, Fields
  <2> QED
    BY <1>4, <2>1, UntouchedFrees DEF Frees
<1> QED
  BY <1>1, <1>2, <1>3, <1>4, <1>5, FreesTransitive

LEMMA NoteFrees ==
    ASSUME NEW s, Stored(s), NEW l, NEW k PROVE Frees(s, Note(s, l, k))
<1> DEFINE s1 == [s EXCEPT !.latest = {}, !.declined = {}]
<1>1. PICK K, Q, L : LET b == Cancel(Without(s1, K), K)
                     IN  Note(s, l, k) = s1 \/ Note(s, l, k) = [b EXCEPT !.queue = Q, !.latest = L]
  BY DEF Note
<1> DEFINE a == Without(s1, K)
           b == Cancel(a, K)
           t == [b EXCEPT !.queue = Q, !.latest = L]
<1>2. Frees(s, s1)
  <2>1. Untouched(s, s1)
    BY DEF Untouched, Stored, Fields
  <2> QED
    BY <2>1, UntouchedFrees
<1> HIDE DEF s1
<1>3. Frees(s1, a)
  BY <1>2, WithoutFrees DEF Frees
<1> HIDE DEF a
<1>4. Frees(a, b)
  BY <1>3, CancelFrees DEF Frees
<1> HIDE DEF b
<1>5. Frees(b, t)
  <2>1. Untouched(b, t)
    BY <1>4 DEF Untouched, Frees, Stored, Fields
  <2> QED
    BY <1>4, <2>1, UntouchedFrees DEF Frees
<1>6. Note(s, l, k) = s1 \/ Note(s, l, k) = t
  BY <1>1 DEF a, b
<1> QED
  BY <1>2, <1>3, <1>4, <1>5, <1>6, FreesTransitive

\* The first load to join takes the active fetch over.
LEMMA JoinFrees ==
    ASSUME NEW s, Stored(s), Within(s), NEW l, NEW k \in Items PROVE Frees(s, Join(s, l, k))
<1> DEFINE s1 == [s EXCEPT !.jobs[k].by = @ \union {l}]
           t == [s1 EXCEPT !.active = {}, !.jobs[k].up = TRUE]
<1>1. Join(s, l, k) = s1 \/ (k \in s.active /\ Join(s, l, k) = t)
  BY DEF Join
<1>2. /\ DOMAIN s1 = Fields /\ s1.cache = s.cache /\ s1.active = s.active
      /\ s1.jobs = [s.jobs EXCEPT ![k].by = s.jobs[k].by \union {l}]
  BY DEF Stored, Fields
<1>3. \A n \in Items : /\ DOMAIN s1.jobs[n] = JobFields
                       /\ s1.jobs[n].at = s.jobs[n].at /\ s1.jobs[n].size = s.jobs[n].size
                       /\ s1.jobs[n].up = s.jobs[n].up /\ s1.jobs[n].dead = s.jobs[n].dead
  BY <1>2 DEF Stored, Jobs, JobFields
<1>4. DOMAIN s1.jobs = Items
  BY <1>2 DEF Stored, Jobs
<1> HIDE DEF s1
<1>5. Jobs(s1.jobs)
  BY <1>3, <1>4 DEF Jobs
<1>6. Frees(s, s1)
  BY <1>2, <1>3, <1>5, JobsFrees DEF Speculative, Live
<1>7. ASSUME k \in s.active PROVE Frees(s, t)
  <2>1. /\ DOMAIN t = Fields /\ t.cache = s1.cache /\ t.active = {}
        /\ t.jobs = [s1.jobs EXCEPT ![k].up = TRUE]
    BY <1>2 DEF Fields
  <2> HIDE DEF t
  <2>2. \A n \in Items : /\ DOMAIN t.jobs[n] = JobFields
                         /\ t.jobs[n].at = s.jobs[n].at /\ t.jobs[n].size = s.jobs[n].size
                         /\ t.jobs[n].dead = s.jobs[n].dead
                         /\ t.jobs[n].up = IF n = k THEN TRUE ELSE s.jobs[n].up
    <3>1. \A n \in Items : t.jobs[n] = IF n = k THEN [s1.jobs[k] EXCEPT !.up = TRUE] ELSE s1.jobs[n]
      BY <1>4, <2>1
    <3> QED
      BY <1>3, <3>1 DEF JobFields
  <2>3. Jobs(t.jobs)
    BY <1>4, <2>1, <2>2 DEF Jobs
  <2>4. \A n \in Items : ~ Speculative(t, n)
    <3> SUFFICES ASSUME NEW n \in Items, Speculative(t, n) PROVE FALSE
      OBVIOUS
    <3>1. n # k /\ Speculative(s, n)
      BY <2>2 DEF Speculative, Live
    <3> QED
      BY <1>7, <3>1 DEF Within
  <2> QED
    BY <1>2, <2>1, <2>2, <2>3, <2>4 DEF Frees, Stored, Cached
<1> QED
  BY <1>1, <1>6, <1>7

LEMMA DeferFrees ==
    ASSUME NEW s, Stored(s), NEW k PROVE Frees(s, Defer(s, k)) /\ Frees(s, Decline(s, k))
<1>1. \A t \in {Defer(s, k), Decline(s, k)} : Untouched(s, t)
  <2>1. PICK queue : Defer(s, k) \in {s, [s EXCEPT !.queue = queue]}
    BY DEF Defer
  <2>2. PICK declined : Decline(s, k) \in {s, [s EXCEPT !.declined = declined]}
    BY DEF Decline
  <2> QED
    BY <2>1, <2>2 DEF Untouched, Stored, Fields
<1> QED
  BY <1>1, UntouchedFrees

\* A permit's bytes are reserved when what is held leaves room for them.
LEMMA ReserveWithin ==
    ASSUME NEW s, Stored(s), Within(s), NEW k \in Items, s.jobs[k].at = "auth"
    PROVE  Within(Reserve(s, k))
<1>1. PICK K :
        \/ Reserve(s, k) = Finish(Without(s, K), {k}, "null")
        \/ /\ Reserve(s, k) = [Without(s, K) EXCEPT !.jobs[k].at = "load", !.jobs[k].size = Size[k]]
           /\ BytesHeld(Without(s, K)) + Size[k] <= MaxBytes
  <2> DEFINE fits == {n \in 0..Cardinality(Cached(s)) : BytesHeld(WithoutOldest(s, n)) + Size[k] <= MaxBytes}
  <2>1. fits # {} => Min(fits) \in fits
    <3>1. fits \subseteq Nat
      OBVIOUS
    <3>2. fits # {} => \E m \in fits : \A x \in fits : m <= x
      BY <3>1, LeastOfSet
    <3> HIDE DEF fits
    <3> QED
      BY <3>2 DEF Min
  <2>2. /\ fits = {} => Reserve(s, k) = Finish(Without(s, Cached(s)), {k}, "null")
        /\ fits # {} => Reserve(s, k) = [WithoutOldest(s, Min(fits)) EXCEPT !.jobs[k].at = "load",
                                                                          !.jobs[k].size = Size[k]]
    BY DEF Reserve
  <2>3. fits # {} => BytesHeld(WithoutOldest(s, Min(fits))) + Size[k] <= MaxBytes
    BY <2>1
  <2> HIDE DEF fits
  <2> QED
    BY <2>2, <2>3 DEF WithoutOldest
<1> DEFINE a == Without(s, K)
           t == [a EXCEPT !.jobs[k].at = "load", !.jobs[k].size = Size[k]]
<1>2. Frees(s, a) /\ a.jobs = s.jobs
  BY WithoutFrees DEF Without, Stored, Fields
<1> HIDE DEF a
<1>3. Within(a) /\ Stored(a)
  BY <1>2, FreesWithin DEF Frees
<1>4. Within(Finish(a, {k}, "null"))
  BY <1>3, FinishFrees, FreesWithin
<1>5. ASSUME BytesHeld(a) + Size[k] <= MaxBytes PROVE Within(t)
  <2>1. /\ DOMAIN t = Fields /\ t.cache = a.cache /\ t.active = a.active
        /\ t.jobs = [a.jobs EXCEPT ![k].at = "load", ![k].size = Size[k]]
    BY <1>3 DEF Stored, Fields
  <2> HIDE DEF t
  <2>2. \A n \in Items : t.jobs[n] = IF n = k THEN [a.jobs[k] EXCEPT !.at = "load", !.size = Size[k]] ELSE a.jobs[n]
    BY <1>3, <2>1 DEF Stored, Jobs
  <2>3. /\ t.jobs[k].at = "load" /\ t.jobs[k].size = Size[k]
        /\ t.jobs[k].dead = a.jobs[k].dead /\ t.jobs[k].up = a.jobs[k].up
    BY <1>3, <2>2 DEF Stored, Jobs, JobFields
  <2>4. a.jobs[k].at = "auth" /\ a.jobs[k].size = 0
    BY <1>2, <1>3 DEF Within
  <2>5. \A n \in Items : Speculative(t, n) <=> Speculative(a, n)
    BY <2>2, <2>3, <2>4 DEF Speculative, Live
  <2>6. Cached(t) = Cached(a) /\ Fetching(t) = Fetching(a) /\ Tracked(t) = Tracked(a)
    BY <2>1, <2>2, <2>3, <2>4 DEF Cached, Fetching, Tracked
  <2>7. BytesHeld(t) <= MaxBytes
    <3>1. k \notin Cached(a)
      BY <1>3, <2>4 DEF Within, Fetching
    <3>2. Taken(a, k) = 0 /\ Taken(t, k) = Size[k]
      BY <2>3, <2>4, <2>6, <3>1, WarmAssumption DEF Taken
    <3>3. \A n \in Items \ {k} : Taken(t, n) = Taken(a, n)
      BY <2>2, <2>6 DEF Taken
    <3>4. \A n \in Items : Taken(a, n) \in Nat
      BY <1>3, WithinTaken
    <3>5. Size[k] \in Nat
      BY WarmAssumption
    <3>6. BytesHeld(a) \in Nat /\ BytesHeld(t) \in Nat /\ BytesHeld(t) = BytesHeld(a) + Size[k]
      BY <3>2, <3>3, <3>4, <3>5, BytesMore
    <3> QED
      BY <1>5, <3>6
  <2> QED
    BY <1>3, <2>1, <2>2, <2>3, <2>5, <2>6, <2>7 DEF Within
<1> QED
  BY <1>1, <1>4, <1>5 DEF a

LEMMA LoadWithin ==
    ASSUME IInv, Within(w), NEW l \in Loaders, NEW k \in Plays, Load(l, k) PROVE Within(w')
<1> DEFINE s0 == GiveUp(w, l, "answered")
           s1 == Begin(s0, l, k)
           s2 == Note(s1, l, k)
           s3 == Join(s2, l, k)
<1>0. k \in Items /\ Stored(w)
  BY WarmAssumption DEF IInv, Core, Typed, Stored
<1>1. \/ w' = Wait(s2, l, k, "row")
      \/ w' = Wait(s3, l, k, "pending")
      \/ w' = StartInner(s2, l)
  BY DEF Load, Step, Begin
<1>2. Frees(w, s0)
  BY <1>0, GiveUpFrees
<1> HIDE DEF s0
<1>3. Frees(s0, s1)
  BY <1>2, LoaderCalls, UntouchedFrees DEF Frees
<1> HIDE DEF s1
<1>4. Frees(s1, s2)
  BY <1>3, NoteFrees DEF Frees
<1> HIDE DEF s2
<1>5. Within(s2) /\ Stored(s2)
  BY <1>2, <1>3, <1>4, FreesWithin DEF Frees
<1>6. Within(s3) /\ Stored(s3)
  BY <1>0, <1>5, JoinFrees, FreesWithin DEF Frees
<1> HIDE DEF s3
<1>7. ASSUME NEW s \in {s2, s3}, NEW got PROVE Within(Wait(s, l, k, got))
  BY <1>5, <1>6, WaitFrees, FreesWithin
<1>8. Within(StartInner(s2, l))
  BY <1>5, StartInnerFrees, FreesWithin
<1> QED
  BY <1>1, <1>7, <1>8

\* What a load does of itself only frees.
LEMMA ContinueFrees ==
    ASSUME Stored(w), NEW c \in w.conts, Continue(c) PROVE Frees(w, w')
<1> DEFINE d == Drop(w, c)
           l == c.l
           s == Leave(d, l)
           e == Settle(s, l)
           x == [e EXCEPT !.ld[l].won = "origin"]
           held == [s EXCEPT !.ld[l].pin = {c.k}, !.conts = @ \union {[c EXCEPT !.got = "auth"]}]
<1>1. \/ w' = d
      \/ w' = StartOrigin(e, l)
      \/ w' = Deliver(x, l, FALSE)
      \/ w' = held \/ w' = StartOrigin(held, l)
  BY DEF Continue, Step
<1>2. Frees(w, d)
  BY LoaderCalls, UntouchedFrees
<1> HIDE DEF d, l
<1>3. Frees(d, s)
  BY <1>2, LeaveFrees DEF Frees
<1> HIDE DEF s
<1>4. Frees(s, held)
  <2>1. Untouched(s, held)
    BY <1>3 DEF Untouched, Frees, Stored, Fields
  <2> QED
    BY <1>3, <2>1, UntouchedFrees DEF Frees
<1> HIDE DEF held
<1>5. Frees(s, e)
  BY <1>3, LoaderCalls, UntouchedFrees DEF Frees
<1> HIDE DEF e
<1>6. Frees(e, x)
  BY <1>5, WonFrees DEF Frees
<1> HIDE DEF x
<1>7. Frees(x, Deliver(x, l, FALSE))
  BY <1>6, DeliverUntouched, UntouchedFrees DEF Frees
<1>8. Frees(e, StartOrigin(e, l)) /\ Frees(held, StartOrigin(held, l))
  BY <1>4, <1>5, StartOriginFrees DEF Frees
<1>9. Frees(w, s)
  BY <1>2, <1>3, FreesTransitive
<1>10. Frees(w, e) /\ Frees(w, held)
  BY <1>4, <1>5, <1>9, FreesTransitive
<1>11. Frees(w, Deliver(x, l, FALSE))
  BY <1>6, <1>7, <1>10, FreesTransitive
<1>12. Frees(w, StartOrigin(e, l)) /\ Frees(w, StartOrigin(held, l))
  BY <1>8, <1>10, FreesTransitive
<1> QED
  BY <1>1, <1>2, <1>10, <1>11, <1>12

LEMMA AuthAnswersFrees ==
    ASSUME Stored(w), NEW c \in w.conts, NEW ok \in BOOLEAN, AuthAnswers(c, ok) PROVE Frees(w, w')
<1> DEFINE d == Drop(w, c)
           l == c.l
           e == Settle(d, l)
           x == [e EXCEPT !.ld[l].won = "cache"]
           y == Deliver(x, l, TRUE)
           z == [y EXCEPT !.demand = @ \ {l}, !.due = TRUE]
           a == Without(d, {c.k})
<1>1. w' = d \/ w' = z \/ w' = StartOrigin(a, l)
  BY DEF AuthAnswers, Step
<1>2. Frees(w, d)
  BY LoaderCalls, UntouchedFrees
<1> HIDE DEF d, l
<1>3. Frees(d, e) /\ Frees(d, a)
  BY <1>2, LoaderCalls, UntouchedFrees, WithoutFrees DEF Frees
<1> HIDE DEF e, a
<1>4. Frees(a, StartOrigin(a, l))
  BY <1>3, StartOriginFrees DEF Frees
<1>5. Frees(e, x)
  BY <1>3, WonFrees DEF Frees
<1> HIDE DEF x
<1>6. Frees(x, y)
  BY <1>5, DeliverUntouched, UntouchedFrees DEF Frees
<1> HIDE DEF y
<1>7. Frees(y, z)
  <2>1. Untouched(y, z)
    BY <1>6 DEF Untouched, Frees, Stored, Fields
  <2> QED
    BY <1>6, <2>1, UntouchedFrees DEF Frees
<1> HIDE DEF z
<1>8. Frees(w, a) /\ Frees(w, e)
  BY <1>2, <1>3, FreesTransitive
<1>9. Frees(w, z)
  BY <1>5, <1>6, <1>7, <1>8, FreesTransitive
<1> QED
  BY <1>1, <1>2, <1>4, <1>8, <1>9, FreesTransitive

LEMMA LoaderFrees ==
    ASSUME Stored(w), NEW l \in Loaders,
           \/ Abort(l) \/ Destroy(l) \/ ReuseTimer(l) \/ OriginProgress(l)
           \/ \E good \in BOOLEAN : OriginEnds(l, good)
    PROVE  Frees(w, w')
<1> DEFINE e == Settle(w, l)
           x == [e EXCEPT !.ld[l].won = "origin"]
           y == [e EXCEPT !.ld[l].won = "origin", !.demand = @ \ {l}, !.due = TRUE]
<1>1. \/ \E fate : w' = GiveUp(w, l, fate)
      \/ w' = StartOrigin(w, l)
      \/ w' = x
      \/ \E good : w' = Deliver(y, l, good)
  BY DEF Abort, Destroy, ReuseTimer, OriginProgress, OriginEnds, Step
<1>2. Frees(w, e)
  BY LoaderCalls, UntouchedFrees
<1> HIDE DEF e
<1>3. Frees(e, x)
  BY <1>2, WonFrees DEF Frees
<1>4. Frees(e, y)
  <2>1. Untouched(e, y)
    BY <1>2 DEF Untouched, Frees, Stored, Fields
  <2> QED
    BY <1>2, <2>1, UntouchedFrees DEF Frees
<1> HIDE DEF x, y
<1>5. \A good : Frees(y, Deliver(y, l, good))
  BY <1>4, DeliverUntouched, UntouchedFrees DEF Frees
<1>6. Frees(w, x) /\ Frees(w, y)
  BY <1>2, <1>3, <1>4, FreesTransitive
<1> QED
  BY <1>1, <1>5, <1>6, GiveUpFrees, StartOriginFrees, FreesTransitive

\* A fetch is begun only while fewer than MaxObjects are tracked.
LEMMA PumpWithin ==
    ASSUME Stored(w), Within(w), Pump PROVE Within(w')
<1> DEFINE s == [w EXCEPT !.due = FALSE]
           k == Head(s.queue).k
           rest == [s EXCEPT !.queue = Tail(@)]
           again == [rest EXCEPT !.due = TRUE]
           room == Room(rest)
<1>1. PICK re, seen :
        \/ w' = s \/ w' = again \/ w' = room
        \/ /\ k \notin Tracked(s) /\ s.active = {}
           /\ ~ (Cardinality(Tracked(room)) >= MaxObjects)
           /\ w' = [room EXCEPT !.active = {k},
                                !.jobs[k] = [NoJob EXCEPT !.at = "auth", !.re = re, !.seen = seen]]
  BY DEF Pump, PumpMay, Step
<1> DEFINE job == [NoJob EXCEPT !.at = "auth", !.re = re, !.seen = seen]
           t == [room EXCEPT !.active = {k}, !.jobs[k] = job]
<1>2. DOMAIN job = JobFields /\ job.at = "auth" /\ job.size = 0 /\ ~ job.up
  BY DEF NoJob, JobFields
<1> HIDE DEF job
<1>3. Untouched(w, s)
  BY DEF Untouched, Stored, Fields
<1> HIDE DEF s, k
<1>4. Untouched(s, rest)
  BY <1>3 DEF Untouched, Fields
<1> HIDE DEF rest
<1>5. Untouched(rest, again)
  BY <1>4 DEF Untouched, Fields
<1> HIDE DEF again
<1>6. Untouched(w, rest) /\ Untouched(w, again)
  BY <1>3, <1>4, <1>5 DEF Untouched
<1>7. Frees(w, s) /\ Frees(w, rest) /\ Frees(w, again)
  BY <1>3, <1>6, UntouchedFrees
<1>8. Frees(rest, room) /\ room.active = rest.active /\ room.jobs = rest.jobs
  <2>1. Stored(rest)
    BY <1>7 DEF Frees
  <2>2. PICK K : room = Without(rest, K)
    BY DEF Room, WithoutOldest
  <2>3. Frees(rest, Without(rest, K))
    BY <2>1, WithoutFrees
  <2>4. Without(rest, K).active = rest.active /\ Without(rest, K).jobs = rest.jobs
    BY <2>1 DEF Without, Stored, Fields
  <2> QED
    BY <2>2, <2>3, <2>4
<1> HIDE DEF room
<1>9. Frees(w, room) /\ Stored(room) /\ Within(room)
  BY <1>7, <1>8, FreesTransitive, FreesWithin DEF Frees
<1>10. ASSUME k \notin Tracked(s), s.active = {}, ~ (Cardinality(Tracked(room)) >= MaxObjects), w' = t
       PROVE  Within(t)
  <2>1. /\ DOMAIN t = Fields /\ t.cache = room.cache /\ t.active = {k}
        /\ t.jobs = [room.jobs EXCEPT ![k] = job]
    BY <1>9 DEF Stored, Fields
  <2> HIDE DEF t
  <2>2. \A n \in Items : t.jobs[n] = IF n = k THEN job ELSE room.jobs[n]
    BY <1>9, <2>1 DEF Stored, Jobs
  <2>3. k \notin Tracked(room) /\ room.active = {}
    BY <1>3, <1>4, <1>8, <1>9, <1>10 DEF Untouched, Frees, Tracked, Cached, Fetching
  <2>4. Cached(t) = Cached(room) /\ Tracked(t) \subseteq Tracked(room) \union {k}
    BY <1>2, <2>1, <2>2 DEF Cached, Tracked, Fetching
  <2>5. Cardinality(Tracked(t)) <= MaxObjects
    <3>1. IsFiniteSet(Tracked(room))
      BY <1>9, FewItems, FS_Subset, TrackedItems
    <3>2. IsFiniteSet(Tracked(room) \union {k})
          /\ Cardinality(Tracked(room) \union {k}) = Cardinality(Tracked(room)) + 1
      BY <2>3, <3>1, FS_AddElement
    <3>3. Cardinality(Tracked(t)) <= Cardinality(Tracked(room) \union {k})
          /\ Cardinality(Tracked(t)) \in Nat /\ Cardinality(Tracked(room)) \in Nat
      BY <2>4, <3>1, <3>2, FS_Subset, FS_CardinalityType
    <3> QED
      BY <1>10, <3>2, <3>3, WarmAssumption
  <2>6. BytesHeld(t) <= MaxBytes
    <3>1. \A n \in Items : Taken(t, n) \in Nat /\ Taken(room, n) \in Nat /\ Taken(t, n) <= Taken(room, n)
      <4> SUFFICES ASSUME NEW n \in Items
                   PROVE  Taken(t, n) \in Nat /\ Taken(room, n) \in Nat /\ Taken(t, n) <= Taken(room, n)
        OBVIOUS
      <4>1. Taken(room, n) \in Nat /\ room.jobs[n].size \in Nat /\ Size[n] \in Nat
        BY <1>9, WithinTaken
      <4>2. t.jobs[n].size = 0 \/ t.jobs[n].size = room.jobs[n].size
        BY <1>2, <2>2
      <4> QED
        BY <2>4, <4>1, <4>2 DEF Taken
    <3> QED
      BY <1>9, <3>1, BytesGrow, WarmAssumption DEF Within
  <2>7. Cached(t) \subseteq Items /\ Cached(t) \intersect Fetching(t) = {}
    <3>1. Cached(room) \subseteq Items /\ Cached(room) \intersect Fetching(room) = {}
      BY <1>9 DEF Within
    <3>2. Fetching(t) \subseteq Fetching(room) \union {k}
      BY <2>2 DEF Fetching
    <3>3. k \notin Cached(room)
      BY <2>3 DEF Tracked
    <3> QED
      BY <2>4, <3>1, <3>2, <3>3
  <2>8. ASSUME NEW n \in Items
        PROVE  /\ t.jobs[n].at \in {"none", "auth", "load", "check"}
               /\ t.jobs[n].size = IF t.jobs[n].at \in {"load", "check"} THEN Size[n] ELSE 0
               /\ Speculative(t, n) => n \in t.active
    <3>1. CASE n = k
      BY <1>2, <2>1, <2>2, <3>1
    <3>2. CASE n # k
      <4>1. t.jobs[n] = room.jobs[n] /\ (Speculative(t, n) => Speculative(room, n))
        BY <2>2, <3>2 DEF Speculative, Live
      <4> QED
        BY <1>9, <2>3, <4>1 DEF Within
    <3> QED
      BY <3>1, <3>2
  <2>9. \A i, j \in t.active : i = j
    BY <2>1
  <2> QED
    BY <2>5, <2>6, <2>7, <2>8, <2>9 DEF Within
<1>11. Within(s) /\ Within(again)
  BY <1>7, FreesWithin
<1> QED
  BY <1>1, <1>9, <1>10, <1>11 DEF job

LEMMA AuthEndsWithin ==
    ASSUME Stored(w), Within(w), NEW k \in Items, NEW ok \in BOOLEAN, AuthEnds(k, ok) PROVE Within(w')
<1>1. \/ \E s \in {w, Defer(w, k), Decline(w, k)} : w' = Finish(s, {k}, "null")
      \/ w' = Reserve(w, k)
  BY DEF AuthEnds, Step
<1>2. ASSUME NEW s \in {w, Defer(w, k), Decline(w, k)} PROVE Within(Finish(s, {k}, "null"))
  <2>1. Within(s) /\ Stored(s)
    BY DeferFrees, FreesWithin DEF Frees
  <2> QED
    BY <2>1, FinishFrees, FreesWithin
<1>3. w.jobs[k].at = "auth"
  BY DEF AuthEnds
<1> QED
  BY <1>1, <1>2, <1>3, ReserveWithin

LEMMA LoadEndsWithin ==
    ASSUME Stored(w), Within(w), NEW k \in Items, NEW got, LoadEnds(k, got) PROVE Within(w')
<1> DEFINE t == [w EXCEPT !.jobs[k].at = "check"]
<1>1. w.jobs[k].at = "load" /\ (w' = t \/ w' = Finish(w, {k}, got))
  BY DEF LoadEnds, Step
<1>2. /\ DOMAIN t = Fields /\ t.cache = w.cache /\ t.active = w.active
      /\ t.jobs = [w.jobs EXCEPT ![k].at = "check"]
  BY DEF Stored, Fields
<1> HIDE DEF t
<1>3. \A n \in Items : t.jobs[n] = IF n = k THEN [w.jobs[k] EXCEPT !.at = "check"] ELSE w.jobs[n]
  BY <1>2 DEF Stored, Jobs
<1>4. \A n \in Items : /\ t.jobs[n].at = IF n = k THEN "check" ELSE w.jobs[n].at
                       /\ t.jobs[n].size = w.jobs[n].size /\ t.jobs[n].dead = w.jobs[n].dead
                       /\ t.jobs[n].up = w.jobs[n].up
  BY <1>3 DEF Stored, Jobs, JobFields
<1>5. Cached(t) = Cached(w) /\ Fetching(t) = Fetching(w) /\ Tracked(t) = Tracked(w)
  BY <1>1, <1>2, <1>4 DEF Cached, Fetching, Tracked
<1>6. \A n \in Items : Speculative(t, n) => Speculative(w, n)
  BY <1>1, <1>4 DEF Speculative, Live
<1>7. \A n \in Items : Taken(t, n) = Taken(w, n) /\ Taken(w, n) \in Nat
  BY <1>4, <1>5, WithinTaken DEF Taken
<1>8. BytesHeld(t) <= MaxBytes
  BY <1>7, BytesGrow, WarmAssumption DEF Within
<1>9. Within(t)
  BY <1>1, <1>2, <1>4, <1>5, <1>6, <1>8 DEF Within
<1> QED
  BY <1>1, <1>9, FinishFrees, FreesWithin

\* Verified bytes move from the fetch to the cache.
LEMMA CheckEndsWithin ==
    ASSUME Stored(w), Within(w), NEW k \in Items, NEW ok \in BOOLEAN, CheckEnds(k, ok) PROVE Within(w')
<1> DEFINE s == Keep(w, k)
           t == Finish(s, {k}, "row")
<1>1. w.jobs[k].at = "check" /\ (w' = Finish(w, {k}, "null") \/ w' = t)
  BY DEF CheckEnds, Step
<1>2. /\ DOMAIN s = Fields /\ s.jobs = w.jobs /\ s.active = w.active /\ Cached(s) = Cached(w) \union {k}
  BY DEF Keep, Cached, Stored, Fields
<1>3. /\ DOMAIN t = Fields /\ t.cache = s.cache /\ t.active = w.active \ {k}
      /\ t.jobs = [n \in Items |-> IF n = k THEN NoJob ELSE w.jobs[n]]
  BY <1>2 DEF Finish, Fields
<1> HIDE DEF s, t
<1>4. \A n \in Items : t.jobs[n] = IF n = k THEN NoJob ELSE w.jobs[n]
  BY <1>3
<1>5. NoJob.at = "none" /\ NoJob.size = 0
  BY DEF NoJob
<1>6. Cached(t) = Cached(w) \union {k} /\ Fetching(t) = Fetching(w) \ {k} /\ k \in Fetching(w)
  BY <1>1, <1>2, <1>3, <1>4, <1>5 DEF Cached, Fetching
<1>7. Tracked(t) = Tracked(w)
  BY <1>6 DEF Tracked
<1>8. \A n \in Items : Speculative(t, n) => n # k /\ Speculative(w, n)
  BY <1>4, <1>5 DEF Speculative, Live
<1>9. \A n \in Items : Taken(t, n) = Taken(w, n) /\ Taken(w, n) \in Nat
  <2> SUFFICES ASSUME NEW n \in Items PROVE Taken(t, n) = Taken(w, n) /\ Taken(w, n) \in Nat
    OBVIOUS
  <2>1. CASE n = k
    <3>1. k \notin Cached(w) /\ w.jobs[k].size = Size[k] /\ Size[k] \in Nat
      BY <1>1, <1>6, WarmAssumption DEF Within
    <3> QED
      BY <1>4, <1>5, <1>6, <2>1, <3>1 DEF Taken
  <2>2. CASE n # k
    BY <1>4, <1>6, <2>2, WithinTaken DEF Taken
  <2> QED
    BY <2>1, <2>2
<1>10. BytesHeld(t) <= MaxBytes
  BY <1>9, BytesGrow, WarmAssumption DEF Within
<1>11. Within(t)
  <2>1. Cached(t) \subseteq Items /\ Cached(t) \intersect Fetching(t) = {}
    BY <1>6 DEF Within
  <2>2. ASSUME NEW n \in Items
        PROVE  /\ t.jobs[n].at \in {"none", "auth", "load", "check"}
               /\ t.jobs[n].size = IF t.jobs[n].at \in {"load", "check"} THEN Size[n] ELSE 0
               /\ Speculative(t, n) => n \in t.active
    BY <1>3, <1>4, <1>5, <1>8 DEF Within
  <2>3. \A i, j \in t.active : i = j
    BY <1>3 DEF Within
  <2> QED
    BY <1>7, <1>10, <2>1, <2>2, <2>3 DEF Within
<1> QED
  BY <1>1, <1>11, FinishFrees, FreesWithin

LEMMA FetchFrees ==
    ASSUME Stored(w), NEW k \in Items, JobTimer(k) \/ ReconsiderHave(k) \/ Release(k) PROVE Frees(w, w')
<1>1. ASSUME ReconsiderHave(k) PROVE Frees(w, w')
  <2> DEFINE s == [w EXCEPT !.declined = @ \ {k}]
  <2>1. w' = s \/ w' = [s EXCEPT !.queue = Append(@, [k |-> k, kept |-> TRUE, re |-> TRUE]), !.due = TRUE]
    BY <1>1 DEF ReconsiderHave, Step
  <2>2. Untouched(w, w')
    BY <2>1 DEF Untouched, Stored, Fields
  <2> QED
    BY <2>2, UntouchedFrees
<1> QED
  BY <1>1, CancelFrees, WithoutFrees DEF JobTimer, Release, Step

LEMMA InitWithin == Init => Within(w)
<1> SUFFICES ASSUME Init PROVE Within(w)
  OBVIOUS
<1>1. Cached(w) = {} /\ w.active = {} /\ \A k \in Items : w.jobs[k] = NoJob
  BY DEF Init, Cached
<1>2. NoJob.at = "none" /\ NoJob.size = 0
  BY DEF NoJob
<1>3. Tracked(w) = {} /\ \A k \in Items : Taken(w, k) = 0 /\ ~ Speculative(w, k)
  BY <1>1, <1>2 DEF Tracked, Fetching, Taken, Speculative, Live
<1>4. {{k} \X (1 .. Taken(w, k)) : k \in Items} \subseteq {{}}
  BY <1>3
<1>5. UNION {{k} \X (1 .. Taken(w, k)) : k \in Items} = {}
  BY <1>4
<1>6. BytesHeld(w) = 0
  BY <1>5, FS_EmptySet DEF BytesHeld
<1> QED
  BY <1>1, <1>2, <1>3, <1>6, FS_EmptySet, WarmAssumption DEF Within, Fetching

LEMMA NextWithin == ASSUME IInv, Within(w), [Next]_vars PROVE Within(w')
<1>0. Stored(w)
  BY DEF IInv, Core, Typed, Stored
<1>1. CASE w' = w
  BY <1>1
<1>2. CASE ClearAll \/ Stop
  <2>1. w' = Clear(w)
    BY <1>2 DEF ClearAll, Stop, Step
  <2> QED
    BY <1>0, <2>1, ClearFrees, FreesWithin
<1>3. CASE Next
  <2>1. ASSUME \/ \E l \in Loaders : Abort(l) \/ Destroy(l) \/ ReuseTimer(l) \/ OriginProgress(l)
               \/ \E l \in Loaders, good \in BOOLEAN : OriginEnds(l, good)
               \/ \E c \in w.conts : Continue(c)
               \/ \E c \in w.conts, ok \in BOOLEAN : AuthAnswers(c, ok)
               \/ \E k \in Items : JobTimer(k) \/ ReconsiderHave(k) \/ Release(k)
        PROVE  Within(w')
    <3>1. Frees(w, w')
      BY <1>0, <2>1, LoaderFrees, ContinueFrees, AuthAnswersFrees, FetchFrees
    <3> QED
      BY <3>1, FreesWithin
  <2> QED
    BY <1>0, <1>1, <1>2, <1>3, <2>1, LoadWithin, PumpWithin, AuthEndsWithin, CheckEndsWithin,
       LoadEndsWithin DEF Next, Allow
<1> QED
  BY <1>1, <1>3 DEF vars

(* What is held and fetched ahead stays within MaxObjects and MAX_BYTES, and *)
(* one live fetch at most is speculative (tracked, bytesFit, pump).         *)
THEOREM BoundsAreKept == Spec => []BoundsKept
<1>1. Init => IInv /\ Within(w)
  BY InitIInv, InitWithin
<1>2. IInv /\ Within(w) /\ [Next]_vars => (IInv /\ Within(w))'
  BY KeptIInv, NextWithin
<1>3. Within(w) => BoundsKept
  <2> SUFFICES ASSUME Within(w) PROVE BoundsKept
    OBVIOUS
  <2> DEFINE S == {k \in Items : Live(w, k) /\ ~ w.jobs[k].up /\ w.jobs[k].by = {}}
  <2>1. S = {} \/ \E k \in S : S = {k}
    BY DEF Within, Speculative
  <2>2. Cardinality(S) <= 1
    <3> HIDE DEF S
    <3>1. ASSUME NEW k, S = {k} PROVE Cardinality(S) = 1
      BY <3>1, FS_Singleton
    <3>2. S = {} => Cardinality(S) = 0
      BY FS_EmptySet
    <3> QED
      BY <2>1, <3>1, <3>2
  <2> HIDE DEF S
  <2> QED
    BY <2>2 DEF Within, BoundsKept, Tracked, S
<1> QED
  BY <1>1, <1>2, <1>3, PTL DEF Spec
=============================================================================
