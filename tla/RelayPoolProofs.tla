-------------------------- MODULE RelayPoolProofs --------------------------
(* Proofs about RelayPool: for any relays, modes and numbers of connects,   *)
(* announcements and faults, every open relay knows what the session would  *)
(* tell it now, and a closed pool stays quiet.                              *)
EXTENDS RelayPool, FiniteSetTheorems, WellFoundedInduction, TLAPS

SocketState ==
    [id : Nat, url : Urls, round : 0..MaxConnects, at : {"dialling", "open", "late"},
     subs : SUBSET Subs, pres : Nat]
PoolState ==
    [socks : SUBSET SocketState, connected : BOOLEAN, closed : BOOLEAN, subs : SUBSET Subs,
     retry : [Urls -> Nat], ends : Seq({"wait", "ready", "failed"}),
     failed : [1..MaxConnects -> SUBSET Urls], started : BOOLEAN, last : Nat, old : BOOLEAN]
PoolOK(s) == s \in PoolState /\ IsFiniteSet(s.socks) /\ Len(s.ends) <= MaxConnects

\* What each variable may hold.
TypeOK ==
    /\ mode \in Modes /\ PoolOK(net)
    /\ swarm \in {"core", "session", "lost", "stopped"} /\ said \in Nat /\ faults \in Nat

\* What the two properties need of a pool, and a presence only of a session
\* that is there to replay it.
Quiet(s) ==
    s.closed =>
        /\ \A k \in s.socks : k.at = "late"
        /\ Waits(s) = {} /\ \A u \in Urls : s.retry[u] = 0
Knows(s) ==
    /\ s.started => s.subs = Subs
    /\ \A k \in s.socks : k.at = "open" =>
          k.subs = s.subs /\ (s.last # 0 => k.pres = s.last)
    /\ s.last # 0 => s.started
Sound(s) == PoolOK(s) /\ Quiet(s) /\ Knows(s)

IInv == TypeOK /\ Sound(net) /\ (net.started <=> swarm = "session")

-----------------------------------------------------------------------------
(* The helpers of the pool: most of them change only what connect() waits   *)
(* for and the timers, and not even a timer of a closed pool.               *)
Tidied(s, t) ==
    /\ PoolOK(t) /\ t.socks = s.socks /\ t.subs = s.subs /\ t.started = s.started /\ t.last = s.last
    /\ t.closed = s.closed /\ t.connected = s.connected /\ t.old = s.old
    /\ Waits(t) \subseteq Waits(s) /\ (s.closed => t.retry = s.retry)

\* What is tidied keeps its soundness.
LEMMA TidySound ==
    ASSUME NEW s, NEW t, Sound(s), Tidied(s, t) PROVE Sound(t)
BY DEF Sound, Tidied, Quiet, Knows

\* Two tidy moves make one.
LEMMA TidyTransitive ==
    ASSUME NEW s, NEW t, NEW r, Tidied(s, t), Tidied(t, r) PROVE Tidied(s, r)
BY DEF Tidied

\* Ending the connect() that waits.
LEMMA EndTidies ==
    ASSUME NEW s, PoolOK(s), NEW how \in {"ready", "failed"}
    PROVE  Tidied(s, End(s, how)) /\ Waits(End(s, how)) = {}
<1> DEFINE E == [n \in DOMAIN s.ends |-> IF s.ends[n] = "wait" THEN how ELSE s.ends[n]]
<1>1. E \in Seq({"wait", "ready", "failed"}) /\ Len(E) = Len(s.ends) /\ DOMAIN E = DOMAIN s.ends
  BY DEF PoolOK, PoolState
<1>2. \A n \in DOMAIN E : E[n] # "wait"
  OBVIOUS
<1>3. End(s, how) = [s EXCEPT !.ends = E]
  BY DEF End
<1> HIDE DEF E
<1>4. End(s, how) \in PoolState
  BY <1>1, <1>3 DEF PoolOK, PoolState
<1>5. End(s, how).ends = E
  BY <1>3 DEF PoolOK, PoolState
<1>6. Waits(End(s, how)) = {}
  BY <1>2, <1>5 DEF Waits
<1> QED
  BY <1>1, <1>3, <1>4, <1>5, <1>6 DEF Tidied, PoolOK, PoolState

\* Setting a timer for each of some relays.
LEMMA RedialTidies ==
    ASSUME NEW s, PoolOK(s), NEW U PROVE Tidied(s, Redial(s, U))
<1> DEFINE R == [u \in Urls |-> s.retry[u] + IF u \in U THEN 1 ELSE 0]
<1>1. CASE s.closed
  BY <1>1 DEF Redial, Tidied, Waits
<1>2. CASE ~s.closed
  <2>1. R \in [Urls -> Nat]
    BY DEF PoolOK, PoolState
  <2>2. Redial(s, U) = [s EXCEPT !.retry = R]
    BY <1>2 DEF Redial
  <2> HIDE DEF R
  <2> QED
    BY <1>2, <2>1, <2>2 DEF Tidied, PoolOK, PoolState, Waits
<1> QED
  BY <1>1, <1>2

\* The end of a round of attempts.
LEMMA RoundOverTidies ==
    ASSUME NEW s, PoolOK(s), NEW n PROVE Tidied(s, RoundOver(s, n))
<1>1. Tidied(s, s)
  BY DEF Tidied
<1> QED
  BY <1>1, EndTidies, RedialTidies DEF RoundOver

\* A set of numbers that is not empty has a least one.
LEMMA LeastOfSet ==
    ASSUME NEW T \in SUBSET Nat, T # {} PROVE \E m \in T : \A x \in T : m <= x
<1> DEFINE R == {p \in Nat \X Nat : p[1] < p[2]}
<1>1. R = OpToRel(<, Nat)
  BY DEF OpToRel
<1>2. IsWellFoundedOn(R, Nat)
  BY <1>1, NatLessThanWellFounded
<1>3. \A x, y \in Nat : x < y => <<x, y>> \in R
  OBVIOUS
<1> HIDE DEF R
<1>4. PICK m \in T : \A x \in T : ~ (<<x, m>> \in R)
  BY <1>2, WFMin
<1>5. ASSUME NEW x \in T PROVE m <= x
  <2>1. x \in Nat /\ m \in Nat
    BY <1>4
  <2>2. ~ (x < m)
    BY <1>3, <1>4, <2>1
  <2> QED
    BY <2>1, <2>2
<1> QED
  BY <1>5

\* The id of a redial's socket is a number that no socket has.
LEMMA FreeId ==
    ASSUME NEW s, PoolOK(s)
    PROVE  Min(1..Cardinality(s.socks) + 1 \ {k.id : k \in s.socks}) \in Nat
<1> DEFINE ids == {k.id : k \in s.socks}  N == Cardinality(s.socks)  I == 1..N + 1
<1>1. IsFiniteSet(ids) /\ Cardinality(ids) <= N /\ N \in Nat
  <2>1. IsFiniteSet(s.socks)
    BY DEF PoolOK
  <2> DEFINE f == [k \in s.socks |-> k.id]
  <2>2. f \in Surjection(s.socks, ids)
    BY DEF Surjection
  <2> QED
    BY <2>1, <2>2, FS_Surjection, FS_CardinalityType
<1>2. IsFiniteSet(I) /\ Cardinality(I) = N + 1
  BY <1>1, FS_Interval
<1> HIDE DEF I
<1>3. I \ ids # {}
  <2>1. SUFFICES ASSUME I \subseteq ids PROVE FALSE
    OBVIOUS
  <2>2. Cardinality(I) <= Cardinality(ids)
    BY <1>1, <2>1, FS_Subset
  <2> QED
    BY <1>1, <1>2, <2>2, FS_CardinalityType
<1>4. \E m \in I \ ids : \A x \in I \ ids : m <= x
  <2>1. I \ ids \in SUBSET Nat
    BY <1>1 DEF I
  <2> QED
    BY <2>1, <1>3, LeastOfSet
<1> QED
  BY <1>1, <1>4 DEF Min, I

\* A pool of which only the sockets change.
LEMMA WithSocks ==
    ASSUME NEW s, PoolOK(s), NEW K \in SUBSET SocketState, IsFiniteSet(K)
    PROVE  LET t == [s EXCEPT !.socks = K]
           IN  /\ PoolOK(t) /\ t.socks = K /\ t.subs = s.subs /\ t.started = s.started
               /\ t.last = s.last /\ t.closed = s.closed /\ t.connected = s.connected
               /\ t.old = s.old /\ t.retry = s.retry /\ t.ends = s.ends /\ t.failed = s.failed
BY DEF PoolOK, PoolState

\* Sockets that go, or that give up, take nothing with them.
LEMMA FewerSocks ==
    ASSUME NEW s, Sound(s), NEW K \in SUBSET SocketState, IsFiniteSet(K),
           \A k \in K : k \in s.socks \/ k.at = "late" \/ (k.at = "dialling" /\ ~s.closed)
    PROVE  Sound([s EXCEPT !.socks = K])
<1> DEFINE t == [s EXCEPT !.socks = K]
<1>1. /\ PoolOK(t) /\ t.socks = K /\ t.subs = s.subs /\ t.started = s.started
      /\ t.last = s.last /\ t.closed = s.closed /\ t.retry = s.retry /\ t.ends = s.ends
  BY WithSocks DEF Sound
<1> HIDE DEF t
<1>2. Quiet(t)
  BY <1>1 DEF Sound, Quiet, Waits
<1>3. Knows(t)
  BY <1>1 DEF Sound, Knows
<1> QED
  BY <1>1, <1>2, <1>3 DEF Sound, t

\* A socket fewer, or one more, is a finite set still.
LEMMA FiniteSocks ==
    ASSUME NEW K, IsFiniteSet(K), NEW k, NEW j
    PROVE  IsFiniteSet(K \ {k}) /\ IsFiniteSet((K \ {k}) \union {j}) /\ IsFiniteSet(K \union {j})
           /\ IsFiniteSet((K \ {k}) \union {})
BY FS_AddElement, FS_RemoveElement

\* A redial adds a socket that dials.
LEMMA DialSound ==
    ASSUME NEW s, Sound(s), ~s.closed, NEW u \in Urls PROVE Sound(Dial(s, u))
<1> DEFINE id == Min(1..Cardinality(s.socks) + 1 \ {k.id : k \in s.socks})
           new == Socket(id, u, 0)
<1>1. id \in Nat
  BY FreeId DEF Sound
<1> HIDE DEF id
<1>2. new \in SocketState /\ new.at = "dialling"
  BY <1>1, RelayAssumption DEF Socket, SocketState
<1>3. Dial(s, u) = [s EXCEPT !.socks = s.socks \union {new}]
  BY DEF Dial, id
<1> HIDE DEF new
<1>4. IsFiniteSet(s.socks \union {new}) /\ s.socks \union {new} \in SUBSET SocketState
  BY <1>2, FiniteSocks DEF Sound, PoolOK, PoolState
<1> QED
  BY <1>2, <1>3, <1>4, FewerSocks

\* An attempt that opens joins with the live subscriptions and the presence
\* of now, or is forgotten if it had been given up.
LEMMA OpenedSound ==
    ASSUME NEW s, Sound(s), NEW k \in s.socks, k.at \in {"dialling", "late"}
    PROVE  Sound(Opened(s, k)) /\ Opened(s, k).started = s.started
<1>0. k \in SocketState /\ PoolOK(s)
  BY DEF Sound, PoolOK, PoolState
<1>1. CASE k.at = "late"
  <2>1. Opened(s, k) = [s EXCEPT !.socks = s.socks \ {k}]
    BY <1>1 DEF Opened
  <2>2. IsFiniteSet(s.socks \ {k}) /\ s.socks \ {k} \in SUBSET SocketState
    BY <1>0, FiniteSocks DEF PoolOK, PoolState
  <2> QED
    BY <1>0, <2>1, <2>2, FewerSocks, WithSocks
<1>2. CASE k.at = "dialling"
  <2> DEFINE replays == s.started /\ s.last # 0
             open == [k EXCEPT !.at = "open", !.subs = s.subs, !.pres = IF replays /\ ~s.old THEN s.last ELSE 0]
             ready == IF mode = "all" THEN s ELSE End(s, "ready")
             t == [ready EXCEPT !.socks = (ready.socks \ {k}) \union {open},
                                !.last = IF replays /\ s.old THEN 0 ELSE ready.last,
                                !.old = ready.old /\ ~replays]
  <2>1. Opened(s, k) = RoundOver(t, k.round)
    BY <1>2 DEF Opened
  <2>2. ~s.closed
    BY <1>2 DEF Sound, Quiet
  <2>3. Tidied(s, ready)
    BY <1>0, EndTidies DEF Tidied
  <2>4. /\ open \in SocketState /\ open.at = "open" /\ open.subs = s.subs
        /\ open.pres = IF replays /\ ~s.old THEN s.last ELSE 0
    BY <1>0 DEF SocketState, PoolOK, PoolState
  <2> HIDE DEF ready, open
  <2>5. (ready.socks \ {k}) \union {open} \in SUBSET SocketState
        /\ IsFiniteSet((ready.socks \ {k}) \union {open})
    BY <2>3, <2>4, FiniteSocks DEF Tidied, PoolOK, PoolState
  <2>6. /\ PoolOK(t) /\ t.socks = (ready.socks \ {k}) \union {open} /\ t.subs = ready.subs
        /\ t.started = ready.started /\ t.closed = ready.closed
        /\ t.last = IF replays /\ s.old THEN 0 ELSE ready.last
    BY <2>3, <2>5 DEF Tidied, PoolOK, PoolState
  <2> HIDE DEF t
  <2>7. Sound(t)
    BY <2>2, <2>3, <2>4, <2>6 DEF Sound, Quiet, Knows, Tidied
  <2>8. Tidied(t, RoundOver(t, k.round))
    BY <2>6, RoundOverTidies
  <2> QED
    BY <2>1, <2>3, <2>6, <2>7, <2>8, TidySound DEF Tidied
<1> QED
  BY <1>1, <1>2

\* An attempt that fails is noted or tried again.
LEMMA GivenUpSound ==
    ASSUME NEW s, Sound(s), NEW k \in s.socks, k.at = "dialling", NEW late \in BOOLEAN
    PROVE  Sound(GivenUp(s, k, late)) /\ GivenUp(s, k, late).started = s.started
<1> DEFINE gone == [k EXCEPT !.at = "late"]
           K == (s.socks \ {k}) \union IF late THEN {gone} ELSE {}
           t == [s EXCEPT !.socks = K]
           F == [s.failed EXCEPT ![k.round] = s.failed[k.round] \union {k.url}]
           r == [t EXCEPT !.failed = F]
<1>1. k \in SocketState /\ PoolOK(s)
  BY DEF Sound, PoolOK, PoolState
<1>2. gone \in SocketState /\ gone.at = "late"
  BY <1>1 DEF SocketState
<1> HIDE DEF gone
<1>3. K \in SUBSET SocketState /\ IsFiniteSet(K)
  BY <1>1, <1>2, FiniteSocks DEF PoolOK, PoolState
<1>4. Sound(t)
  BY <1>2, <1>3, FewerSocks
<1>5. PoolOK(t) /\ t.started = s.started /\ t.failed = s.failed
  BY <1>1, <1>3, WithSocks
<1>6. GivenUp(s, k, late) =
        IF k.round # 0 THEN RoundOver(r, k.round)
        ELSE IF s.connected /\ k.url \notin UrlsIn(s, "open") THEN Redial(t, {k.url}) ELSE t
  BY <1>5 DEF GivenUp, gone
<1> HIDE DEF t
<1>7. k.round # 0 => Tidied(t, r)
  <2> SUFFICES ASSUME k.round # 0 PROVE Tidied(t, r)
    OBVIOUS
  <2>1. F \in [1..MaxConnects -> SUBSET Urls]
    BY <1>1, RelayAssumption DEF PoolOK, PoolState, SocketState
  <2> HIDE DEF F
  <2> QED
    BY <1>5, <2>1 DEF Tidied, PoolOK, PoolState, Waits
<1> HIDE DEF r
<1>8. k.round # 0 => Tidied(r, RoundOver(r, k.round))
  BY <1>7, RoundOverTidies DEF Tidied
<1>9. Tidied(t, Redial(t, {k.url})) /\ Tidied(t, t)
  BY <1>5, RedialTidies DEF Tidied
<1>10. Tidied(t, GivenUp(s, k, late))
  BY <1>6, <1>7, <1>8, <1>9, TidyTransitive
<1> QED
  BY <1>4, <1>5, <1>10, TidySound DEF Tidied

\* A socket that drops is forgotten, and dialled again later.
LEMMA DroppedSound ==
    ASSUME NEW s, Sound(s), NEW k \in s.socks
    PROVE  Sound(Dropped(s, k)) /\ Dropped(s, k).started = s.started
<1> DEFINE t == [s EXCEPT !.socks = s.socks \ {k}]
<1>1. s.socks \ {k} \in SUBSET SocketState /\ IsFiniteSet(s.socks \ {k}) /\ PoolOK(s)
  BY FiniteSocks DEF Sound, PoolOK, PoolState
<1>2. Sound(t) /\ PoolOK(t) /\ t.started = s.started
  BY <1>1, FewerSocks, WithSocks
<1>3. Dropped(s, k) = IF mode = "reconnect" /\ s.connected THEN Redial(t, {k.url}) ELSE t
  BY DEF Dropped
<1> HIDE DEF t
<1>4. Tidied(t, Redial(t, {k.url}))
  BY <1>2, RedialTidies
<1> QED
  BY <1>2, <1>3, <1>4, TidySound DEF Tidied

\* close() leaves only attempts that it has given up.
LEMMA CloseSound ==
    ASSUME NEW s, PoolOK(s), ~s.started, s.last = 0 PROVE Sound(Close(s)) /\ ~Close(s).started
<1> DEFINE e == End(s, "failed")
           Late(k) == [k EXCEPT !.at = "late"]
           K == {Late(k) : k \in e.socks \ In(s, "open")}
           R == [u \in Urls |-> 0]
           t == [e EXCEPT !.closed = TRUE, !.connected = FALSE, !.retry = R, !.subs = {}, !.socks = K]
<1>1. Close(s) = t
  BY DEF Close
<1>2. Tidied(s, e) /\ Waits(e) = {}
  BY EndTidies
<1> HIDE DEF e
<1>3. K \in SUBSET SocketState /\ \A k \in K : k.at = "late"
  <2>1. \A k \in SocketState : Late(k) \in SocketState /\ Late(k).at = "late"
    BY DEF SocketState
  <2>2. e.socks \subseteq SocketState
    BY <1>2 DEF Tidied, PoolOK, PoolState
  <2> HIDE DEF Late
  <2> QED
    BY <2>1, <2>2
<1>4. IsFiniteSet(K)
  <2> DEFINE O == e.socks \ In(s, "open")  f == [k \in O |-> Late(k)]
  <2>1. IsFiniteSet(O)
    BY <1>2, FS_Subset DEF Tidied, PoolOK
  <2>2. f \in Surjection(O, K)
    BY DEF Surjection
  <2> QED
    BY <2>1, <2>2, FS_Surjection
<1>5. R \in [Urls -> Nat] /\ \A u \in Urls : R[u] = 0
  OBVIOUS
<1> HIDE DEF K, R
<1>6. /\ PoolOK(t) /\ t.socks = K /\ t.retry = R /\ t.started = s.started /\ t.last = s.last
      /\ t.ends = e.ends
  BY <1>2, <1>3, <1>4, <1>5 DEF Tidied, PoolOK, PoolState
<1> HIDE DEF t
<1>7. Quiet(t)
  BY <1>2, <1>3, <1>5, <1>6 DEF Quiet, Waits
<1>8. Knows(t)
  BY <1>3, <1>6 DEF Knows
<1> QED
  BY <1>1, <1>6, <1>7, <1>8 DEF Sound

\* A presence is sent to every open socket, and kept only if there is one.
LEMMA AnnouncedSound ==
    ASSUME NEW s, Sound(s), s.started, NEW n \in Nat \ {0}
    PROVE  Sound(Announced(s, n)) /\ Announced(s, n).started
<1> DEFINE Told(k) == IF k.at = "open" THEN [k EXCEPT !.pres = n] ELSE k
           K == {IF k.at = "open" THEN [k EXCEPT !.pres = n] ELSE k : k \in s.socks}
           t == [s EXCEPT !.last = n, !.old = FALSE, !.socks = K]
<1>1. CASE In(s, "open") = {}
  BY <1>1 DEF Announced
<1>2. CASE In(s, "open") # {}
  <2>1. Announced(s, n) = t
    BY <1>2 DEF Announced
  <2>2. PoolOK(s) /\ s.socks \subseteq SocketState /\ ~s.closed
    BY <1>2 DEF Sound, PoolOK, PoolState, Quiet, In
  <2>3. \A k \in SocketState : Told(k) \in SocketState /\ Told(k).subs = k.subs /\ Told(k).at = k.at
                             /\ (k.at = "open" => Told(k).pres = n)
    BY DEF SocketState
  <2>4. K \in SUBSET SocketState /\ K = {Told(k) : k \in s.socks}
    BY <2>2, <2>3
  <2>5. IsFiniteSet(K)
    <3> DEFINE f == [k \in s.socks |-> Told(k)]
    <3>1. f \in Surjection(s.socks, K)
      BY DEF Surjection
    <3> QED
      BY <2>2, <3>1, FS_Surjection DEF PoolOK
  <2> HIDE DEF K
  <2>6. /\ PoolOK(t) /\ t.socks = K /\ t.last = n /\ t.subs = s.subs /\ t.closed = s.closed
        /\ t.started = s.started
    BY <2>2, <2>4, <2>5 DEF PoolOK, PoolState
  <2> HIDE DEF t
  <2>7. \A j \in K : j.at = "open" => j.subs = t.subs /\ j.pres = n
    <3> SUFFICES ASSUME NEW j \in K, j.at = "open" PROVE j.subs = t.subs /\ j.pres = n
      OBVIOUS
    <3>1. PICK k \in s.socks : j = Told(k)
      BY <2>4
    <3> HIDE DEF Told
    <3>2. k.at = "open" /\ j.subs = k.subs /\ j.pres = n
      BY <2>2, <2>3, <3>1
    <3> QED
      BY <2>6, <3>2 DEF Sound, Knows
  <2>8. Quiet(t) /\ Knows(t)
    BY <2>2, <2>6, <2>7 DEF Quiet, Knows, Sound
  <2> QED
    BY <2>1, <2>6, <2>8 DEF Sound
<1> QED
  BY <1>1, <1>2

\* A session that starts subscribes at every open socket.
LEMMA StartedSound ==
    ASSUME NEW s, Sound(s), ~s.closed, ~s.started
    PROVE  Sound(Started(s)) /\ Started(s).started
<1> DEFINE Told(k) == IF k.at = "open" THEN [k EXCEPT !.subs = Subs] ELSE k
           K == {IF k.at = "open" THEN [k EXCEPT !.subs = Subs] ELSE k : k \in s.socks}
           t == [s EXCEPT !.started = TRUE, !.subs = Subs, !.socks = K]
<1>1. Started(s) = t
  BY DEF Started
<1>2. PoolOK(s) /\ s.socks \subseteq SocketState
  BY DEF Sound, PoolOK, PoolState
<1>3. \A k \in SocketState : Told(k) \in SocketState /\ (Told(k).at = "open" => Told(k).subs = Subs)
  BY DEF SocketState
<1>4. K \in SUBSET SocketState /\ K = {Told(k) : k \in s.socks}
  BY <1>2, <1>3
<1>5. IsFiniteSet(K)
  <2> DEFINE f == [k \in s.socks |-> Told(k)]
  <2>1. f \in Surjection(s.socks, K)
    BY DEF Surjection
  <2> QED
    BY <1>2, <2>1, FS_Surjection DEF PoolOK
<1>6. \A j \in K : j.at = "open" => j.subs = Subs
  BY <1>2, <1>3, <1>4
<1> HIDE DEF K
<1>7. /\ PoolOK(t) /\ t.socks = K /\ t.last = s.last /\ t.subs = Subs /\ t.closed = s.closed
      /\ t.started
  BY <1>2, <1>4, <1>5 DEF PoolOK, PoolState
<1>8. s.last = 0
  BY DEF Sound, Knows
<1> HIDE DEF t
<1>9. Quiet(t) /\ Knows(t)
  BY <1>6, <1>7, <1>8 DEF Quiet, Knows
<1> QED
  BY <1>1, <1>7, <1>9 DEF Sound

-----------------------------------------------------------------------------
(* The actions.                                                             *)

\* connect() dials every relay once.
LEMMA ConnectKeeps == ASSUME IInv, Connect PROVE IInv'
<1> DEFINE n == Len(net.ends) + 1
           new == {Socket(0, u, n) : u \in Urls}
           K == net.socks \union new
           E == Append(net.ends, "wait")
           t == [net EXCEPT !.connected = TRUE, !.ends = E, !.socks = K]
<1>1. net' = t /\ ~net.closed /\ n <= MaxConnects /\ UNCHANGED <<mode, swarm, said, faults>>
  <2>1. net' = t /\ ~net.closed /\ Len(net.ends) < MaxConnects
        /\ UNCHANGED <<mode, swarm, said, faults>>
    BY DEF Connect, Step
  <2>2. Len(net.ends) \in Nat /\ MaxConnects \in Nat
    BY RelayAssumption DEF IInv, TypeOK, PoolOK, PoolState
  <2> HIDE DEF t
  <2> QED
    BY <2>1, <2>2
<1>2. n \in 1..MaxConnects /\ E \in Seq({"wait", "ready", "failed"}) /\ Len(E) = n
  BY <1>1, RelayAssumption DEF IInv, TypeOK, PoolOK, PoolState
<1>3. \A k \in new : k \in SocketState /\ k.at = "dialling"
  BY <1>2 DEF Socket, SocketState
<1>4. IsFiniteSet(new)
  <2> DEFINE f == [u \in Urls |-> Socket(0, u, n)]
  <2>1. f \in Surjection(Urls, new)
    BY DEF Surjection
  <2> QED
    BY <2>1, FS_Surjection, RelayAssumption
<1>5. IsFiniteSet(K) /\ K \in SUBSET SocketState
  BY <1>3, <1>4, FS_Union DEF IInv, TypeOK, PoolOK, PoolState
<1>6. \A k \in K : k.at = "open" => k \in net.socks
  BY <1>3
<1> HIDE DEF K, E, new
<1>7. /\ PoolOK(t) /\ t.socks = K /\ t.subs = net.subs /\ t.closed = net.closed /\ t.last = net.last
      /\ t.started = net.started
  BY <1>1, <1>2, <1>5 DEF IInv, TypeOK, PoolOK, PoolState
<1> HIDE DEF t
<1>8. Sound(t)
  BY <1>1, <1>6, <1>7 DEF IInv, Sound, Quiet, Knows
<1> QED
  BY <1>1, <1>7, <1>8 DEF IInv, TypeOK

\* A timer that fires dials its relay, if the pool is not closed.
LEMMA RetryTimerKeeps == ASSUME IInv, NEW u \in Urls, RetryTimer(u) PROVE IInv'
<1> DEFINE R == [net.retry EXCEPT ![u] = net.retry[u] - 1]
           t == [net EXCEPT !.retry = R]
<1>1. /\ net.retry[u] > 0 /\ net' = (IF t.connected THEN Dial(t, u) ELSE t)
      /\ UNCHANGED <<mode, swarm, said, faults>>
  BY DEF RetryTimer, Step
<1>2. R \in [Urls -> Nat]
  BY <1>1 DEF IInv, TypeOK, PoolOK, PoolState
<1>3. ~net.closed
  BY <1>1 DEF IInv, Sound, Quiet
<1> HIDE DEF R
<1>4. /\ PoolOK(t) /\ t.socks = net.socks /\ t.subs = net.subs /\ t.closed = net.closed
      /\ t.last = net.last /\ t.started = net.started
  BY <1>2 DEF IInv, TypeOK, PoolOK, PoolState
<1> HIDE DEF t
<1>5. Sound(t)
  BY <1>3, <1>4 DEF IInv, Sound, Quiet, Knows
<1>6. Sound(Dial(t, u)) /\ Dial(t, u).started = t.started
  BY <1>3, <1>4, <1>5, DialSound DEF Dial, PoolOK, PoolState
<1> QED
  BY <1>1, <1>4, <1>5, <1>6 DEF IInv, TypeOK, Sound

\* What happens to a socket.
LEMMA SocketKeeps ==
    ASSUME IInv, NEW k \in net.socks, Opens(k) \/ Fails(k) \/ Drops(k) \/ Vanishes(k)
    PROVE  IInv'
<1> USE DEF Step
<1>1. Sound(net)
  BY DEF IInv
<1>2. faults' \in Nat /\ UNCHANGED <<mode, swarm, said>>
  BY DEF Opens, Fails, Drops, Vanishes, Fault, IInv, TypeOK
<1>3. Sound(net') /\ net'.started = net.started
  <2>1. CASE Opens(k)
    BY <1>1, <2>1, OpenedSound DEF Opens
  <2>2. CASE Fails(k)
    BY <1>1, <2>2, GivenUpSound DEF Fails
  <2>3. CASE Drops(k)
    BY <1>1, <2>3, DroppedSound DEF Drops
  <2>4. CASE Vanishes(k)
    <3>1. net' = [net EXCEPT !.socks = net.socks \ {k}]
      BY <2>4 DEF Vanishes
    <3>2. net.socks \ {k} \in SUBSET SocketState /\ IsFiniteSet(net.socks \ {k}) /\ PoolOK(net)
      BY FiniteSocks DEF IInv, TypeOK, PoolOK, PoolState
    <3> QED
      BY <1>1, <3>1, <3>2, FewerSocks, WithSocks
  <2> QED
    BY <2>1, <2>2, <2>3, <2>4
<1> QED
  BY <1>2, <1>3 DEF IInv, TypeOK, Sound

\* The session and its swarm.
LEMMA SwarmKeeps ==
    ASSUME IInv, SwarmStarts \/ Announce \/ Expires \/ Stop PROVE IInv'
<1> USE DEF Step
<1>0. Sound(net) /\ PoolOK(net)
  BY DEF IInv, TypeOK
<1>1. CASE SwarmStarts
  <2>1. CASE In(net, "open") = {}
    BY <1>1, <2>1 DEF SwarmStarts, IInv, TypeOK
  <2>2. CASE In(net, "open") # {}
    <3>1. swarm' = "session" /\ said' = 1 /\ net' = Announced(Started(net), 1) /\ ~net.closed
          /\ UNCHANGED <<mode, faults>> /\ swarm = "core"
      BY <1>1, <2>2 DEF SwarmStarts
    <3>2. ~net.started
      BY <3>1 DEF IInv
    <3> QED
      BY <1>0, <3>1, <3>2, StartedSound, AnnouncedSound DEF IInv, TypeOK, Sound
  <2> QED
    BY <2>1, <2>2
<1>2. CASE Announce
  <2>1. net.started /\ said + 1 \in Nat \ {0} /\ net' = Announced(net, said + 1) /\ said' = said + 1
        /\ UNCHANGED <<mode, swarm, faults>>
    BY <1>2 DEF Announce, IInv, TypeOK
  <2> QED
    BY <1>0, <2>1, AnnouncedSound DEF IInv, TypeOK, Sound
<1>3. CASE Expires
  <2> DEFINE t == [net EXCEPT !.old = TRUE]
  <2>1. net' = t /\ faults' \in Nat /\ UNCHANGED <<mode, swarm, said>>
    BY <1>3 DEF Expires, Fault, IInv, TypeOK
  <2>2. /\ PoolOK(t) /\ t.socks = net.socks /\ t.subs = net.subs /\ t.closed = net.closed
        /\ t.last = net.last /\ t.started = net.started /\ t.ends = net.ends /\ t.retry = net.retry
    BY <1>0 DEF PoolOK, PoolState
  <2> HIDE DEF t
  <2> QED
    BY <1>0, <2>1, <2>2 DEF IInv, TypeOK, Sound, Quiet, Knows, Waits
<1>4. CASE Stop
  <2> DEFINE t == [net EXCEPT !.started = FALSE, !.last = 0, !.old = FALSE]
  <2>1. net' = Close(t) /\ swarm' = "stopped" /\ UNCHANGED <<mode, said, faults>>
    BY <1>4 DEF Stop
  <2>2. PoolOK(t) /\ ~t.started /\ t.last = 0
    BY <1>0 DEF PoolOK, PoolState
  <2> HIDE DEF t
  <2> QED
    BY <2>1, <2>2, CloseSound DEF IInv, TypeOK, Sound
<1> QED
  BY <1>1, <1>2, <1>3, <1>4

\* The pool starts in its inductive invariant.
LEMMA Initially == Init => IInv
<1> SUFFICES ASSUME Init PROVE IInv
  OBVIOUS
<1> DEFINE R == [u \in Urls |-> 0]  F == [n \in 1..MaxConnects |-> {}]
<1>1. net = [socks |-> {}, connected |-> FALSE, closed |-> FALSE, subs |-> {}, retry |-> R,
             ends |-> <<>>, failed |-> F, started |-> FALSE, last |-> 0, old |-> FALSE]
  BY DEF Init
<1>2. R \in [Urls -> Nat] /\ F \in [1..MaxConnects -> SUBSET Urls] /\ IsFiniteSet({})
      /\ <<>> \in Seq({"wait", "ready", "failed"}) /\ Len(<<>>) = 0 /\ MaxConnects \in Nat
  BY FS_EmptySet, RelayAssumption
<1> HIDE DEF R, F
<1>3. PoolOK(net)
  BY <1>1, <1>2 DEF PoolOK, PoolState
<1>4. Sound(net)
  BY <1>1, <1>3 DEF Sound, Quiet, Knows
<1> QED
  BY <1>3, <1>4 DEF Init, IInv, TypeOK

\* Every step of the pool keeps it.
LEMMA Inductive == IInv /\ [Next]_vars => IInv'
<1> SUFFICES ASSUME IInv, [Next]_vars PROVE IInv'
  OBVIOUS
<1>1. CASE UNCHANGED vars
  BY <1>1 DEF vars, IInv, TypeOK, Sound, Quiet, Knows, PoolOK, Waits
<1>2. CASE Next
  BY <1>2, ConnectKeeps, RetryTimerKeeps, SocketKeeps, SwarmKeeps DEF Next
<1> QED
  BY <1>1, <1>2

-----------------------------------------------------------------------------
(* The theorems.                                                            *)

\* Every reachable state satisfies the invariant.
THEOREM Invariant == Spec => []IInv
<1> QED
  BY Initially, Inductive, PTL DEF Spec

\* Every open relay has every live subscription and the presence that the
\* session would replay now (EveryRelayKnows of RelayPool).
THEOREM RelaysKnow == Spec => []EveryRelayKnows
<1>1. IInv => EveryRelayKnows
  BY DEF IInv, Sound, Knows, EveryRelayKnows, In
<1> QED
  BY <1>1, Invariant, PTL

\* A closed pool has no open or dialled socket, no timer and no connect()
\* that waits, whatever its late attempts do (ClosedIsQuiet of RelayPool).
THEOREM ClosedStaysQuiet == Spec => []ClosedIsQuiet
<1>1. IInv => ClosedIsQuiet
  BY DEF IInv, Sound, Quiet, ClosedIsQuiet, In
<1> QED
  BY <1>1, Invariant, PTL
=============================================================================
