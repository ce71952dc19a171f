---------------------------- MODULE BudgetProofs ----------------------------
(* Proofs about AccountBudget: for any pages, identities, owner's acts,     *)
(* capacities and numbers of requests and faults, a challenge authorises    *)
(* once, no operation is left where nothing runs it, a page is only told to *)
(* upload what the ledger on disk has been charged for, and what accounts   *)
(* have spent is what was charged to them.                                  *)
EXTENDS AccountBudget, SequenceTheorems, FiniteSetTheorems, TLAPS

-----------------------------------------------------------------------------
(* The inductive invariant.                                                 *)

\* A sequence, of whatever.
List(s) == Len(s) \in Nat /\ s = [i \in 1..Len(s) |-> s[i]]

\* A ledger remembers as accepted only what it has charged.
Ledger(d) ==
    d = [accounts |-> d.accounts, grants |-> d.grants, operations |-> d.operations,
         issued |-> d.issued, charges |-> d.charges, ever |-> d.ever]
Charged(d) ==
    /\ Ledger(d) /\ d.ever \subseteq 1..MaxPosts
    /\ \A o \in d.operations : o.accepted => o.op \in d.ever

Stages == {"resolving", "inspecting", "inspected", "applying", "done"}
Asked == {"reserve", "status", "renew", "logout"}

\* A request, at a stage its kind can be at.
IsRequest(q) ==
    q = [page |-> q.page, kind |-> q.kind, act |-> q.act, challenge |-> q.challenge,
         token |-> q.token, op |-> q.op, open |-> q.open, stage |-> q.stage, out |-> q.out]
Fitting(q) ==
    /\ q.page # 0 => q.kind \in Asked \union {"challenge", "authorize"}
    /\ q.stage = "resolving" => q.kind = "authorize"
    /\ q.stage \in {"inspecting", "inspected"} => q.kind \in Asked
    /\ q.stage = "applying" => q.kind \in {"authorize", "reserve", "renew", "logout"}
    /\ q.kind = "reserve" => q.op \in 1..MaxPosts

\* It may not say that bytes were granted unless they are in `ever`.
Grants(q, out) == q.kind = "reserve" /\ out.ok /\ out.accepted
Sound(q, ever) ==
    /\ IsRequest(q) /\ q.stage \in Stages /\ Fitting(q)
    /\ q.stage = "done" /\ Grants(q, q.out) => q.op \in ever
RequestsOK ==
    /\ List(requests) /\ Len(requests) <= MaxPosts
    /\ \A r \in Request : Sound(requests[r], disk.ever)

\* Challenges are numbered by the requests that brought them.
ChallengesOK ==
    /\ List(used) /\ challenges \subseteq Request
    /\ \A i \in DOMAIN used : used[i] \in Request \ challenges
    /\ ChallengeOnce

\* Where the operations are: each request that waits for one has it in one place.
Entry == [request : Nat \ {0}, write : BOOLEAN]
Due(e) == IF e.write THEN "applying" ELSE "inspecting"
HeldEntries == [k \in DOMAIN held |-> held[k].entry]
Once(s) == \A i, j \in DOMAIN s : s[i].request = s[j].request => i = j
Apart(s, t) == \A i \in DOMAIN s, j \in DOMAIN t : s[i].request # t[j].request
Asks(s) == {s[k].request : k \in DOMAIN s}
Queued(w, b, h, rs) ==
    /\ w \in Seq(Entry) /\ b \in Seq(Entry) /\ h \in Seq(Entry)
    /\ Once(w) /\ Once(b) /\ Once(h)
    /\ Apart(w, b) /\ Apart(w, h) /\ Apart(b, h)
    /\ \A s \in {w, b, h} : \A k \in DOMAIN s :
          s[k].request \in 1..Len(rs) /\ rs[s[k].request].stage = Due(s[k])
    /\ \A r \in 1..Len(rs) :
          rs[r].stage \in {"applying", "inspecting"} => r \in Asks(w) \union Asks(b) \union Asks(h)

\* The phases of the loop: it holds outcomes only of a batch that writes, and
\* a broken ledger writes nothing.
PhaseOK ==
    /\ List(held)
    /\ Queued(waiting, batch, HeldEntries, requests)
    /\ waiting # <<>> => drain # "off"
    /\ batch # <<>> <=> drain = "batch"
    /\ held # <<>> => drain \in {"batch", "write"} /\ writes
    /\ drain = "write" => writes
    /\ Running \/ drain = "off"
    /\ writes \in BOOLEAN /\ (broken => ~writes)

\* The three copies: what was charged in memory is on disk, what a batch works
\* on has all of it, and a held outcome grants only what the batch will write.
DurableOK ==
    /\ Charged(disk) /\ Charged(state) /\ Charged(working)
    /\ state.ever \subseteq disk.ever
    /\ Running /\ ~broken => disk = state
    /\ drain \in {"batch", "write"} => state.ever \subseteq working.ever
    /\ \A k \in DOMAIN held :
          LET q == requests[held[k].entry.request]
          IN  held[k].entry.write /\ Grants(q, held[k].out) => q.op \in working.ever
    /\ admitted \subseteq disk.ever

IInv == RequestsOK /\ ChallengesOK /\ PhaseOK /\ DurableOK

-----------------------------------------------------------------------------
(* Sequences.                                                               *)

\* A function over 1..n is a sequence of that length.
LEMMA ListMade ==
    ASSUME NEW n \in Nat, NEW s, s = [i \in 1..n |-> s[i]]
    PROVE  List(s) /\ Len(s) = n /\ DOMAIN s = 1..n /\ s \in Seq({s[i] : i \in 1..n})
<1>1. s \in [1..n -> {s[i] : i \in 1..n}]
  OBVIOUS
<1>2. s \in Seq({s[i] : i \in 1..n})
  BY <1>1
<1>3. Len(s) = n /\ DOMAIN s = 1..n
  BY <1>1, <1>2
<1> QED
  BY <1>2, <1>3 DEF List

\* What appending to a sequence does.
LEMMA ListGrows ==
    ASSUME NEW s, List(s), NEW x
    PROVE  /\ List(Append(s, x)) /\ Len(Append(s, x)) = Len(s) + 1
           /\ \A i \in 1..Len(s) : Append(s, x)[i] = s[i]
           /\ Append(s, x)[Len(s) + 1] = x
<1> DEFINE S == {s[i] : i \in 1..Len(s)} \union {x}
           t == Append(s, x)
<1>1. s \in Seq(S) /\ x \in S
  BY ListMade, SeqMonotonic DEF List
<1> HIDE DEF S
<1>2. t \in Seq(S) /\ Len(t) = Len(s) + 1
  BY <1>1, AppendProperties
<1>3. \A i \in 1..Len(s) : t[i] = s[i]
  BY <1>1, AppendProperties
<1>4. t[Len(s) + 1] = x
  BY <1>1, AppendProperties
<1>5. List(t)
  BY <1>2, LenProperties DEF List
<1> QED
  BY <1>2, <1>3, <1>4, <1>5

-----------------------------------------------------------------------------
(* What the operations of the ledger do to what it has charged.             *)
Books(d, e) == Ledger(e) /\ e.ever = d.ever /\ e.operations \subseteq d.operations

\* A ledger that charges nothing and forgets operations stays sound.
LEMMA BooksCharged ==
    ASSUME NEW d, NEW e, Charged(d), Books(d, e) PROVE Charged(e)
BY DEF Books, Charged

\* Accounts and grants are other books.
LEMMA AccountsBooks ==
    ASSUME NEW d, Ledger(d), NEW X PROVE Books(d, [d EXCEPT !.accounts = X])
BY DEF Ledger, Books

\* Grants are revoked.
LEMMA RevokeBooks ==
    ASSUME NEW d, Ledger(d), NEW T PROVE Books(d, Revoke(d, T))
BY DEF Ledger, Books, Revoke

\* Grants that expired are forgotten, with what was decided under them.
LEMMA PruneBooks ==
    ASSUME NEW d, Ledger(d) PROVE Books(d, Prune(d))
<1> DEFINE kept == DOMAIN d.grants \ expired
           G == [t \in kept |-> d.grants[t]]
           O == {o \in d.operations : o.grant \in kept}
<1>1. Prune(d) = [d EXCEPT !.grants = G, !.operations = O]
  BY DEF Prune, Ledger
<1>2. O \subseteq d.operations
  OBVIOUS
<1> HIDE DEF G, O
<1> QED
  BY <1>1, <1>2 DEF Ledger, Books

\* A grant is issued.
LEMMA IssueBooks ==
    ASSUME NEW d, Ledger(d), NEW a, NEW p, NEW w, NEW f PROVE Books(d, Issue(d, a, p, w, f))
<1> DEFINE t == d.issued + 1
           G == [x \in DOMAIN d.grants \union {t} |->
                   IF x # t THEN d.grants[x]
                   ELSE [account |-> a, page |-> p, web |-> w, epoch |-> d.accounts[a].revision,
                         revoked |-> FALSE, first |-> IF f = 0 THEN t ELSE f,
                         renewal |-> [op |-> 0, token |-> 0]]]
<1>1. Issue(d, a, p, w, f) = [d EXCEPT !.issued = t, !.grants = G]
  BY DEF Issue, Ledger
<1> HIDE DEF G
<1> QED
  BY <1>1 DEF Ledger, Books

\* Two identities are linked.
LEMMA LinkBooks ==
    ASSUME NEW d, Ledger(d), NEW ids PROVE Books(d, Link(d, ids))
BY DEF Ledger, Books, Link, Merge

\* An owner's settings; a reset forgets charges, never that they were made.
LEMMA SettingsBooks ==
    ASSUME NEW d, Ledger(d), NEW a, NEW act PROVE Books(d, ApplySettings(d, a, act))
<1> DEFINE x == d.accounts[a]
           A == [d.accounts EXCEPT ![a] =
                   [x EXCEPT !.limit = act.limit, !.revision = x.revision + 1,
                             !.spent = IF act.reset THEN 0 ELSE x.spent,
                             !.generation = x.generation + (IF act.reset THEN 1 ELSE 0)]]
           C == IF act.reset THEN {c \in d.charges : Root(d, c.account) # a} ELSE d.charges
<1>1. ApplySettings(d, a, act) = [d EXCEPT !.accounts = A, !.charges = C]
  BY DEF ApplySettings, Ledger
<1> HIDE DEF A, C
<1> QED
  BY <1>1 DEF Ledger, Books

\* One after the other.
LEMMA BooksTransitive ==
    ASSUME NEW d, NEW e, NEW f, Books(d, e), Books(e, f) PROVE Books(d, f)
BY DEF Books

\* An operation charges nothing but the reservation it accepts.
Charging(d, e, out, q) ==
    /\ Charged(e) /\ d.ever \subseteq e.ever
    /\ Grants(q, out) => q.op \in e.ever

\* One that is refused, or changes other books, may not be a reservation's.
LEMMA RefuseCharging ==
    ASSUME NEW d, Charged(d), NEW q PROVE Charging(d, Refuse(d).data, Refuse(d).out, q)
BY DEF Charging, Refuse, Refused, Grants

\* An operation that is no reservation and only changes other books.
LEMMA BooksCharging ==
    ASSUME NEW d, Charged(d), NEW e, Books(d, e), NEW q, q.kind # "reserve", NEW out
    PROVE  Charging(d, e, out, q)
BY BooksCharged DEF Charging, Grants, Books

\* An owner's grant, settings or link.
LEMMA AuthorizeCharging ==
    ASSUME NEW d, Charged(d), NEW q, q.kind = "authorize"
    PROVE  Charging(d, Authorize(d, q).data, Authorize(d, q).out, q)
<1> DEFINE ids == q.act.ids
           A == [i \in Identity |-> IF ~Prune(d).accounts[i].known /\ \E k \in DOMAIN ids : ids[k] = i
                                    THEN NewAccount ELSE Prune(d).accounts[i]]
           d1 == [Prune(d) EXCEPT !.accounts = A]
           d2 == IF q.act.kind = "link" THEN Link(d1, ids) ELSE d1
           a == Root(d2, ids[1])
           d3 == IF q.act.kind = "settings" THEN ApplySettings(d2, a, q.act) ELSE d2
           same == {t \in DOMAIN d3.grants : Root(d3, d3.grants[t].account) = a}
           d4 == IF q.act.kind = "grant" THEN d3 ELSE Revoke(d3, same)
           w == {ids[k] : k \in DOMAIN ids} \intersect Web # {}
           d5 == Issue(d4, a, q.page, w, 0)
           out == Granted(TRUE, d5.issued, Snapshot(d5, a))
<1>1. Authorize(d, q) = IF GrantsFull(d4) THEN Refuse(d) ELSE [data |-> d5, out |-> out]
  BY DEF Authorize
<1> HIDE DEF A, w, out, same, a
<1>2. Books(d, Prune(d))
  BY PruneBooks DEF Charged
<1>3. Books(d, d1)
  BY <1>2, AccountsBooks, BooksTransitive DEF Books
<1> HIDE DEF d1
<1>4. Books(d, d2)
  BY <1>3, LinkBooks, BooksTransitive DEF Books
<1> HIDE DEF d2
<1>5. Books(d, d3)
  BY <1>4, SettingsBooks, BooksTransitive DEF Books
<1> HIDE DEF d3
<1>6. Books(d, d4)
  BY <1>5, RevokeBooks, BooksTransitive DEF Books
<1> HIDE DEF d4
<1>7. Books(d, d5)
  BY <1>6, IssueBooks, BooksTransitive DEF Books
<1> HIDE DEF d5
<1> QED
  BY <1>1, <1>7, BooksCharging, RefuseCharging

\* What is written down of a reservation, accepted or not.
Written(d, t, op, accepted, X, C) ==
    [d EXCEPT !.operations = @ \union {[grant |-> t, op |-> op, accepted |-> accepted]},
              !.accounts = X, !.charges = C,
              !.ever = IF accepted THEN @ \union {op} ELSE @]

\* Only what is accepted is charged, and remembered as accepted.
LEMMA WrittenCharged ==
    ASSUME NEW d, Charged(d), NEW t, NEW op \in 1..MaxPosts, NEW accepted, NEW X, NEW C
    PROVE  /\ Charged(Written(d, t, op, accepted, X, C))
           /\ d.ever \subseteq Written(d, t, op, accepted, X, C).ever
           /\ accepted => op \in Written(d, t, op, accepted, X, C).ever
<1> DEFINE O == d.operations \union {[grant |-> t, op |-> op, accepted |-> accepted]}
           E == IF accepted THEN d.ever \union {op} ELSE d.ever
           e == Written(d, t, op, accepted, X, C)
<1>1. e = [d EXCEPT !.operations = O, !.accounts = X, !.charges = C, !.ever = E]
  BY DEF Charged, Ledger, Written
<1>2. d.ever \subseteq E /\ E \subseteq 1..MaxPosts /\ (accepted => op \in E)
  BY DEF Charged
<1>3. \A o \in O : o.accepted => o.op \in E
  BY <1>2 DEF Charged
<1> HIDE DEF O, E, e
<1>4. Ledger(e) /\ e.operations = O /\ e.ever = E
  BY <1>1 DEF Charged, Ledger
<1> QED
  BY <1>2, <1>3, <1>4 DEF Charged, e

\* A reservation: what was decided before, or a charge if it is accepted.
LEMMA ReserveCharging ==
    ASSUME NEW d0, Charged(d0), NEW q, q.op \in 1..MaxPosts
    PROVE  Charging(d0, Reserve(d0, q).data, Reserve(d0, q).out, q)
<1> DEFINE d == Prune(d0)
           a == Root(d, d.grants[q.token].account)
           before == Decision(d, q)
           accepted == IF before # {} THEN (CHOOSE o \in before : TRUE).accepted
                       ELSE d.accounts[a].spent < d.accounts[a].limit
           X == [d.accounts EXCEPT ![a].spent = IF accepted THEN @ + 1 ELSE @]
           C == IF accepted THEN d.charges \union {[op |-> q.op, account |-> a]} ELSE d.charges
           new == Written(d, q.token, q.op, accepted, X, C)
           left == IF before # {} THEN d ELSE new
           out == Granted(accepted, q.token, Snapshot(left, a))
           full == \/ ~GrantOK(d, q.token)
                   \/ before = {} /\ Cardinality(d.operations) >= OperationCapacity
<1>1. Books(d0, d) /\ Charged(d)
  BY PruneBooks, BooksCharged DEF Charged
<1>2. Reserve(d0, q) = IF full THEN Refuse(d0) ELSE [data |-> left, out |-> out]
  BY <1>1 DEF Reserve, Books, Ledger, Written
<1> HIDE DEF d, full, X, C
<1>3. out.ok /\ (out.accepted <=> accepted)
  BY DEF Granted
<1>4. CASE before # {}
  <2>1. (CHOOSE o \in before : TRUE) \in before
    BY <1>4
  <2>2. accepted => q.op \in d.ever
    BY <1>1, <1>4, <2>1 DEF Charged, Decision
  <2>3. left = d
    BY <1>4
  <2> HIDE DEF before, accepted, left, out
  <2>4. Charging(d0, d, out, q)
    BY <1>1, <1>3, <2>2 DEF Charging, Books, Grants
  <2>5. CASE full
    BY <1>2, <2>5, RefuseCharging
  <2>6. CASE ~full
    BY <1>2, <2>3, <2>4, <2>6
  <2> QED
    BY <2>5, <2>6
<1>5. CASE before = {}
  <2>1. /\ Charged(new) /\ d.ever \subseteq new.ever
        /\ accepted => q.op \in new.ever
    <3> HIDE DEF accepted
    <3> QED
      BY <1>1, WrittenCharged
  <2>2. CASE full
    BY <1>2, <2>2, RefuseCharging
  <2>3. CASE ~full
    <3>1. Reserve(d0, q).data = new /\ Reserve(d0, q).out = out
      <4>1. left = new
        BY <1>5
      <4> HIDE DEF new, left, out, before
      <4> QED
        BY <1>2, <2>3, <4>1
    <3> QED
      BY <1>1, <1>3, <2>1, <3>1 DEF Charging, Grants, Books
  <2> QED
    BY <2>2, <2>3
<1> QED
  BY <1>4, <1>5

\* A renewal.
LEMMA RenewCharging ==
    ASSUME NEW d0, Charged(d0), NEW q, q.kind = "renew"
    PROVE  Charging(d0, Renew(d0, q).data, Renew(d0, q).out, q)
<1> DEFINE d == Prune(d0)
           g == d.grants[q.token]
           n == Issue(d, Root(d, g.account), g.page, g.web, g.first)
           G == [n.grants EXCEPT ![q.token].renewal = [op |-> q.op, token |-> n.issued]]
           new == [n EXCEPT !.grants = G]
           next == IF g.renewal.op = 0 THEN n.issued ELSE g.renewal.token
           left == IF g.renewal.op = 0 THEN new ELSE d
           out == Granted(TRUE, next, Snapshot(left, g.account))
           no == \/ ~GrantOK(d, q.token)
                 \/ g.renewal.op = 0 /\ GrantsFull(d)
                 \/ g.renewal.op # 0 /\ (g.renewal.op # q.op \/ ~GrantOK(d, g.renewal.token))
<1>1. Books(d0, d)
  BY PruneBooks DEF Charged
<1>2. Books(d0, n)
  BY <1>1, IssueBooks, BooksTransitive DEF Books
<1>3. Renew(d0, q) = IF no THEN Refuse(d0) ELSE [data |-> left, out |-> out]
  BY <1>2 DEF Renew, Books, Ledger
<1> HIDE DEF d, n, G, no, out
<1>4. Books(d0, new)
  BY <1>2 DEF Books, Ledger
<1>5. Books(d0, left)
  BY <1>1, <1>4
<1> HIDE DEF left
<1> QED
  BY <1>3, <1>5, BooksCharging, RefuseCharging

\* The end of a delegation.
LEMMA RevokeCharging ==
    ASSUME NEW d0, Charged(d0), NEW q, q.kind = "logout"
    PROVE  Charging(d0, RevokeGrant(d0, q).data, RevokeGrant(d0, q).out, q)
<1> DEFINE d == Prune(d0)
           g == d.grants[q.token]
           same == {t \in DOMAIN d.grants : /\ Root(d, d.grants[t].account) = Root(d, g.account)
                                            /\ d.grants[t].first = g.first}
           out == Granted(TRUE, 0, NoSnapshot)
<1>1. Books(d0, d)
  BY PruneBooks DEF Charged
<1>2. RevokeGrant(d0, q) = IF ~GrantOK(d, q.token) THEN Refuse(d0)
                           ELSE [data |-> Revoke(d, same), out |-> out]
  BY DEF RevokeGrant
<1> HIDE DEF d, same, out
<1>3. Books(d0, Revoke(d, same))
  BY <1>1, RevokeBooks, BooksTransitive DEF Books
<1> HIDE DEF same
<1> QED
  BY <1>2, <1>3, BooksCharging, RefuseCharging

\* Whatever a handler asks of the ledger.
LEMMA OperateCharging ==
    ASSUME NEW d, Charged(d), NEW q, NEW write \in BOOLEAN,
           write => q.kind \in {"authorize", "reserve", "renew", "logout"},
           q.kind = "reserve" => q.op \in 1..MaxPosts
    PROVE  /\ Charged(Operate(d, q, write).data) /\ d.ever \subseteq Operate(d, q, write).data.ever
           /\ write => Charging(d, Operate(d, q, write).data, Operate(d, q, write).out, q)
<1>1. CASE ~write
  <2>1. Operate(d, q, write).data = d
    BY <1>1 DEF Operate, Inspect, Refuse
  <2> QED
    BY <1>1, <2>1
<1>2. CASE write
  <2>1. Charging(d, Operate(d, q, write).data, Operate(d, q, write).out, q)
    BY <1>2, AuthorizeCharging, ReserveCharging, RenewCharging, RevokeCharging DEF Operate
  <2> QED
    BY <2>1 DEF Charging
<1> QED
  BY <1>1, <1>2

-----------------------------------------------------------------------------
(* The queue, its batch and what is held: how they move.                    *)
Owing == {"applying", "inspecting"}

\* Requests go on, those of R and the new ones without an operation.
Moved(rs, rs2, R) ==
    /\ Len(rs) \in Nat /\ Len(rs2) \in Nat /\ Len(rs) <= Len(rs2)
    /\ \A r \in 1..Len(rs2) :
          \/ r \in 1..Len(rs) \ R /\ rs2[r].stage = rs[r].stage
          \/ rs2[r].stage \notin Owing /\ (r \in 1..Len(rs) \ R => rs[r].stage \notin Owing)

\* The entries of a queue without its first.
LEMMA TailEntries ==
    ASSUME NEW b \in Seq(Entry), b # <<>>
    PROVE  /\ Tail(b) \in Seq(Entry) /\ Len(b) \in Nat \ {0} /\ Len(Tail(b)) = Len(b) - 1
           /\ Head(b) = b[1] /\ DOMAIN b = 1..Len(b) /\ DOMAIN Tail(b) = 1..(Len(b) - 1)
           /\ \A i \in 1..(Len(b) - 1) : Tail(b)[i] = b[i + 1]
           /\ Head(b) \in Entry
<1>1. Len(b) \in Nat \ {0} /\ DOMAIN b = 1..Len(b) /\ Head(b) = b[1]
  BY HeadTailProperties, EmptySeq, LenProperties
<1>2. Tail(b) \in Seq(Entry) /\ Len(Tail(b)) = Len(b) - 1
  BY HeadTailProperties
<1>3. \A i \in 1..(Len(b) - 1) : Tail(b)[i] = b[i + 1]
  BY <1>2, HeadTailProperties
<1>4. DOMAIN Tail(b) = 1..(Len(b) - 1)
  BY <1>2, LenProperties
<1>5. Head(b) \in Entry
  BY <1>1, ElementOfSeq
<1> QED
  BY <1>1, <1>2, <1>3, <1>4, <1>5

\* The entries of a queue with another.
LEMMA AppendEntries ==
    ASSUME NEW w \in Seq(Entry), NEW e \in Entry
    PROVE  /\ Append(w, e) \in Seq(Entry) /\ Len(w) \in Nat
           /\ DOMAIN w = 1..Len(w) /\ DOMAIN Append(w, e) = 1..(Len(w) + 1)
           /\ Append(w, e)[Len(w) + 1] = e
           /\ \A i \in 1..Len(w) : Append(w, e)[i] = w[i]
<1>1. Append(w, e) \in Seq(Entry) /\ Len(Append(w, e)) = Len(w) + 1 /\ Len(w) \in Nat
  BY AppendProperties, LenProperties
<1>2. DOMAIN w = 1..Len(w) /\ DOMAIN Append(w, e) = 1..(Len(w) + 1)
  BY <1>1, LenProperties
<1>3. Append(w, e)[Len(w) + 1] = e /\ \A i \in 1..Len(w) : Append(w, e)[i] = w[i]
  BY AppendProperties
<1> QED
  BY <1>1, <1>2, <1>3

\* Neither brings two entries of one request together.
LEMMA OnceTail ==
    ASSUME NEW b \in Seq(Entry), b # <<>>, Once(b) PROVE Once(Tail(b))
<1>1. ASSUME NEW i \in DOMAIN Tail(b), NEW j \in DOMAIN Tail(b),
             Tail(b)[i].request = Tail(b)[j].request
      PROVE  i = j
  <2>1. /\ i + 1 \in DOMAIN b /\ j + 1 \in DOMAIN b /\ i \in Nat /\ j \in Nat
        /\ Tail(b)[i] = b[i + 1] /\ Tail(b)[j] = b[j + 1]
    BY TailEntries
  <2>2. i + 1 = j + 1
    BY <1>1, <2>1 DEF Once
  <2> QED
    BY <2>1, <2>2
<1> QED
  BY <1>1 DEF Once

\* The same of an entry that is appended.
LEMMA OnceAppend ==
    ASSUME NEW h \in Seq(Entry), NEW e \in Entry, Once(h),
           \A k \in DOMAIN h : h[k].request # e.request
    PROVE  Once(Append(h, e))
<1> DEFINE g == Append(h, e)
<1>1. /\ Len(h) \in Nat /\ DOMAIN h = 1..Len(h) /\ DOMAIN g = 1..(Len(h) + 1)
      /\ g[Len(h) + 1] = e /\ \A i \in 1..Len(h) : g[i] = h[i]
  BY AppendEntries
<1> HIDE DEF g
<1>2. ASSUME NEW i \in DOMAIN g, NEW j \in DOMAIN g, g[i].request = g[j].request
      PROVE  i = j
  <2>1. CASE i \in DOMAIN h /\ j \in DOMAIN h
    BY <1>1, <1>2, <2>1 DEF Once
  <2>2. CASE ~(i \in DOMAIN h /\ j \in DOMAIN h)
    BY <1>1, <1>2, <2>2
  <2> QED
    BY <2>1, <2>2
<1>3. Once(g)
  BY <1>2 DEF Once
<1> QED
  BY <1>3 DEF g

\* What is queued is an entry of a request that waits for it.
LEMMA QueuedStage ==
    ASSUME NEW w, NEW b, NEW h, NEW rs, Queued(w, b, h, rs), NEW s \in {w, b, h}, NEW k \in DOMAIN s
    PROVE  /\ s[k] \in Entry /\ s[k].request \in 1..Len(rs)
           /\ rs[s[k].request].stage = Due(s[k]) /\ rs[s[k].request].stage \in Owing
<1>1. s \in Seq(Entry)
  BY DEF Queued
<1>2. s[k] \in Entry
  BY <1>1, ElementOfSeq, LenProperties
<1> QED
  BY <1>2 DEF Queued, Due, Owing

\* Requests whose operations are not touched.
LEMMA QueueMoves ==
    ASSUME NEW w, NEW b, NEW h, NEW rs, NEW rs2, Queued(w, b, h, rs), Moved(rs, rs2, {})
    PROVE  Queued(w, b, h, rs2)
<1>1. ASSUME NEW s \in {w, b, h}, NEW k \in DOMAIN s
      PROVE  s[k].request \in 1..Len(rs2) /\ rs2[s[k].request].stage = Due(s[k])
  <2> DEFINE r == s[k].request
  <2>1. r \in 1..Len(rs) /\ rs[r].stage = Due(s[k]) /\ rs[r].stage \in Owing
    BY QueuedStage
  <2>2. r \in 1..Len(rs2)
    BY <2>1 DEF Moved
  <2> QED
    BY <2>1, <2>2 DEF Moved
<1>2. ASSUME NEW r \in 1..Len(rs2), rs2[r].stage \in {"applying", "inspecting"}
      PROVE  r \in Asks(w) \union Asks(b) \union Asks(h)
  BY <1>2 DEF Moved, Owing, Queued
<1> QED
  BY <1>1, <1>2 DEF Queued

\* An operation is queued for a request.
LEMMA QueueAppends ==
    ASSUME NEW w, NEW b, NEW h, NEW rs, NEW rs2, Queued(w, b, h, rs), NEW write \in BOOLEAN,
           NEW r \in 1..Len(rs), rs[r].stage \notin Owing, Len(rs) \in Nat, Len(rs2) = Len(rs),
           rs2[r].stage = Due([request |-> r, write |-> write]),
           \A x \in 1..Len(rs) \ {r} : rs2[x].stage = rs[x].stage
    PROVE  Queued(Append(w, [request |-> r, write |-> write]), b, h, rs2)
<1> DEFINE e == [request |-> r, write |-> write]
           v == Append(w, e)
<1>1. w \in Seq(Entry) /\ b \in Seq(Entry) /\ h \in Seq(Entry)
  BY DEF Queued
<1>2. e \in Entry /\ e.request = r
  BY DEF Entry
<1> HIDE DEF e
<1>3. /\ v \in Seq(Entry) /\ Len(w) \in Nat
      /\ DOMAIN w = 1..Len(w) /\ DOMAIN v = 1..(Len(w) + 1) /\ v[Len(w) + 1] = e
      /\ \A i \in 1..Len(w) : v[i] = w[i]
  BY <1>1, <1>2, AppendEntries
<1> HIDE DEF v
<1>4. \A s \in {w, b, h} : \A k \in DOMAIN s : s[k].request # r
  BY QueuedStage
<1>12. Once(w) /\ Once(b) /\ Once(h) /\ Apart(w, b) /\ Apart(w, h) /\ Apart(b, h)
  BY DEF Queued
<1>5. Once(v)
  BY <1>2, <1>3, <1>4, <1>12 DEF Once
<1>6. Apart(v, b)
  BY <1>2, <1>3, <1>4, <1>12 DEF Apart
<1>7. Apart(v, h)
  BY <1>2, <1>3, <1>4, <1>12 DEF Apart
<1>8. ASSUME NEW s \in {w, b, h}, NEW k \in DOMAIN s
      PROVE  s[k].request \in 1..Len(rs2) /\ rs2[s[k].request].stage = Due(s[k])
  BY <1>4, QueuedStage
<1>9. ASSUME NEW k \in DOMAIN v
      PROVE  v[k].request \in 1..Len(rs2) /\ rs2[v[k].request].stage = Due(v[k])
  BY <1>2, <1>3, <1>8 DEF e
<1>10. Asks(w) \subseteq Asks(v) /\ r \in Asks(v)
  BY <1>2, <1>3 DEF Asks
<1>11. ASSUME NEW x \in 1..Len(rs2), rs2[x].stage \in {"applying", "inspecting"}
       PROVE  x \in Asks(v) \union Asks(b) \union Asks(h)
  BY <1>10, <1>11 DEF Queued
<1> QED
  BY <1>1, <1>3, <1>5, <1>6, <1>7, <1>8, <1>9, <1>11, <1>12 DEF Queued, v, e

\* The loop takes the queue as its batch.
LEMMA QueueTaken ==
    ASSUME NEW w, NEW rs, Queued(w, <<>>, <<>>, rs) PROVE Queued(<<>>, w, <<>>, rs)
BY DEF Queued, Once, Apart, Asks

\* An outcome is held until the write.
LEMMA QueueHolds ==
    ASSUME NEW w, NEW b, NEW h, NEW rs, Queued(w, b, h, rs), b # <<>>
    PROVE  Queued(w, Tail(b), Append(h, Head(b)), rs)
<1> DEFINE t == Tail(b)
           g == Append(h, Head(b))
<1>0. Once(w) /\ Once(b) /\ Once(h) /\ Apart(w, b) /\ Apart(w, h) /\ Apart(b, h)
  BY DEF Queued
<1>1. w \in Seq(Entry) /\ b \in Seq(Entry) /\ h \in Seq(Entry)
  BY DEF Queued
<1>2. /\ t \in Seq(Entry) /\ Len(b) \in Nat \ {0} /\ Head(b) = b[1] /\ Head(b) \in Entry
      /\ DOMAIN b = 1..Len(b) /\ DOMAIN t = 1..(Len(b) - 1)
      /\ \A i \in 1..(Len(b) - 1) : t[i] = b[i + 1]
  BY <1>1, TailEntries
<1>3. /\ g \in Seq(Entry) /\ Len(h) \in Nat
      /\ DOMAIN h = 1..Len(h) /\ DOMAIN g = 1..(Len(h) + 1) /\ g[Len(h) + 1] = b[1]
      /\ \A i \in 1..Len(h) : g[i] = h[i]
  BY <1>1, <1>2, AppendEntries
<1>4. Once(t)
  BY <1>0, <1>1, OnceTail
<1>5. Once(g)
  <2>1. \A k \in DOMAIN h : h[k].request # Head(b).request
    BY <1>0, <1>2 DEF Apart
  <2> QED
    BY <1>0, <1>1, <1>2, <2>1, OnceAppend
<1> HIDE DEF t, g
<1>6. Apart(w, t)
  BY <1>0, <1>2 DEF Apart
<1>7. Apart(w, g)
  BY <1>0, <1>2, <1>3 DEF Apart
<1>8. Apart(t, g)
  <2>1. ASSUME NEW i \in DOMAIN t, NEW j \in DOMAIN g PROVE t[i].request # g[j].request
    <3>1. i + 1 \in DOMAIN b /\ 1 \in DOMAIN b /\ t[i] = b[i + 1] /\ i + 1 # 1
      BY <1>2
    <3>2. CASE j = Len(h) + 1
      BY <1>3, <1>0, <3>1, <3>2 DEF Once
    <3>3. CASE j \in 1..Len(h)
      BY <1>3, <1>0, <3>1, <3>3 DEF Apart
    <3> QED
      BY <1>3, <3>2, <3>3
  <2> QED
    BY <2>1 DEF Apart
<1>9. ASSUME NEW k \in DOMAIN t
      PROVE  t[k].request \in 1..Len(rs) /\ rs[t[k].request].stage = Due(t[k])
  BY <1>2, QueuedStage
<1>10. ASSUME NEW k \in DOMAIN g
       PROVE  g[k].request \in 1..Len(rs) /\ rs[g[k].request].stage = Due(g[k])
  BY <1>2, <1>3, QueuedStage
<1>11. Asks(b) \union Asks(h) \subseteq Asks(t) \union Asks(g)
  <2>1. Asks(h) \subseteq Asks(g)
    BY <1>3 DEF Asks
  <2>2. ASSUME NEW k \in DOMAIN b PROVE b[k].request \in Asks(t) \union Asks(g)
    <3>1. CASE k = 1
      BY <1>3, <3>1 DEF Asks
    <3>2. CASE k # 1
      <4>1. k - 1 \in DOMAIN t /\ t[k - 1] = b[k]
        BY <1>2, <3>2
      <4> QED
        BY <4>1 DEF Asks
    <3> QED
      BY <3>1, <3>2
  <2> QED
    BY <2>1, <2>2 DEF Asks
<1> QED
  BY <1>1, <1>2, <1>3, <1>4, <1>5, <1>6, <1>7, <1>8, <1>9, <1>10, <1>11 DEF Queued, t, g

\* The first of the batch is settled at once.
LEMMA QueueDrops ==
    ASSUME NEW w, NEW b, NEW rs, NEW rs2, Queued(w, b, <<>>, rs), b # <<>>,
           Moved(rs, rs2, {Head(b).request})
    PROVE  Queued(w, Tail(b), <<>>, rs2)
<1> DEFINE t == Tail(b)
<1>0. Once(w) /\ Once(b) /\ Apart(w, b)
  BY DEF Queued
<1>1. w \in Seq(Entry) /\ b \in Seq(Entry)
  BY DEF Queued
<1>2. /\ t \in Seq(Entry) /\ Len(b) \in Nat \ {0} /\ Head(b) = b[1]
      /\ DOMAIN b = 1..Len(b) /\ DOMAIN t = 1..(Len(b) - 1)
      /\ \A i \in 1..(Len(b) - 1) : t[i] = b[i + 1]
  BY <1>1, TailEntries
<1>3. Once(t)
  BY <1>0, <1>1, OnceTail
<1> HIDE DEF t
<1>4. Apart(w, t)
  BY <1>0, <1>2 DEF Apart
<1>5. ASSUME NEW s \in {w, t}, NEW k \in DOMAIN s
      PROVE  /\ s[k].request \in 1..Len(rs) /\ s[k].request # b[1].request
             /\ rs[s[k].request].stage = Due(s[k]) /\ rs[s[k].request].stage \in Owing
  <2>1. CASE s = w
    <3>1. s[k].request # b[1].request
      BY <1>0, <1>2, <2>1 DEF Apart
    <3> QED
      BY <2>1, <3>1, QueuedStage
  <2>2. CASE s = t
    <3>1. k + 1 \in DOMAIN b /\ 1 \in DOMAIN b /\ s[k] = b[k + 1] /\ k + 1 # 1
      BY <1>2, <2>2
    <3> QED
      BY <1>0, <3>1, QueuedStage DEF Once
  <2> QED
    BY <2>1, <2>2
<1>6. ASSUME NEW s \in {w, t}, NEW k \in DOMAIN s
      PROVE  s[k].request \in 1..Len(rs2) /\ rs2[s[k].request].stage = Due(s[k])
  <2> DEFINE r == s[k].request
  <2>1. r \in 1..Len(rs) \ {Head(b).request} /\ rs[r].stage = Due(s[k]) /\ rs[r].stage \in Owing
    BY <1>2, <1>5
  <2>2. r \in 1..Len(rs2)
    BY <2>1 DEF Moved
  <2> QED
    BY <2>1, <2>2 DEF Moved
<1>7. ASSUME NEW r \in 1..Len(rs2), rs2[r].stage \in {"applying", "inspecting"}
      PROVE  r \in Asks(w) \union Asks(t)
  <2>1. r \in 1..Len(rs) /\ r # b[1].request /\ rs[r].stage \in {"applying", "inspecting"}
    BY <1>2, <1>7 DEF Moved, Owing
  <2>2. r \in Asks(w) \union Asks(b)
    BY <2>1 DEF Queued, Asks
  <2>3. CASE r \in Asks(b)
    <3>1. PICK k \in DOMAIN b : b[k].request = r
      BY <2>3 DEF Asks
    <3>2. k - 1 \in DOMAIN t /\ t[k - 1] = b[k]
      BY <1>2, <2>1, <3>1
    <3> QED
      BY <3>1, <3>2 DEF Asks
  <2> QED
    BY <2>2, <2>3
<1>8. <<>> \in Seq(Entry) /\ Once(<<>>) /\ Apart(w, <<>>) /\ Apart(t, <<>>) /\ Asks(<<>>) = {}
  BY DEF Once, Apart, Asks
<1> QED
  BY <1>1, <1>2, <1>3, <1>4, <1>6, <1>7, <1>8 DEF Queued, t

\* The outcomes held go to their requests.
LEMMA QueueReleased ==
    ASSUME NEW w, NEW h, NEW rs, NEW rs2, Queued(w, <<>>, h, rs), Moved(rs, rs2, Asks(h))
    PROVE  Queued(w, <<>>, <<>>, rs2)
<1>1. ASSUME NEW k \in DOMAIN w
      PROVE  w[k].request \in 1..Len(rs2) /\ rs2[w[k].request].stage = Due(w[k])
  <2>1. /\ w[k].request \in 1..Len(rs) /\ rs[w[k].request].stage = Due(w[k])
        /\ rs[w[k].request].stage \in Owing
    BY QueuedStage
  <2>2. w[k].request \notin Asks(h)
    BY DEF Queued, Apart, Asks
  <2>3. w[k].request \in 1..Len(rs2)
    BY <2>1 DEF Moved
  <2> QED
    BY <2>1, <2>2, <2>3 DEF Moved
<1>2. ASSUME NEW r \in 1..Len(rs2), rs2[r].stage \in {"applying", "inspecting"}
      PROVE  r \in Asks(w)
  BY <1>2 DEF Moved, Owing, Queued, Asks
<1> QED
  BY <1>1, <1>2 DEF Queued, Once, Apart, Asks

\* Every request waits for one operation at most, and that is in one place.
LEMMA Counted ==
    ASSUME NEW s \in Seq(Entry), Once(s), NEW e
    PROVE  Cardinality({k \in DOMAIN s : s[k] = e}) = IF \E k \in DOMAIN s : s[k] = e THEN 1 ELSE 0
<1>1. CASE \E k \in DOMAIN s : s[k] = e
  <2>1. PICK k \in DOMAIN s : s[k] = e
    BY <1>1
  <2>2. {i \in DOMAIN s : s[i] = e} = {k}
    BY <2>1 DEF Once
  <2> QED
    BY <1>1, <2>2, FS_Singleton
<1>2. CASE ~ \E k \in DOMAIN s : s[k] = e
  <2>1. {i \in DOMAIN s : s[i] = e} = {}
    BY <1>2
  <2> QED
    BY <1>2, <2>1, FS_EmptySet
<1> QED
  BY <1>1, <1>2

\* The invariant says where each operation is.
LEMMA QueuedCounts ==
    ASSUME NEW w, NEW b, NEW h, NEW rs, Queued(w, b, h, rs), NEW r \in 1..Len(rs), r \in Nat \ {0},
           NEW e \in Entry, e.request = r
    PROVE  Cardinality({k \in DOMAIN w : w[k] = e}) + Cardinality({k \in DOMAIN b : b[k] = e})
             + Cardinality({k \in DOMAIN h : h[k] = e}) = IF rs[r].stage = Due(e) THEN 1 ELSE 0
<1> DEFINE In(s) == \E k \in DOMAIN s : s[k] = e
           C(s) == Cardinality({k \in DOMAIN s : s[k] = e})
<1>0. /\ Once(w) /\ Once(b) /\ Once(h) /\ Apart(w, b) /\ Apart(w, h) /\ Apart(b, h)
      /\ w \in Seq(Entry) /\ b \in Seq(Entry) /\ h \in Seq(Entry)
  BY DEF Queued
<1>1. /\ C(w) = IF In(w) THEN 1 ELSE 0
      /\ C(b) = IF In(b) THEN 1 ELSE 0
      /\ C(h) = IF In(h) THEN 1 ELSE 0
  BY <1>0, Counted
<1>2. ~(In(w) /\ In(b)) /\ ~(In(w) /\ In(h)) /\ ~(In(b) /\ In(h))
  BY <1>0 DEF Apart
<1>3. ASSUME NEW s \in {w, b, h}, In(s) PROVE rs[r].stage = Due(e)
  BY <1>3, QueuedStage
<1>4. ASSUME rs[r].stage = Due(e) PROVE In(w) \/ In(b) \/ In(h)
  <2>1. rs[r].stage \in {"applying", "inspecting"}
    BY <1>4 DEF Due
  <2>2. PICK s \in {w, b, h} : r \in Asks(s)
    BY <2>1 DEF Queued
  <2>3. PICK k \in DOMAIN s : s[k].request = r
    BY <2>2 DEF Asks
  <2>4. s[k] \in Entry /\ Due(s[k]) = Due(e)
    BY <1>4, <2>3, QueuedStage
  <2>5. s[k] = e
    BY <2>3, <2>4 DEF Entry, Due
  <2> QED
    BY <2>2, <2>5
<1> HIDE DEF C, In
<1>5. C(w) + C(b) + C(h) = IF rs[r].stage = Due(e) THEN 1 ELSE 0
  BY <1>1, <1>2, <1>3, <1>4
<1> QED
  BY <1>5 DEF C

\* So nothing is stranded.
LEMMA PhaseStrandsNothing ==
    ASSUME PhaseOK, List(requests) PROVE NothingStranded
<1>1. ASSUME NEW r \in Request, NEW write \in BOOLEAN
      PROVE  Places(r, write) = IF requests[r].stage = Due([request |-> r, write |-> write])
                                THEN 1 ELSE 0
  <2> DEFINE e == [request |-> r, write |-> write]
  <2>1. r \in Nat \ {0} /\ e \in Entry /\ e.request = r
    BY DEF Request, List, Entry
  <2>2. DOMAIN HeldEntries = DOMAIN held /\ \A k \in DOMAIN held : HeldEntries[k] = held[k].entry
    BY DEF HeldEntries
  <2>3. {k \in DOMAIN HeldEntries : HeldEntries[k] = e} = {k \in DOMAIN held : held[k].entry = e}
    BY <2>2
  <2> HIDE DEF e
  <2>4. Cardinality({k \in DOMAIN waiting : waiting[k] = e})
          + Cardinality({k \in DOMAIN batch : batch[k] = e})
          + Cardinality({k \in DOMAIN HeldEntries : HeldEntries[k] = e})
        = IF requests[r].stage = Due(e) THEN 1 ELSE 0
    BY <2>1, QueuedCounts DEF PhaseOK, Request
  <2> QED
    BY <2>3, <2>4 DEF Places, e
<1>2. \A r \in Request :
         /\ Due([request |-> r, write |-> TRUE]) = "applying"
         /\ Due([request |-> r, write |-> FALSE]) = "inspecting"
  BY DEF Due
<1>3. \A r \in Request :
         /\ Places(r, TRUE) = IF requests[r].stage = "applying" THEN 1 ELSE 0
         /\ Places(r, FALSE) = IF requests[r].stage = "inspecting" THEN 1 ELSE 0
  BY <1>1, <1>2
<1> QED
  BY <1>3 DEF PhaseOK, NothingStranded

-----------------------------------------------------------------------------
(* One request, as its handler and its page change it.                      *)
SameAsk(q, q2) == q2.act = q.act /\ q2.token = q.token /\ q2.op = q.op
Kin(q, q2) == q2.kind = None \/ (q2.kind = q.kind /\ SameAsk(q, q2))
USE DEF SameAsk

\* What a request is whatever its stage.
Formed(q) ==
    /\ IsRequest(q)
    /\ q.page # 0 => q.kind \in Asked \union {"challenge", "authorize"}
    /\ q.kind = "reserve" => q.op \in 1..MaxPosts

\* One field of a request changes: its page.
LEMMA SetPage ==
    ASSUME NEW q, IsRequest(q), NEW x
    PROVE  LET q2 == [q EXCEPT !.page = x]
           IN  /\ IsRequest(q2) /\ q2.page = x /\ q2.kind = q.kind /\ q2.act = q.act /\ q2.challenge = q.challenge
               /\ q2.token = q.token /\ q2.op = q.op /\ q2.open = q.open /\ q2.stage = q.stage /\ q2.out = q.out
BY DEF IsRequest

\* Its connection.
LEMMA SetOpen ==
    ASSUME NEW q, IsRequest(q), NEW x
    PROVE  LET q2 == [q EXCEPT !.open = x]
           IN  /\ IsRequest(q2) /\ q2.page = q.page /\ q2.kind = q.kind /\ q2.act = q.act /\ q2.challenge = q.challenge
               /\ q2.token = q.token /\ q2.op = q.op /\ q2.open = x /\ q2.stage = q.stage /\ q2.out = q.out
BY DEF IsRequest

\* Its stage.
LEMMA SetStage ==
    ASSUME NEW q, IsRequest(q), NEW x
    PROVE  LET q2 == [q EXCEPT !.stage = x]
           IN  /\ IsRequest(q2) /\ q2.page = q.page /\ q2.kind = q.kind /\ q2.act = q.act /\ q2.challenge = q.challenge
               /\ q2.token = q.token /\ q2.op = q.op /\ q2.open = q.open /\ q2.stage = x /\ q2.out = q.out
BY DEF IsRequest

\* Its outcome.
LEMMA SetOut ==
    ASSUME NEW q, IsRequest(q), NEW x
    PROVE  LET q2 == [q EXCEPT !.out = x]
           IN  /\ IsRequest(q2) /\ q2.page = q.page /\ q2.kind = q.kind /\ q2.act = q.act /\ q2.challenge = q.challenge
               /\ q2.token = q.token /\ q2.op = q.op /\ q2.open = q.open /\ q2.stage = q.stage /\ q2.out = x
BY DEF IsRequest

\* A request that is over claims nothing.
LEMMA OverSound ==
    ASSUME NEW ever PROVE Sound(Over, ever) /\ Over.stage = "done" /\ Over.kind = None
<1> DEFINE p == Post(0, None, NoAct, 0, 0, 0)
           p1 == [p EXCEPT !.stage = "done"]
<1>1. IsRequest(p) /\ p.kind = None /\ p.page = 0
  BY DEF IsRequest, Post
<1>2. Over = [p1 EXCEPT !.open = FALSE]
  BY DEF Over
<1> HIDE DEF p
<1>3. IsRequest(p1) /\ p1.kind = None /\ p1.page = 0 /\ p1.stage = "done"
  BY <1>1, SetStage
<1> HIDE DEF p1
<1>4. IsRequest(Over) /\ Over.stage = "done" /\ Over.kind = None /\ Over.page = 0
  BY <1>2, <1>3, SetOpen
<1> QED
  BY <1>4 DEF Sound, Stages, Fitting, Grants, None

\* What was granted stays granted.
LEMMA SoundGrows ==
    ASSUME NEW q, NEW ever, NEW more, Sound(q, ever), ever \subseteq more
    PROVE  Sound(q, more)
BY DEF Sound

\* A sound request has its form.
LEMMA SoundFormed ==
    ASSUME NEW q, NEW ever, Sound(q, ever) PROVE Formed(q)
BY DEF Sound, Fitting, Formed

\* A request is through, with this outcome.
LEMMA EndSound ==
    ASSUME NEW q, Formed(q), NEW out, NEW ever, Grants(q, out) => q.op \in ever
    PROVE  LET q2 == [q EXCEPT !.out = out, !.stage = "done"]
           IN  Sound(q2, ever) /\ Kin(q, q2) /\ q2.stage = "done"
<1> DEFINE q2 == [q EXCEPT !.out = out, !.stage = "done"]
<1> DEFINE q1 == [q EXCEPT !.out = out]
<1>0. q2 = [q1 EXCEPT !.stage = "done"]
  OBVIOUS
<1>3. /\ IsRequest(q1) /\ q1.kind = q.kind /\ SameAsk(q, q1) /\ q1.page = q.page /\ q1.out = out
  BY SetOut DEF Formed
<1> HIDE DEF q1, q2
<1>1. /\ IsRequest(q2) /\ q2.kind = q.kind /\ SameAsk(q, q2) /\ q2.page = q.page
      /\ q2.stage = "done" /\ q2.out = out
  BY <1>0, <1>3, SetStage
<1> HIDE DEF q2
<1>2. Sound(q2, ever)
  BY <1>1 DEF Sound, Stages, Fitting, Formed, Grants
<1> QED
  BY <1>1, <1>2 DEF Kin, q2

\* A request goes on to another stage.
LEMMA StageSound ==
    ASSUME NEW q, Formed(q), NEW ever, NEW stage \in Stages \ {"done"},
           stage = "resolving" => q.kind = "authorize",
           stage \in {"inspecting", "inspected"} => q.kind \in Asked,
           stage = "applying" => q.kind \in {"authorize", "reserve", "renew", "logout"}
    PROVE  LET q2 == [q EXCEPT !.stage = stage]
           IN  Sound(q2, ever) /\ Kin(q, q2) /\ q2.stage = stage
<1> DEFINE q2 == [q EXCEPT !.stage = stage]
<1>1. /\ IsRequest(q2) /\ q2.kind = q.kind /\ SameAsk(q, q2) /\ q2.page = q.page /\ q2.stage = stage
  BY DEF Formed, IsRequest
<1> HIDE DEF q2
<1>2. Sound(q2, ever)
  BY <1>1 DEF Sound, Stages, Fitting, Formed
<1> QED
  BY <1>1, <1>2 DEF Kin, q2

\* The ledger has an outcome for it.
LEMMA SettledSound ==
    ASSUME NEW q, Formed(q), NEW write \in BOOLEAN, NEW out, NEW ever,
           write /\ Grants(q, out) => q.op \in ever, ~write => q.kind \in Asked
    PROVE  /\ Sound(Settled(q, write, out), ever) /\ Kin(q, Settled(q, write, out))
           /\ Settled(q, write, out).stage \notin Owing
<1>1. CASE ~write /\ out.ok
  <2> DEFINE q2 == [q EXCEPT !.out = out, !.stage = "inspected"]
  <2>1. Settled(q, write, out) = q2
    BY <1>1 DEF Settled
  <2> DEFINE q1 == [q EXCEPT !.out = out]
  <2>0. q2 = [q1 EXCEPT !.stage = "inspected"]
    OBVIOUS
  <2>4. IsRequest(q1) /\ q1.kind = q.kind /\ SameAsk(q, q1) /\ q1.page = q.page
    BY SetOut DEF Formed
  <2> HIDE DEF q1, q2
  <2>2. /\ IsRequest(q2) /\ q2.kind = q.kind /\ SameAsk(q, q2) /\ q2.page = q.page
        /\ q2.stage = "inspected"
    BY <2>0, <2>4, SetStage
  <2> HIDE DEF q2
  <2>3. Sound(q2, ever)
    BY <1>1, <2>2 DEF Sound, Stages, Fitting, Formed, Asked
  <2> QED
    BY <2>1, <2>2, <2>3 DEF Kin, Owing
<1>2. CASE ~(~write /\ out.ok) /\ q.page = 0
  BY <1>2, OverSound DEF Settled, Kin, Owing
<1>3. CASE ~(~write /\ out.ok) /\ q.page # 0
  <2>1. Grants(q, out) => q.op \in ever
    BY <1>3 DEF Grants
  <2>2. Settled(q, write, out) = [q EXCEPT !.out = out, !.stage = "done"]
    BY <1>3 DEF Settled
  <2>3. LET q2 == [q EXCEPT !.out = out, !.stage = "done"]
        IN  Sound(q2, ever) /\ Kin(q, q2) /\ q2.stage = "done"
    BY <2>1, EndSound
  <2> QED
    BY <2>2, <2>3 DEF Owing
<1> QED
  BY <1>1, <1>2, <1>3

\* It is refused.
LEMMA FailedSound ==
    ASSUME NEW q, Formed(q), NEW ever
    PROVE  Sound(Failed(q), ever) /\ Kin(q, Failed(q)) /\ Failed(q).stage \notin Owing
BY SettledSound DEF Failed, Grants, Refused

\* Nobody waits for it any more.
LEMMA GoneSound ==
    ASSUME NEW q, NEW ever, Sound(q, ever), q.stage # "done"
    PROVE  LET q2 == [q EXCEPT !.page = 0, !.open = FALSE]
           IN  Sound(q2, ever) /\ Kin(q, q2) /\ q2.stage = q.stage
<1> DEFINE q1 == [q EXCEPT !.page = 0]
           q2 == [q1 EXCEPT !.open = FALSE]
<1>1. /\ IsRequest(q1) /\ q1.kind = q.kind /\ SameAsk(q, q1) /\ q1.page = 0
      /\ q1.stage = q.stage
  BY SetPage DEF Sound
<1> HIDE DEF q1
<1>2. /\ IsRequest(q2) /\ q2.kind = q.kind /\ SameAsk(q, q2) /\ q2.page = 0
      /\ q2.stage = q.stage
  BY <1>1, SetOpen
<1> HIDE DEF q2
<1>3. Sound(q2, ever) /\ Kin(q, q2)
  BY <1>2 DEF Sound, Fitting, Kin
<1> QED
  BY <1>2, <1>3 DEF q1, q2

\* Its connection is closed.
LEMMA ClosedSound ==
    ASSUME NEW q
    PROVE  LET q2 == [q EXCEPT !.open = FALSE]
           IN  /\ Formed(q) => Formed(q2)
               /\ \A ever : Sound(q, ever) =>
                     Sound(q2, ever) /\ Kin(q, q2) /\ q2.stage = q.stage
<1> DEFINE q2 == [q EXCEPT !.open = FALSE]
<1>1. ASSUME IsRequest(q)
      PROVE  /\ IsRequest(q2) /\ q2.page = q.page /\ q2.kind = q.kind /\ SameAsk(q, q2)
             /\ q2.stage = q.stage /\ q2.out = q.out
  BY <1>1, SetOpen
<1> HIDE DEF q2
<1>2. Formed(q) => Formed(q2)
  BY <1>1 DEF Formed
<1>3. ASSUME NEW ever, Sound(q, ever)
      PROVE  Sound(q2, ever) /\ Kin(q, q2) /\ q2.stage = q.stage
  BY <1>1, <1>3 DEF Sound, Fitting, Grants, Kin
<1> QED
  BY <1>2, <1>3 DEF q2

\* Its page hangs up.
LEMMA HangupKeeps ==
    ASSUME NEW rs, List(rs), NEW gone, NEW ever, \A r \in 1..Len(rs) : Sound(rs[r], ever)
    PROVE  /\ List(Hangup(rs, gone)) /\ Len(Hangup(rs, gone)) = Len(rs)
           /\ \A r \in 1..Len(rs) :
                 /\ Sound(Hangup(rs, gone)[r], ever) /\ Kin(rs[r], Hangup(rs, gone)[r])
                 /\ Hangup(rs, gone)[r].stage = rs[r].stage
<1> DEFINE t == Hangup(rs, gone)
<1>1. DOMAIN rs = 1..Len(rs) /\ Len(rs) \in Nat
  BY DEF List
<1>2. t = [r \in 1..Len(rs) |-> t[r]]
  BY <1>1 DEF Hangup
<1>3. List(t) /\ Len(t) = Len(rs)
  BY <1>1, <1>2, ListMade
<1>4. ASSUME NEW r \in 1..Len(rs)
      PROVE  Sound(t[r], ever) /\ Kin(rs[r], t[r]) /\ t[r].stage = rs[r].stage
  <2>1. CASE r \notin gone
    BY <1>1, <2>1 DEF Hangup, Kin
  <2>2. CASE r \in gone /\ rs[r].stage = "done"
    BY <1>1, <2>2, OverSound DEF Hangup, Kin
  <2>3. CASE r \in gone /\ rs[r].stage # "done"
    BY <1>1, <2>3, GoneSound DEF Hangup
  <2> QED
    BY <2>1, <2>2, <2>3
<1> QED
  BY <1>3, <1>4

-----------------------------------------------------------------------------
(* What handlers and pages do leaves the ledger where it is.                *)

\* One request changes.
LEMMA OneChanges ==
    ASSUME NEW rs, List(rs), NEW r \in 1..Len(rs), NEW q2, NEW ever,
           Sound(q2, ever), Kin(rs[r], q2), \A x \in 1..Len(rs) \ {r} : Sound(rs[x], ever)
    PROVE  LET rs2 == [rs EXCEPT ![r] = q2]
           IN  /\ List(rs2) /\ Len(rs2) = Len(rs) /\ Len(rs) \in Nat
               /\ \A x \in 1..Len(rs) : Sound(rs2[x], ever) /\ Kin(rs[x], rs2[x])
               /\ rs2[r] = q2 /\ \A x \in 1..Len(rs) \ {r} : rs2[x] = rs[x]
<1> DEFINE rs2 == [rs EXCEPT ![r] = q2]
<1>1. DOMAIN rs = 1..Len(rs) /\ Len(rs) \in Nat
  BY DEF List
<1>2. rs2 = [x \in 1..Len(rs) |-> rs2[x]]
  BY <1>1
<1>3. rs2[r] = q2 /\ \A x \in 1..Len(rs) \ {r} : rs2[x] = rs[x]
  BY <1>1
<1> HIDE DEF rs2
<1>4. List(rs2) /\ Len(rs2) = Len(rs)
  BY <1>1, <1>2, ListMade
<1>5. \A x \in 1..Len(rs) : Sound(rs2[x], ever) /\ Kin(rs[x], rs2[x])
  BY <1>3 DEF Kin
<1> QED
  BY <1>1, <1>3, <1>4, <1>5 DEF rs2

\* Where a step of the handlers or the pages leaves requests and queue.
Served ==
    /\ List(requests') /\ Len(requests) <= Len(requests') /\ Len(requests') <= MaxPosts
    /\ \A r \in 1..Len(requests') : Sound(requests'[r], disk.ever)
    /\ \A r \in Request : Kin(requests[r], requests'[r])
    /\ Queued(waiting', batch, HeldEntries, requests')
    /\ waiting' # <<>> => drain' # "off"
    /\ drain' = drain \/ (drain = "off" /\ drain' = "loop" /\ Running)

\* An operation is queued, or its request refused.
LEMMA TransactServes ==
    ASSUME NEW rs, List(rs), NEW write \in BOOLEAN, NEW r \in 1..Len(rs),
           Formed(rs[r]), rs[r].stage \notin Owing,
           write => rs[r].kind \in {"authorize", "reserve", "renew", "logout"},
           ~write => rs[r].kind \in Asked,
           NEW ever, \A x \in 1..Len(rs) \ {r} : Sound(rs[x], ever),
           Queued(waiting, batch, HeldEntries, rs), waiting # <<>> => drain # "off",
           Transact(rs, r, write)
    PROVE  /\ List(requests') /\ Len(requests') = Len(rs)
           /\ \A x \in 1..Len(rs) : Sound(requests'[x], ever) /\ Kin(rs[x], requests'[x])
           /\ Queued(waiting', batch, HeldEntries, requests')
           /\ waiting' # <<>> => drain' # "off"
           /\ drain' = drain \/ (drain = "off" /\ drain' = "loop")
<1> DEFINE full == broken \/ Pending >= MutationCapacity
           stage == IF write THEN "applying" ELSE "inspecting"
           q2 == IF full THEN Failed(rs[r]) ELSE [rs[r] EXCEPT !.stage = stage]
<1>1. requests' = [rs EXCEPT ![r] = q2]
  BY DEF Transact, List
<1>2. CASE full
  <2>1. Sound(q2, ever) /\ Kin(rs[r], q2) /\ q2.stage \notin Owing
    BY <1>2, FailedSound
  <2> HIDE DEF q2
  <2>2. /\ List(requests') /\ Len(requests') = Len(rs) /\ Len(rs) \in Nat
        /\ \A x \in 1..Len(rs) : Sound(requests'[x], ever) /\ Kin(rs[x], requests'[x])
        /\ requests'[r] = q2 /\ \A x \in 1..Len(rs) \ {r} : requests'[x] = rs[x]
    <3> DEFINE rs2 == [rs EXCEPT ![r] = q2]
    <3>1. /\ List(rs2) /\ Len(rs2) = Len(rs) /\ Len(rs) \in Nat
          /\ \A x \in 1..Len(rs) : Sound(rs2[x], ever) /\ Kin(rs[x], rs2[x])
          /\ rs2[r] = q2 /\ \A x \in 1..Len(rs) \ {r} : rs2[x] = rs[x]
      BY <2>1, OneChanges
    <3>2. requests' = rs2
      BY <1>1
    <3> HIDE DEF rs2
    <3> QED
      BY <3>1, <3>2
  <2>3. Moved(rs, requests', {})
    BY <2>1, <2>2 DEF Moved
  <2>4. Queued(waiting, batch, HeldEntries, requests')
    BY <2>3, QueueMoves
  <2>5. waiting' = waiting /\ drain' = drain
    BY <1>2 DEF Transact
  <2> QED
    BY <2>2, <2>4, <2>5
<1>3. CASE ~full
  <2>1. Sound(q2, ever) /\ Kin(rs[r], q2) /\ q2.stage = stage
    <3>1. stage \in Stages \ {"done"} /\ stage # "resolving" /\ stage # "inspected"
      BY DEF Stages
    <3>2. (stage = "inspecting" => ~write) /\ (stage = "applying" => write)
      OBVIOUS
    <3> HIDE DEF stage
    <3> QED
      BY <1>3, <3>1, <3>2, StageSound
  <2>2. stage = Due([request |-> r, write |-> write])
    BY DEF Due
  <2> HIDE DEF q2, stage
  <2>3. /\ List(requests') /\ Len(requests') = Len(rs) /\ Len(rs) \in Nat
        /\ \A x \in 1..Len(rs) : Sound(requests'[x], ever) /\ Kin(rs[x], requests'[x])
        /\ requests'[r] = q2 /\ \A x \in 1..Len(rs) \ {r} : requests'[x] = rs[x]
    <3> DEFINE rs2 == [rs EXCEPT ![r] = q2]
    <3>1. /\ List(rs2) /\ Len(rs2) = Len(rs) /\ Len(rs) \in Nat
          /\ \A x \in 1..Len(rs) : Sound(rs2[x], ever) /\ Kin(rs[x], rs2[x])
          /\ rs2[r] = q2 /\ \A x \in 1..Len(rs) \ {r} : rs2[x] = rs[x]
      BY <2>1, OneChanges
    <3>2. requests' = rs2
      BY <1>1
    <3> HIDE DEF rs2
    <3> QED
      BY <3>1, <3>2
  <2>4. /\ waiting' = Append(waiting, [request |-> r, write |-> write])
        /\ drain' = IF drain = "off" THEN "loop" ELSE drain
    BY <1>3 DEF Transact
  <2>5. Queued(waiting', batch, HeldEntries, requests')
    BY <2>1, <2>2, <2>3, <2>4, QueueAppends
  <2> QED
    BY <2>3, <2>4, <2>5
<1> QED
  BY <1>2, <1>3

\* A request that was sent comes in.
LEMMA ArrivesServes ==
    ASSUME IInv, NEW q, NEW gone, Formed(q), q.stage = "new",
           q.kind \in Asked \union {"challenge", "authorize"}, CanPost, Arrives(q, gone)
    PROVE  /\ Served /\ Len(requests') = Len(requests) + 1
           /\ Kin(q, requests'[Len(requests) + 1])
           /\ challenges' \subseteq challenges \union {Len(requests) + 1}
<1> DEFINE hs == Hangup(requests, gone)
           rs == Append(hs, q)
           n == Len(requests) + 1
           E == disk.ever
<1>1. /\ List(requests) /\ Len(requests) \in Nat /\ Len(requests) < MaxPosts /\ MaxPosts \in Nat
      /\ \A r \in 1..Len(requests) : Sound(requests[r], E)
      /\ Queued(waiting, batch, HeldEntries, requests) /\ (waiting # <<>> => drain # "off")
  BY BudgetAssumption DEF IInv, RequestsOK, PhaseOK, CanPost, Request, List
<1>2. /\ List(hs) /\ Len(hs) = Len(requests)
      /\ \A r \in 1..Len(requests) :
            Sound(hs[r], E) /\ Kin(requests[r], hs[r]) /\ hs[r].stage = requests[r].stage
  BY <1>1, HangupKeeps
<1> HIDE DEF hs
<1>3. /\ List(rs) /\ Len(rs) = n /\ rs[n] = q
      /\ \A r \in 1..Len(requests) : rs[r] = hs[r]
  BY <1>2, ListGrows
<1> HIDE DEF rs
<1>4. Moved(requests, rs, {})
  BY <1>1, <1>2, <1>3 DEF Moved, Owing
<1>5. Queued(waiting, batch, HeldEntries, rs)
  BY <1>1, <1>4, QueueMoves
<1>6. \A x \in 1..Len(rs) \ {n} : Sound(rs[x], E) /\ Kin(requests[x], rs[x])
  BY <1>1, <1>2, <1>3
<1>7. n \in 1..Len(rs) /\ Formed(rs[n]) /\ rs[n].stage \notin Owing /\ n <= MaxPosts
  BY <1>1, <1>3 DEF Owing
<1>8. Request = 1..Len(rs) \ {n}
  BY <1>1, <1>3 DEF Request
<1>9. ASSUME NEW q2, requests' = [rs EXCEPT ![n] = q2], Sound(q2, E), Kin(q, q2),
             q2.stage \notin Owing, waiting' = waiting, drain' = drain
      PROVE  Served /\ Len(requests') = n /\ Kin(q, requests'[n])
  <2>5. Kin(rs[n], q2) /\ \A x \in 1..Len(rs) \ {n} : Sound(rs[x], E)
    BY <1>3, <1>6, <1>9
  <2>1. /\ List(requests') /\ Len(requests') = n /\ n \in Nat
        /\ \A x \in 1..n : Sound(requests'[x], E) /\ Kin(rs[x], requests'[x])
        /\ requests'[n] = q2 /\ \A x \in 1..n \ {n} : requests'[x] = rs[x]
    <3> HIDE DEF n, E
    <3> DEFINE rs2 == [rs EXCEPT ![n] = q2]
    <3>1. /\ List(rs2) /\ Len(rs2) = Len(rs) /\ Len(rs) \in Nat
          /\ \A x \in 1..Len(rs) : Sound(rs2[x], E) /\ Kin(rs[x], rs2[x])
          /\ rs2[n] = q2 /\ \A x \in 1..Len(rs) \ {n} : rs2[x] = rs[x]
      <4>1. Sound(q2, E) /\ Kin(rs[n], q2) /\ List(rs) /\ n \in 1..Len(rs)
        BY <1>3, <1>7, <1>9, <2>5
      <4>2. \A x \in 1..Len(rs) \ {n} : Sound(rs[x], E)
        BY <2>5
      <4> QED
        BY <4>1, <4>2, OneChanges
    <3>2. requests' = rs2
      BY <1>9
    <3> HIDE DEF rs2
    <3> QED
      BY <1>3, <3>1, <3>2
  <2>2. Moved(rs, requests', {})
    <3> HIDE DEF n
    <3> QED
      BY <1>3, <1>7, <1>9, <2>1 DEF Moved
  <2>3. Queued(waiting', batch, HeldEntries, requests')
    BY <1>5, <1>9, <2>2, QueueMoves
  <2>4. \A x \in Request : Kin(requests[x], requests'[x])
    BY <1>3, <1>6, <1>8, <2>1
  <2> QED
    BY <1>1, <1>7, <1>9, <2>1, <2>3, <2>4 DEF Served
<1>10. CASE server # "up"
  <2>1. /\ requests' = [rs EXCEPT ![n] = Failed(q)]
        /\ waiting' = waiting /\ drain' = drain /\ challenges' = challenges
    BY <1>3, <1>10 DEF Arrives, rs, hs
  <2> QED
    BY <1>9, <2>1, FailedSound
<1>11. CASE server = "up" /\ q.kind = "challenge"
  <2> DEFINE out == Granted(TRUE, n, NoSnapshot)
             q2 == [q EXCEPT !.stage = "done", !.out = out]
             q1 == [q EXCEPT !.stage = "done"]
  <2>1. /\ requests' = [rs EXCEPT ![n] = q2]
        /\ waiting' = waiting /\ drain' = drain /\ challenges' = challenges \union {n}
    BY <1>3, <1>11 DEF Arrives, rs, hs
  <2>2. IsRequest(q1) /\ q1.kind = q.kind /\ SameAsk(q, q1) /\ q1.page = q.page /\ q1.stage = "done"
    BY SetStage DEF Formed
  <2>3. q2 = [q1 EXCEPT !.out = out]
    OBVIOUS
  <2> HIDE DEF q1, q2, out
  <2>4. IsRequest(q2) /\ q2.kind = q.kind /\ SameAsk(q, q2) /\ q2.page = q.page /\ q2.stage = "done"
    BY <2>2, <2>3, SetOut
  <2>5. Sound(q2, E) /\ Kin(q, q2) /\ q2.stage \notin Owing
    BY <1>11, <2>4 DEF Sound, Fitting, Formed, Stages, Grants, Kin, Owing
  <2> QED
    BY <1>9, <2>1, <2>5
<1>12. CASE server = "up" /\ q.kind = "authorize"
  <2>1. /\ requests' = [rs EXCEPT ![n] = IF q.challenge \in challenges
                                         THEN [q EXCEPT !.stage = "resolving"] ELSE Failed(q)]
        /\ waiting' = waiting /\ drain' = drain /\ challenges' = challenges
    BY <1>3, <1>12 DEF Arrives, rs, hs
  <2>2. LET q2 == [q EXCEPT !.stage = "resolving"]
        IN  Sound(q2, E) /\ Kin(q, q2) /\ q2.stage = "resolving"
    BY <1>12, StageSound DEF Stages
  <2>3. CASE q.challenge \in challenges
    BY <1>9, <2>1, <2>2, <2>3 DEF Owing
  <2>4. CASE q.challenge \notin challenges
    BY <1>9, <2>1, <2>4, FailedSound
  <2> QED
    BY <2>3, <2>4
<1>13. CASE server = "up" /\ q.kind \in Asked
  <2>1. Transact(rs, n, FALSE) /\ challenges' = challenges
    BY <1>3, <1>13 DEF Arrives, rs, hs, Asked
  <2>2. /\ List(requests') /\ Len(requests') = Len(rs)
        /\ \A x \in 1..Len(rs) : Sound(requests'[x], E) /\ Kin(rs[x], requests'[x])
        /\ Queued(waiting', batch, HeldEntries, requests')
        /\ waiting' # <<>> => drain' # "off"
        /\ drain' = drain \/ (drain = "off" /\ drain' = "loop")
    BY <1>1, <1>3, <1>5, <1>6, <1>7, <1>13, <2>1, TransactServes
  <2>3. \A x \in Request : Kin(requests[x], requests'[x])
    BY <1>6, <1>8, <2>2 DEF Kin
  <2> QED
    BY <1>1, <1>3, <1>7, <1>13, <2>1, <2>2, <2>3 DEF Served, Running
<1> QED
  BY <1>10, <1>11, <1>12, <1>13

\* Then the invariant holds as before.
LEMMA ServedKeeps ==
    ASSUME IInv, Served, UNCHANGED <<disk, state, working, broken, batch, held, writes>>,
           Running' => Running, Running' \/ drain' = "off",
           ChallengesOK', admitted' \subseteq disk.ever
    PROVE  IInv'
<1>1. RequestsOK'
  BY DEF Served, RequestsOK, Request
<1>2. HeldEntries' = HeldEntries
  BY DEF HeldEntries
<1>3. PhaseOK'
  <2>0. PhaseOK
    BY DEF IInv
  <2>1. PhaseOK /\ (drain' = drain \/ (drain = "off" /\ drain' = "loop"))
    BY <2>0 DEF Served
  <2>2. batch = <<>> \/ drain' = drain
    BY <2>1 DEF PhaseOK
  <2>3. Queued(waiting', batch', HeldEntries', requests')
    BY <1>2 DEF Served
  <2>4. waiting' # <<>> => drain' # "off"
    BY DEF Served
  <2>5. held' = <<>> \/ drain' = drain
    BY <2>1 DEF PhaseOK
  <2>6. drain' = "write" => drain = "write"
    BY <2>1
  <2>7. (batch # <<>> <=> drain = "batch") /\ (drain' = "batch" => drain = "batch")
    BY <2>1 DEF PhaseOK
  <2>8. batch' # <<>> <=> drain' = "batch"
    BY <2>2, <2>7
  <2>9. held' # <<>> => drain' \in {"batch", "write"} /\ writes'
    BY <2>1, <2>5 DEF PhaseOK
  <2> QED
    BY <2>1, <2>3, <2>4, <2>6, <2>8, <2>9 DEF PhaseOK
<1>4. ASSUME NEW k \in DOMAIN held,
             held[k].entry.write /\ Grants(requests'[held[k].entry.request], held[k].out)
      PROVE  requests'[held[k].entry.request].op \in working.ever
  <2> DEFINE r == held[k].entry.request
  <2>1. r \in Request
    <3>1. HeldEntries[k] = held[k].entry /\ k \in DOMAIN HeldEntries
      BY DEF HeldEntries
    <3>2. Queued(waiting, batch, HeldEntries, requests)
      BY DEF IInv, PhaseOK
    <3> QED
      BY <3>1, <3>2, QueuedStage DEF Request
  <2>2. Kin(requests[r], requests'[r])
    BY <2>1 DEF Served
  <2>3. requests'[r].kind = "reserve" /\ requests'[r].kind # None
    BY <1>4 DEF Grants, None
  <2>4. requests'[r].op = requests[r].op /\ Grants(requests[r], held[k].out)
    BY <1>4, <2>2, <2>3 DEF Kin, Grants
  <2> QED
    BY <1>4, <2>4 DEF IInv, DurableOK
<1>5. DurableOK'
  <2>1. drain' \in {"batch", "write"} => drain \in {"batch", "write"}
    BY DEF Served
  <2>2. Charged(disk') /\ Charged(state') /\ Charged(working')
    BY DEF IInv, DurableOK
  <2>3. Running' /\ ~broken' => disk' = state'
    BY DEF IInv, DurableOK
  <2>4. state'.ever \subseteq disk'.ever /\ admitted' \subseteq disk'.ever
    BY DEF IInv, DurableOK
  <2>5. drain' \in {"batch", "write"} => state'.ever \subseteq working'.ever
    BY <2>1 DEF IInv, DurableOK
  <2>6. \A k \in DOMAIN held' :
           LET q == requests'[held'[k].entry.request]
           IN  held'[k].entry.write /\ Grants(q, held'[k].out) => q.op \in working'.ever
    BY <1>4
  <2> QED
    BY <2>2, <2>3, <2>4, <2>5, <2>6 DEF DurableOK
<1> QED
  BY <1>1, <1>3, <1>5 DEF IInv

\* The same while the server stays as it is.
LEMMA ServedAside ==
    ASSUME IInv, Served, UNCHANGED <<disk, server, state, working, broken, batch, held, writes>>,
           ChallengesOK', admitted' \subseteq disk.ever
    PROVE  IInv'
<1>1. Running' = Running
  BY DEF Running
<1>2. Running \/ drain = "off"
  BY DEF IInv, PhaseOK
<1>3. Running \/ drain' = drain
  BY DEF Served
<1> QED
  BY <1>1, <1>2, <1>3, ServedKeeps

\* Challenges are answered, used up and forgotten.
LEMMA ChallengesKept ==
    ASSUME ChallengesOK, used' = used, Len(requests) \in Nat, Len(requests') \in Nat,
           Len(requests) <= Len(requests'),
           \/ challenges' \subseteq challenges
           \/ /\ Len(requests') = Len(requests) + 1
              /\ challenges' \subseteq challenges \union {Len(requests) + 1}
    PROVE  ChallengesOK'
<1>0. challenges \subseteq 1..Len(requests)
  BY DEF ChallengesOK, Request
<1>1. ASSUME NEW c \in challenges' PROVE c \in 1..Len(requests')
  <2>1. c \in 1..Len(requests) \/ (c = Len(requests) + 1 /\ Len(requests') = Len(requests) + 1)
    BY <1>0
  <2> QED
    BY <2>1
<1>2. \A i \in DOMAIN used : used[i] \in 1..Len(requests') /\ used[i] \notin challenges'
  BY DEF ChallengesOK, Request
<1> QED
  BY <1>1, <1>2 DEF ChallengesOK, ChallengeOnce, Request

\* A challenge that is used up is found no more.
LEMMA ChallengeUsed ==
    ASSUME ChallengesOK, NEW c \in challenges, used' = Append(used, c),
           challenges' = challenges \ {c}, Len(requests') = Len(requests)
    PROVE  ChallengesOK'
<1>1. /\ List(used') /\ Len(used') = Len(used) + 1 /\ Len(used) \in Nat
      /\ \A i \in 1..Len(used) : used'[i] = used[i]
      /\ used'[Len(used) + 1] = c
  BY ListGrows DEF ChallengesOK, List
<1>2. DOMAIN used = 1..Len(used) /\ DOMAIN used' = 1..(Len(used) + 1)
  BY <1>1 DEF ChallengesOK, List
<1>3. \A i \in DOMAIN used : used[i] \in Request \ challenges
  BY DEF ChallengesOK
<1>4. challenges \subseteq Request
  BY DEF ChallengesOK
<1>5. \A i \in DOMAIN used' : used'[i] \in Request' \ challenges'
  BY <1>1, <1>2, <1>3, <1>4 DEF Request
<1>6. ASSUME NEW i \in DOMAIN used', NEW j \in DOMAIN used', used'[i] = used'[j] PROVE i = j
  <2>1. CASE i \in DOMAIN used /\ j \in DOMAIN used
    BY <1>1, <1>2, <1>6, <2>1 DEF ChallengesOK, ChallengeOnce
  <2>2. CASE ~(i \in DOMAIN used /\ j \in DOMAIN used)
    BY <1>1, <1>2, <1>3, <1>6, <2>2
  <2> QED
    BY <2>1, <2>2
<1> QED
  BY <1>1, <1>4, <1>5, <1>6 DEF ChallengesOK, ChallengeOnce, Request

\* What the requests are before a step.
LEMMA RequestsNow ==
    ASSUME IInv
    PROVE  /\ List(requests) /\ Len(requests) \in Nat /\ Request = 1..Len(requests)
           /\ \A r \in 1..Len(requests) : Sound(requests[r], disk.ever) /\ Formed(requests[r])
           /\ Queued(waiting, batch, HeldEntries, requests) /\ (waiting # <<>> => drain # "off")
           /\ ChallengesOK
BY SoundFormed DEF IInv, RequestsOK, PhaseOK, Request, List

\* Requests that stay where they are, or whose pages hang up.
LEMMA IdleServes ==
    ASSUME IInv, UNCHANGED <<requests, waiting, drain>>
    PROVE  Served /\ Len(requests') = Len(requests)
BY RequestsNow DEF Served, IInv, RequestsOK, Kin

\* Hanging up leaves every operation where it is.
LEMMA HangupServes ==
    ASSUME IInv, NEW gone, requests' = Hangup(requests, gone), UNCHANGED <<waiting, drain>>
    PROVE  Served /\ Len(requests') = Len(requests)
<1>1. /\ List(requests) /\ Len(requests) \in Nat /\ Request = 1..Len(requests)
      /\ \A r \in 1..Len(requests) : Sound(requests[r], disk.ever)
      /\ Queued(waiting, batch, HeldEntries, requests) /\ (waiting # <<>> => drain # "off")
      /\ Len(requests) <= MaxPosts
  BY RequestsNow DEF IInv, RequestsOK
<1>2. /\ List(requests') /\ Len(requests') = Len(requests)
      /\ \A r \in 1..Len(requests) :
            /\ Sound(requests'[r], disk.ever) /\ Kin(requests[r], requests'[r])
            /\ requests'[r].stage = requests[r].stage
  BY <1>1, HangupKeeps
<1>3. Queued(waiting, batch, HeldEntries, requests')
  <2>1. Moved(requests, requests', {})
    BY <1>1, <1>2 DEF Moved
  <2> QED
    BY <1>1, <2>1, QueueMoves
<1> QED
  BY <1>1, <1>2, <1>3 DEF Served

\* A step of a page.
LEMMA PageKeeps ==
    ASSUME IInv, Served, ledgerAside, admitted' \subseteq disk.ever,
           \/ challenges' = challenges
           \/ /\ Len(requests') = Len(requests) + 1
              /\ challenges' \subseteq challenges \union {Len(requests) + 1}
    PROVE  IInv'
<1>1. ChallengesOK'
  BY RequestsNow, ChallengesKept DEF Served, ledgerAside, List
<1> QED
  BY <1>1, ServedAside DEF ledgerAside

-----------------------------------------------------------------------------
(* The pages.                                                               *)

\* What a page sends.
LEMMA PostFormed ==
    ASSUME NEW p, NEW kind \in Asked \union {"challenge", "authorize"}, NEW act, NEW challenge,
           NEW token, NEW op, kind = "reserve" => op \in 1..MaxPosts
    PROVE  LET q == Post(p, kind, act, challenge, token, op)
           IN  Formed(q) /\ q.stage = "new" /\ q.kind = kind
BY DEF Formed, Post, IsRequest

\* A page that sends a request keeps the invariant.
LEMMA SendKeeps ==
    ASSUME IInv, NEW p, NEW kind \in Asked \union {"challenge", "authorize"}, NEW act,
           NEW challenge, NEW token, NEW op, kind = "reserve" => op = NextOp, NEW pg, NEW gone,
           Sends(p, pg, gone, Post(p, kind, act, challenge, token, op)),
           ledgerAside, admitted' = admitted
    PROVE  IInv'
<1> DEFINE q == Post(p, kind, act, challenge, token, op)
<1>1. CanPost /\ Arrives(q, gone)
  BY DEF Sends
<1>2. NextOp \in 1..MaxPosts
  BY <1>1, RequestsNow, BudgetAssumption DEF NextOp, CanPost
<1>3. Formed(q) /\ q.stage = "new" /\ q.kind = kind
  BY <1>2, PostFormed
<1> HIDE DEF q
<1>4. /\ Served /\ Len(requests') = Len(requests) + 1
      /\ challenges' \subseteq challenges \union {Len(requests) + 1}
  BY <1>1, <1>3, ArrivesServes
<1>5. admitted' \subseteq disk.ever
  BY DEF IInv, DurableOK
<1> QED
  BY <1>4, <1>5, PageKeeps

\* So does whatever a page does by itself.
LEMMA PageStepKeeps ==
    ASSUME IInv, NEW p \in Pages, PageStep(p) PROVE IInv'
<1>1. ASSUME NEW act \in OwnerActs[p], OwnerAction(p, act) PROVE IInv'
  BY <1>1, SendKeeps DEF OwnerAction
<1>2. CASE ReserveBytes(p)
  BY <1>2, SendKeeps DEF ReserveBytes, Asked
<1>3. CASE Maintain(p)
  <2>1. PICK kind \in {"status", "renew"} :
           Sends(p, page[p], {}, Post(p, kind, NoAct, 0, page[p].cred, NextOp))
    BY <1>3 DEF Maintain
  <2>2. ledgerAside /\ admitted' = admitted
    BY <1>3 DEF Maintain
  <2> QED
    BY <2>1, <2>2, SendKeeps DEF Asked
<1>4. CASE Disconnect(p)
  BY <1>4, SendKeeps DEF Disconnect, Asked
<1>5. CASE Suspend(p)
  <2>1. Served /\ ledgerAside /\ challenges' = challenges
    BY <1>5, IdleServes DEF Suspend, serverUnchanged
  <2>2. admitted' \subseteq disk.ever
    BY <1>5 DEF Suspend, IInv, DurableOK
  <2> QED
    BY <2>1, <2>2, PageKeeps
<1> QED
  BY <1>1, <1>2, <1>3, <1>4, <1>5 DEF PageStep

\* A page hangs up on some of its requests, and uploads only what is charged.
LEMMA HangupStepKeeps ==
    ASSUME IInv, NEW gone, requests' = Hangup(requests, gone),
           UNCHANGED <<waiting, drain, challenges>>, ledgerAside, admitted' \subseteq disk.ever
    PROVE  IInv'
BY HangupServes, PageKeeps

\* What a page does with an answer: it hangs up on some, or asks again.
LEMMA ReceiveMoves ==
    ASSUME IInv, NEW r, Receive(r)
    PROVE  /\ ledgerAside
           /\ \/ /\ \E gone : requests' = Hangup(requests, gone)
                 /\ UNCHANGED <<waiting, drain, challenges>>
              \/ /\ \E p, pg, gone :
                       Sends(p, pg, gone, Post(p, "authorize", requests[r].act, r, 0, 0))
                 /\ requests[r].kind = "challenge" /\ admitted' = admitted
           /\ admitted' \subseteq disk.ever
<1> DEFINE q == requests[r]
           p == q.page
           pg == page[p]
           HangsUp == /\ \E gone : requests' = Hangup(requests, gone)
                      /\ UNCHANGED <<waiting, drain, challenges>>
           Asks2 == /\ \E p1, pg1, gone :
                          Sends(p1, pg1, gone, Post(p1, "authorize", requests[r].act, r, 0, 0))
                    /\ requests[r].kind = "challenge" /\ admitted' = admitted
<1>0. admitted \subseteq disk.ever
  BY DEF IInv, DurableOK
<1>1. Sound(q, disk.ever) /\ q.stage = "done"
  BY RequestsNow DEF Receive, Awaited
<1>2. \A pg1, x : Keeps(p, pg1, x) => HangsUp
  BY DEF Keeps
<1>3. \A pg1, x, known : Drops(p, pg1, x, known) => HangsUp
  BY DEF Drops
<1>4. ledgerAside
  BY DEF Receive
<1>5. CASE q.kind = "reserve"
  <2>1. OnReserve(p, r, q, pg)
    BY <1>5 DEF Receive
  <2>2. HangsUp
    BY <1>2, <1>3, <2>1 DEF OnReserve
  <2>3. admitted' \subseteq disk.ever
    <3>1. admitted' = admitted \/ (Grants(q, q.out) /\ admitted' = admitted \union {q.op})
      BY <1>5, <2>1 DEF OnReserve, Grants, Fits
    <3> QED
      BY <1>0, <1>1, <3>1 DEF Sound
  <2> QED
    BY <1>4, <2>2, <2>3
<1>6. CASE q.kind \in {"status", "renew"}
  <2>1. OnMaintain(p, r, q, pg)
    BY <1>6 DEF Receive
  <2> QED
    BY <1>0, <1>2, <1>3, <1>4, <2>1 DEF OnMaintain
<1>7. CASE q.kind \in {"challenge", "authorize"}
  <2>1. OnOwner(p, r, q, pg)
    BY <1>7 DEF Receive
  <2>2. admitted' = admitted
    BY <2>1 DEF OnOwner
  <2>3. HangsUp \/ Asks2
    <3>1. CASE ~q.out.ok
      BY <1>3, <2>1, <3>1 DEF OnOwner
    <3>2. CASE q.out.ok /\ q.kind = "challenge"
      <4>1. Sends(p, pg, {r}, Post(p, "authorize", q.act, r, 0, 0))
        BY <2>1, <3>2 DEF OnOwner
      <4> QED
        BY <2>2, <3>2, <4>1
    <3>3. CASE q.out.ok /\ q.kind # "challenge"
      <4> DEFINE pg1 == [pg EXCEPT !.known = q.out.snap, !.cred = q.out.token,
                                   !.epoch = q.out.snap.revision, !.busy = FALSE]
      <4>1. Keeps(p, pg1, r)
        BY <2>1, <3>3 DEF OnOwner
      <4> HIDE DEF pg1
      <4> QED
        BY <1>2, <4>1
    <3> QED
      BY <3>1, <3>2, <3>3
  <2> QED
    BY <1>0, <1>4, <2>2, <2>3
<1>8. CASE q.kind = "logout"
  <2>1. OnLogout(p, r, pg)
    BY <1>8 DEF Receive
  <2> QED
    BY <1>0, <1>2, <1>4, <2>1 DEF OnLogout
<1>9. q.kind \in Asked \union {"challenge", "authorize"}
  BY <1>1 DEF Receive, Awaited, Sound, Fitting
<1> QED
  BY <1>5, <1>6, <1>7, <1>8, <1>9 DEF Asked

\* An answer is received.
LEMMA ReceiveKeeps ==
    ASSUME IInv, NEW r, Receive(r) PROVE IInv'
<1>1. ledgerAside /\ admitted' \subseteq disk.ever
  BY ReceiveMoves
<1>2. CASE (\E gone : requests' = Hangup(requests, gone)) /\ UNCHANGED <<waiting, drain, challenges>>
  BY <1>1, <1>2, HangupStepKeeps
<1>3. CASE /\ \E p, pg, gone :
                 Sends(p, pg, gone, Post(p, "authorize", requests[r].act, r, 0, 0))
           /\ requests[r].kind = "challenge" /\ admitted' = admitted
  BY <1>1, <1>3, SendKeeps
<1> QED
  BY <1>2, <1>3, ReceiveMoves

\* A connection breaks, or somebody has waited too long.
LEMMA GiveUpKeeps ==
    ASSUME IInv, NEW r, GiveUp(r) PROVE IInv'
<1>1. \E gone : requests' = Hangup(requests, gone)
  BY DEF GiveUp
<1>2. ledgerAside /\ UNCHANGED <<waiting, drain, challenges>> /\ admitted' = admitted
  BY DEF GiveUp, serverUnchanged
<1> QED
  BY <1>1, <1>2, HangupStepKeeps DEF IInv, DurableOK

\* What is sent again is as good as new.
LEMMA ResendKeeps ==
    ASSUME IInv, NEW r, Resend(r) PROVE IInv'
<1> DEFINE q0 == requests[r]
           q1 == [q0 EXCEPT !.stage = "new"]
           q2 == [q1 EXCEPT !.open = TRUE]
           q == [q2 EXCEPT !.out = Refused]
<1>1. Formed(q0) /\ q0.page # 0
  BY RequestsNow DEF Resend, Awaited
<1>2. CanPost /\ Arrives(q, {r}) /\ ledgerAside /\ admitted' = admitted
  BY DEF Resend, pageVars
<1> HIDE DEF q0
<1>3. /\ IsRequest(q1) /\ q1.kind = q0.kind /\ q1.op = q0.op /\ q1.page = q0.page
      /\ q1.stage = "new"
  BY <1>1, SetStage DEF Formed
<1> HIDE DEF q1
<1>4. /\ IsRequest(q2) /\ q2.kind = q0.kind /\ q2.op = q0.op /\ q2.page = q0.page
      /\ q2.stage = "new"
  BY <1>3, SetOpen
<1> HIDE DEF q2
<1>5. /\ IsRequest(q) /\ q.kind = q0.kind /\ q.op = q0.op /\ q.page = q0.page
      /\ q.stage = "new"
  BY <1>4, SetOut
<1> HIDE DEF q
<1>6. Formed(q) /\ q.kind \in Asked \union {"challenge", "authorize"}
  BY <1>1, <1>5 DEF Formed
<1>7. /\ Served /\ Len(requests') = Len(requests) + 1
      /\ challenges' \subseteq challenges \union {Len(requests) + 1}
  BY <1>2, <1>5, <1>6, ArrivesServes
<1> QED
  BY <1>2, <1>7, PageKeeps DEF IInv, DurableOK

-----------------------------------------------------------------------------
(* The handlers.                                                            *)

\* A handler is through with a request, or asks the ledger.
LEMMA OneEnds ==
    ASSUME NEW rs, List(rs), NEW r \in 1..Len(rs), rs[r].stage \notin Owing, NEW q2, NEW ever,
           Sound(q2, ever), Kin(rs[r], q2), q2.stage \notin Owing,
           \A x \in 1..Len(rs) : Sound(rs[x], ever),
           NEW w, NEW b, NEW h, Queued(w, b, h, rs)
    PROVE  LET rs2 == [rs EXCEPT ![r] = q2]
           IN  /\ List(rs2) /\ Len(rs2) = Len(rs)
               /\ \A x \in 1..Len(rs) : Sound(rs2[x], ever) /\ Kin(rs[x], rs2[x])
               /\ Queued(w, b, h, rs2)
<1> DEFINE rs2 == [rs EXCEPT ![r] = q2]
<1>1. /\ List(rs2) /\ Len(rs2) = Len(rs) /\ Len(rs) \in Nat
      /\ \A x \in 1..Len(rs) : Sound(rs2[x], ever) /\ Kin(rs[x], rs2[x])
      /\ rs2[r] = q2 /\ \A x \in 1..Len(rs) \ {r} : rs2[x] = rs[x]
  BY OneChanges
<1> HIDE DEF rs2
<1>2. Moved(rs, rs2, {})
  BY <1>1 DEF Moved
<1>3. Queued(w, b, h, rs2)
  BY <1>2, QueueMoves
<1> QED
  BY <1>1, <1>3 DEF rs2

\* A handler that is through leaves the queue as it is.
LEMMA EndsHere ==
    ASSUME IInv, NEW r \in Request, requests[r].stage \notin Owing, NEW q2,
           requests' = [requests EXCEPT ![r] = q2], Sound(q2, disk.ever), Kin(requests[r], q2),
           q2.stage \notin Owing, UNCHANGED <<waiting, drain>>
    PROVE  Served /\ Len(requests') = Len(requests)
<1>1. /\ List(requests) /\ Len(requests) \in Nat /\ Request = 1..Len(requests)
      /\ \A x \in 1..Len(requests) : Sound(requests[x], disk.ever)
      /\ Queued(waiting, batch, HeldEntries, requests) /\ (waiting # <<>> => drain # "off")
      /\ Len(requests) <= MaxPosts
  BY RequestsNow DEF IInv, RequestsOK
<1>2. /\ List(requests') /\ Len(requests') = Len(requests)
      /\ \A x \in 1..Len(requests) : Sound(requests'[x], disk.ever) /\ Kin(requests[x], requests'[x])
      /\ Queued(waiting, batch, HeldEntries, requests')
  BY <1>1, OneEnds
<1> QED
  BY <1>1, <1>2 DEF Served

\* A handler that asks the ledger has its operation queued.
LEMMA AsksHere ==
    ASSUME IInv, Running, NEW r \in Request, requests[r].stage \notin Owing,
           requests[r].kind \in {"authorize", "reserve", "renew", "logout"},
           Transact(requests, r, TRUE)
    PROVE  Served /\ Len(requests') = Len(requests)
<1>1. /\ List(requests) /\ Len(requests) \in Nat /\ Request = 1..Len(requests)
      /\ \A x \in 1..Len(requests) : Sound(requests[x], disk.ever) /\ Formed(requests[x])
      /\ Queued(waiting, batch, HeldEntries, requests) /\ (waiting # <<>> => drain # "off")
      /\ Len(requests) <= MaxPosts
  BY RequestsNow DEF IInv, RequestsOK
<1>2. /\ List(requests') /\ Len(requests') = Len(requests)
      /\ \A x \in 1..Len(requests) : Sound(requests'[x], disk.ever) /\ Kin(requests[x], requests'[x])
      /\ Queued(waiting', batch, HeldEntries, requests')
      /\ waiting' # <<>> => drain' # "off"
      /\ drain' = drain \/ (drain = "off" /\ drain' = "loop")
  BY <1>1, TransactServes
<1> QED
  BY <1>1, <1>2 DEF Served

\* A challenge is looked for again and used up, or its request refused.
LEMMA ResolvedKeeps ==
    ASSUME IInv, NEW r, Resolved(r) PROVE IInv'
<1> DEFINE q == requests[r]
           good == q.challenge \in challenges /\ q.open /\ server = "up"
<1>1. r \in Request /\ q.stage = "resolving" /\ q.stage \notin Owing /\ Running
  BY DEF Resolved, Owing
<1>2. Sound(q, disk.ever) /\ Formed(q) /\ q.kind = "authorize"
  BY <1>1, RequestsNow DEF Sound, Fitting
<1>3. /\ UNCHANGED <<disk, state, working, broken, batch, held, writes>>
      /\ server' = server /\ admitted' = admitted
  BY DEF Resolved, pageVars
<1>4. Served /\ ChallengesOK'
  <2>1. CASE good
    <3>1. /\ challenges' = challenges \ {q.challenge} /\ used' = Append(used, q.challenge)
          /\ Transact(requests, r, TRUE)
      BY <2>1 DEF Resolved
    <3>2. Served /\ Len(requests') = Len(requests)
      BY <1>1, <1>2, <3>1, AsksHere
    <3> QED
      BY <2>1, <3>1, <3>2, RequestsNow, ChallengeUsed
  <2>2. CASE ~good
    <3>1. /\ requests' = [requests EXCEPT ![r] = Failed(q)]
          /\ UNCHANGED <<challenges, used, waiting, drain>>
      BY <1>1, <2>2 DEF Resolved
    <3>2. Sound(Failed(q), disk.ever) /\ Kin(q, Failed(q)) /\ Failed(q).stage \notin Owing
      BY <1>2, FailedSound
    <3>3. Served /\ Len(requests') = Len(requests)
      BY <1>1, <3>1, <3>2, EndsHere
    <3> QED
      BY <3>1, <3>3, RequestsNow, ChallengesKept
  <2> QED
    BY <2>1, <2>2
<1> QED
  BY <1>3, <1>4, ServedAside DEF IInv, DurableOK

\* After its grant was looked at.
LEMMA InspectedKeeps ==
    ASSUME IInv, NEW r, Inspected(r) PROVE IInv'
<1> DEFINE q == requests[r]
<1>1. r \in Request /\ q.stage = "inspected" /\ q.stage \notin Owing /\ Running
  BY DEF Inspected, Owing
<1>2. Sound(q, disk.ever) /\ Formed(q) /\ q.kind \in Asked
  BY <1>1, RequestsNow DEF Sound, Fitting
<1>3. /\ UNCHANGED <<disk, state, working, broken, batch, held, writes, challenges, used>>
      /\ server' = server /\ admitted' = admitted
  BY DEF Inspected, pageVars
<1>4. Served /\ Len(requests') = Len(requests)
  <2>1. CASE ~q.open \/ server # "up"
    <3>1. requests' = [requests EXCEPT ![r] = Failed(q)] /\ UNCHANGED <<waiting, drain>>
      BY <1>1, <2>1 DEF Inspected
    <3>2. Sound(Failed(q), disk.ever) /\ Kin(q, Failed(q)) /\ Failed(q).stage \notin Owing
      BY <1>2, FailedSound
    <3> QED
      BY <1>1, <3>1, <3>2, EndsHere
  <2>2. CASE q.open /\ server = "up" /\ q.kind = "status"
    <3> DEFINE q2 == [q EXCEPT !.stage = "done"]
    <3>1. requests' = [requests EXCEPT ![r] = q2] /\ UNCHANGED <<waiting, drain>>
      BY <1>1, <2>2 DEF Inspected
    <3>2. /\ IsRequest(q2) /\ q2.kind = q.kind /\ SameAsk(q, q2) /\ q2.page = q.page
          /\ q2.stage = "done"
      BY <1>2, SetStage DEF Formed
    <3> HIDE DEF q2
    <3>3. Sound(q2, disk.ever) /\ Kin(q, q2) /\ q2.stage \notin Owing
      BY <1>2, <2>2, <3>2 DEF Sound, Stages, Fitting, Formed, Grants, Kin, Owing
    <3> QED
      BY <1>1, <3>1, <3>3, EndsHere
  <2>3. CASE q.open /\ server = "up" /\ q.kind # "status"
    <3>1. Transact(requests, r, TRUE)
      BY <2>3 DEF Inspected
    <3> QED
      BY <1>1, <1>2, <2>3, <3>1, AsksHere DEF Asked
  <2> QED
    BY <2>1, <2>2, <2>3
<1>5. ChallengesOK'
  BY <1>3, <1>4, RequestsNow, ChallengesKept
<1> QED
  BY <1>3, <1>4, <1>5, ServedAside DEF IInv, DurableOK

-----------------------------------------------------------------------------
(* The loop of the ledger.                                                  *)

\* Requests as they were, and what it takes to keep the rest.
LEMMA LoopKeeps ==
    ASSUME IInv, RequestsOK', PhaseOK', DurableOK', UNCHANGED <<challenges, used>>,
           Len(requests') = Len(requests)
    PROVE  IInv'
<1>1. Len(requests) \in Nat
  BY RequestsNow
<1>2. ChallengesOK'
  BY <1>1, RequestsNow, ChallengesKept
<1> QED
  BY <1>2 DEF IInv

\* Nothing is held: the loop takes what waits, or ends.
LEMMA LoopAgainPhase ==
    ASSUME NEW rs, Queued(waiting, <<>>, <<>>, rs), LoopAgain
    PROVE  /\ Queued(waiting', batch', <<>>, rs) /\ waiting' = <<>> /\ writes' = FALSE
           /\ batch' # <<>> <=> drain' = "batch"
           /\ drain' \in {"batch", "ending"}
BY QueueTaken DEF LoopAgain

\* The loop takes its next batch.
LEMMA TakeBatchKeeps ==
    ASSUME IInv, TakeBatch PROVE IInv'
<1>1. /\ drain = "loop" /\ Running /\ LoopAgain /\ working' = state
      /\ UNCHANGED <<disk, server, state, broken, held, challenges, requests, admitted, used>>
  BY DEF TakeBatch, pageVars
<1>2. PhaseOK /\ RequestsOK /\ DurableOK
  BY DEF IInv
<1>3. batch = <<>> /\ held = <<>>
  BY <1>1, <1>2 DEF PhaseOK
<1>4. HeldEntries = <<>> /\ HeldEntries' = <<>>
  BY <1>1, <1>3 DEF HeldEntries
<1>5. /\ Queued(waiting', batch', <<>>, requests) /\ waiting' = <<>> /\ writes' = FALSE
      /\ batch' # <<>> <=> drain' = "batch"
      /\ drain' \in {"batch", "ending"}
  BY <1>1, <1>2, <1>3, <1>4, LoopAgainPhase DEF PhaseOK
<1>6. PhaseOK'
  BY <1>1, <1>2, <1>3, <1>4, <1>5 DEF PhaseOK, Running
<1>7. DurableOK'
  BY <1>1, <1>2, <1>3 DEF DurableOK, Running
<1>8. RequestsOK'
  BY <1>1, <1>2 DEF RequestsOK, Request
<1> QED
  BY <1>1, <1>6, <1>7, <1>8, LoopKeeps

\* The loop ends, or begins again for what arrived meanwhile.
LEMMA DrainEndsKeeps ==
    ASSUME IInv, DrainEnds PROVE IInv'
<1>1. /\ drain = "ending" /\ Running
      /\ drain' = IF waiting = <<>> THEN "off" ELSE "loop"
      /\ UNCHANGED <<disk, server, state, working, broken, waiting, batch, held, writes,
                     challenges, requests, admitted, used>>
  BY DEF DrainEnds, pageVars
<1>2. PhaseOK /\ RequestsOK /\ DurableOK
  BY DEF IInv
<1>3. HeldEntries' = HeldEntries
  BY <1>1 DEF HeldEntries
<1>4. PhaseOK'
  BY <1>1, <1>2, <1>3 DEF PhaseOK, Running
<1>5. DurableOK'
  BY <1>1, <1>2 DEF DurableOK, Running
<1>6. RequestsOK'
  BY <1>1, <1>2 DEF RequestsOK, Request
<1> QED
  BY <1>1, <1>4, <1>5, <1>6, LoopKeeps

\* The operation of an entry is done on the batch's copy.
LEMMA RunCharging ==
    ASSUME IInv, batch # <<>>
    PROVE  LET e == Head(batch)
               q == requests[e.request]
           IN  /\ e \in Entry /\ e.request \in 1..Len(requests)
               /\ Charged(Run(e).data) /\ working.ever \subseteq Run(e).data.ever
               /\ e.write /\ Grants(q, Run(e).out) => q.op \in Run(e).data.ever
               /\ broken => ~Run(e).out.ok
               /\ ~e.write => q.kind \in Asked
<1> DEFINE e == Head(batch)
           q == requests[e.request]
<1>1. batch \in Seq(Entry) /\ Queued(waiting, batch, HeldEntries, requests)
  BY DEF IInv, PhaseOK, Queued
<1>2. e = batch[1] /\ 1 \in DOMAIN batch
  BY <1>1, TailEntries
<1> HIDE DEF e
<1>3. e \in Entry /\ e.request \in 1..Len(requests) /\ q.stage = Due(e)
  BY <1>1, <1>2, QueuedStage
<1>4. Sound(q, disk.ever)
  BY <1>3, RequestsNow
<1>5. /\ e.write \in BOOLEAN
      /\ e.write => q.kind \in {"authorize", "reserve", "renew", "logout"}
      /\ ~e.write => q.kind \in Asked
      /\ q.kind = "reserve" => q.op \in 1..MaxPosts
  BY <1>3, <1>4 DEF Entry, Due, Sound, Fitting
<1>6. Charged(working)
  BY DEF IInv, DurableOK
<1>7. CASE broken \/ ~q.open
  <2>1. Run(e) = Refuse(working)
    BY <1>7 DEF Run
  <2>2. Run(e).data = working /\ ~Run(e).out.ok
    BY <2>1 DEF Refuse, Refused
  <2> QED
    BY <1>3, <1>5, <1>6, <2>2 DEF Grants, e
<1>8. CASE ~(broken \/ ~q.open)
  <2>1. Run(e) = Operate(working, q, e.write)
    BY <1>8 DEF Run
  <2> HIDE DEF q
  <2>2. /\ Charged(Run(e).data) /\ working.ever \subseteq Run(e).data.ever
        /\ e.write => Charging(working, Run(e).data, Run(e).out, q)
    BY <1>5, <1>6, <2>1, OperateCharging
  <2>3. e.write /\ Grants(q, Run(e).out) => q.op \in Run(e).data.ever
    BY <2>2 DEF Charging
  <2> QED
    BY <1>3, <1>5, <1>8, <2>2, <2>3 DEF e, q
<1> QED
  BY <1>7, <1>8

\* An operation runs: its outcome is settled at once or held for the write.
LEMMA RunEntryKeeps ==
    ASSUME IInv, RunEntry PROVE IInv'
<1> DEFINE e == Head(batch)
           q == requests[e.request]
           done == Run(e)
           changed == writes \/ (e.write /\ done.out.ok)
           q2 == Settled(q, e.write, done.out)
           rs2 == [requests EXCEPT ![e.request] = q2]
           E == disk.ever
<1>1. /\ drain = "batch" /\ Running /\ working' = done.data /\ NextEntry(changed)
      /\ IF changed
         THEN held' = Append(held, [entry |-> e, out |-> done.out]) /\ requests' = requests
         ELSE requests' = rs2 /\ held' = held
      /\ UNCHANGED <<disk, server, state, broken, challenges, admitted, used>>
  BY DEF RunEntry, pageVars
<1>2. PhaseOK /\ RequestsOK /\ DurableOK
  BY DEF IInv
<1>3. batch # <<>> /\ writes \in BOOLEAN /\ (broken => ~writes) /\ List(held)
  BY <1>1, <1>2 DEF PhaseOK
<1>4. /\ e \in Entry /\ e.request \in 1..Len(requests)
      /\ Charged(done.data) /\ working.ever \subseteq done.data.ever
      /\ e.write /\ Grants(q, done.out) => q.op \in done.data.ever
      /\ broken => ~done.out.ok
      /\ ~e.write => q.kind \in Asked
  BY <1>3, RunCharging
<1> HIDE DEF e, done
<1>5. /\ List(requests) /\ Len(requests) \in Nat
      /\ \A r \in 1..Len(requests) : Sound(requests[r], E) /\ Formed(requests[r])
      /\ Queued(waiting, batch, HeldEntries, requests) /\ Len(requests) <= MaxPosts
  BY <1>2, RequestsNow DEF RequestsOK
<1>6. changed \in BOOLEAN /\ (broken => ~changed)
  BY <1>3, <1>4
<1>7. /\ List(requests') /\ Len(requests') = Len(requests)
      /\ \A r \in 1..Len(requests) : Sound(requests'[r], E) /\ Kin(requests[r], requests'[r])
      /\ ~changed => Moved(requests, requests', {e.request})
  <2>1. CASE changed
    BY <1>1, <1>5, <2>1 DEF Kin
  <2>2. CASE ~changed
    <3>1. e.write /\ Grants(q, done.out) => q.op \in E
      BY <2>2 DEF Grants
    <3>2. Formed(q) /\ e.write \in BOOLEAN
      BY <1>4, <1>5 DEF Entry
    <3>3. Sound(q2, E) /\ Kin(q, q2) /\ q2.stage \notin Owing
      <4> HIDE DEF q
      <4> QED
        BY <1>4, <3>1, <3>2, SettledSound
    <3> HIDE DEF q2
    <3>4. \A x \in 1..Len(requests) \ {e.request} : Sound(requests[x], E)
      BY <1>5
    <3>5. /\ List(rs2) /\ Len(rs2) = Len(requests)
          /\ \A x \in 1..Len(requests) : Sound(rs2[x], E) /\ Kin(requests[x], rs2[x])
          /\ rs2[e.request] = q2 /\ \A x \in 1..Len(requests) \ {e.request} : rs2[x] = requests[x]
      BY <1>4, <1>5, <3>3, <3>4, OneChanges
    <3>6. requests' = rs2
      BY <1>1, <2>2
    <3> HIDE DEF rs2
    <3>7. Moved(requests, rs2, {e.request})
      BY <1>4, <1>5, <3>3, <3>5 DEF Moved
    <3> QED
      BY <3>5, <3>6, <3>7
  <2> QED
    BY <2>1, <2>2
<1> DEFINE h2 == HeldEntries'
<1>8. Queued(waiting, Tail(batch), h2, requests') /\ List(held') /\ (held' # <<>> => changed)
  <2>1. CASE changed
    <3>1. /\ List(held') /\ Len(held') = Len(held) + 1 /\ Len(held) \in Nat
          /\ \A i \in 1..Len(held) : held'[i] = held[i]
          /\ held'[Len(held) + 1] = [entry |-> e, out |-> done.out]
      BY <1>1, <1>3, <2>1, ListGrows DEF List
    <3>2. DOMAIN held = 1..Len(held) /\ DOMAIN held' = 1..(Len(held) + 1)
      BY <1>3, <3>1 DEF List
    <3>3. HeldEntries = [k \in 1..Len(held) |-> held[k].entry]
      BY <3>2 DEF HeldEntries
    <3>4. h2 = [k \in 1..(Len(held) + 1) |-> held'[k].entry]
      BY <3>2 DEF HeldEntries
    <3>5. HeldEntries \in Seq(Entry) /\ Len(HeldEntries) = Len(held)
      <4>1. HeldEntries \in Seq(Entry)
        BY <1>5 DEF Queued
      <4> QED
        BY <3>1, <3>3, <4>1, LenProperties
    <3>6. h2 = Append(HeldEntries, e)
      <4>1. /\ DOMAIN Append(HeldEntries, e) = 1..(Len(held) + 1)
            /\ Append(HeldEntries, e)[Len(held) + 1] = e
            /\ \A i \in 1..Len(held) : Append(HeldEntries, e)[i] = HeldEntries[i]
            /\ Append(HeldEntries, e) \in Seq(Entry)
        BY <1>4, <3>5, AppendEntries
      <4>2. \A k \in 1..(Len(held) + 1) : held'[k].entry = Append(HeldEntries, e)[k]
        BY <3>1, <3>3, <4>1
      <4>3. Append(HeldEntries, e) = [k \in 1..(Len(held) + 1) |-> Append(HeldEntries, e)[k]]
        <5>1. Append(HeldEntries, e) \in [1..Len(Append(HeldEntries, e)) -> Entry]
          BY <4>1, LenProperties
        <5> QED
          BY <4>1, <5>1
      <4> QED
        BY <3>4, <4>2, <4>3
    <3>7. Queued(waiting, Tail(batch), Append(HeldEntries, e), requests)
      BY <1>3, <1>5, QueueHolds DEF e
    <3> QED
      BY <1>1, <2>1, <3>1, <3>6, <3>7
  <2>2. CASE ~changed
    <3>1. held = <<>>
      BY <1>2, <2>2 DEF PhaseOK
    <3>2. HeldEntries = <<>> /\ h2 = <<>> /\ held' = <<>>
      BY <1>1, <2>2, <3>1 DEF HeldEntries
    <3>3. Queued(waiting, Tail(batch), <<>>, requests')
      BY <1>3, <1>5, <1>7, <2>2, <3>2, QueueDrops DEF e
    <3> QED
      BY <1>3, <1>1, <2>2, <3>1, <3>2, <3>3
  <2> QED
    BY <2>1, <2>2
<1> HIDE DEF changed, h2, e, q2, rs2
<1>9. batch \in Seq(Entry) /\ Len(batch) \in Nat \ {0} /\ Len(Tail(batch)) = Len(batch) - 1
      /\ (Tail(batch) = <<>> <=> Len(batch) = 1)
  <2>1. batch \in Seq(Entry)
    BY <1>5 DEF Queued
  <2> DEFINE t == Tail(batch)
  <2>2. Len(batch) \in Nat \ {0} /\ Len(t) = Len(batch) - 1 /\ t \in Seq(Entry)
    BY <1>3, <2>1, TailEntries
  <2> HIDE DEF t
  <2>3. t = <<>> <=> Len(t) = 0
    BY <2>2, EmptySeq
  <2> QED
    BY <2>2, <2>3 DEF t
<1>14. Running'
  BY <1>1 DEF Running
<1>10. PhaseOK'
  <2>1. CASE Len(batch) > 1
    <3>1. batch' = Tail(batch) /\ writes' = changed /\ drain' = drain /\ waiting' = waiting
      BY <1>1, <2>1 DEF NextEntry
    <3>2. Tail(batch) # <<>>
      BY <1>9, <2>1
    <3> QED
      BY <1>1, <1>2, <1>6, <1>8, <3>1, <3>2 DEF PhaseOK, h2, Running
  <2>2. CASE Len(batch) = 1 /\ changed
    <3>1. batch' = <<>> /\ writes' = TRUE /\ drain' = "write" /\ waiting' = waiting
      BY <1>1, <1>9, <2>2 DEF NextEntry
    <3>2. Tail(batch) = <<>>
      BY <1>9, <2>2
    <3> QED
      BY <1>1, <1>2, <1>6, <1>8, <2>2, <3>1, <3>2 DEF PhaseOK, h2, Running
  <2>3. CASE Len(batch) = 1 /\ ~changed
    <3>1. LoopAgain
      BY <1>1, <1>9, <2>3 DEF NextEntry
    <3>2. Tail(batch) = <<>> /\ held' = <<>> /\ h2 = <<>>
      BY <1>8, <1>9, <2>3 DEF h2, HeldEntries
    <3>3. Queued(waiting, <<>>, <<>>, requests')
      BY <1>8, <3>2
    <3>4. /\ Queued(waiting', batch', <<>>, requests') /\ waiting' = <<>> /\ writes' = FALSE
          /\ batch' # <<>> <=> drain' = "batch"
          /\ drain' \in {"batch", "ending"}
      BY <3>1, <3>3, LoopAgainPhase
    <3> QED
      BY <1>8, <1>14, <3>2, <3>4 DEF PhaseOK, h2
  <2> QED
    BY <1>9, <2>1, <2>2, <2>3
<1>11. RequestsOK'
  BY <1>1, <1>2, <1>5, <1>7 DEF RequestsOK, Request
<1>12. \A k \in DOMAIN held' :
          LET p == requests'[held'[k].entry.request]
          IN  held'[k].entry.write /\ Grants(p, held'[k].out) => p.op \in working'.ever
  <2>1. \A k \in DOMAIN held :
          LET p == requests[held[k].entry.request]
          IN  held[k].entry.write /\ Grants(p, held[k].out) => p.op \in working.ever
    BY <1>2 DEF DurableOK
  <2>2. CASE changed
    <3> DEFINE new == [entry |-> e, out |-> done.out]
    <3>1. held' = Append(held, new) /\ requests' = requests
      BY <1>1, <2>2 DEF changed
    <3> HIDE DEF new
    <3>2. /\ Len(held) \in Nat /\ DOMAIN held = 1..Len(held)
          /\ Len(held') = Len(held) + 1 /\ DOMAIN held' = 1..Len(held')
          /\ \A i \in 1..Len(held) : held'[i] = held[i]
          /\ held'[Len(held) + 1] = new
      BY <1>3, <3>1, ListGrows DEF List
    <3>3. ASSUME NEW k \in DOMAIN held',
                 held'[k].entry.write /\ Grants(requests[held'[k].entry.request], held'[k].out)
          PROVE  requests[held'[k].entry.request].op \in working'.ever
      <4>1. CASE k \in DOMAIN held
        BY <1>1, <1>4, <2>1, <3>2, <3>3, <4>1
      <4>2. CASE k = Len(held) + 1
        BY <1>1, <1>4, <3>2, <3>3, <4>2 DEF new
      <4> QED
        BY <3>2, <4>1, <4>2
    <3> QED
      BY <3>1, <3>3
  <2>3. CASE ~changed
    BY <1>3, <1>8, <2>3 DEF List
  <2> QED
    BY <2>2, <2>3
<1>13. DurableOK'
  <2>1. state.ever \subseteq working'.ever
    BY <1>1, <1>2, <1>4 DEF DurableOK
  <2> QED
    BY <1>1, <1>2, <1>4, <1>12, <2>1 DEF DurableOK, Running
<1> QED
  BY <1>1, <1>7, <1>10, <1>11, <1>13, LoopKeeps

\* The outcomes held go to their handlers, which see what was written.
LEMMA ReleaseSettles ==
    ASSUME IInv, NEW written \in BOOLEAN, Release(written), NEW ever, disk.ever \subseteq ever,
           written => working.ever \subseteq ever
    PROVE  /\ List(requests') /\ Len(requests') = Len(requests)
           /\ \A r \in 1..Len(requests) : Sound(requests'[r], ever)
           /\ Moved(requests, requests', Asks(HeldEntries))
<1> DEFINE Of(r) == CHOOSE h \in {held[k] : k \in DOMAIN held} : h.entry.request = r
           Out(h) == IF written THEN h.out ELSE Refused
           New(r) == IF \E k \in DOMAIN held : held[k].entry.request = r
                     THEN Settled(requests[r], Of(r).entry.write, Out(Of(r)))
                     ELSE requests[r]
<1>1. /\ List(requests) /\ Len(requests) \in Nat /\ Request = 1..Len(requests)
      /\ \A r \in 1..Len(requests) : Sound(requests[r], disk.ever) /\ Formed(requests[r])
      /\ Queued(waiting, batch, HeldEntries, requests)
  BY RequestsNow
<1>2. requests' = [r \in Request |-> New(r)]
  BY DEF Release
<1>3. requests' = [r \in 1..Len(requests) |-> requests'[r]]
  BY <1>1, <1>2
<1>4. List(requests') /\ Len(requests') = Len(requests)
  BY <1>1, <1>3, ListMade
<1>5. DOMAIN HeldEntries = DOMAIN held /\ \A k \in DOMAIN held : HeldEntries[k] = held[k].entry
  BY DEF HeldEntries
<1>6. Asks(HeldEntries) = {held[k].entry.request : k \in DOMAIN held}
  BY <1>5 DEF Asks
<1>7. ASSUME NEW r \in 1..Len(requests), r \in Asks(HeldEntries)
      PROVE  Sound(New(r), ever) /\ New(r).stage \notin Owing
  <2>1. \E k \in DOMAIN held : held[k].entry.request = r
    BY <1>6, <1>7
  <2>2. PICK k \in DOMAIN held : Of(r) = held[k] /\ held[k].entry.request = r
    BY <2>1
  <2>3. New(r) = Settled(requests[r], held[k].entry.write, Out(held[k]))
    BY <2>1, <2>2
  <2> HIDE DEF New, Of
  <2> DEFINE e == held[k].entry
  <2>4. e \in Entry /\ requests[r].stage = Due(e)
    BY <1>1, <1>5, <2>2, QueuedStage
  <2>5. e.write \in BOOLEAN /\ (~e.write => requests[r].kind \in Asked)
    BY <1>1, <2>4 DEF Entry, Due, Sound, Fitting
  <2>6. e.write /\ Grants(requests[r], held[k].out) => requests[r].op \in working.ever
    BY <2>2 DEF IInv, DurableOK
  <2>7. e.write /\ Grants(requests[r], Out(held[k])) => requests[r].op \in ever
    <3>1. CASE written
      BY <2>6, <3>1
    <3>2. CASE ~written
      BY <3>2 DEF Grants, Refused
    <3> QED
      BY <3>1, <3>2
  <2> HIDE DEF Out, e
  <2>8. /\ Sound(Settled(requests[r], e.write, Out(held[k])), ever)
        /\ Settled(requests[r], e.write, Out(held[k])).stage \notin Owing
    BY <1>1, <2>5, <2>7, SettledSound
  <2> QED
    BY <2>3, <2>8 DEF e
<1>8. ASSUME NEW r \in 1..Len(requests), r \notin Asks(HeldEntries)
      PROVE  New(r) = requests[r]
  BY <1>6, <1>8
<1> HIDE DEF New
<1>9. \A r \in 1..Len(requests) : requests'[r] = New(r)
  BY <1>1, <1>2
<1>10. \A r \in 1..Len(requests) : Sound(requests'[r], ever)
  BY <1>1, <1>7, <1>8, <1>9, SoundGrows
<1>11. Moved(requests, requests', Asks(HeldEntries))
  BY <1>1, <1>4, <1>7, <1>8, <1>9 DEF Moved
<1> QED
  BY <1>4, <1>10, <1>11

\* The write has ended, well or not.
LEMMA ReleaseKeeps ==
    ASSUME IInv, NEW written \in BOOLEAN, Release(written), Running, drain = "write",
           disk.ever \subseteq disk'.ever, written => working.ever \subseteq disk'.ever,
           server' = server
    PROVE  /\ RequestsOK' /\ PhaseOK' /\ held' = <<>> /\ writes' = FALSE
           /\ Len(requests') = Len(requests)
<1>1. /\ List(requests) /\ Len(requests) \in Nat
      /\ Queued(waiting, batch, HeldEntries, requests) /\ Len(requests) <= MaxPosts
  BY RequestsNow DEF IInv, RequestsOK
<1>2. /\ List(requests') /\ Len(requests') = Len(requests)
      /\ \A r \in 1..Len(requests) : Sound(requests'[r], disk'.ever)
      /\ Moved(requests, requests', Asks(HeldEntries))
  BY ReleaseSettles
<1>3. batch = <<>>
  BY DEF IInv, PhaseOK
<1>4. Queued(waiting, <<>>, <<>>, requests')
  BY <1>1, <1>2, <1>3, QueueReleased
<1>5. LoopAgain /\ held' = <<>>
  BY DEF Release
<1>6. /\ Queued(waiting', batch', <<>>, requests') /\ waiting' = <<>> /\ writes' = FALSE
      /\ batch' # <<>> <=> drain' = "batch"
      /\ drain' \in {"batch", "ending"}
  BY <1>4, <1>5, LoopAgainPhase
<1>7. List(held') /\ HeldEntries' = <<>>
  BY <1>5 DEF List, HeldEntries
<1>8. PhaseOK'
  BY <1>5, <1>6, <1>7 DEF PhaseOK, Running
<1>9. RequestsOK'
  BY <1>1, <1>2 DEF RequestsOK, Request
<1> QED
  BY <1>2, <1>5, <1>6, <1>8, <1>9

\* What a write would bring includes all that is on disk.
LEMMA WriteBrings ==
    ASSUME IInv, Running, drain = "write"
    PROVE  ~broken /\ disk = state /\ disk.ever \subseteq working.ever /\ Charged(working)
BY DEF IInv, PhaseOK, DurableOK

\* The ledger is written.
LEMMA WriteDoneKeeps ==
    ASSUME IInv, WriteDone PROVE IInv'
<1>1. /\ Running /\ drain = "write" /\ disk' = working /\ state' = working /\ Release(TRUE)
      /\ UNCHANGED <<server, working, broken, challenges, admitted, used>>
  BY DEF WriteDone, pageVars
<1>2. ~broken /\ disk = state /\ disk.ever \subseteq working.ever /\ Charged(working)
  BY <1>1, WriteBrings
<1>3. /\ RequestsOK' /\ PhaseOK' /\ held' = <<>> /\ writes' = FALSE
      /\ Len(requests') = Len(requests)
  BY <1>1, <1>2, ReleaseKeeps
<1>4. admitted \subseteq working.ever
  BY <1>2 DEF IInv, DurableOK
<1>5. DurableOK'
  BY <1>1, <1>2, <1>3, <1>4 DEF DurableOK
<1> QED
  BY <1>1, <1>3, <1>5, LoopKeeps

\* The write fails, with the old file or the new one in place.
LEMMA WriteFailsKeeps ==
    ASSUME IInv, WriteFails PROVE IInv'
<1>1. /\ Running /\ drain = "write" /\ disk' \in {disk, working} /\ broken' = TRUE
      /\ working' = state /\ Release(FALSE)
      /\ UNCHANGED <<server, state, challenges, admitted, used>>
  BY DEF WriteFails, pageVars
<1>2. ~broken /\ disk = state /\ disk.ever \subseteq working.ever /\ Charged(working)
  BY <1>1, WriteBrings
<1>3. disk.ever \subseteq disk'.ever
  BY <1>1, <1>2
<1>4. /\ RequestsOK' /\ PhaseOK' /\ held' = <<>> /\ writes' = FALSE
      /\ Len(requests') = Len(requests)
  BY <1>1, <1>3, ReleaseKeeps
<1>5. Charged(disk') /\ Charged(state) /\ admitted \subseteq disk'.ever /\ state.ever \subseteq disk'.ever
  BY <1>1, <1>2, <1>3 DEF IInv, DurableOK
<1>6. DurableOK'
  BY <1>1, <1>4, <1>5 DEF DurableOK
<1> QED
  BY <1>1, <1>4, <1>6, LoopKeeps

-----------------------------------------------------------------------------
(* The server.                                                              *)

\* Nothing but the clock, or the server's state.
LEMMA AsideKeeps ==
    ASSUME IInv, UNCHANGED <<disk, state, working, broken, batch, held, writes, waiting, drain,
                             requests, used, admitted>>,
           challenges' \subseteq challenges, Running' => Running, Running' \/ drain = "off"
    PROVE  IInv'
<1>1. Served /\ Len(requests') = Len(requests)
  BY IdleServes
<1>2. ChallengesOK'
  BY <1>1, RequestsNow, ChallengesKept
<1>3. admitted' \subseteq disk.ever
  BY DEF IInv, DurableOK
<1> QED
  BY <1>1, <1>2, <1>3, ServedKeeps

\* Challenges and grants expire.
LEMMA ExpiryKeeps ==
    ASSUME IInv, (\E c \in challenges : ExpireChallenge(c)) \/ (\E t \in Token : Expires(t))
    PROVE  IInv'
<1>1. /\ UNCHANGED <<disk, server, ledgerVars, requests, pageVars, used>>
      /\ challenges' \subseteq challenges
  BY DEF ExpireChallenge, Expires
<1>2. Running' = Running /\ (Running \/ drain = "off")
  BY <1>1 DEF Running, IInv, PhaseOK
<1> QED
  BY <1>1, <1>2, AsideKeeps DEF ledgerVars, pageVars

\* The server closes when its handlers and the loop have ended.
LEMMA ClosingKeeps ==
    ASSUME IInv, Closing PROVE IInv'
<1>1. UNCHANGED <<disk, ledgerVars, challenges, requests, pageVars, used>>
  BY DEF Closing, HandlersEnd, Closed
<1>2. Running /\ (Running' \/ drain = "off")
  BY DEF Closing, HandlersEnd, Closed, Running
<1> QED
  BY <1>1, <1>2, AsideKeeps DEF ledgerVars, pageVars

\* Stopping ends every connection.
LEMMA StopKeeps ==
    ASSUME IInv, Stop PROVE IInv'
<1> DEFINE E == disk.ever
<1>1. /\ server = "up" /\ server' = "stopping" /\ challenges' = {}
      /\ requests' = [r \in Request |-> [requests[r] EXCEPT !.open = FALSE]]
      /\ UNCHANGED <<disk, state, working, broken, drain, waiting, batch, held, writes, admitted, used>>
  BY DEF Stop, ledgerVars, pageVars
<1>2. /\ List(requests) /\ Len(requests) \in Nat /\ Request = 1..Len(requests)
      /\ \A r \in 1..Len(requests) : Sound(requests[r], E)
      /\ Queued(waiting, batch, HeldEntries, requests) /\ (waiting # <<>> => drain # "off")
      /\ Len(requests) <= MaxPosts
  BY RequestsNow DEF IInv, RequestsOK
<1>3. requests' = [r \in 1..Len(requests) |-> requests'[r]]
  BY <1>1, <1>2
<1>4. List(requests') /\ Len(requests') = Len(requests)
  BY <1>2, <1>3, ListMade
<1>5. ASSUME NEW r \in 1..Len(requests)
      PROVE  /\ Sound(requests'[r], E) /\ Kin(requests[r], requests'[r])
             /\ requests'[r].stage = requests[r].stage
  <2>1. requests'[r] = [requests[r] EXCEPT !.open = FALSE] /\ Sound(requests[r], E)
    BY <1>1, <1>2
  <2> QED
    BY <2>1, ClosedSound
<1>6. Moved(requests, requests', {})
  BY <1>2, <1>4, <1>5 DEF Moved
<1>7. Queued(waiting, batch, HeldEntries, requests')
  BY <1>2, <1>6, QueueMoves
<1>8. Served
  <2>1. waiting' = waiting /\ drain' = drain
    BY <1>1
  <2> QED
    BY <1>2, <1>4, <1>5, <1>7, <2>1 DEF Served
<1>9. ChallengesOK'
  BY <1>1, <1>2, <1>4, RequestsNow, ChallengesKept
<1>10. admitted' \subseteq disk.ever /\ Running /\ Running'
  BY <1>1 DEF IInv, DurableOK, Running
<1> QED
  BY <1>1, <1>8, <1>9, <1>10, ServedKeeps

\* A crash loses what was in memory, and maybe not the write under way.
LEMMA CrashKeeps ==
    ASSUME IInv, Crash PROVE IInv'
<1>1. /\ Running /\ server' = "down"
      /\ disk' \in IF drain = "write" THEN {disk, working} ELSE {disk}
      /\ requests' = [r \in Request |-> Failed([requests[r] EXCEPT !.open = FALSE])]
      /\ drain' = "off" /\ waiting' = <<>> /\ batch' = <<>> /\ held' = <<>> /\ writes' = FALSE
      /\ challenges' = {}
      /\ UNCHANGED <<state, working, broken, admitted, used>>
  BY DEF Crash, pageVars
<1>2. disk.ever \subseteq disk'.ever /\ Charged(disk')
  <2>1. CASE drain = "write"
    BY <1>1, <2>1, WriteBrings DEF IInv, DurableOK
  <2>2. CASE drain # "write"
    BY <1>1, <2>2 DEF IInv, DurableOK
  <2> QED
    BY <2>1, <2>2
<1> DEFINE E == disk'.ever
<1>3. /\ List(requests) /\ Len(requests) \in Nat /\ Request = 1..Len(requests)
      /\ \A r \in 1..Len(requests) : Formed(requests[r])
      /\ Len(requests) <= MaxPosts
  BY RequestsNow DEF IInv, RequestsOK
<1>4. requests' = [r \in 1..Len(requests) |-> requests'[r]]
  BY <1>1, <1>3
<1>5. List(requests') /\ Len(requests') = Len(requests)
  BY <1>3, <1>4, ListMade
<1>6. ASSUME NEW r \in 1..Len(requests)
      PROVE  Sound(requests'[r], E) /\ requests'[r].stage \notin Owing
  <2> DEFINE q2 == [requests[r] EXCEPT !.open = FALSE]
  <2>1. requests'[r] = Failed(q2)
    BY <1>1, <1>3
  <2>2. Formed(q2)
    BY <1>3, ClosedSound
  <2> HIDE DEF E, q2
  <2> QED
    BY <2>1, <2>2, FailedSound
<1>7. Queued(<<>>, <<>>, <<>>, requests')
  BY <1>5, <1>6 DEF Queued, Once, Apart, Asks, Owing
<1>8. List(held') /\ HeldEntries' = <<>>
  BY <1>1 DEF List, HeldEntries
<1>9. PhaseOK'
  BY <1>1, <1>7, <1>8 DEF PhaseOK, Running
<1>10. RequestsOK'
  BY <1>3, <1>5, <1>6 DEF RequestsOK, Request
<1>11. Charged(state) /\ Charged(working) /\ state.ever \subseteq disk'.ever /\ admitted \subseteq disk'.ever
  BY <1>2 DEF IInv, DurableOK
<1>12. DurableOK'
  BY <1>1, <1>2, <1>11 DEF DurableOK, Running
<1>13. ChallengesOK'
  BY <1>1, <1>3, <1>5, RequestsNow, ChallengesKept
<1> QED
  BY <1>9, <1>10, <1>12, <1>13 DEF IInv

\* A restart reads the ledger from disk.
LEMMA RestartKeeps ==
    ASSUME IInv, Restart PROVE IInv'
<1>1. /\ ~Running /\ server' = "up" /\ state' = disk /\ working' = disk /\ broken' = FALSE
      /\ UNCHANGED <<disk, drain, waiting, batch, held, writes, challenges, requests, admitted, used>>
  BY DEF Restart, pageVars, Running
<1>2. PhaseOK /\ RequestsOK /\ DurableOK
  BY DEF IInv
<1>3. drain = "off" /\ held = <<>>
  BY <1>1, <1>2 DEF PhaseOK
<1>4. HeldEntries' = HeldEntries
  BY <1>1 DEF HeldEntries
<1>5. PhaseOK'
  BY <1>1, <1>2, <1>3, <1>4 DEF PhaseOK
<1>6. DurableOK'
  BY <1>1, <1>2, <1>3 DEF DurableOK
<1>7. RequestsOK'
  BY <1>1, <1>2 DEF RequestsOK, Request
<1> QED
  BY <1>1, <1>5, <1>6, <1>7, LoopKeeps

-----------------------------------------------------------------------------
(* The invariant, and the theorems.                                         *)
LEMMA InitInv == Init => IInv
<1> SUFFICES ASSUME Init PROVE IInv
  OBVIOUS
<1>1. PICK owner \in [Pages -> Identity] :
         LET first == [accounts |-> [i \in Identity |->
                                       IF \E p \in Pages : owner[p] = i THEN NewAccount ELSE NoAccount],
                       grants |-> [p \in Pages |->
                          [account |-> owner[p], page |-> p, web |-> owner[p] \in Web,
                           epoch |-> 1, revoked |-> FALSE, first |-> p,
                           renewal |-> [op |-> 0, token |-> 0]]],
                       operations |-> {}, issued |-> PageCount,
                       charges |-> {}, ever |-> {}]
         IN  disk = first /\ state = first /\ working = first
  BY DEF Init
<1>2. /\ server = "up" /\ broken = FALSE /\ drain = "off"
      /\ waiting = <<>> /\ batch = <<>> /\ held = <<>> /\ writes = FALSE
      /\ challenges = {} /\ requests = <<>> /\ admitted = {} /\ used = <<>>
  BY DEF Init
<1>3. Ledger(disk) /\ disk.operations = {} /\ disk.ever = {} /\ state = disk /\ working = disk
  BY <1>1 DEF Ledger
<1>4. Charged(disk)
  BY <1>3 DEF Charged
<1>5. List(<<>>) /\ Len(<<>>) = 0 /\ DOMAIN <<>> = {}
  BY DEF List
<1>6. RequestsOK
  BY <1>2, <1>5, BudgetAssumption DEF RequestsOK, Request
<1>7. ChallengesOK
  BY <1>2, <1>5 DEF ChallengesOK, ChallengeOnce
<1>8. HeldEntries = <<>>
  BY <1>2 DEF HeldEntries
<1>9. Queued(<<>>, <<>>, <<>>, <<>>)
  BY DEF Queued, Once, Apart, Asks
<1>10. PhaseOK
  BY <1>2, <1>5, <1>8, <1>9 DEF PhaseOK, Running
<1>11. DurableOK
  BY <1>2, <1>3, <1>4, <1>5 DEF DurableOK
<1> QED
  BY <1>6, <1>7, <1>10, <1>11 DEF IInv

\* A step that changes nothing.
LEMMA StutterInv == IInv /\ UNCHANGED vars => IInv'
BY DEF IInv, RequestsOK, ChallengesOK, ChallengeOnce, PhaseOK, DurableOK, Request, Running,
       HeldEntries, vars, ledgerVars, pageVars

\* Every step keeps the invariant.
LEMMA NextInv == IInv /\ [Next]_vars => IInv'
<1> SUFFICES ASSUME IInv, [Next]_vars PROVE IInv'
  OBVIOUS
<1>1. CASE TakeBatch
  BY <1>1, TakeBatchKeeps
<1>2. CASE RunEntry
  BY <1>2, RunEntryKeeps
<1>3. CASE DrainEnds
  BY <1>3, DrainEndsKeeps
<1>4. ASSUME NEW r \in 1..MaxPosts, Inspected(r) PROVE IInv'
  BY <1>4, InspectedKeeps
<1>5. ASSUME NEW r \in 1..MaxPosts, Resolved(r) \/ Receive(r) \/ GiveUp(r) \/ Resend(r) PROVE IInv'
  BY <1>5, ResolvedKeeps, ReceiveKeeps, GiveUpKeeps, ResendKeeps
<1>6. ASSUME NEW p \in Pages, PageStep(p) PROVE IInv'
  BY <1>6, PageStepKeeps
<1>7. ASSUME (\E c \in challenges : ExpireChallenge(c)) \/ (\E t \in Token : Expires(t)) PROVE IInv'
  BY <1>7, ExpiryKeeps
<1>8. CASE WriteDone
  BY <1>8, WriteDoneKeeps
<1>9. CASE WriteFails
  BY <1>9, WriteFailsKeeps
<1>10. CASE Stop
  BY <1>10, StopKeeps
<1>11. CASE Closing
  BY <1>11, ClosingKeeps
<1>12. CASE Crash
  BY <1>12, CrashKeeps
<1>13. CASE Restart
  BY <1>13, RestartKeeps
<1>14. CASE UNCHANGED vars
  BY <1>14, StutterInv
<1> QED
  BY <1>1, <1>2, <1>3, <1>4, <1>5, <1>6, <1>7, <1>8, <1>9, <1>10, <1>11, <1>12, <1>13, <1>14
     DEF Next, Outside

\* The invariant always holds.
THEOREM Invariant == Spec => []IInv
BY InitInv, NextInv, PTL DEF Spec

\* A challenge authorises once, whatever is sent again, expires, is stopped or
\* comes back after a restart (the recheck in authorizeEndpoint).
THEOREM ChallengesAuthoriseOnce == Spec => []ChallengeOnce
<1>1. IInv => ChallengeOnce
  BY DEF IInv, ChallengesOK
<1> QED
  BY <1>1, Invariant, PTL

\* Every operation a handler waits for is in the ledger's hands once, and a
\* loop runs as long as one is (startDrain).
THEOREM NoOperationStranded == Spec => []NothingStranded
<1>1. IInv => NothingStranded
  BY PhaseStrandsNothing DEF IInv, RequestsOK
<1> QED
  BY <1>1, Invariant, PTL

-----------------------------------------------------------------------------
(* The ledger implements the allowance: what is charged on disk grows only, *)
(* and a page is told to upload only what is.                               *)

\* A step that leaves the disk, or writes more; and no page learns of it then.
LEMMA DiskGrows ==
    ASSUME IInv, [Next]_vars
    PROVE  \/ disk'.ever = disk.ever /\ admitted' = admitted
           \/ disk.ever \subseteq disk'.ever /\ admitted' = admitted
           \/ disk' = disk /\ \E c \in disk.ever : admitted' = admitted \union {c}
<1>1. CASE UNCHANGED vars
  BY <1>1 DEF vars, pageVars
<1>2. CASE TakeBatch \/ RunEntry \/ DrainEnds
  BY <1>2 DEF TakeBatch, RunEntry, DrainEnds, pageVars
<1>3. ASSUME NEW r, Inspected(r) \/ Resolved(r) PROVE disk' = disk /\ admitted' = admitted
  BY <1>3 DEF Inspected, Resolved, pageVars
<1>4. ASSUME NEW r, GiveUp(r) \/ Resend(r) PROVE disk' = disk /\ admitted' = admitted
  BY <1>4 DEF GiveUp, Resend, ledgerAside, serverUnchanged, pageVars
<1>5. ASSUME NEW r, Receive(r)
      PROVE  /\ disk' = disk
             /\ admitted' = admitted \/ \E c \in disk.ever : admitted' = admitted \union {c}
  <2>1. disk' = disk /\ admitted' \subseteq disk.ever
    BY <1>5, ReceiveMoves DEF ledgerAside
  <2>2. admitted' = admitted \/ \E c : admitted' = admitted \union {c}
    <3> DEFINE q == requests[r]
               p == q.page
    <3>1. \/ OnReserve(p, r, q, page[p]) \/ OnMaintain(p, r, q, page[p])
          \/ OnOwner(p, r, q, page[p]) \/ OnLogout(p, r, page[p])
      <4>1. q.kind \in Asked \union {"challenge", "authorize"}
        BY <1>5, RequestsNow DEF Receive, Awaited, Formed
      <4> QED
        BY <1>5, <4>1 DEF Receive, Asked
    <3>2. CASE OnReserve(p, r, q, page[p])
      BY <3>2 DEF OnReserve
    <3>3. CASE OnMaintain(p, r, q, page[p])
      BY <3>3 DEF OnMaintain
    <3>4. CASE OnOwner(p, r, q, page[p])
      BY <3>4 DEF OnOwner
    <3>5. CASE OnLogout(p, r, page[p])
      BY <3>5 DEF OnLogout
    <3> QED
      BY <3>1, <3>2, <3>3, <3>4, <3>5
  <2> QED
    BY <2>1, <2>2
<1>6. ASSUME NEW p, PageStep(p) PROVE disk' = disk /\ admitted' = admitted
  BY <1>6 DEF PageStep, OwnerAction, ReserveBytes, Maintain, Disconnect, Suspend, ledgerAside,
              serverUnchanged
<1>7. CASE (\E c \in challenges : ExpireChallenge(c)) \/ (\E t \in Token : Expires(t))
           \/ Stop \/ Closing \/ Restart
  BY <1>7 DEF ExpireChallenge, Expires, Stop, Closing, HandlersEnd, Closed, Restart, pageVars
<1>8. CASE WriteDone \/ WriteFails \/ Crash
  <2>1. admitted' = admitted
    BY <1>8 DEF WriteDone, WriteFails, Crash, pageVars
  <2>2. disk' = disk \/ (disk' = working /\ Running /\ drain = "write")
    BY <1>8 DEF WriteDone, WriteFails, Crash
  <2> QED
    BY <2>1, <2>2, WriteBrings
<1> QED
  BY <1>1, <1>2, <1>3, <1>4, <1>5, <1>6, <1>7, <1>8 DEF Next, Outside

\* A step of the ledger counts a batch, admits a reservation or stutters.
LEMMA AllowanceStep == IInv /\ IInv' /\ [Next]_vars => [Account!Next]_(Account!vars)
<1> SUFFICES ASSUME IInv, IInv', [Next]_vars PROVE [Account!Next]_(Account!vars)
  OBVIOUS
<1>1. disk.ever \subseteq 1..MaxPosts /\ disk'.ever \subseteq 1..MaxPosts
  BY DEF IInv, DurableOK, Charged
<1>2. CASE disk'.ever = disk.ever /\ admitted' = admitted
  BY <1>2 DEF Account!vars
<1>3. CASE disk.ever \subseteq disk'.ever /\ disk'.ever # disk.ever /\ admitted' = admitted
  <2> DEFINE b == disk'.ever \ disk.ever
  <2>1. b \in (SUBSET ((1..MaxPosts) \ disk.ever)) \ {{}} /\ disk'.ever = disk.ever \union b
    <3>1. b \subseteq (1..MaxPosts) \ disk.ever
      BY <1>1
    <3>2. b # {} /\ disk'.ever = disk.ever \union b
      BY <1>3
    <3> HIDE DEF b
    <3>3. b \in SUBSET ((1..MaxPosts) \ disk.ever)
      BY <3>1
    <3>4. b \notin {{}}
      BY <3>2
    <3> QED
      BY <3>2, <3>3, <3>4
  <2>2. Account!Count
    BY <1>3, <2>1 DEF Account!Count
  <2> QED
    BY <2>2 DEF Account!Next
<1>4. ASSUME disk' = disk, NEW c \in disk.ever, admitted' = admitted \union {c}
      PROVE  [Account!Next]_(Account!vars)
  <2>1. CASE c \in admitted
    BY <1>4, <2>1 DEF Account!vars
  <2>2. CASE c \notin admitted
    <3>1. Account!Admit
      BY <1>4, <2>2 DEF Account!Admit
    <3> QED
      BY <3>1 DEF Account!Next
  <2> QED
    BY <2>1, <2>2
<1> QED
  BY <1>2, <1>3, <1>4, DiskGrows

\* A page is told to upload only what the account has been charged for on
\* disk, and a charge stays, over crashes, failed writes, retries, renewals and
\* links (reserve and the batch's write).
THEOREM AllowanceIsKept == Spec => AllowanceKept
<1>1. Init => Account!Init
  <2> SUFFICES ASSUME Init PROVE disk.ever = {} /\ admitted = {}
    BY DEF Account!Init
  <2> QED
    BY DEF Init
<1> QED
  BY <1>1, Invariant, AllowanceStep, PTL DEF Spec, AllowanceKept, Account!Spec

-----------------------------------------------------------------------------
(* Accounts and their aliases. `Root' follows the aliases of an identity by *)
(* recursion; here it is an equation, which there is one way to satisfy as  *)
(* long as the aliases lead somewhere.                                      *)
To(d, i) == d.accounts[i].aliasTo

\* Aliases are identities, and no set of identities is closed under them.
Acyclic(d) ==
    /\ \A i \in Identity : To(d, i) \in Identity \union {None}
    /\ \A S \in SUBSET Identity : S # {} => \E i \in S : To(d, i) \notin S

\* f finds the account that each identity leads to; i leads to r.
Finds(d, f) == f = [i \in Identity |-> IF To(d, i) = None THEN i ELSE f[To(d, i)]]
Ends(d, i, r) ==
    /\ r \in Identity /\ To(d, r) = None
    /\ \A S \in SUBSET Identity :
          i \in S /\ (\A j \in S : To(d, j) # None => To(d, j) \in S) => r \in S

\* An account leads to itself,
LEMMA AccountEnds ==
    ASSUME NEW d, NEW i \in Identity, To(d, i) = None PROVE Ends(d, i, i)
BY DEF Ends

\* an alias to where its account leads,
LEMMA AliasEnds ==
    ASSUME NEW d, Acyclic(d), NEW i \in Identity, To(d, i) # None, NEW r
    PROVE  Ends(d, i, r) <=> Ends(d, To(d, i), r)
<1> DEFINE j == To(d, i)
           Shut(S) == \A x \in S : To(d, x) # None => To(d, x) \in S
<1>1. j \in Identity
  BY DEF Acyclic
<1>2. ASSUME Ends(d, j, r) PROVE Ends(d, i, r)
  <2>1. ASSUME NEW S \in SUBSET Identity, i \in S, Shut(S) PROVE r \in S
    BY <1>2, <2>1 DEF Ends
  <2> QED
    BY <1>2, <2>1 DEF Ends
<1>3. ASSUME Ends(d, i, r) PROVE Ends(d, j, r)
  <2>1. ASSUME NEW S \in SUBSET Identity, j \in S, Shut(S) PROVE r \in S
    <3>1. Shut(S \union {i}) /\ S \union {i} \in SUBSET Identity
      BY <2>1
    <3>2. r \in S \union {i}
      BY <1>3, <3>1 DEF Ends
    <3>3. r # i
      BY <1>3 DEF Ends
    <3> QED
      BY <3>2, <3>3
  <2> QED
    BY <1>3, <2>1 DEF Ends
<1> QED
  BY <1>2, <1>3

\* and every identity somewhere.
LEMMA EndsSomewhere ==
    ASSUME NEW d, Acyclic(d), NEW i \in Identity PROVE \E r : Ends(d, i, r)
<1> DEFINE S == {x \in Identity : \A r : ~Ends(d, x, r)}
<1>1. S = {}
  <2> SUFFICES ASSUME S # {} PROVE FALSE
    OBVIOUS
  <2>1. PICK x \in S : To(d, x) \notin S
    BY DEF Acyclic
  <2>2. CASE To(d, x) = None
    BY <2>1, <2>2, AccountEnds
  <2>3. CASE To(d, x) # None
    <3>1. To(d, x) \in Identity /\ x \in Identity
      BY <2>1, <2>3 DEF Acyclic
    <3>2. PICK r : Ends(d, To(d, x), r)
      BY <2>1, <3>1
    <3> QED
      BY <2>1, <2>3, <3>1, <3>2, AliasEnds
  <2> QED
    BY <2>2, <2>3
<1> QED
  BY <1>1

\* There is such a function.
LEMMA Found ==
    ASSUME NEW d, Acyclic(d)
    PROVE  Finds(d, [i \in Identity |-> CHOOSE r : Ends(d, i, r)])
<1> DEFINE A(i) == CHOOSE r : Ends(d, i, r)
           f == [i \in Identity |-> A(i)]
<1>1. ASSUME NEW i \in Identity
      PROVE  f[i] = IF To(d, i) = None THEN i ELSE f[To(d, i)]
  <2>1. CASE To(d, i) = None
    <3>1. Ends(d, i, A(i))
      BY EndsSomewhere
    <3>2. {i} \in SUBSET Identity /\ \A j \in {i} : To(d, j) # None => To(d, j) \in {i}
      BY <2>1
    <3>3. A(i) \in {i}
      BY <3>1, <3>2 DEF Ends
    <3> QED
      BY <2>1, <3>3
  <2>2. CASE To(d, i) # None
    <3>1. To(d, i) \in Identity
      BY <2>2 DEF Acyclic
    <3>2. \A r : Ends(d, i, r) <=> Ends(d, To(d, i), r)
      BY <2>2, AliasEnds
    <3>3. A(i) = A(To(d, i))
      BY <3>2, Zenon
    <3> QED
      BY <2>2, <3>1, <3>3
  <2> QED
    BY <2>1, <2>2
<1> HIDE DEF f
<1>2. f = [i \in Identity |-> f[i]]
  BY DEF f
<1>3. f = [i \in Identity |-> IF To(d, i) = None THEN i ELSE f[To(d, i)]]
  BY <1>1, <1>2
<1> QED
  BY <1>3 DEF Finds, f

\* So that Root is what its definition says.
LEMMA RootIs ==
    ASSUME NEW d, Acyclic(d), NEW i \in Identity
    PROVE  Root(d, i) = IF To(d, i) = None THEN i ELSE Root(d, To(d, i))
<1> DEFINE F == CHOOSE f : Finds(d, f)
<1>1. Finds(d, F)
  BY Found
<1>2. \A j : Root(d, j) = F[j]
  BY Zenon DEF Root, Finds, To
<1> HIDE DEF F
<1>3. To(d, i) \in Identity \union {None}
  BY DEF Acyclic
<1>4. F[i] = IF To(d, i) = None THEN i ELSE F[To(d, i)]
  BY <1>1 DEF Finds
<1> QED
  BY <1>2, <1>4

\* It is an account.
LEMMA RootReal ==
    ASSUME NEW d, Acyclic(d), NEW i \in Identity
    PROVE  Root(d, i) \in Identity /\ To(d, Root(d, i)) = None
<1> DEFINE S == {x \in Identity : ~(Root(d, x) \in Identity /\ To(d, Root(d, x)) = None)}
<1>1. S = {}
  <2> SUFFICES ASSUME S # {} PROVE FALSE
    OBVIOUS
  <2>1. PICK x \in S : To(d, x) \notin S
    BY DEF Acyclic
  <2>2. To(d, x) \in Identity \union {None} /\ x \in Identity
    BY <2>1 DEF Acyclic
  <2>3. Root(d, x) = IF To(d, x) = None THEN x ELSE Root(d, To(d, x))
    BY <2>2, RootIs
  <2> QED
    BY <2>1, <2>2, <2>3
<1> QED
  BY <1>1

\* Nothing else satisfies the equation.
LEMMA RootOnly ==
    ASSUME NEW d, Acyclic(d), NEW f,
           \A i \in Identity : f[i] = IF To(d, i) = None THEN i ELSE f[To(d, i)]
    PROVE  \A i \in Identity : Root(d, i) = f[i]
<1> DEFINE S == {x \in Identity : Root(d, x) # f[x]}
<1>1. S = {}
  <2> SUFFICES ASSUME S # {} PROVE FALSE
    OBVIOUS
  <2>1. PICK x \in S : To(d, x) \notin S
    BY DEF Acyclic
  <2>2. To(d, x) \in Identity \union {None} /\ x \in Identity
    BY <2>1 DEF Acyclic
  <2>3. Root(d, x) = IF To(d, x) = None THEN x ELSE Root(d, To(d, x))
    BY <2>2, RootIs
  <2> QED
    BY <2>1, <2>2, <2>3
<1> QED
  BY <1>1

\* Where the aliases stay, so do the roots.
LEMMA RootKept ==
    ASSUME NEW d, NEW e, Acyclic(d), \A i \in Identity : To(e, i) = To(d, i)
    PROVE  Acyclic(e) /\ \A i \in Identity : Root(e, i) = Root(d, i)
<1>1. Acyclic(e)
  BY DEF Acyclic
<1> DEFINE f == [i \in Identity |-> Root(d, i)]
<1>2. \A i \in Identity : f[i] = IF To(e, i) = None THEN i ELSE f[To(e, i)]
  BY RootIs DEF Acyclic
<1>3. \A i \in Identity : f[i] = Root(d, i)
  OBVIOUS
<1> HIDE DEF f
<1>4. \A i \in Identity : Root(e, i) = f[i]
  BY <1>1, <1>2, RootOnly
<1> QED
  BY <1>1, <1>3, <1>4

\* An account that becomes an alias of another takes its own aliases along.
LEMMA RootMerged ==
    ASSUME NEW d, NEW e, Acyclic(d), NEW a \in Identity, NEW o \in Identity, a # o,
           To(d, a) = None, To(d, o) = None, To(e, o) = a,
           \A i \in Identity \ {o} : To(e, i) = To(d, i)
    PROVE  /\ Acyclic(e)
           /\ \A i \in Identity : Root(e, i) = IF Root(d, i) = o THEN a ELSE Root(d, i)
<1>1. ASSUME NEW S \in SUBSET Identity, S # {}
      PROVE  \E i \in S : To(e, i) \notin S
  <2>1. CASE a \in S
    <3>1. To(e, a) = None
      OBVIOUS
    <3> QED
      BY <2>1, <3>1, BudgetAssumption
  <2>2. CASE a \notin S /\ o \in S
    BY <2>2
  <2>3. CASE o \notin S
    <3>1. PICK i \in S : To(d, i) \notin S
      BY <1>1 DEF Acyclic
    <3> QED
      BY <2>3, <3>1
  <2> QED
    BY <2>1, <2>2, <2>3
<1>2. Acyclic(e)
  BY <1>1 DEF Acyclic
<1> DEFINE f == [i \in Identity |-> IF Root(d, i) = o THEN a ELSE Root(d, i)]
<1>3. \A i \in Identity : f[i] = IF Root(d, i) = o THEN a ELSE Root(d, i)
  OBVIOUS
<1>4. Root(d, a) = a /\ Root(d, o) = o
  BY RootIs
<1> HIDE DEF f
<1>5. ASSUME NEW i \in Identity PROVE f[i] = IF To(e, i) = None THEN i ELSE f[To(e, i)]
  <2>1. CASE i = o
    BY <1>3, <1>4, <2>1, BudgetAssumption
  <2>2. CASE i # o /\ To(d, i) = None
    BY <1>3, <2>2, RootIs
  <2>3. CASE i # o /\ To(d, i) # None
    <3>1. To(d, i) \in Identity
      BY <2>3 DEF Acyclic
    <3> QED
      BY <1>3, <2>3, <3>1, RootIs
  <2> QED
    BY <2>1, <2>2, <2>3
<1>6. \A i \in Identity : Root(e, i) = f[i]
  BY <1>2, <1>5, RootOnly
<1> QED
  BY <1>2, <1>3, <1>6

-----------------------------------------------------------------------------
(* The books of a ledger: what its accounts have spent, what was charged to *)
(* them, and which reservations it still knows it has decided.              *)
AccountRecord == [known : BOOLEAN, limit : Nat, spent : Nat, revision : Nat,
                  generation : Nat, aliasTo : Identity \union {None}]
AccountsOK(d) ==
    /\ d.accounts \in [Identity -> AccountRecord] /\ Acyclic(d)
    /\ \A i \in Identity :
          /\ ~d.accounts[i].known => /\ d.accounts[i].spent = 0 /\ d.accounts[i].limit = 0
                                     /\ To(d, i) = None
          /\ To(d, i) # None => d.accounts[To(d, i)].known

GrantFields == {"account", "page", "web", "epoch", "revoked", "first", "renewal"}
GrantsOK(d) ==
    /\ d.issued \in Nat /\ d.grants = [t \in DOMAIN d.grants |-> d.grants[t]]
    /\ \A t \in DOMAIN d.grants :
          /\ t \in 1..d.issued
          /\ DOMAIN d.grants[t] = GrantFields /\ d.grants[t].account \in Identity
    /\ \A o \in d.operations : o.grant \in 1..d.issued

Charges(d, a) == {c \in d.charges : Root(d, c.account) = a}
ChargesOK(d) ==
    /\ IsFiniteSet(d.charges) /\ \A c \in d.charges : c.account \in Identity
    /\ \A a \in Identity : To(d, a) = None => d.accounts[a].spent = Cardinality(Charges(d, a))

Booked(d) == Ledger(d) /\ AccountsOK(d) /\ GrantsOK(d) /\ ChargesOK(d)

\* This is what the runs check.
LEMMA BookedBalanced ==
    ASSUME NEW d, Booked(d) PROVE Balanced(d)
BY DEF Booked, ChargesOK, Balanced, Charges, To

\* From d to e grants are added or forgotten, and a decision with its grant.
Later(d, e) ==
    /\ d.issued <= e.issued
    /\ \A t \in DOMAIN e.grants : t \in DOMAIN d.grants \/ t > d.issued
    /\ \A o \in d.operations : o \in e.operations \/ o.grant \notin DOMAIN e.grants

\* A step that charges nothing.
Carries(d, e) == Booked(e) /\ Later(d, e) /\ e.charges \subseteq d.charges

\* One that leaves the ledger as it was.
LEMMA StayCarries ==
    ASSUME NEW d, Booked(d) PROVE Carries(d, d)
BY DEF Booked, GrantsOK, Carries, Later

\* One after the other.
LEMMA CarriesOn ==
    ASSUME NEW d, NEW e, NEW f, Booked(d), Carries(d, e), Carries(e, f) PROVE Carries(d, f)
<1>1. d.issued \in Nat /\ e.issued \in Nat /\ f.issued \in Nat
  BY DEF Booked, GrantsOK, Carries
<1>2. d.issued <= f.issued /\ f.charges \subseteq d.charges
  BY <1>1 DEF Carries, Later
<1>3. ASSUME NEW t \in DOMAIN f.grants PROVE t \in DOMAIN d.grants \/ t > d.issued
  <2>1. t \in 1..f.issued
    BY DEF Carries, Booked, GrantsOK
  <2> QED
    BY <1>1, <2>1 DEF Carries, Later
<1>4. ASSUME NEW o \in d.operations PROVE o \in f.operations \/ o.grant \notin DOMAIN f.grants
  <2>1. o.grant \in 1..d.issued
    BY DEF Booked, GrantsOK
  <2> QED
    BY <1>1, <2>1 DEF Carries, Later
<1> QED
  BY <1>2, <1>3, <1>4 DEF Carries, Later

\* Accounts that change without spending and without a new alias.
LEMMA AccountsCarry ==
    ASSUME NEW d, Booked(d), NEW A \in [Identity -> AccountRecord],
           \A i \in Identity : /\ A[i].spent = d.accounts[i].spent
                               /\ A[i].aliasTo = To(d, i)
                               /\ ~A[i].known => ~d.accounts[i].known /\ A[i].limit = d.accounts[i].limit
    PROVE  Carries(d, [d EXCEPT !.accounts = A])
<1> DEFINE e == [d EXCEPT !.accounts = A]
<1>1. /\ Ledger(e) /\ e.accounts = A /\ e.grants = d.grants /\ e.operations = d.operations
      /\ e.issued = d.issued /\ e.charges = d.charges
  BY DEF Booked, Ledger
<1> HIDE DEF e
<1>2. \A i \in Identity : To(e, i) = To(d, i)
  BY <1>1 DEF To
<1>3. Acyclic(e) /\ \A i \in Identity : Root(e, i) = Root(d, i)
  <2>1. Acyclic(d)
    BY DEF Booked, AccountsOK
  <2> QED
    BY <1>2, <2>1, RootKept
<1>4. AccountsOK(e)
  <2>1. ASSUME NEW i \in Identity, To(e, i) # None PROVE e.accounts[To(e, i)].known
    <3>1. To(d, i) \in Identity /\ d.accounts[To(d, i)].known
      BY <1>2, <2>1 DEF AccountsOK, Booked, Acyclic
    <3> QED
      BY <1>1, <1>2, <3>1 DEF AccountRecord
  <2>2. ASSUME NEW i \in Identity, ~e.accounts[i].known
        PROVE  e.accounts[i].spent = 0 /\ e.accounts[i].limit = 0 /\ To(e, i) = None
    BY <1>1, <1>2, <2>2 DEF AccountsOK, Booked
  <2> QED
    BY <1>1, <1>3, <2>1, <2>2 DEF AccountsOK
<1>5. GrantsOK(e)
  BY <1>1 DEF Booked, GrantsOK
<1>6. \A a \in Identity : Charges(e, a) = Charges(d, a)
  BY <1>1, <1>3 DEF Charges, Booked, ChargesOK
<1>7. ChargesOK(e)
  BY <1>1, <1>2, <1>6 DEF ChargesOK, Booked
<1>8. Booked(e)
  BY <1>1, <1>4, <1>5, <1>7 DEF Booked
<1>9. Later(d, e)
  BY <1>1 DEF Later, Booked, GrantsOK
<1> QED
  BY <1>1, <1>8, <1>9 DEF Carries, e

\* Grants that change, and decisions that are forgotten, beside the accounts.
LEMMA GrantsCarry ==
    ASSUME NEW d, NEW e, Booked(d), Ledger(e), e.accounts = d.accounts, e.charges = d.charges,
           GrantsOK(e), Later(d, e)
    PROVE  Carries(d, e)
<1>1. \A i \in Identity : To(e, i) = To(d, i)
  BY DEF To
<1>2. Acyclic(e) /\ \A i \in Identity : Root(e, i) = Root(d, i)
  BY <1>1, RootKept DEF Booked, AccountsOK
<1>3. AccountsOK(e)
  BY <1>1, <1>2 DEF AccountsOK, Booked
<1>4. \A a \in Identity : Charges(e, a) = Charges(d, a)
  BY <1>2 DEF Charges, Booked, ChargesOK
<1>5. ChargesOK(e)
  BY <1>1, <1>4 DEF ChargesOK, Booked
<1> QED
  BY <1>3, <1>5 DEF Booked, Carries

\* Grants that expired are forgotten.
LEMMA PruneCarries ==
    ASSUME NEW d, Booked(d) PROVE Carries(d, Prune(d))
<1> DEFINE kept == DOMAIN d.grants \ expired
           G == [t \in kept |-> d.grants[t]]
           O == {o \in d.operations : o.grant \in kept}
           e == Prune(d)
<1>1. e = [d EXCEPT !.grants = G, !.operations = O]
  BY DEF Prune, Booked, Ledger
<1>2. /\ DOMAIN G = kept /\ \A t \in kept : G[t] = d.grants[t]
      /\ G = [t \in DOMAIN G |-> G[t]]
  OBVIOUS
<1>3. O \subseteq d.operations /\ \A o \in d.operations : o \in O \/ o.grant \notin kept
  OBVIOUS
<1> HIDE DEF G, O, e
<1>4. /\ Ledger(e) /\ e.accounts = d.accounts /\ e.grants = G /\ e.operations = O
      /\ e.issued = d.issued /\ e.charges = d.charges
  BY <1>1 DEF Booked, Ledger
<1>5. GrantsOK(e)
  BY <1>2, <1>3, <1>4 DEF Booked, GrantsOK
<1>6. Later(d, e)
  BY <1>2, <1>3, <1>4 DEF Later, Booked, GrantsOK
<1> QED
  BY <1>4, <1>5, <1>6, GrantsCarry DEF e

\* Grants are revoked.
LEMMA RevokeCarries ==
    ASSUME NEW d, Booked(d), NEW T PROVE Carries(d, Revoke(d, T))
<1> DEFINE G == [t \in DOMAIN d.grants |-> [d.grants[t] EXCEPT !.revoked = @ \/ t \in T]]
           e == Revoke(d, T)
<1>1. e = [d EXCEPT !.grants = G]
  BY DEF Revoke
<1>2. DOMAIN G = DOMAIN d.grants /\ G = [t \in DOMAIN G |-> G[t]]
  OBVIOUS
<1>3. ASSUME NEW t \in DOMAIN d.grants
      PROVE  DOMAIN G[t] = GrantFields /\ G[t].account \in Identity
  <2>1. DOMAIN d.grants[t] = GrantFields /\ d.grants[t].account \in Identity
    BY DEF Booked, GrantsOK
  <2>2. DOMAIN G[t] = DOMAIN d.grants[t] /\ G[t].account = d.grants[t].account
    BY <2>1 DEF GrantFields
  <2> QED
    BY <2>1, <2>2
<1> HIDE DEF G, e
<1>4. /\ Ledger(e) /\ e.accounts = d.accounts /\ e.grants = G /\ e.operations = d.operations
      /\ e.issued = d.issued /\ e.charges = d.charges
  BY <1>1 DEF Booked, Ledger
<1>5. GrantsOK(e)
  BY <1>2, <1>3, <1>4 DEF Booked, GrantsOK
<1>6. Later(d, e)
  BY <1>2, <1>4 DEF Later, Booked, GrantsOK
<1> QED
  BY <1>4, <1>5, <1>6, GrantsCarry DEF e

\* A grant is issued.
LEMMA IssueCarries ==
    ASSUME NEW d, Booked(d), NEW a \in Identity, NEW p, NEW w, NEW f
    PROVE  /\ Carries(d, Issue(d, a, p, w, f))
           /\ \A t \in DOMAIN d.grants : t \in DOMAIN Issue(d, a, p, w, f).grants
<1> DEFINE n == d.issued + 1
           g == [account |-> a, page |-> p, web |-> w, epoch |-> d.accounts[a].revision,
                 revoked |-> FALSE, first |-> IF f = 0 THEN n ELSE f,
                 renewal |-> [op |-> 0, token |-> 0]]
           G == [x \in DOMAIN d.grants \union {n} |-> IF x # n THEN d.grants[x] ELSE g]
           e == Issue(d, a, p, w, f)
<1>1. e = [d EXCEPT !.issued = n, !.grants = G]
  BY DEF Issue, Booked, Ledger
<1>2. DOMAIN g = GrantFields /\ g.account = a
  BY DEF GrantFields
<1> HIDE DEF g
<1>3. /\ DOMAIN G = DOMAIN d.grants \union {n} /\ G = [t \in DOMAIN G |-> G[t]]
      /\ \A t \in DOMAIN G : G[t] = IF t # n THEN d.grants[t] ELSE g
  OBVIOUS
<1> HIDE DEF G, e
<1>4. /\ Ledger(e) /\ e.accounts = d.accounts /\ e.grants = G /\ e.operations = d.operations
      /\ e.issued = n /\ e.charges = d.charges
  BY <1>1 DEF Booked, Ledger
<1>5. d.issued \in Nat /\ n \in Nat /\ d.issued < n
  BY DEF Booked, GrantsOK
<1>6. GrantsOK(e)
  <2>1. ASSUME NEW t \in DOMAIN G
        PROVE  t \in 1..n /\ DOMAIN G[t] = GrantFields /\ G[t].account \in Identity
    BY <1>2, <1>3, <1>5 DEF Booked, GrantsOK
  <2>2. \A o \in d.operations : o.grant \in 1..n
    BY <1>5 DEF Booked, GrantsOK
  <2> QED
    BY <1>3, <1>4, <1>5, <2>1, <2>2 DEF GrantsOK
<1>7. Later(d, e)
  <2>1. \A t \in DOMAIN e.grants : t \in DOMAIN d.grants \/ t > d.issued
    BY <1>3, <1>4, <1>5
  <2> QED
    BY <1>4, <1>5, <2>1 DEF Later
<1> QED
  BY <1>3, <1>4, <1>6, <1>7, GrantsCarry DEF e

\* What an owner may ask.
Act == UNION {OwnerActs[p] : p \in Pages}
LEMMA ActFormed ==
    ASSUME NEW act \in Act
    PROVE  /\ act.kind \in {"grant", "settings", "link"} /\ act.limit \in Nat /\ act.reset \in BOOLEAN
           /\ act.ids[1] \in Identity /\ (act.kind = "link" => act.ids[2] \in Identity)
           /\ act.ids \in Seq(Identity)
<1>1. /\ act \in [kind : {"grant", "settings", "link"}, ids : Seq(Identity), limit : Nat, reset : BOOLEAN]
      /\ act.ids # <<>> /\ (act.kind = "link" => Len(act.ids) = 2)
  BY ActAssumption DEF Act
<1>2. act.ids \in Seq(Identity)
  BY <1>1
<1>3. DOMAIN act.ids = 1..Len(act.ids) /\ Len(act.ids) \in Nat /\ Len(act.ids) # 0
  BY <1>1, <1>2, EmptySeq, LenProperties
<1>4. \A k \in 1..Len(act.ids) : act.ids[k] \in Identity
  BY <1>2, ElementOfSeq
<1>5. 1 \in 1..Len(act.ids) /\ (act.kind = "link" => 2 \in 1..Len(act.ids))
  <2> DEFINE n == Len(act.ids)
  <2>1. n \in Nat /\ n # 0 /\ (act.kind = "link" => n = 2)
    BY <1>1, <1>3
  <2> HIDE DEF n
  <2>2. 1 \in 1..n /\ (act.kind = "link" => 2 \in 1..n)
    BY <2>1
  <2> QED
    BY <2>2 DEF n
<1> QED
  BY <1>1, <1>2, <1>4, <1>5

\* An account at the start.
LEMMA NewAccountIs ==
    NewAccount \in AccountRecord /\ NewAccount.known /\ NewAccount.spent = 0 /\ NewAccount.aliasTo = None
BY BudgetAssumption DEF NewAccount, NoAccount, AccountRecord

\* The identities an owner signs in with get accounts.
LEMMA OpenCarries ==
    ASSUME NEW d, Booked(d), NEW S
    PROVE  Carries(d, [d EXCEPT !.accounts =
                         [i \in Identity |-> IF ~d.accounts[i].known /\ i \in S
                                             THEN NewAccount ELSE d.accounts[i]]])
<1> DEFINE A == [i \in Identity |-> IF ~d.accounts[i].known /\ i \in S
                                    THEN NewAccount ELSE d.accounts[i]]
<1>1. \A i \in Identity :
         A[i] = IF ~d.accounts[i].known /\ i \in S THEN NewAccount ELSE d.accounts[i]
  OBVIOUS
<1>2. A \in [Identity -> AccountRecord]
  BY NewAccountIs DEF Booked, AccountsOK
<1> HIDE DEF A
<1>3. \A i \in Identity : /\ A[i].spent = d.accounts[i].spent
                          /\ A[i].aliasTo = To(d, i)
                          /\ ~A[i].known => ~d.accounts[i].known /\ A[i].limit = d.accounts[i].limit
  BY <1>1, NewAccountIs DEF Booked, AccountsOK, To
<1>4. Carries(d, [d EXCEPT !.accounts = A])
  BY <1>2, <1>3, AccountsCarry
<1> QED
  BY <1>4 DEF A

\* Two accounts become one.
LEMMA MergeCarries ==
    ASSUME NEW d, Booked(d), NEW a \in Identity, NEW o \in Identity, a # o,
           To(d, a) = None, To(d, o) = None, d.accounts[a].known
    PROVE  Carries(d, Merge(d, a, o))
<1> DEFINE x == d.accounts[a]
           y == d.accounts[o]
           Higher(i, j) == IF i > j THEN i ELSE j
           z == [x EXCEPT !.spent = x.spent + y.spent,
                          !.limit = IF y.limit < x.limit THEN y.limit ELSE x.limit,
                          !.revision = Higher(x.revision, y.revision) + 1,
                          !.generation = Higher(x.generation, y.generation) + 1]
           A == [d.accounts EXCEPT ![a] = z, ![o] = Alias(a)]
           e == Merge(d, a, o)
<1>1. e = [d EXCEPT !.accounts = A]
  BY DEF Merge, Booked, Ledger
<1>2. x \in AccountRecord /\ y \in AccountRecord /\ d.accounts \in [Identity -> AccountRecord]
  BY DEF Booked, AccountsOK
<1>3. z \in AccountRecord /\ z.spent = x.spent + y.spent /\ z.aliasTo = x.aliasTo /\ z.known = x.known
  <2> DEFINE limit == IF y.limit < x.limit THEN y.limit ELSE x.limit
             revision == Higher(x.revision, y.revision) + 1
             generation == Higher(x.generation, y.generation) + 1
  <2> HIDE DEF x, y
  <2>1. x.spent + y.spent \in Nat /\ limit \in Nat /\ revision \in Nat /\ generation \in Nat
    BY <1>2 DEF AccountRecord
  <2>2. z = [x EXCEPT !.spent = x.spent + y.spent, !.limit = limit, !.revision = revision,
                      !.generation = generation]
    OBVIOUS
  <2> HIDE DEF z, limit, revision, generation
  <2> QED
    BY <1>2, <2>1, <2>2 DEF AccountRecord
<1>4. Alias(a) \in AccountRecord /\ Alias(a).known /\ Alias(a).aliasTo = a
  BY BudgetAssumption DEF Alias, NoAccount, AccountRecord
<1> HIDE DEF z
<1>5. /\ A \in [Identity -> AccountRecord] /\ A[a] = z /\ A[o] = Alias(a)
      /\ \A i \in Identity \ {a, o} : A[i] = d.accounts[i]
  BY <1>2, <1>3, <1>4
<1> HIDE DEF A, e
<1>6. /\ Ledger(e) /\ e.accounts = A /\ e.grants = d.grants /\ e.operations = d.operations
      /\ e.issued = d.issued /\ e.charges = d.charges
  BY <1>1 DEF Booked, Ledger
<1>7. To(e, o) = a /\ \A i \in Identity \ {o} : To(e, i) = To(d, i)
  BY <1>3, <1>4, <1>5, <1>6 DEF To
<1>8. Acyclic(e) /\ \A i \in Identity : Root(e, i) = IF Root(d, i) = o THEN a ELSE Root(d, i)
  BY <1>7, RootMerged DEF Booked, AccountsOK
<1>9. AccountsOK(e)
  <2>1. ASSUME NEW i \in Identity, ~A[i].known PROVE A[i].spent = 0 /\ A[i].limit = 0 /\ A[i].aliasTo = None
    BY <1>3, <1>4, <1>5, <2>1 DEF Booked, AccountsOK, To
  <2>2. A[a].known /\ \A i \in Identity : d.accounts[i].known => A[i].known
    BY <1>3, <1>4, <1>5
  <2>3. ASSUME NEW i \in Identity, To(e, i) # None PROVE A[To(e, i)].known
    <3>1. CASE i = o
      BY <1>7, <2>2, <3>1
    <3>2. CASE i # o
      <4>1. To(d, i) \in Identity /\ d.accounts[To(d, i)].known /\ To(e, i) = To(d, i)
        BY <1>7, <2>3, <3>2 DEF Booked, AccountsOK, Acyclic
      <4> QED
        BY <2>2, <4>1
    <3> QED
      BY <3>1, <3>2
  <2> QED
    BY <1>5, <1>6, <1>8, <2>1, <2>3 DEF AccountsOK, To
<1>10. GrantsOK(e)
  BY <1>6 DEF Booked, GrantsOK
<1>11. IsFiniteSet(d.charges) /\ \A c \in d.charges : c.account \in Identity
  BY DEF Booked, ChargesOK
<1>12. ASSUME NEW r \in Identity, To(e, r) = None
       PROVE  e.accounts[r].spent = Cardinality(Charges(e, r))
  <2>1. r # o
    BY <1>7, <1>12, BudgetAssumption
  <2>2. CASE r = a
    <3>1. Charges(e, a) = Charges(d, a) \union Charges(d, o)
      BY <1>6, <1>8, <1>11 DEF Charges
    <3>2. Charges(d, a) \intersect Charges(d, o) = {}
      BY DEF Charges
    <3>3. IsFiniteSet(Charges(d, a)) /\ IsFiniteSet(Charges(d, o))
      BY <1>11, FS_Subset DEF Charges
    <3>4. Cardinality(Charges(d, a)) = x.spent /\ Cardinality(Charges(d, o)) = y.spent
      BY DEF Booked, ChargesOK
    <3>5. Cardinality(Charges(e, a)) = x.spent + y.spent
      <4> HIDE DEF x, y
      <4>1. Cardinality(Charges(d, a) \intersect Charges(d, o)) = 0
        BY <3>2, FS_EmptySet
      <4>2. Cardinality(Charges(d, a) \union Charges(d, o))
              = Cardinality(Charges(d, a)) + Cardinality(Charges(d, o))
                - Cardinality(Charges(d, a) \intersect Charges(d, o))
        BY <3>3, FS_Union
      <4>3. x.spent \in Nat /\ y.spent \in Nat
        BY <1>2 DEF AccountRecord
      <4> QED
        BY <3>1, <3>4, <4>1, <4>2, <4>3
    <3> QED
      BY <1>3, <1>5, <1>6, <2>2, <3>5
  <2>3. CASE r # a
    <3>1. Charges(e, r) = Charges(d, r)
      BY <1>6, <1>8, <1>11, <2>1, <2>3 DEF Charges
    <3>2. To(d, r) = None /\ e.accounts[r] = d.accounts[r]
      BY <1>5, <1>6, <1>7, <1>12, <2>1, <2>3
    <3> QED
      BY <3>1, <3>2 DEF Booked, ChargesOK
  <2> QED
    BY <2>2, <2>3
<1>13. Booked(e)
  BY <1>6, <1>9, <1>10, <1>11, <1>12 DEF Booked, ChargesOK
<1>14. Later(d, e)
  BY <1>6 DEF Later, Booked, GrantsOK
<1> QED
  BY <1>6, <1>13, <1>14 DEF Carries, e

\* Two identities are linked, which have accounts.
LEMMA LinkCarries ==
    ASSUME NEW d, Booked(d), NEW ids, ids[1] \in Identity, ids[2] \in Identity,
           d.accounts[Root(d, ids[1])].known
    PROVE  Carries(d, Link(d, ids))
<1> DEFINE a == Root(d, ids[1])
           o == Root(d, ids[2])
           x == d.accounts[a]
           z == [x EXCEPT !.revision = x.revision + 1]
           A == [d.accounts EXCEPT ![a] = z]
<1>1. a \in Identity /\ o \in Identity /\ To(d, a) = None /\ To(d, o) = None
  BY RootReal DEF Booked, AccountsOK
<1>2. CASE a # o
  BY <1>1, <1>2, MergeCarries DEF Link
<1>3. CASE a = o
  <2>1. Link(d, ids) = [d EXCEPT !.accounts = A]
    BY <1>3 DEF Link, Booked, Ledger
  <2> HIDE DEF a
  <2>2. x \in AccountRecord /\ d.accounts \in [Identity -> AccountRecord]
    BY <1>1 DEF Booked, AccountsOK
  <2>3. /\ z \in AccountRecord /\ z.spent = x.spent /\ z.aliasTo = x.aliasTo /\ z.known = x.known
        /\ z.limit = x.limit
    BY <2>2 DEF AccountRecord
  <2> HIDE DEF z
  <2>4. /\ A \in [Identity -> AccountRecord]
        /\ \A i \in Identity : /\ A[i].spent = d.accounts[i].spent /\ A[i].aliasTo = To(d, i)
                               /\ ~A[i].known => ~d.accounts[i].known /\ A[i].limit = d.accounts[i].limit
    BY <1>1, <2>2, <2>3 DEF To
  <2> HIDE DEF A
  <2> QED
    BY <2>1, <2>4, AccountsCarry
<1> QED
  BY <1>2, <1>3

\* An owner's settings.
LEMMA SettingsCarries ==
    ASSUME NEW d, Booked(d), NEW a \in Identity, To(d, a) = None, NEW act \in Act,
           d.accounts[a].known
    PROVE  Carries(d, ApplySettings(d, a, act))
<1> DEFINE x == d.accounts[a]
           z == [x EXCEPT !.limit = act.limit, !.revision = x.revision + 1,
                          !.spent = IF act.reset THEN 0 ELSE x.spent,
                          !.generation = x.generation + (IF act.reset THEN 1 ELSE 0)]
           A == [d.accounts EXCEPT ![a] = z]
           C == IF act.reset THEN {c \in d.charges : Root(d, c.account) # a} ELSE d.charges
           e == ApplySettings(d, a, act)
<1>1. e = [d EXCEPT !.accounts = A, !.charges = C]
  BY DEF ApplySettings, Booked, Ledger
<1>2. x \in AccountRecord /\ d.accounts \in [Identity -> AccountRecord]
  BY DEF Booked, AccountsOK
<1>3. /\ z \in AccountRecord /\ z.spent = (IF act.reset THEN 0 ELSE x.spent)
      /\ z.aliasTo = x.aliasTo /\ z.known = x.known
  <2> DEFINE limit == act.limit
             spent == IF act.reset THEN 0 ELSE x.spent
             generation == x.generation + (IF act.reset THEN 1 ELSE 0)
  <2> HIDE DEF x
  <2>1. limit \in Nat /\ x.revision + 1 \in Nat /\ spent \in Nat /\ generation \in Nat
    BY <1>2, ActFormed DEF AccountRecord
  <2>2. z = [x EXCEPT !.limit = limit, !.revision = x.revision + 1, !.spent = spent,
                      !.generation = generation]
    OBVIOUS
  <2>3. spent = IF act.reset THEN 0 ELSE x.spent
    OBVIOUS
  <2> HIDE DEF z, limit, spent, generation
  <2> QED
    BY <1>2, <2>1, <2>2, <2>3 DEF AccountRecord
<1> HIDE DEF z
<1>4. /\ A \in [Identity -> AccountRecord] /\ A[a] = z
      /\ \A i \in Identity \ {a} : A[i] = d.accounts[i]
  BY <1>2, <1>3
<1>5. /\ C \subseteq d.charges
      /\ act.reset => \A c \in C : Root(d, c.account) # a
      /\ \A c \in d.charges : c \in C \/ (act.reset /\ Root(d, c.account) = a)
  BY ActFormed
<1> HIDE DEF A, C, e
<1>6. /\ Ledger(e) /\ e.accounts = A /\ e.grants = d.grants /\ e.operations = d.operations
      /\ e.issued = d.issued /\ e.charges = C
  BY <1>1 DEF Booked, Ledger
<1>7. \A i \in Identity : To(e, i) = To(d, i)
  BY <1>3, <1>4, <1>6 DEF To
<1>8. Acyclic(e) /\ \A i \in Identity : Root(e, i) = Root(d, i)
  BY <1>7, RootKept DEF Booked, AccountsOK
<1>9. AccountsOK(e)
  <2>1. ASSUME NEW i \in Identity, ~A[i].known PROVE A[i].spent = 0 /\ A[i].limit = 0 /\ A[i].aliasTo = None
    BY <1>3, <1>4, <2>1 DEF Booked, AccountsOK, To
  <2>2. \A i \in Identity : d.accounts[i].known => A[i].known
    BY <1>3, <1>4
  <2>3. ASSUME NEW i \in Identity, To(e, i) # None PROVE A[To(e, i)].known
    <3>1. To(d, i) \in Identity /\ d.accounts[To(d, i)].known /\ To(e, i) = To(d, i)
      BY <1>7, <2>3 DEF Booked, AccountsOK, Acyclic
    <3> QED
      BY <2>2, <3>1
  <2> QED
    BY <1>4, <1>6, <1>8, <2>1, <2>3 DEF AccountsOK, To
<1>10. GrantsOK(e)
  BY <1>6 DEF Booked, GrantsOK
<1>11. IsFiniteSet(C) /\ \A c \in C : c.account \in Identity
  BY <1>5, FS_Subset DEF Booked, ChargesOK
<1>12. ASSUME NEW r \in Identity, To(e, r) = None
       PROVE  e.accounts[r].spent = Cardinality(Charges(e, r))
  <2>1. CASE r = a /\ act.reset
    <3>1. Charges(e, r) = {}
      BY <1>5, <1>6, <1>8, <1>11, <2>1 DEF Charges
    <3> QED
      BY <1>3, <1>4, <1>6, <2>1, <3>1, FS_EmptySet
  <2>2. CASE ~(r = a /\ act.reset)
    <3>1. Charges(e, r) = Charges(d, r)
      BY <1>5, <1>6, <1>8, <1>11, <2>2 DEF Charges
    <3>2. e.accounts[r].spent = d.accounts[r].spent /\ To(d, r) = None
      BY <1>3, <1>4, <1>6, <1>7, <1>12, <2>2
    <3> QED
      BY <3>1, <3>2 DEF Booked, ChargesOK
  <2> QED
    BY <2>1, <2>2
<1>13. Booked(e)
  BY <1>6, <1>9, <1>10, <1>11, <1>12 DEF Booked, ChargesOK
<1>14. Later(d, e)
  BY <1>6 DEF Later, Booked, GrantsOK
<1> QED
  BY <1>5, <1>6, <1>13, <1>14 DEF Carries, e

\* The account of a known identity is known.
LEMMA RootKnown ==
    ASSUME NEW d, Booked(d), NEW i \in Identity, d.accounts[i].known
    PROVE  d.accounts[Root(d, i)].known
<1>0. Acyclic(d)
  BY DEF Booked, AccountsOK
<1> DEFINE S == {x \in Identity : d.accounts[x].known /\ ~d.accounts[Root(d, x)].known}
<1>1. S = {}
  <2> SUFFICES ASSUME S # {} PROVE FALSE
    OBVIOUS
  <2>1. PICK x \in S : To(d, x) \notin S
    BY <1>0 DEF Acyclic
  <2>2. To(d, x) \in Identity \union {None} /\ x \in Identity
    BY <1>0, <2>1 DEF Acyclic
  <2>3. Root(d, x) = IF To(d, x) = None THEN x ELSE Root(d, To(d, x))
    BY <1>0, <2>2, RootIs
  <2>4. To(d, x) # None => d.accounts[To(d, x)].known
    BY <2>2 DEF Booked, AccountsOK
  <2> QED
    BY <2>1, <2>2, <2>3, <2>4
<1> QED
  BY <1>1

-----------------------------------------------------------------------------
(* The operations, on the books.                                            *)

\* An owner's grant, settings or link.
LEMMA AuthorizeCarries ==
    ASSUME NEW d, Booked(d), NEW q, q.act \in Act
    PROVE  Carries(d, Authorize(d, q).data)
<1> DEFINE ids == q.act.ids
           S == {ids[k] : k \in DOMAIN ids}
           d0 == Prune(d)
           d1 == [d0 EXCEPT !.accounts = [i \in Identity |-> IF ~d0.accounts[i].known /\ i \in S
                                                             THEN NewAccount ELSE d0.accounts[i]]]
           A == [i \in Identity |-> IF ~d0.accounts[i].known /\ \E k \in DOMAIN ids : ids[k] = i
                                    THEN NewAccount ELSE d0.accounts[i]]
           d2 == IF q.act.kind = "link" THEN Link(d1, ids) ELSE d1
           a == Root(d2, ids[1])
           d3 == IF q.act.kind = "settings" THEN ApplySettings(d2, a, q.act) ELSE d2
           same == {t \in DOMAIN d3.grants : Root(d3, d3.grants[t].account) = a}
           d4 == IF q.act.kind = "grant" THEN d3 ELSE Revoke(d3, same)
           w == {ids[k] : k \in DOMAIN ids} \intersect Web # {}
           d5 == Issue(d4, a, q.page, w, 0)
           out == Granted(TRUE, d5.issued, Snapshot(d5, a))
<1>1. /\ q.act.kind \in {"grant", "settings", "link"}
      /\ ids[1] \in Identity /\ (q.act.kind = "link" => ids[2] \in Identity) /\ ids[1] \in S
  <2>1. 1 \in DOMAIN ids
    <3>1. ids \in Seq(Identity) /\ ids # <<>>
      BY ActFormed, ActAssumption DEF Act
    <3> QED
      BY <3>1, EmptySeq, LenProperties
  <2> QED
    BY <2>1, ActFormed
<1>2. A = [i \in Identity |-> IF ~d0.accounts[i].known /\ i \in S
                              THEN NewAccount ELSE d0.accounts[i]]
  OBVIOUS
<1>3. Authorize(d, q) = IF GrantsFull(d4) THEN Refuse(d) ELSE [data |-> d5, out |-> out]
  <2>1. d1 = [d0 EXCEPT !.accounts = A]
    BY <1>2
  <2> HIDE DEF d1
  <2> QED
    BY <2>1 DEF Authorize
<1> HIDE DEF A, w, out, ids
<1>4. Carries(d, d0)
  BY PruneCarries
<1> HIDE DEF d0
<1>5. Carries(d, d1) /\ d1.accounts[ids[1]].known
  <2>1. Carries(d0, d1)
    <3> HIDE DEF S
    <3>1. Booked(d0)
      BY <1>4 DEF Carries
    <3> QED
      BY <3>1, OpenCarries
  <2>2. d1.accounts = [i \in Identity |-> IF ~d0.accounts[i].known /\ i \in S
                                          THEN NewAccount ELSE d0.accounts[i]]
    BY <1>4 DEF Carries, Booked, Ledger
  <2>3. d1.accounts[ids[1]].known
    <3>1. d1.accounts[ids[1]] = IF ~d0.accounts[ids[1]].known /\ ids[1] \in S
                                THEN NewAccount ELSE d0.accounts[ids[1]]
      BY <1>1, <2>2
    <3> QED
      BY <1>1, <3>1, NewAccountIs
  <2> QED
    BY <1>4, <2>1, <2>3, CarriesOn
<1> HIDE DEF d1, S
<1>6. Carries(d, d2) /\ a \in Identity /\ To(d2, a) = None
  <2>1. CASE q.act.kind = "link"
    <3>1. d1.accounts[Root(d1, ids[1])].known
      BY <1>1, <1>5, RootKnown DEF Carries
    <3>2. Carries(d1, Link(d1, ids))
      BY <1>1, <1>5, <2>1, <3>1, LinkCarries DEF Carries
    <3>3. d2 = Link(d1, ids)
      BY <2>1
    <3> HIDE DEF d2
    <3>4. Carries(d, d2)
      BY <1>5, <3>2, <3>3, CarriesOn
    <3> QED
      BY <1>1, <3>4, RootReal DEF Carries, Booked, AccountsOK
  <2>2. CASE q.act.kind # "link"
    <3>1. d2 = d1
      BY <2>2
    <3> HIDE DEF d2
    <3> QED
      BY <1>1, <1>5, <3>1, RootReal DEF Carries, Booked, AccountsOK
  <2> QED
    BY <2>1, <2>2
<1>7. Carries(d, d3)
  <2>1. CASE q.act.kind = "settings"
    <3>1. d2 = d1
      BY <2>1
    <3>2. d2.accounts[a].known
      <4> HIDE DEF d2
      <4> QED
        BY <1>1, <1>5, <3>1, RootKnown DEF Carries
    <3>3. d3 = ApplySettings(d2, a, q.act)
      BY <2>1
    <3> HIDE DEF d2, a, d3
    <3>4. Carries(d2, d3)
      BY <1>6, <3>2, <3>3, SettingsCarries DEF Carries
    <3> QED
      BY <1>6, <3>4, CarriesOn
  <2>2. CASE q.act.kind # "settings"
    BY <1>6, <2>2
  <2> QED
    BY <2>1, <2>2
<1> HIDE DEF d2, d3, a
<1>8. Carries(d, d4)
  <2>1. CASE q.act.kind = "grant"
    BY <1>7, <2>1
  <2>2. CASE q.act.kind # "grant"
    <3>1. d4 = Revoke(d3, same)
      BY <2>2
    <3> HIDE DEF d4, same
    <3>2. Carries(d3, d4)
      BY <1>7, <3>1, RevokeCarries DEF Carries
    <3> QED
      BY <1>7, <3>2, CarriesOn
  <2> QED
    BY <2>1, <2>2
<1> HIDE DEF same, d4
<1>9. Carries(d, d5)
  <2>1. Carries(d4, d5)
    BY <1>6, <1>8, IssueCarries DEF Carries
  <2> HIDE DEF d5
  <2> QED
    BY <1>8, <2>1, CarriesOn
<1> HIDE DEF d5
<1>10. Authorize(d, q).data \in {d, d5}
  BY <1>3 DEF Refuse
<1> QED
  BY <1>9, <1>10, StayCarries

\* A renewal.
LEMMA RenewCarries ==
    ASSUME NEW d0, Booked(d0), NEW q
    PROVE  Carries(d0, Renew(d0, q).data)
<1> DEFINE d == Prune(d0)
           t == q.token
           g == d.grants[t]
           n == Issue(d, Root(d, g.account), g.page, g.web, g.first)
           r == [op |-> q.op, token |-> n.issued]
           G == [n.grants EXCEPT ![t].renewal = r]
           new == [n EXCEPT !.grants = G]
           next == IF g.renewal.op = 0 THEN n.issued ELSE g.renewal.token
           left == IF g.renewal.op = 0 THEN new ELSE d
           out == Granted(TRUE, next, Snapshot(left, g.account))
           no == \/ ~GrantOK(d, t)
                 \/ g.renewal.op = 0 /\ GrantsFull(d)
                 \/ g.renewal.op # 0 /\ (g.renewal.op # q.op \/ ~GrantOK(d, g.renewal.token))
<1>1. Carries(d0, d)
  BY PruneCarries
<1>2. Renew(d0, q) = IF no THEN Refuse(d0) ELSE [data |-> left, out |-> out]
  <2>1. Ledger(n)
    BY <1>1, IssueBooks DEF Carries, Booked, Books
  <2> QED
    BY <2>1 DEF Renew, Ledger
<1>3. CASE no
  <2>1. Renew(d0, q).data = d0
    <3> HIDE DEF no, left, out
    <3> QED
      BY <1>2, <1>3 DEF Refuse
  <2> QED
    BY <2>1, StayCarries
<1>4. CASE ~no
  <2>1. t \in DOMAIN d.grants
    BY <1>4 DEF GrantOK
  <2>2. Renew(d0, q).data = left
    <3> HIDE DEF no, left, out
    <3> QED
      BY <1>2, <1>4
  <2> HIDE DEF d, no, out, next
  <2>3. Root(d, g.account) \in Identity
    <3>1. g.account \in Identity /\ Acyclic(d)
      BY <1>1, <2>1 DEF Carries, Booked, GrantsOK, AccountsOK
    <3> QED
      BY <3>1, RootReal
  <2>4. Carries(d, n) /\ t \in DOMAIN n.grants
    BY <1>1, <2>1, <2>3, IssueCarries DEF Carries
  <2> HIDE DEF n, g, r
  <2>5. Carries(n, new)
    <3>1. /\ DOMAIN G = DOMAIN n.grants /\ G = [x \in DOMAIN G |-> G[x]]
          /\ \A x \in DOMAIN n.grants : DOMAIN G[x] = GrantFields /\ G[x].account \in Identity
      <4>1. /\ n.grants = [x \in DOMAIN n.grants |-> n.grants[x]]
            /\ \A x \in DOMAIN n.grants :
                  DOMAIN n.grants[x] = GrantFields /\ n.grants[x].account \in Identity
        BY <2>4 DEF Carries, Booked, GrantsOK
      <4> QED
        BY <4>1 DEF GrantFields
    <3> HIDE DEF G
    <3>2. /\ Ledger(new) /\ new.accounts = n.accounts /\ new.grants = G
          /\ new.operations = n.operations /\ new.issued = n.issued /\ new.charges = n.charges
      BY <2>4 DEF Carries, Booked, Ledger
    <3> HIDE DEF new
    <3>3. GrantsOK(new)
      BY <2>4, <3>1, <3>2 DEF Carries, Booked, GrantsOK
    <3>4. Later(n, new)
      BY <2>4, <3>1, <3>2 DEF Later, Carries, Booked, GrantsOK
    <3> QED
      BY <2>4, <3>2, <3>3, <3>4, GrantsCarry DEF Carries
  <2> HIDE DEF new
  <2>6. Carries(d, new)
    BY <1>1, <2>4, <2>5, CarriesOn DEF Carries
  <2>7. Carries(d0, new)
    BY <1>1, <2>6, CarriesOn
  <2> QED
    BY <1>1, <2>2, <2>7
<1> QED
  BY <1>3, <1>4

\* The end of a delegation.
LEMMA RevokeGrantCarries ==
    ASSUME NEW d0, Booked(d0), NEW q
    PROVE  Carries(d0, RevokeGrant(d0, q).data)
<1> DEFINE d == Prune(d0)
           g == d.grants[q.token]
           same == {t \in DOMAIN d.grants : /\ Root(d, d.grants[t].account) = Root(d, g.account)
                                            /\ d.grants[t].first = g.first}
           e == Revoke(d, same)
<1>1. Carries(d0, d)
  BY PruneCarries
<1>2. RevokeGrant(d0, q) = IF ~GrantOK(d, q.token) THEN Refuse(d0)
                           ELSE [data |-> e, out |-> Granted(TRUE, 0, NoSnapshot)]
  BY DEF RevokeGrant
<1> HIDE DEF d, same
<1>3. Carries(d, e)
  BY <1>1, RevokeCarries DEF Carries
<1> HIDE DEF e
<1>4. Carries(d0, e)
  BY <1>1, <1>3, CarriesOn
<1>5. RevokeGrant(d0, q).data \in {d0, e}
  BY <1>2 DEF Refuse
<1> QED
  BY <1>4, <1>5, StayCarries

\* Requests with one operation were sent under one grant, by its number; and
\* an owner asks for what owners may.
Lineage(rs) ==
    \A r \in 1..Len(rs) :
       /\ rs[r].kind = "reserve" => rs[r].op \in 1..Len(rs)
       /\ rs[r].kind \in {"challenge", "authorize"} => rs[r].act \in Act
       /\ \A x \in 1..Len(rs) :
             rs[r].kind = "reserve" /\ rs[x].kind = "reserve" /\ rs[r].op = rs[x].op
               => rs[r].token = rs[x].token

\* A ledger knows what it decided of a reservation that it has charged, unless
\* the grant was forgotten that it came under.
Knows(d, c, t) ==
    \/ \E o \in d.operations : o.grant = t /\ o.op = c.op
    \/ t \in 1..d.issued \ DOMAIN d.grants
Remembered(d, rs) ==
    \A c \in d.charges :
       /\ c.op \in 1..Len(rs)
       /\ \A r \in 1..Len(rs) :
             rs[r].kind = "reserve" /\ rs[r].op = c.op => Knows(d, c, rs[r].token)

\* It does so still when nothing was charged.
LEMMA CarriesKnow ==
    ASSUME NEW d, NEW e, Booked(d), Carries(d, e), NEW rs, Remembered(d, rs)
    PROVE  Remembered(e, rs)
<1> SUFFICES ASSUME NEW c \in e.charges, NEW r \in 1..Len(rs),
                    rs[r].kind = "reserve", rs[r].op = c.op
             PROVE  Knows(e, c, rs[r].token)
  BY DEF Carries, Remembered
<1> DEFINE t == rs[r].token
<1>1. Knows(d, c, t)
  BY DEF Carries, Remembered
<1> HIDE DEF t
<1>2. d.issued \in Nat /\ e.issued \in Nat /\ d.issued <= e.issued
  BY DEF Carries, Booked, GrantsOK, Later
<1>3. CASE \E o \in d.operations : o.grant = t /\ o.op = c.op
  <2>1. PICK o \in d.operations : o.grant = t /\ o.op = c.op
    BY <1>3
  <2>2. t \in 1..d.issued
    BY <2>1 DEF Booked, GrantsOK
  <2>3. o \in e.operations \/ t \notin DOMAIN e.grants
    BY <2>1 DEF Carries, Later
  <2>4. t \in 1..e.issued
    BY <1>2, <2>2
  <2> QED
    BY <2>1, <2>3, <2>4 DEF Knows, t
<1>4. CASE t \in 1..d.issued \ DOMAIN d.grants
  <2>1. t \notin DOMAIN e.grants
    BY <1>2, <1>4 DEF Carries, Later
  <2>2. t \in 1..e.issued
    BY <1>2, <1>4
  <2> QED
    BY <2>1, <2>2 DEF Knows, t
<1> QED
  BY <1>1, <1>3, <1>4 DEF Knows

\* A decision is written down, and a charge if it accepts.
Spending(d, a, accepted) == [d.accounts EXCEPT ![a].spent = IF accepted THEN @ + 1 ELSE @]
Charge(op, a) == [op |-> op, account |-> a]
ChargesWith(d, op, a, accepted) ==
    IF accepted THEN d.charges \union {Charge(op, a)} ELSE d.charges
Verdict(t, op, accepted) == [grant |-> t, op |-> op, accepted |-> accepted]
Decided(d, t, op, a, accepted) ==
    Written(d, t, op, accepted, Spending(d, a, accepted), ChargesWith(d, op, a, accepted))
LEMMA DecidedBooked ==
    ASSUME NEW d, Booked(d), NEW t \in DOMAIN d.grants, NEW op, NEW accepted \in BOOLEAN,
           \A c \in d.charges : c.op # op, NEW a, a = Root(d, d.grants[t].account),
           accepted => d.accounts[a].spent < d.accounts[a].limit,
           NEW e, e = Decided(d, t, op, a, accepted)
    PROVE  /\ Booked(e) /\ Later(d, e) /\ e.charges = ChargesWith(d, op, a, accepted)
           /\ Verdict(t, op, accepted) \in e.operations
<1> DEFINE x == d.accounts[a]
           X == Spending(d, a, accepted)
           C == ChargesWith(d, op, a, accepted)
           z == [x EXCEPT !.spent = IF accepted THEN x.spent + 1 ELSE x.spent]
           c0 == Charge(op, a)
           o0 == Verdict(t, op, accepted)
           O == d.operations \union {o0}
           E == IF accepted THEN d.ever \union {op} ELSE d.ever
<1>1. e = [d EXCEPT !.operations = O, !.accounts = X, !.charges = C, !.ever = E]
  BY DEF Decided, Verdict, Written, Booked, Ledger
<1>2. t \in 1..d.issued /\ d.issued \in Nat
  BY DEF Booked, GrantsOK
<1>3. a \in Identity /\ To(d, a) = None /\ Root(d, a) = a
  <2>1. d.grants[t].account \in Identity /\ Acyclic(d)
    BY DEF Booked, GrantsOK, AccountsOK
  <2>2. a \in Identity /\ To(d, a) = None
    BY <2>1, RootReal
  <2> QED
    BY <2>1, <2>2, RootIs
<1>22. accepted => x.spent < x.limit
  OBVIOUS
<1>4. x \in AccountRecord /\ d.accounts \in [Identity -> AccountRecord]
  BY <1>3 DEF Booked, AccountsOK
<1>5. X = [d.accounts EXCEPT ![a] = z]
  BY DEF Spending
<1>6. /\ z \in AccountRecord /\ z.spent = (IF accepted THEN x.spent + 1 ELSE x.spent)
      /\ z.aliasTo = x.aliasTo /\ z.known = x.known /\ z.limit = x.limit
  BY <1>4 DEF AccountRecord
<1> HIDE DEF z, X
<1>7. /\ X \in [Identity -> AccountRecord] /\ X[a] = z
      /\ \A i \in Identity \ {a} : X[i] = d.accounts[i]
  BY <1>3, <1>4, <1>5, <1>6
<1>8. /\ o0 \in O /\ d.operations \subseteq O /\ \A o \in O : o = o0 \/ o \in d.operations
      /\ o0.grant = t
  BY DEF Verdict
<1>9. c0 \notin d.charges /\ c0.account = a /\ c0.op = op
  <2>1. c0.account = a /\ c0.op = op
    BY DEF Charge
  <2> HIDE DEF c0
  <2> QED
    BY <2>1
<1> HIDE DEF o0, c0
<1>10. C = IF accepted THEN d.charges \union {c0} ELSE d.charges
  BY DEF ChargesWith, c0
<1> HIDE DEF O, E, C
<1>11. /\ Ledger(e) /\ e.accounts = X /\ e.grants = d.grants /\ e.operations = O
       /\ e.issued = d.issued /\ e.charges = C
  BY <1>1 DEF Booked, Ledger
<1>12. \A i \in Identity : To(e, i) = To(d, i)
  BY <1>6, <1>7, <1>11 DEF To
<1>13. Acyclic(e) /\ \A i \in Identity : Root(e, i) = Root(d, i)
  <2>1. Acyclic(d)
    BY DEF Booked, AccountsOK
  <2> QED
    BY <1>12, <2>1, RootKept
<1>14. AccountsOK(e)
  <2>1. \A i \in Identity : X[i].known = d.accounts[i].known
    BY <1>6, <1>7
  <2>2. ASSUME NEW i \in Identity, To(e, i) # None PROVE X[To(e, i)].known
    <3>1. To(d, i) \in Identity /\ d.accounts[To(d, i)].known /\ To(e, i) = To(d, i)
      BY <1>12, <2>2 DEF Booked, AccountsOK, Acyclic
    <3> QED
      BY <2>1, <3>1
  <2>3. ASSUME NEW i \in Identity, ~X[i].known PROVE X[i].spent = 0 /\ X[i].limit = 0 /\ To(e, i) = None
    <3>1. CASE i # a
      BY <1>7, <1>12, <2>3, <3>1 DEF Booked, AccountsOK
    <3>2. CASE i = a
      <4>1. x.spent = 0 /\ x.limit = 0 /\ To(d, i) = None
        BY <1>3, <1>6, <1>7, <2>3, <3>2 DEF Booked, AccountsOK
      <4>2. ~accepted
        BY <1>22, <4>1
      <4> QED
        BY <1>6, <1>7, <1>12, <3>2, <4>1, <4>2
    <3> QED
      BY <3>1, <3>2
  <2> QED
    BY <1>7, <1>11, <1>13, <2>2, <2>3 DEF AccountsOK
<1>15. GrantsOK(e)
  BY <1>2, <1>8, <1>11 DEF Booked, GrantsOK
<1>16. IsFiniteSet(d.charges) /\ \A c \in d.charges : c.account \in Identity
  BY DEF Booked, ChargesOK
<1>17. IsFiniteSet(C) /\ \A c \in C : c.account \in Identity
  BY <1>3, <1>9, <1>10, <1>16, FS_AddElement
<1>18. ASSUME NEW r \in Identity, To(e, r) = None
       PROVE  e.accounts[r].spent = Cardinality(Charges(e, r))
  <2>1. IsFiniteSet(Charges(d, r)) /\ Cardinality(Charges(d, r)) = d.accounts[r].spent
    <3>1. Charges(d, r) \subseteq d.charges
      BY DEF Charges
    <3> QED
      BY <1>12, <1>16, <1>18, <3>1, FS_Subset DEF Booked, ChargesOK
  <2>2. CASE r = a /\ accepted
    <3>1. Charges(e, r) = Charges(d, r) \union {c0}
      BY <1>3, <1>9, <1>10, <1>11, <1>13, <1>16, <2>2 DEF Charges
    <3>2. c0 \notin Charges(d, r)
      BY <1>9 DEF Charges
    <3>3. Cardinality(Charges(e, r)) = Cardinality(Charges(d, r)) + 1
      BY <2>1, <3>1, <3>2, FS_AddElement
    <3> QED
      BY <1>6, <1>7, <1>11, <2>1, <2>2, <3>3
  <2>3. CASE ~(r = a /\ accepted)
    <3>1. Charges(e, r) = Charges(d, r)
      BY <1>3, <1>9, <1>10, <1>11, <1>13, <1>16, <2>3 DEF Charges
    <3>2. e.accounts[r].spent = d.accounts[r].spent
      BY <1>6, <1>7, <1>11, <2>3
    <3> QED
      BY <2>1, <3>1, <3>2
  <2> QED
    BY <2>2, <2>3
<1>19. Booked(e)
  BY <1>11, <1>14, <1>15, <1>17, <1>18 DEF Booked, ChargesOK
<1>20. Later(d, e)
  BY <1>2, <1>8, <1>11 DEF Later
<1>21. o0 \in e.operations
  BY <1>8, <1>11
<1> QED
  BY <1>11, <1>19, <1>20, <1>21 DEF o0, C

\* A reservation. One that was charged before is known, so that it is not
\* decided again.
LEMMA ReserveBooked ==
    ASSUME NEW d0, Booked(d0), NEW rs, Len(rs) \in Nat, Lineage(rs), Remembered(d0, rs),
           NEW r \in 1..Len(rs), rs[r].kind = "reserve"
    PROVE  LET e == Reserve(d0, rs[r]).data IN Booked(e) /\ Remembered(e, rs)
<1> DEFINE q == rs[r]
           d == Prune(d0)
           t == q.token
           a == Root(d, d.grants[t].account)
           before == Decision(d, q)
           accepted == IF before # {} THEN (CHOOSE o \in before : TRUE).accepted
                       ELSE d.accounts[a].spent < d.accounts[a].limit
           c0 == Charge(q.op, a)
           C == ChargesWith(d, q.op, a, accepted)
           o0 == Verdict(t, q.op, accepted)
           new == Decided(d, t, q.op, a, accepted)
           left == IF before # {} THEN d ELSE new
           out == Granted(accepted, t, Snapshot(left, a))
           full == \/ ~GrantOK(d, t)
                   \/ before = {} /\ Cardinality(d.operations) >= OperationCapacity
<1>1. Carries(d0, d)
  BY PruneCarries
<1>2. Remembered(d, rs)
  BY <1>1, CarriesKnow
<1>3. Reserve(d0, q) = IF full THEN Refuse(d0) ELSE [data |-> left, out |-> out]
  BY <1>1 DEF Reserve, Decided, Spending, Charge, ChargesWith, Written, Carries, Booked, Ledger
<1> HIDE DEF d, a, out
<1>4. CASE full
  <2>1. Reserve(d0, q).data = d0
    <3> HIDE DEF full, left, q
    <3> QED
      BY <1>3, <1>4 DEF Refuse
  <2> HIDE DEF full, left, q
  <2> QED
    BY <2>1 DEF q
<1>5. CASE ~full /\ before # {}
  <2>1. Reserve(d0, q).data = left /\ left = d
    <3>1. left = d
      BY <1>5
    <3> HIDE DEF full, left, q
    <3> QED
      BY <1>3, <1>5, <3>1
  <2> HIDE DEF full, left, q
  <2> QED
    BY <1>1, <1>2, <2>1 DEF Carries, q
<1>6. CASE ~full /\ before = {}
  <2>1. Reserve(d0, q).data = new
    <3>1. left = new
      BY <1>6
    <3> HIDE DEF full, left, q, new
    <3> QED
      BY <1>3, <1>6, <3>1
  <2>2. t \in DOMAIN d.grants
    BY <1>6 DEF GrantOK
  <2>3. \A c \in d.charges : c.op # q.op
    <3> SUFFICES ASSUME NEW c \in d.charges, c.op = q.op PROVE FALSE
      OBVIOUS
    <3>1. Knows(d, c, t)
      BY <1>2 DEF Remembered
    <3>2. \A o \in d.operations : ~(o.grant = t /\ o.op = q.op)
      BY <1>6 DEF Decision
    <3> QED
      BY <2>2, <3>1, <3>2 DEF Knows
  <2>4. accepted \in BOOLEAN
    <3>1. a \in Identity
      <4>1. d.grants[t].account \in Identity /\ Acyclic(d)
        BY <1>1, <2>2 DEF Carries, Booked, GrantsOK, AccountsOK
      <4> QED
        BY <4>1, RootReal DEF a
    <3> QED
      BY <1>6
  <2>9. accepted => d.accounts[a].spent < d.accounts[a].limit
    BY <1>6
  <2> HIDE DEF accepted, full, left, before
  <2>5. Booked(new) /\ Later(d, new) /\ new.charges = C /\ o0 \in new.operations
    <3> DEFINE op == q.op
    <3>1. Booked(d) /\ a = Root(d, d.grants[t].account)
      BY <1>1 DEF Carries, a
    <3>2. \A c \in d.charges : c.op # op
      BY <2>3
    <3>3. new = Decided(d, t, op, a, accepted)
      BY DEF new
    <3> HIDE DEF op, t, new, C, o0, q
    <3>4. /\ Booked(new) /\ Later(d, new) /\ new.charges = ChargesWith(d, op, a, accepted)
          /\ Verdict(t, op, accepted) \in new.operations
      BY <2>2, <2>4, <2>9, <3>1, <3>2, <3>3, DecidedBooked
    <3> QED
      BY <3>4 DEF op, C, o0
  <2>6. C \subseteq d.charges \union {c0} /\ c0.op = q.op /\ o0.grant = t /\ o0.op = q.op
    BY DEF ChargesWith, Charge, Verdict
  <2> HIDE DEF new, C, c0, o0, q, t
  <2>7. q.kind = "reserve" /\ t = q.token /\ q = rs[r]
    BY DEF q, t
  <2>8. Remembered(new, rs)
    <3> SUFFICES ASSUME NEW c \in new.charges
                 PROVE  /\ c.op \in 1..Len(rs)
                        /\ \A s \in 1..Len(rs) :
                              rs[s].kind = "reserve" /\ rs[s].op = c.op
                                => Knows(new, c, rs[s].token)
      BY DEF Remembered
    <3>1. CASE c.op = q.op
      <4>1. c.op \in 1..Len(rs)
        BY <2>7, <3>1 DEF Lineage
      <4>2. ASSUME NEW s \in 1..Len(rs), rs[s].kind = "reserve", rs[s].op = c.op
            PROVE  Knows(new, c, rs[s].token)
        <5>1. rs[s].token = t
          BY <2>7, <3>1, <4>2 DEF Lineage
        <5> QED
          BY <2>5, <2>6, <3>1, <5>1 DEF Knows
      <4> QED
        BY <4>1, <4>2
    <3>2. CASE c.op # q.op
      <4>1. c \in d.charges
        BY <2>5, <2>6, <3>2
      <4>2. ASSUME NEW s \in 1..Len(rs), rs[s].kind = "reserve", rs[s].op = c.op
            PROVE  Knows(new, c, rs[s].token)
        <5>1. Knows(d, c, rs[s].token)
          BY <1>2, <4>1, <4>2 DEF Remembered
        <5>2. d.issued \in Nat /\ new.issued \in Nat /\ d.issued <= new.issued
          BY <1>1, <2>5 DEF Carries, Booked, GrantsOK, Later
        <5>3. ASSUME NEW o \in d.operations, o.grant = rs[s].token, o.op = c.op
              PROVE  Knows(new, c, rs[s].token)
          <6>1. o.grant \in 1..d.issued
            BY <1>1 DEF Carries, Booked, GrantsOK
          <6>2. o \in new.operations \/ o.grant \notin DOMAIN new.grants
            BY <2>5 DEF Later
          <6>3. o.grant \in 1..new.issued
            BY <5>2, <6>1
          <6> QED
            BY <5>3, <6>2, <6>3 DEF Knows
        <5>4. ASSUME rs[s].token \in 1..d.issued \ DOMAIN d.grants
              PROVE  Knows(new, c, rs[s].token)
          <6> DEFINE k == rs[s].token
          <6> HIDE DEF k
          <6>1. k \in 1..d.issued /\ k \notin DOMAIN d.grants
            BY <5>4 DEF k
          <6>2. k \notin DOMAIN new.grants
            BY <2>5, <5>2, <6>1 DEF Later
          <6>3. k \in 1..new.issued
            BY <5>2, <6>1
          <6> QED
            BY <6>2, <6>3 DEF Knows, k
        <5> QED
          BY <5>1, <5>3, <5>4 DEF Knows
      <4> QED
        BY <1>2, <4>1, <4>2 DEF Remembered
    <3> QED
      BY <3>1, <3>2
  <2> QED
    BY <2>1, <2>5, <2>8 DEF q
<1> QED
  BY <1>4, <1>5, <1>6

\* Whatever a handler asks of the ledger.
LEMMA OperateBooked ==
    ASSUME NEW d, Booked(d), NEW rs, Len(rs) \in Nat, Lineage(rs), Remembered(d, rs),
           NEW r \in 1..Len(rs), NEW write \in BOOLEAN,
           write => rs[r].kind \in {"authorize", "reserve", "renew", "logout"}
    PROVE  LET e == Operate(d, rs[r], write).data IN Booked(e) /\ Remembered(e, rs)
<1> DEFINE q == rs[r]
           e == Operate(d, q, write).data
<1>1. CASE ~write
  <2>1. e = d
    BY <1>1 DEF Operate, Inspect, Refuse
  <2> QED
    BY <2>1
<1>2. CASE write /\ q.kind = "authorize"
  <2>1. e = Authorize(d, q).data /\ q.act \in Act
    BY <1>2 DEF Operate, Lineage
  <2>2. Carries(d, e)
    BY <2>1, AuthorizeCarries
  <2> QED
    BY <2>2, CarriesKnow DEF Carries
<1>3. CASE write /\ q.kind = "reserve"
  <2>1. e = Reserve(d, q).data
    BY <1>3 DEF Operate
  <2> QED
    BY <1>3, <2>1, ReserveBooked
<1>4. CASE write /\ q.kind = "renew"
  <2>1. e = Renew(d, q).data
    BY <1>4 DEF Operate
  <2>2. Carries(d, e)
    BY <2>1, RenewCarries
  <2> QED
    BY <2>2, CarriesKnow DEF Carries
<1>5. CASE write /\ q.kind = "logout"
  <2>1. e = RevokeGrant(d, q).data
    BY <1>5 DEF Operate
  <2>2. Carries(d, e)
    BY <2>1, RevokeGrantCarries
  <2> QED
    BY <2>2, CarriesKnow DEF Carries
<1> QED
  BY <1>1, <1>2, <1>3, <1>4, <1>5

-----------------------------------------------------------------------------
(* The requests of a step are those before it, with what they asked, and    *)
(* maybe one more: a copy of another, or a new one.                         *)
Asking(rs, q) ==
    \/ \E y \in 1..Len(rs) : Kin(rs[y], q)
    \/ /\ q.kind = "reserve" => q.op = Len(rs) + 1
       /\ q.kind \in {"challenge", "authorize"} => q.act \in Act
Descends(rs, rs2) ==
    /\ Len(rs) \in Nat /\ Len(rs2) \in {Len(rs), Len(rs) + 1}
    /\ \A x \in 1..Len(rs) : Kin(rs[x], rs2[x])
    /\ Len(rs2) = Len(rs) + 1 => Asking(rs, rs2[Len(rs) + 1])

\* Where a request of a kind comes from: from one before, or it is the new one.
LEMMA Origin ==
    ASSUME NEW rs, NEW rs2, Descends(rs, rs2), NEW r \in 1..Len(rs2), rs2[r].kind # None
    PROVE  \/ \E y \in 1..Len(rs) : rs2[r].kind = rs[y].kind /\ SameAsk(rs[y], rs2[r])
           \/ /\ r = Len(rs) + 1
              /\ rs2[r].kind = "reserve" => rs2[r].op = Len(rs) + 1
              /\ rs2[r].kind \in {"challenge", "authorize"} => rs2[r].act \in Act
<1>1. CASE r \in 1..Len(rs)
  BY <1>1 DEF Descends, Kin
<1>2. CASE r \notin 1..Len(rs)
  <2>1. r = Len(rs) + 1 /\ Len(rs2) = Len(rs) + 1
    BY <1>2 DEF Descends
  <2> QED
    BY <2>1 DEF Descends, Asking, Kin
<1> QED
  BY <1>1, <1>2

\* So what the requests have in common stays so,
LEMMA DescendsLineage ==
    ASSUME NEW rs, NEW rs2, Lineage(rs), Descends(rs, rs2) PROVE Lineage(rs2)
<1> DEFINE n == Len(rs)
<1>1. n \in Nat /\ Len(rs2) \in {n, n + 1}
  BY DEF Descends
<1>2. ASSUME NEW r \in 1..Len(rs2), rs2[r].kind = "reserve"
      PROVE  \/ \E y \in 1..n : rs[y].kind = "reserve" /\ SameAsk(rs[y], rs2[r])
             \/ r = n + 1 /\ rs2[r].op = n + 1
  BY <1>2, Origin DEF None
<1>3. ASSUME NEW y \in 1..n, rs[y].kind = "reserve" PROVE rs[y].op \in 1..n
  BY <1>3 DEF Lineage
<1>4. ASSUME NEW r \in 1..Len(rs2), rs2[r].kind = "reserve" PROVE rs2[r].op \in 1..Len(rs2)
  BY <1>1, <1>2, <1>3, <1>4
<1>5. ASSUME NEW r \in 1..Len(rs2), rs2[r].kind \in {"challenge", "authorize"}
      PROVE  rs2[r].act \in Act
  BY <1>5, Origin DEF None, Lineage
<1>6. ASSUME NEW r \in 1..Len(rs2), NEW x \in 1..Len(rs2), rs2[r].kind = "reserve",
             rs2[x].kind = "reserve", rs2[r].op = rs2[x].op
      PROVE  rs2[r].token = rs2[x].token
  <2>1. CASE r = n + 1 /\ rs2[r].op = n + 1
    <3>1. ~(\E y \in 1..n : rs[y].kind = "reserve" /\ SameAsk(rs[y], rs2[x]))
      BY <1>1, <1>3, <1>6, <2>1
    <3> QED
      BY <1>2, <1>6, <2>1, <3>1
  <2>2. CASE x = n + 1 /\ rs2[x].op = n + 1
    <3>1. ~(\E y \in 1..n : rs[y].kind = "reserve" /\ SameAsk(rs[y], rs2[r]))
      BY <1>1, <1>3, <1>6, <2>2
    <3> QED
      BY <1>2, <1>6, <2>2, <3>1
  <2>3. CASE /\ \E y \in 1..n : rs[y].kind = "reserve" /\ SameAsk(rs[y], rs2[r])
             /\ \E y \in 1..n : rs[y].kind = "reserve" /\ SameAsk(rs[y], rs2[x])
    BY <1>6, <2>3 DEF Lineage
  <2> QED
    BY <1>2, <1>6, <2>1, <2>2, <2>3
<1> QED
  BY <1>4, <1>5, <1>6 DEF Lineage

\* and a ledger remembers what it did.
LEMMA DescendsRemembered ==
    ASSUME NEW d, NEW rs, NEW rs2, Remembered(d, rs), Lineage(rs), Descends(rs, rs2)
    PROVE  Remembered(d, rs2)
<1>1. Len(rs) \in Nat /\ Len(rs2) \in {Len(rs), Len(rs) + 1}
  BY DEF Descends
<1> SUFFICES ASSUME NEW c \in d.charges
             PROVE  /\ c.op \in 1..Len(rs2)
                    /\ \A r \in 1..Len(rs2) :
                          rs2[r].kind = "reserve" /\ rs2[r].op = c.op => Knows(d, c, rs2[r].token)
  BY DEF Remembered
<1>2. c.op \in 1..Len(rs)
  BY DEF Remembered
<1>3. c.op \in 1..Len(rs2)
  BY <1>1, <1>2
<1>4. ASSUME NEW r \in 1..Len(rs2), rs2[r].kind = "reserve", rs2[r].op = c.op
      PROVE  Knows(d, c, rs2[r].token)
  <2>1. PICK y \in 1..Len(rs) : rs[y].kind = "reserve" /\ SameAsk(rs[y], rs2[r])
    BY <1>1, <1>2, <1>4, Origin DEF None
  <2>2. Knows(d, c, rs[y].token)
    BY <1>4, <2>1 DEF Remembered
  <2> QED
    BY <2>1, <2>2
<1> QED
  BY <1>3, <1>4

-----------------------------------------------------------------------------
(* No step does anything else to the requests.                              *)

\* The same requests, further on.
LEMMA KinDescends ==
    ASSUME NEW rs, NEW rs2, Len(rs) \in Nat, Len(rs2) = Len(rs),
           \A x \in 1..Len(rs) : Kin(rs[x], rs2[x])
    PROVE  Descends(rs, rs2)
BY DEF Descends

\* One of them changes.
LEMMA OneDescends ==
    ASSUME IInv, NEW r \in Request, NEW q2, Kin(requests[r], q2),
           requests' = [requests EXCEPT ![r] = q2]
    PROVE  Descends(requests, requests')
<1>1. List(requests) /\ Request = 1..Len(requests) /\ Len(requests) \in Nat
  BY RequestsNow
<1>2. DOMAIN requests = 1..Len(requests)
  BY <1>1 DEF List
<1>3. \A x \in 1..Len(requests) : requests'[x] = IF x = r THEN q2 ELSE requests[x]
  BY <1>1, <1>2
<1>4. requests' = [x \in 1..Len(requests) |-> requests'[x]]
  BY <1>2
<1>5. Len(requests') = Len(requests)
  BY <1>1, <1>4, ListMade
<1> QED
  BY <1>1, <1>3, <1>5, KinDescends DEF Kin

\* What a request becomes when its operation is done.
LEMMA SettledKin ==
    ASSUME NEW q, IsRequest(q), NEW write, NEW out PROVE Kin(q, Settled(q, write, out))
<1> DEFINE q1 == [q EXCEPT !.out = out]
<1>1. IsRequest(q1) /\ q1.kind = q.kind /\ SameAsk(q, q1)
  BY SetOut
<1> HIDE DEF q1
<1>2. ASSUME NEW s PROVE LET q2 == [q1 EXCEPT !.stage = s] IN q2.kind = q.kind /\ SameAsk(q, q2)
  BY <1>1, SetStage
<1>3. \A s : [q EXCEPT !.out = out, !.stage = s] = [q1 EXCEPT !.stage = s]
  BY DEF q1
<1>4. Settled(q, write, out) \in {Over, [q1 EXCEPT !.stage = "inspected"], [q1 EXCEPT !.stage = "done"]}
  BY <1>3 DEF Settled
<1>5. Over.kind = None
  BY OverSound
<1> QED
  BY <1>2, <1>4, <1>5 DEF Kin

\* An operation is queued, or its request refused.
LEMMA TransactDescends ==
    ASSUME IInv, NEW r \in Request, NEW write, Transact(requests, r, write)
    PROVE  Descends(requests, requests')
<1>1. IsRequest(requests[r])
  BY RequestsNow DEF Formed
<1>2. \E q2 : Kin(requests[r], q2) /\ requests' = [requests EXCEPT ![r] = q2]
  <2>1. CASE requests' = [requests EXCEPT ![r] = Failed(@)]
    <3>1. requests' = [requests EXCEPT ![r] = Failed(requests[r])]
      BY <2>1
    <3>2. Kin(requests[r], Failed(requests[r]))
      BY <1>1, SettledKin DEF Failed
    <3> QED
      BY <3>1, <3>2
  <2>2. ASSUME NEW s, requests' = [requests EXCEPT ![r].stage = s]
        PROVE  \E q2 : Kin(requests[r], q2) /\ requests' = [requests EXCEPT ![r] = q2]
    <3> DEFINE q2 == [requests[r] EXCEPT !.stage = s]
    <3>1. requests' = [requests EXCEPT ![r] = q2]
      BY <2>2
    <3>2. q2.kind = requests[r].kind /\ SameAsk(requests[r], q2)
      BY <1>1, SetStage
    <3> HIDE DEF q2
    <3>3. Kin(requests[r], q2)
      BY <3>2 DEF Kin
    <3> QED
      BY <3>1, <3>3
  <2>3. \/ requests' = [requests EXCEPT ![r] = Failed(@)]
        \/ requests' = [requests EXCEPT ![r].stage = IF write THEN "applying" ELSE "inspecting"]
    BY DEF Transact
  <2> QED
    BY <2>1, <2>2, <2>3
<1> QED
  BY <1>2, OneDescends

\* A page hangs up.
LEMMA HangupDescends ==
    ASSUME IInv, NEW gone, requests' = Hangup(requests, gone)
    PROVE  Descends(requests, requests')
<1>1. List(requests) /\ Len(requests) \in Nat /\ \A r \in 1..Len(requests) : Sound(requests[r], disk.ever)
  BY RequestsNow
<1> DEFINE E == disk.ever
<1>2. \A r \in 1..Len(requests) : Sound(requests[r], E)
  BY <1>1
<1> HIDE DEF E
<1>3. /\ Len(requests') = Len(requests)
      /\ \A r \in 1..Len(requests) : Kin(requests[r], requests'[r])
  BY <1>1, <1>2, HangupKeeps
<1> QED
  BY <1>1, <1>3, KinDescends

\* A page sends a request.
LEMMA ArrivesDescends ==
    ASSUME IInv, NEW q, NEW gone, Formed(q), q.stage = "new",
           q.kind \in Asked \union {"challenge", "authorize"}, CanPost, Arrives(q, gone),
           Asking(requests, q)
    PROVE  Descends(requests, requests')
<1>1. /\ Served /\ Len(requests') = Len(requests) + 1
      /\ Kin(q, requests'[Len(requests) + 1])
  BY ArrivesServes
<1>2. Len(requests) \in Nat /\ Request = 1..Len(requests)
  BY RequestsNow
<1>3. \A x \in 1..Len(requests) : Kin(requests[x], requests'[x])
  BY <1>1, <1>2 DEF Served
<1> DEFINE q2 == requests'[Len(requests) + 1]
<1>4. Asking(requests, q2)
  <2>1. Kin(q, q2)
    BY <1>1
  <2> HIDE DEF q2
  <2> QED
    BY <2>1 DEF Asking, Kin, None
<1> QED
  BY <1>1, <1>2, <1>3, <1>4 DEF Descends

\* So it is with what the pages do by themselves,
LEMMA SendDescends ==
    ASSUME IInv, NEW p, NEW kind \in Asked \union {"challenge", "authorize"}, NEW act,
           NEW challenge, NEW token, NEW op, kind = "reserve" => op = NextOp, NEW pg, NEW gone,
           kind \in {"challenge", "authorize"} => act \in Act,
           Sends(p, pg, gone, Post(p, kind, act, challenge, token, op))
    PROVE  Descends(requests, requests')
<1> DEFINE q == Post(p, kind, act, challenge, token, op)
<1>1. CanPost /\ Arrives(q, gone)
  BY DEF Sends
<1>2. NextOp \in 1..MaxPosts
  BY <1>1, RequestsNow, BudgetAssumption DEF NextOp, CanPost
<1>3. Formed(q) /\ q.stage = "new" /\ q.kind = kind
  BY <1>2, PostFormed
<1>4. q.act = act /\ q.op = op
  BY DEF Post
<1> HIDE DEF q
<1>5. Asking(requests, q)
  BY <1>3, <1>4 DEF Asking, NextOp
<1> QED
  BY <1>1, <1>3, <1>5, ArrivesDescends

LEMMA PageStepDescends ==
    ASSUME IInv, NEW p \in Pages, PageStep(p) PROVE Descends(requests, requests')
<1>1. ASSUME NEW act \in OwnerActs[p], OwnerAction(p, act) PROVE Descends(requests, requests')
  <2>1. act \in Act
    BY <1>1 DEF Act
  <2> QED
    BY <1>1, <2>1, SendDescends DEF OwnerAction
<1>2. CASE ReserveBytes(p)
  BY <1>2, SendDescends DEF ReserveBytes, Asked
<1>3. CASE Maintain(p)
  <2>1. PICK kind \in {"status", "renew"} :
           Sends(p, page[p], {}, Post(p, kind, NoAct, 0, page[p].cred, NextOp))
    BY <1>3 DEF Maintain
  <2> QED
    BY <2>1, SendDescends DEF Asked
<1>4. CASE Disconnect(p)
  BY <1>4, SendDescends DEF Disconnect, Asked
<1>5. CASE Suspend(p)
  BY <1>5, RequestsNow, KinDescends DEF Suspend, Kin
<1> QED
  BY <1>1, <1>2, <1>3, <1>4, <1>5 DEF PageStep

\* with the answers they get, and with what the browser sends again.
LEMMA ReceiveDescends ==
    ASSUME IInv, Lineage(requests), NEW r, Receive(r) PROVE Descends(requests, requests')
<1>1. CASE \E gone : requests' = Hangup(requests, gone)
  BY <1>1, HangupDescends
<1>2. CASE /\ \E p, pg, gone :
                 Sends(p, pg, gone, Post(p, "authorize", requests[r].act, r, 0, 0))
           /\ requests[r].kind = "challenge" /\ admitted' = admitted
  <2>1. requests[r].act \in Act
    BY <1>2 DEF Lineage, Receive, Awaited, Request
  <2> QED
    BY <1>2, <2>1, SendDescends
<1> QED
  BY <1>1, <1>2, ReceiveMoves

LEMMA ResendDescends ==
    ASSUME IInv, NEW r, Resend(r) PROVE Descends(requests, requests')
<1> DEFINE q0 == requests[r]
           q1 == [q0 EXCEPT !.stage = "new"]
           q2 == [q1 EXCEPT !.open = TRUE]
           q == [q2 EXCEPT !.out = Refused]
<1>1. Formed(q0) /\ q0.page # 0 /\ r \in 1..Len(requests)
  BY RequestsNow DEF Resend, Awaited
<1>2. CanPost /\ Arrives(q, {r})
  BY DEF Resend
<1> HIDE DEF q0
<1>3. /\ IsRequest(q1) /\ q1.kind = q0.kind /\ SameAsk(q0, q1) /\ q1.page = q0.page
      /\ q1.stage = "new"
  <2>1. IsRequest(q0)
    BY <1>1 DEF Formed
  <2> QED
    BY <2>1, SetStage
<1> HIDE DEF q1
<1>4. /\ IsRequest(q2) /\ q2.kind = q0.kind /\ SameAsk(q0, q2) /\ q2.page = q0.page
      /\ q2.stage = "new"
  BY <1>3, SetOpen
<1> HIDE DEF q2
<1>5. /\ IsRequest(q) /\ q.kind = q0.kind /\ SameAsk(q0, q) /\ q.page = q0.page
      /\ q.stage = "new"
  BY <1>4, SetOut
<1> HIDE DEF q
<1>6. Formed(q) /\ q.kind \in Asked \union {"challenge", "authorize"}
  BY <1>1, <1>5 DEF Formed
<1>7. Asking(requests, q)
  BY <1>1, <1>5 DEF Asking, Kin, q0
<1> QED
  BY <1>2, <1>5, <1>6, <1>7, ArrivesDescends

\* The handlers,
LEMMA HandlerDescends ==
    ASSUME IInv, NEW r, Resolved(r) \/ Inspected(r) PROVE Descends(requests, requests')
<1> DEFINE q == requests[r]
           q2 == [q EXCEPT !.stage = "done"]
<1>1. r \in Request
  BY DEF Resolved, Inspected
<1>2. IsRequest(q)
  BY <1>1, RequestsNow DEF Formed
<1>3. Kin(q, Failed(q)) /\ Kin(q, q2)
  <2>1. Kin(q, Failed(q))
    BY <1>2, SettledKin DEF Failed
  <2>2. q2.kind = q.kind /\ SameAsk(q, q2)
    BY <1>2, SetStage
  <2> HIDE DEF q2
  <2> QED
    BY <2>1, <2>2 DEF Kin
<1>4. \/ Transact(requests, r, TRUE)
      \/ requests' = [requests EXCEPT ![r] = Failed(q)]
      \/ requests' = [requests EXCEPT ![r] = q2]
  BY DEF Resolved, Inspected
<1> HIDE DEF q2
<1> QED
  BY <1>1, <1>3, <1>4, TransactDescends, OneDescends

\* the loop and its writes,
LEMMA RunDescends ==
    ASSUME IInv, RunEntry PROVE Descends(requests, requests')
<1> DEFINE e == Head(batch)
           q == requests[e.request]
<1>1. batch # <<>>
  BY DEF RunEntry, IInv, PhaseOK
<1>2. e.request \in 1..Len(requests) /\ Len(requests) \in Nat
  BY <1>1, RunCharging, RequestsNow
<1>3. IsRequest(q)
  BY <1>2, RequestsNow DEF Formed
<1>4. requests' = requests \/ \E w, out : requests' = [requests EXCEPT ![e.request] = Settled(q, w, out)]
  BY DEF RunEntry
<1> HIDE DEF e
<1>5. CASE requests' = requests
  BY <1>2, <1>5, KinDescends DEF Kin
<1>6. ASSUME NEW w, NEW out, requests' = [requests EXCEPT ![e.request] = Settled(q, w, out)]
      PROVE  Descends(requests, requests')
  <2>1. Kin(q, Settled(q, w, out))
    BY <1>3, SettledKin
  <2> QED
    BY <1>2, <1>6, <2>1, RequestsNow, OneDescends
<1> QED
  BY <1>4, <1>5, <1>6

LEMMA ReleaseDescends ==
    ASSUME IInv, NEW written, Release(written) PROVE Descends(requests, requests')
<1>1. /\ Len(requests) \in Nat /\ Request = 1..Len(requests)
      /\ \A r \in 1..Len(requests) : IsRequest(requests[r])
  BY RequestsNow DEF Formed
<1>2. /\ requests' = [r \in 1..Len(requests) |-> requests'[r]]
      /\ \A r \in 1..Len(requests) :
            requests'[r] = requests[r] \/ \E w, out : requests'[r] = Settled(requests[r], w, out)
  <2> DEFINE H(r) == CHOOSE h \in {held[k] : k \in DOMAIN held} : h.entry.request = r
             F(r) == IF \E k \in DOMAIN held : held[k].entry.request = r
                     THEN Settled(requests[r], H(r).entry.write, IF written THEN H(r).out ELSE Refused)
                     ELSE requests[r]
  <2>1. requests' = [r \in Request |-> F(r)]
    BY DEF Release
  <2>2. \A r : F(r) = requests[r] \/ \E w, out : F(r) = Settled(requests[r], w, out)
    OBVIOUS
  <2> HIDE DEF F
  <2> QED
    BY <1>1, <2>1, <2>2
<1>3. Len(requests') = Len(requests)
  BY <1>1, <1>2, ListMade
<1>4. \A r \in 1..Len(requests) : Kin(requests[r], requests'[r])
  BY <1>1, <1>2, SettledKin DEF Kin
<1> QED
  BY <1>1, <1>3, <1>4, KinDescends

\* and the end of the server.
LEMMA EndDescends ==
    ASSUME IInv, Stop \/ Crash PROVE Descends(requests, requests')
<1>1. /\ Len(requests) \in Nat /\ Request = 1..Len(requests)
      /\ \A r \in 1..Len(requests) : IsRequest(requests[r])
  BY RequestsNow DEF Formed
<1>2. /\ requests' = [r \in 1..Len(requests) |-> requests'[r]]
      /\ \A r \in 1..Len(requests) :
            LET q2 == [requests[r] EXCEPT !.open = FALSE]
            IN  requests'[r] = q2 \/ requests'[r] = Failed(q2)
  BY <1>1 DEF Stop, Crash
<1>3. Len(requests') = Len(requests)
  BY <1>1, <1>2, ListMade
<1>4. ASSUME NEW r \in 1..Len(requests) PROVE Kin(requests[r], requests'[r])
  <2> DEFINE q2 == [requests[r] EXCEPT !.open = FALSE]
  <2>1. IsRequest(q2) /\ q2.kind = requests[r].kind /\ SameAsk(requests[r], q2)
    BY <1>1, SetOpen
  <2>2. requests'[r] = q2 \/ requests'[r] = Failed(q2)
    BY <1>2
  <2> HIDE DEF q2
  <2>3. Kin(q2, Failed(q2))
    BY <2>1, SettledKin DEF Failed
  <2> QED
    BY <2>1, <2>2, <2>3 DEF Kin
<1> QED
  BY <1>1, <1>3, <1>4, KinDescends

LEMMA NextDescends ==
    ASSUME IInv, Lineage(requests), [Next]_vars PROVE Descends(requests, requests')
<1>1. CASE requests' = requests
  BY <1>1, RequestsNow, KinDescends DEF Kin
<1>2. ASSUME NEW r, Resolved(r) \/ Inspected(r) \/ Receive(r) \/ Resend(r)
      PROVE  Descends(requests, requests')
  BY <1>2, HandlerDescends, ReceiveDescends, ResendDescends
<1>3. ASSUME NEW r, GiveUp(r) PROVE Descends(requests, requests')
  BY <1>3, HangupDescends DEF GiveUp
<1>4. ASSUME NEW p \in Pages, PageStep(p) PROVE Descends(requests, requests')
  BY <1>4, PageStepDescends
<1>5. CASE RunEntry \/ WriteDone \/ WriteFails
  BY <1>5, RunDescends, ReleaseDescends DEF WriteDone, WriteFails
<1>6. CASE Stop \/ Crash
  BY <1>6, EndDescends
<1>7. CASE TakeBatch \/ DrainEnds \/ Closing \/ Restart
           \/ (\E c \in challenges : ExpireChallenge(c)) \/ (\E t \in Token : Expires(t))
  BY <1>1, <1>7 DEF TakeBatch, DrainEnds, Closing, HandlersEnd, Closed, Restart, ExpireChallenge, Expires
<1>8. CASE UNCHANGED vars
  BY <1>1, <1>8 DEF vars
<1> QED
  BY <1>2, <1>3, <1>4, <1>5, <1>6, <1>7, <1>8 DEF Next, Outside

-----------------------------------------------------------------------------
(* The books are in order in all three copies of the ledger.                *)
InOrder(d) == Booked(d) /\ Remembered(d, requests)
BooksInv == Lineage(requests) /\ InOrder(disk) /\ InOrder(state) /\ InOrder(working)

\* As long as no batch runs, the copies are exchanged only.
LEMMA LedgersMove ==
    ASSUME IInv, [Next]_vars
    PROVE  /\ {disk', state'} \subseteq {disk, state, working}
           /\ \/ working' \in {disk, state, working}
              \/ batch # <<>> /\ working' = Run(Head(batch)).data
<1>1. CASE RunEntry
  BY <1>1 DEF RunEntry, IInv, PhaseOK
<1>2. CASE TakeBatch \/ DrainEnds \/ WriteDone \/ WriteFails \/ Crash \/ Restart
  BY <1>2 DEF TakeBatch, DrainEnds, WriteDone, WriteFails, Crash, Restart
<1>3. CASE UNCHANGED <<disk, state, working>>
  BY <1>3
<1>4. ASSUME NEW r, Resolved(r) \/ Inspected(r) \/ Receive(r) \/ Resend(r) \/ GiveUp(r)
      PROVE  UNCHANGED <<disk, state, working>>
  BY <1>4 DEF Resolved, Inspected, Receive, Resend, GiveUp, ledgerAside, serverUnchanged
<1>5. ASSUME NEW p, PageStep(p) PROVE UNCHANGED <<disk, state, working>>
  BY <1>5 DEF PageStep, OwnerAction, ReserveBytes, Maintain, Disconnect, Suspend, ledgerAside,
              serverUnchanged
<1>6. CASE (\E c \in challenges : ExpireChallenge(c)) \/ (\E t \in Token : Expires(t))
           \/ Stop \/ Closing \/ UNCHANGED vars
  BY <1>6 DEF ExpireChallenge, Expires, Stop, Closing, HandlersEnd, Closed, vars, ledgerVars
<1> QED
  BY <1>1, <1>2, <1>3, <1>4, <1>5, <1>6 DEF Next, Outside

\* An entry of the batch.
LEMMA RunInOrder ==
    ASSUME IInv, BooksInv, batch # <<>>
    PROVE  InOrder(Run(Head(batch)).data)
<1> DEFINE e == Head(batch)
           q == requests[e.request]
<1>1. e \in Entry /\ e.request \in 1..Len(requests) /\ Len(requests) \in Nat
  BY RunCharging, RequestsNow
<1>2. e.write \in BOOLEAN
  BY <1>1 DEF Entry
<1>3. e.write => q.kind \in {"authorize", "reserve", "renew", "logout"}
  <2>1. Queued(waiting, batch, HeldEntries, requests) /\ Sound(q, disk.ever)
    BY <1>1, RequestsNow
  <2>2. batch \in Seq(Entry)
    BY <2>1 DEF Queued
  <2>3. e = batch[1] /\ 1 \in DOMAIN batch
    BY <2>2, TailEntries
  <2> HIDE DEF e
  <2>4. requests[batch[1].request].stage = Due(batch[1])
    BY <2>1, <2>3, QueuedStage
  <2> QED
    BY <2>1, <2>3, <2>4 DEF Due, Sound, Fitting
<1>4. Run(e).data = working \/ Run(e).data = Operate(working, q, e.write).data
  BY DEF Run, Refuse
<1> HIDE DEF e
<1>5. InOrder(working) /\ Lineage(requests)
  BY DEF BooksInv
<1>6. Booked(working) /\ Remembered(working, requests)
  BY <1>5 DEF InOrder
<1> DEFINE d == Operate(working, requests[e.request], e.write).data
<1>7. Booked(d) /\ Remembered(d, requests)
  BY <1>1, <1>2, <1>3, <1>5, <1>6, OperateBooked
<1> HIDE DEF d
<1>8. Run(e).data = working \/ Run(e).data = d
  BY <1>4 DEF d
<1> QED
  BY <1>5, <1>7, <1>8 DEF InOrder, e

\* A ledger is as its requests were told to leave it.
LEMMA OrderKept ==
    ASSUME NEW d, InOrder(d), Lineage(requests), Descends(requests, requests')
    PROVE  Booked(d) /\ Remembered(d, requests')
BY DescendsRemembered DEF InOrder

LEMMA NextBooks ==
    ASSUME IInv, BooksInv, [Next]_vars PROVE BooksInv'
<1>1. Descends(requests, requests') /\ Lineage(requests)
  BY NextDescends DEF BooksInv
<1>2. Lineage(requests')
  BY <1>1, DescendsLineage
<1>3. InOrder(disk) /\ InOrder(state) /\ InOrder(working)
  BY DEF BooksInv
<1>4. InOrder(disk') /\ InOrder(state') /\ InOrder(working')
  BY <1>3, LedgersMove, RunInOrder
<1>5. \A d \in {disk', state', working'} : Booked(d) /\ Remembered(d, requests')
  BY <1>1, <1>4, OrderKept
<1> QED
  BY <1>2, <1>5 DEF BooksInv, InOrder

\* The ledger of the start, on which every page holds a grant.
LEMMA InitBooks == Init => BooksInv
<1> SUFFICES ASSUME Init PROVE BooksInv
  OBVIOUS
<1>1. PICK owner \in [Pages -> Identity] :
         LET first == [accounts |-> [i \in Identity |->
                                       IF \E p \in Pages : owner[p] = i THEN NewAccount ELSE NoAccount],
                       grants |-> [p \in Pages |->
                          [account |-> owner[p], page |-> p, web |-> owner[p] \in Web,
                           epoch |-> 1, revoked |-> FALSE, first |-> p,
                           renewal |-> [op |-> 0, token |-> 0]]],
                       operations |-> {}, issued |-> PageCount,
                       charges |-> {}, ever |-> {}]
         IN  disk = first /\ state = first /\ working = first
  BY DEF Init
<1> DEFINE A == [i \in Identity |-> IF \E p \in Pages : owner[p] = i THEN NewAccount ELSE NoAccount]
           G == [p \in Pages |->
                   [account |-> owner[p], page |-> p, web |-> owner[p] \in Web,
                    epoch |-> 1, revoked |-> FALSE, first |-> p,
                    renewal |-> [op |-> 0, token |-> 0]]]
<1>2. /\ Ledger(disk) /\ state = disk /\ working = disk /\ requests = <<>>
      /\ disk.accounts = A /\ disk.grants = G /\ disk.operations = {} /\ disk.issued = PageCount
      /\ disk.charges = {}
  BY <1>1 DEF Ledger, Init
<1>3. /\ A \in [Identity -> AccountRecord]
      /\ \A i \in Identity : A[i].aliasTo = None /\ A[i].spent = 0 /\ (~A[i].known => A[i].limit = 0)
  <2>1. NoAccount \in AccountRecord /\ NoAccount.spent = 0 /\ NoAccount.limit = 0 /\ NoAccount.aliasTo = None
    BY DEF NoAccount, AccountRecord
  <2> QED
    BY <2>1, NewAccountIs
<1>4. /\ DOMAIN G = Pages /\ G = [t \in DOMAIN G |-> G[t]]
      /\ \A t \in Pages : DOMAIN G[t] = GrantFields /\ G[t].account \in Identity
  BY DEF GrantFields
<1> HIDE DEF A, G
<1>5. \A i \in Identity : To(disk, i) = None
  BY <1>2, <1>3 DEF To
<1>6. AccountsOK(disk)
  <2>1. Acyclic(disk)
    BY <1>5, BudgetAssumption DEF Acyclic
  <2> QED
    BY <1>2, <1>3, <1>5, <2>1 DEF AccountsOK
<1>7. GrantsOK(disk)
  BY <1>2, <1>4, BudgetAssumption DEF GrantsOK, Pages
<1>8. ChargesOK(disk)
  <2>1. \A a \in Identity : Charges(disk, a) = {}
    BY <1>2 DEF Charges
  <2> QED
    BY <1>2, <1>3, <2>1, FS_EmptySet DEF ChargesOK
<1>9. Lineage(<<>>) /\ Remembered(disk, <<>>)
  BY <1>2 DEF Lineage, Remembered
<1>10. Booked(disk) /\ Remembered(disk, requests) /\ Lineage(requests)
  BY <1>2, <1>6, <1>7, <1>8, <1>9 DEF Booked
<1> QED
  BY <1>2, <1>10 DEF BooksInv, InOrder

\* What an account has spent, on disk and in memory, is what was charged to it
\* and to the accounts that it took over since its last reset: no retry, renewal,
\* link, failed write, crash or restart charges twice or forgets (reserve, and
\* authorize with a link or settings).
THEOREM SpendingIsCharged == Spec => []SpentIsCharged
<1>1. IInv /\ BooksInv => SpentIsCharged
  BY BookedBalanced DEF BooksInv, InOrder, SpentIsCharged
<1>2. IInv /\ BooksInv /\ [Next]_vars => IInv' /\ BooksInv'
  BY NextInv, NextBooks
<1> QED
  BY <1>1, <1>2, InitInv, InitBooks, PTL DEF Spec
=============================================================================
