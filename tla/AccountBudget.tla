--------------------------- MODULE AccountBudget ----------------------------
(* The account upload allowance: a durable ledger that writes in batches    *)
(* (src/account-upload-budget.mjs), the HTTP handlers in front of it        *)
(* (demo/account-budget.mjs) and the pages that reserve bytes with it       *)
(* (demo/account-budget-client.mjs). Requests are answered late, dropped    *)
(* and sent again by the browser, writes fail, the server stops or dies.    *)
(* A reservation is of one unit.                                            *)
EXTENDS Integers, Sequences, FiniteSets

CONSTANTS
    PageCount,                  \* pages, each with a signing key of its own
    Nostr, Web,                 \* identities of the two methods
    DefaultLimit,               \* of a new account, in units
    OwnerActs,                  \* what its owner may ask of each page
    MutationCapacity,           \* operations the ledger lets wait
    OperationCapacity,          \* reservations the ledger remembers
    GrantCapacity,              \* grants it remembers
    MaxPosts,                   \* bound: requests sent
    MaxFaults                   \* bound: crashes, stops, failed writes, broken
                                \* connections, resends, expiries and suspensions

Pages == 1..PageCount
Identity == Nostr \union Web
None == "none"

ASSUME BudgetAssumption ==
    /\ Nostr \intersect Web = {} /\ None \notin Identity
    /\ DefaultLimit \in Nat
    /\ {PageCount, MutationCapacity, OperationCapacity, GrantCapacity} \subseteq Nat \ {0}
    /\ {MaxPosts, MaxFaults} \subseteq Nat

\* An owner signs in with an identity at least; a link is of two.
ASSUME ActAssumption ==
    OwnerActs \in [Pages -> SUBSET
        {act \in [kind : {"grant", "settings", "link"}, ids : Seq(Identity), limit : Nat,
                  reset : BOOLEAN] :
            act.ids # <<>> /\ (act.kind = "link" => Len(act.ids) = 2)}]

-----------------------------------------------------------------------------
(* The ledger. Tokens number the grants as they are issued. An account is   *)
(* named by the identity it was made for; `charges` keeps, beside the sums  *)
(* of the code, which reservation was charged to which account since its    *)
(* last reset, and `ever` all of them.                                      *)
NoAccount == [known |-> FALSE, limit |-> 0, spent |-> 0, revision |-> 0,
              generation |-> 0, aliasTo |-> None]
NewAccount == [NoAccount EXCEPT !.known = TRUE, !.limit = DefaultLimit,
                                !.revision = 1, !.generation = 1]
Alias(id) == [NoAccount EXCEPT !.known = TRUE, !.aliasTo = id]

Root(d, id) ==
    LET follow[i \in Identity] ==
            IF d.accounts[i].aliasTo = None THEN i ELSE follow[d.accounts[i].aliasTo]
    IN  follow[id]

Snapshot(d, id) ==
    LET a == d.accounts[Root(d, id)]
    IN  [limit |-> a.limit, spent |-> a.spent, revision |-> a.revision,
         generation |-> a.generation]
NoSnapshot == [limit |-> 0, spent |-> 0, revision |-> 0, generation |-> 0]

Refused == [ok |-> FALSE, accepted |-> FALSE, token |-> 0, snap |-> NoSnapshot]
Granted(accepted, token, snap) ==
    [ok |-> TRUE, accepted |-> accepted, token |-> token, snap |-> snap]

\* An operation leaves the ledger it was given, or a changed one.
Refuse(d) == [data |-> d, out |-> Refused]

-----------------------------------------------------------------------------
VARIABLES
    disk,                       \* the ledger as last written
    server,                     \* "up", "stopping", "closing" or "down"
    state, working,             \* the ledger in memory; the batch's copy
    broken,                     \* a write has failed
    drain,                      \* "off", "loop" (begins), "batch", "write", "ending"
    waiting, batch,             \* entries queued; of the batch, yet to be run
    held,                       \* outcomes that wait for the batch's write
    writes,                     \* the batch has changed the ledger
    challenges,                 \* challenge requests answered and not used
    requests,                   \* every request sent, in order
    page,                       \* what each page holds
    admitted,                   \* reservations a page was told to use
    expired,                    \* grants whose time is over
    used,                       \* history: challenges that authorised something
    faults

ledgerVars == <<state, working, broken, drain, waiting, batch, held, writes>>
pageVars == <<page, admitted>>
vars == <<disk, server, ledgerVars, challenges, requests, pageVars, expired, used, faults>>

Request == 1..Len(requests)
Token == 1..(PageCount + MaxPosts)

GrantOK(d, t) ==
    /\ t \in DOMAIN d.grants
    /\ ~d.grants[t].revoked
    /\ t \notin expired
    /\ d.accounts[Root(d, d.grants[t].account)].revision = d.grants[t].epoch

\* Only what no valid grant can name is forgotten (half a minute after it
\* expired, which only the capacities could tell).
Prune(d) ==
    LET kept == DOMAIN d.grants \ expired
    IN  [d EXCEPT !.grants = [t \in kept |-> d.grants[t]],
                  !.operations = {o \in @ : o.grant \in kept}]

Issue(d, acct, owner, web, first) ==
    LET t == d.issued + 1
    IN  [d EXCEPT !.issued = t,
           !.grants = [x \in DOMAIN @ \union {t} |->
              IF x # t THEN @[x]
              ELSE [account |-> acct, page |-> owner, web |-> web,
                    epoch |-> d.accounts[acct].revision, revoked |-> FALSE,
                    first |-> IF first = 0 THEN t ELSE first,
                    renewal |-> [op |-> 0, token |-> 0]]]]

GrantsFull(d) == Cardinality(DOMAIN d.grants) >= GrantCapacity

Revoke(d, tokens) ==
    [d EXCEPT !.grants = [t \in DOMAIN d.grants |->
                            [d.grants[t] EXCEPT !.revoked = @ \/ t \in tokens]]]

\* With a mistake: a linked account forgets what the other one spent.
MergeForgetting(d, a, o) ==
    [d EXCEPT !.accounts[a].limit = IF d.accounts[o].limit < @ THEN d.accounts[o].limit ELSE @,
              !.accounts[a].revision = @ + 1, !.accounts[a].generation = @ + 1,
              !.accounts[o] = Alias(a)]

\* Two accounts become one: its spending the sum, its limit the lower.
Merge(d, a, o) ==
    LET x == d.accounts[a]
        y == d.accounts[o]
        Higher(i, j) == IF i > j THEN i ELSE j
    IN  [d EXCEPT
           !.accounts[a] = [x EXCEPT !.spent = x.spent + y.spent,
                                     !.limit = IF y.limit < x.limit THEN y.limit ELSE x.limit,
                                     !.revision = Higher(x.revision, y.revision) + 1,
                                     !.generation = Higher(x.generation, y.generation) + 1],
           !.accounts[o] = Alias(a)]

Link(d, ids) ==
    LET a == Root(d, ids[1])
        o == Root(d, ids[2])
    IN  IF a # o THEN Merge(d, a, o) ELSE [d EXCEPT !.accounts[a].revision = @ + 1]

ApplySettings(d, a, act) ==
    LET x == d.accounts[a]
    IN  [d EXCEPT
           !.accounts[a] = [x EXCEPT !.limit = act.limit, !.revision = x.revision + 1,
                                     !.spent = IF act.reset THEN 0 ELSE x.spent,
                                     !.generation = x.generation + (IF act.reset THEN 1 ELSE 0)],
           !.charges = IF act.reset THEN {c \in @ : Root(d, c.account) # a} ELSE @]

\* A grant for an owner's identities, after the link or settings asked for,
\* which end every other grant of the account.
Authorize(d0, q) ==
    LET ids == q.act.ids
        d1 == [Prune(d0) EXCEPT !.accounts =
                 [i \in Identity |-> IF ~@[i].known /\ \E k \in DOMAIN ids : ids[k] = i
                                     THEN NewAccount ELSE @[i]]]
        d2 == IF q.act.kind = "link" THEN Link(d1, ids) ELSE d1
        a == Root(d2, ids[1])
        d3 == IF q.act.kind = "settings" THEN ApplySettings(d2, a, q.act) ELSE d2
        same == {t \in DOMAIN d3.grants : Root(d3, d3.grants[t].account) = a}
        d4 == IF q.act.kind = "grant" THEN d3 ELSE Revoke(d3, same)
        webs == {ids[k] : k \in DOMAIN ids} \intersect Web
        d5 == Issue(d4, a, q.page, webs # {}, 0)
    IN  IF GrantsFull(d4) THEN Refuse(d0)
        ELSE [data |-> d5, out |-> Granted(TRUE, d5.issued, Snapshot(d5, a))]

Decision(d, q) ==
    {o \in d.operations : o.grant = q.token /\ o.op = q.op}

Reserve(d0, q) ==
    LET d == Prune(d0)
        a == Root(d, d.grants[q.token].account)
        before == Decision(d, q)
        accepted == IF before # {} THEN (CHOOSE o \in before : TRUE).accepted
                    ELSE d.accounts[a].spent < d.accounts[a].limit
        charge == [op |-> q.op, account |-> a]
        new == [d EXCEPT
                  !.operations = @ \union {[grant |-> q.token, op |-> q.op, accepted |-> accepted]},
                  !.accounts[a].spent = IF accepted THEN @ + 1 ELSE @,
                  !.charges = IF accepted THEN @ \union {charge} ELSE @,
                  !.ever = IF accepted THEN @ \union {q.op} ELSE @]
        left == IF before # {} THEN d ELSE new
    IN  IF \/ ~GrantOK(d, q.token)
           \/ before = {} /\ Cardinality(d.operations) >= OperationCapacity
        THEN Refuse(d0)
        ELSE [data |-> left, out |-> Granted(accepted, q.token, Snapshot(left, a))]

\* A renewal retried with its operation gets the grant it got before.
Renew(d0, q) ==
    LET d == Prune(d0)
        g == d.grants[q.token]
        n == Issue(d, Root(d, g.account), g.page, g.web, g.first)
        new == [n EXCEPT !.grants[q.token].renewal = [op |-> q.op, token |-> n.issued]]
        next == IF g.renewal.op = 0 THEN n.issued ELSE g.renewal.token
        left == IF g.renewal.op = 0 THEN new ELSE d
    IN  IF \/ ~GrantOK(d, q.token)
           \/ g.renewal.op = 0 /\ GrantsFull(d)
           \/ g.renewal.op # 0 /\ (g.renewal.op # q.op \/ ~GrantOK(d, g.renewal.token))
        THEN Refuse(d0)
        ELSE [data |-> left, out |-> Granted(TRUE, next, Snapshot(left, g.account))]

\* A page that disconnects ends its delegation, with every renewal of it.
RevokeGrant(d0, q) ==
    LET d == Prune(d0)
        g == d.grants[q.token]
        same == {t \in DOMAIN d.grants : /\ Root(d, d.grants[t].account) = Root(d, g.account)
                                        /\ d.grants[t].first = g.first}
    IN  IF ~GrantOK(d, q.token) THEN Refuse(d0)
        ELSE [data |-> Revoke(d, same), out |-> Granted(TRUE, 0, NoSnapshot)]

Inspect(d, q) ==
    IF ~GrantOK(d, q.token) THEN Refuse(d)
    ELSE [data |-> d, out |-> Granted(TRUE, q.token, Snapshot(d, d.grants[q.token].account))]

Operate(d, q, write) ==
    IF ~write THEN Inspect(d, q)
    ELSE CASE q.kind = "authorize" -> Authorize(d, q)
           [] q.kind = "reserve" -> Reserve(d, q)
           [] q.kind = "renew" -> Renew(d, q)
           [] q.kind = "logout" -> RevokeGrant(d, q)

-----------------------------------------------------------------------------
(* The ledger's queue. Operations run one at a time, each on its own copy;  *)
(* once one of a batch has changed the ledger, every later outcome waits    *)
(* for the write.                                                           *)
NoAct == [kind |-> None, ids |-> <<>>, limit |-> 0, reset |-> FALSE]

Post(p, kind, act, challenge, token, op) ==
    [page |-> p, kind |-> kind, act |-> act, challenge |-> challenge, token |-> token,
     op |-> op, open |-> TRUE, stage |-> "new", out |-> Refused]

\* A request that is through and whose answer nobody waits for.
Over == [Post(0, None, NoAct, 0, 0, 0) EXCEPT !.stage = "done", !.open = FALSE]

\* What the handler that waits for an operation does with its outcome: after
\* the grant was inspected it goes on, unless it was refused.
Settled(q, write, out) ==
    IF ~write /\ out.ok THEN [q EXCEPT !.out = out, !.stage = "inspected"]
    ELSE IF q.page = 0 THEN Over
    ELSE [q EXCEPT !.out = out, !.stage = "done"]

Failed(q) == Settled(q, TRUE, Refused)

Pending == Len(waiting) + Len(batch) + Len(held)

\* Queue an operation of request r, or refuse it at once.
Transact(rs, r, write) ==
    IF broken \/ Pending >= MutationCapacity
    THEN /\ requests' = [rs EXCEPT ![r] = Failed(@)]
         /\ UNCHANGED <<waiting, drain>>
    ELSE /\ requests' = [rs EXCEPT ![r].stage = IF write THEN "applying" ELSE "inspecting"]
         /\ waiting' = Append(waiting, [request |-> r, write |-> write])
         /\ drain' = IF drain = "off" THEN "loop" ELSE drain

Running == server # "down"

\* The loop takes what waits as its next batch, or it has emptied, and an
\* operation may arrive before that is marked.
LoopAgain ==
    /\ drain' = IF waiting = <<>> THEN "ending" ELSE "batch"
    /\ batch' = waiting /\ waiting' = <<>> /\ writes' = FALSE

TakeBatch ==
    /\ Running /\ drain = "loop"
    /\ LoopAgain
    /\ working' = state
    /\ UNCHANGED <<disk, server, state, broken, held, challenges, requests, pageVars,
                   expired, used, faults>>

\* What becomes of an entry: its operation is done on the batch's copy, unless
\* its request was given up meanwhile.
Run(e) ==
    LET q == requests[e.request]
    IN  IF broken \/ ~q.open THEN Refuse(working) ELSE Operate(working, q, e.write)

\* With the last entry of a batch, its write begins, if there is any.
NextEntry(changed) ==
    IF Len(batch) > 1
    THEN /\ batch' = Tail(batch) /\ writes' = changed
         /\ UNCHANGED <<drain, waiting>>
    ELSE IF changed
    THEN /\ batch' = <<>> /\ writes' = TRUE /\ drain' = "write"
         /\ UNCHANGED waiting
    ELSE LoopAgain

\* With a mistake: an outcome is released before the write it depends on.
RunEntryEarly ==
    /\ Running /\ drain = "batch"
    /\ LET e == Head(batch)
           done == Run(e)
       IN  /\ working' = done.data
           /\ NextEntry(writes \/ (e.write /\ done.out.ok))
           /\ requests' = [requests EXCEPT ![e.request] = Settled(@, e.write, done.out)]
    /\ UNCHANGED <<disk, server, state, broken, held, challenges, pageVars, expired, used, faults>>

RunEntry ==
    /\ Running /\ drain = "batch"
    /\ LET e == Head(batch)
           done == Run(e)
           changed == writes \/ (e.write /\ done.out.ok)
       IN  /\ working' = done.data
           /\ NextEntry(changed)
           /\ IF changed
              THEN /\ held' = Append(held, [entry |-> e, out |-> done.out])
                   /\ UNCHANGED requests
              ELSE /\ requests' = [requests EXCEPT ![e.request] = Settled(@, e.write, done.out)]
                   /\ UNCHANGED held
    /\ UNCHANGED <<disk, server, state, broken, challenges, pageVars, expired, used, faults>>

\* The outcomes held, or a refusal of each, go to their handlers.
Release(written) ==
    /\ requests' = [r \in Request |->
          IF \E k \in DOMAIN held : held[k].entry.request = r
          THEN LET h == CHOOSE h \in {held[k] : k \in DOMAIN held} : h.entry.request = r
               IN  Settled(requests[r], h.entry.write, IF written THEN h.out ELSE Refused)
          ELSE requests[r]]
    /\ held' = <<>>
    /\ LoopAgain

WriteDone ==
    /\ Running /\ drain = "write"
    /\ disk' = working /\ state' = working
    /\ Release(TRUE)
    /\ UNCHANGED <<server, working, broken, challenges, pageVars, expired, used, faults>>

\* A write that fails may have replaced the file all the same (the rename was
\* done, syncing the directory was not). Nothing is accepted after it.
WriteFails ==
    /\ Running /\ drain = "write" /\ faults < MaxFaults
    /\ disk' \in {disk, working}
    /\ broken' = TRUE /\ working' = state
    /\ Release(FALSE)
    /\ faults' = faults + 1
    /\ UNCHANGED <<server, state, challenges, pageVars, expired, used>>

\* With a mistake: an operation that arrived meanwhile is left there.
DrainEndsForgetting ==
    /\ Running /\ drain = "ending"
    /\ drain' = "off"
    /\ UNCHANGED <<disk, server, state, working, broken, waiting, batch, held, writes,
                   challenges, requests, pageVars, expired, used, faults>>

DrainEnds ==
    /\ Running /\ drain = "ending"
    /\ drain' = IF waiting = <<>> THEN "off" ELSE "loop"
    /\ UNCHANGED <<disk, server, state, working, broken, waiting, batch, held, writes,
                   challenges, requests, pageVars, expired, used, faults>>

-----------------------------------------------------------------------------
(* The handlers. `open` is the connection: once it is closed, by the page,  *)
(* a timeout or a stop, the signal of the handler is aborted.               *)
\* A page closes connections: it no longer waits for an answer there.
Hangup(rs, gone) ==
    [r \in DOMAIN rs |->
        IF r \notin gone THEN rs[r]
        ELSE IF rs[r].stage = "done" THEN Over
        ELSE [rs[r] EXCEPT !.page = 0, !.open = FALSE]]

Active == {r \in Request : requests[r].stage # "done"}

\* A request comes in; the connections of the requests in `gone` have closed.
\* (It comes in as it is sent: one under way for long is one sent later, as
\* nothing its page does meanwhile changes it.) An authorisation first asks
\* the host who is signed in on the website; the others look at their grant.
Arrives(q, gone) ==
    LET rs == Append(Hangup(requests, gone), q)
        r == Len(rs)
        Becomes(q2) == requests' = [rs EXCEPT ![r] = q2]
    IN  CASE server # "up" ->
               /\ Becomes(Failed(q))
               /\ UNCHANGED <<waiting, drain, challenges>>
          [] server = "up" /\ q.kind = "challenge" ->
               /\ Becomes([q EXCEPT !.stage = "done", !.out = Granted(TRUE, r, NoSnapshot)])
               /\ challenges' = challenges \union {r}
               /\ UNCHANGED <<waiting, drain>>
          [] server = "up" /\ q.kind = "authorize" ->
               /\ Becomes(IF q.challenge \in challenges THEN [q EXCEPT !.stage = "resolving"]
                                                        ELSE Failed(q))
               /\ UNCHANGED <<waiting, drain, challenges>>
          [] OTHER ->
               /\ Transact(rs, r, FALSE)
               /\ UNCHANGED challenges

\* With a mistake: the challenge is not looked for again after the wait.
ResolvedUnchecked(r) ==
    /\ Running /\ r \in Request /\ requests[r].stage = "resolving"
    /\ challenges' = challenges \ {requests[r].challenge}
    /\ used' = Append(used, requests[r].challenge)
    /\ Transact(requests, r, TRUE)
    /\ UNCHANGED <<disk, server, state, working, broken, batch, held, writes, pageVars,
                   expired, faults>>

\* The challenge is checked again and used up before the ledger is asked.
Resolved(r) ==
    /\ Running /\ r \in Request /\ requests[r].stage = "resolving"
    /\ LET q == requests[r]
       IN  IF q.challenge \in challenges /\ q.open /\ server = "up"
           THEN /\ challenges' = challenges \ {q.challenge}
                /\ used' = Append(used, q.challenge)
                /\ Transact(requests, r, TRUE)
           ELSE /\ requests' = [requests EXCEPT ![r] = Failed(@)]
                /\ UNCHANGED <<challenges, used, waiting, drain>>
    /\ UNCHANGED <<disk, server, state, working, broken, batch, held, writes, pageVars,
                   expired, faults>>

\* The grant was good when it was looked at; the operation asks again.
Inspected(r) ==
    /\ Running /\ r \in Request /\ requests[r].stage = "inspected"
    /\ CASE ~requests[r].open \/ server # "up" ->
                /\ requests' = [requests EXCEPT ![r] = Failed(@)]
                /\ UNCHANGED <<waiting, drain>>
         [] requests[r].open /\ server = "up" /\ requests[r].kind = "status" ->
                /\ requests' = [requests EXCEPT ![r].stage = "done"]
                /\ UNCHANGED <<waiting, drain>>
         [] OTHER -> Transact(requests, r, TRUE)
    /\ UNCHANGED <<disk, server, state, working, broken, batch, held, writes, challenges,
                   pageVars, expired, used, faults>>

ExpireChallenge(c) ==
    /\ c \in challenges /\ faults < MaxFaults /\ faults' = faults + 1
    /\ challenges' = challenges \ {c}
    /\ UNCHANGED <<disk, server, ledgerVars, requests, pageVars, expired, used>>

Expires(t) ==
    /\ t \in DOMAIN state.grants \ expired /\ faults < MaxFaults /\ faults' = faults + 1
    /\ expired' = expired \union {t}
    /\ UNCHANGED <<disk, server, ledgerVars, challenges, requests, pageVars, used>>

\* Stopping refuses what comes, ends every connection and waits for handlers.
Stop ==
    /\ server = "up" /\ faults < MaxFaults
    /\ server' = "stopping" /\ challenges' = {}
    /\ requests' = [r \in Request |-> [requests[r] EXCEPT !.open = FALSE]]
    /\ faults' = faults + 1
    /\ UNCHANGED <<disk, ledgerVars, pageVars, expired, used>>

\* The ledger closes after the handlers, and its lease after the loop.
HandlersEnd ==
    /\ server = "stopping" /\ Active = {}
    /\ server' = "closing"
    /\ UNCHANGED <<disk, ledgerVars, challenges, requests, pageVars, expired, used, faults>>

Closed ==
    /\ server = "closing" /\ drain = "off"
    /\ server' = "down"
    /\ UNCHANGED <<disk, ledgerVars, challenges, requests, pageVars, expired, used, faults>>

\* What the process held in memory is gone and connections are reset. While
\* a write is under way the file may already be the new one.
Crash ==
    /\ Running /\ faults < MaxFaults
    /\ server' = "down" /\ faults' = faults + 1
    /\ disk' \in IF drain = "write" THEN {disk, working} ELSE {disk}
    /\ requests' = [r \in Request |-> Failed([requests[r] EXCEPT !.open = FALSE])]
    /\ drain' = "off" /\ waiting' = <<>> /\ batch' = <<>> /\ held' = <<>> /\ writes' = FALSE
    /\ challenges' = {}
    /\ UNCHANGED <<state, working, broken, pageVars, expired, used>>

Restart ==
    /\ server = "down"
    /\ server' = "up" /\ state' = disk /\ working' = disk /\ broken' = FALSE
    /\ UNCHANGED <<disk, drain, waiting, batch, held, writes, challenges, requests, pageVars,
                   expired, used, faults>>

-----------------------------------------------------------------------------
(* The pages. A page keeps one credential, gives it up on any doubt and     *)
(* then answers nothing that was asked under it.                            *)
\* Dropping the credential aborts whatever the page is waiting for.
Revoked(pg) == [pg EXCEPT !.cred = 0, !.busy = FALSE]

Waits(p) == {r \in Request : requests[r].page = p}
Awaited(r) == r \in Request /\ requests[r].page # 0
CanPost == Len(requests) < MaxPosts
NextOp == Len(requests) + 1

ledgerAside == UNCHANGED <<disk, server, state, working, broken, batch, held, writes, expired, used>>
serverUnchanged == ledgerAside /\ UNCHANGED <<waiting, drain, challenges>>
Fault == faults < MaxFaults /\ faults' = faults + 1
\* A connection breaks by itself, or the server has closed it already.
ConnectionFails(r) == IF requests[r].open THEN Fault ELSE UNCHANGED faults

\* Send a request under the page state pg, hanging up on those in `gone`.
Sends(p, pg, gone, q) ==
    /\ CanPost
    /\ Arrives(q, gone)
    /\ page' = [page EXCEPT ![p] = pg]

\* The owner asks for a grant, settings or a link; the old credential goes.
OwnerAction(p, act) ==
    /\ ~page[p].busy
    /\ Sends(p, [Revoked(page[p]) EXCEPT !.busy = TRUE], Waits(p),
             Post(p, "challenge", act, 0, 0, 0))
    /\ ledgerAside /\ UNCHANGED <<admitted, faults>>

\* Bytes are reserved before they are uploaded; several may be on their way.
ReserveBytes(p) ==
    /\ page[p].cred # 0
    /\ Sends(p, page[p], {}, Post(p, "reserve", NoAct, 0, page[p].cred, NextOp))
    /\ ledgerAside /\ UNCHANGED <<admitted, faults>>

Maintain(p) ==
    /\ page[p].cred # 0 /\ ~page[p].busy
    /\ \A r \in Waits(p) : requests[r].kind \notin {"status", "renew"}
    /\ \E kind \in {"status", "renew"} :
          Sends(p, page[p], {}, Post(p, kind, NoAct, 0, page[p].cred, NextOp))
    /\ ledgerAside /\ UNCHANGED <<admitted, faults>>

Disconnect(p) ==
    /\ ~page[p].busy /\ page[p].cred # 0
    /\ Sends(p, [Revoked(page[p]) EXCEPT !.busy = TRUE], Waits(p),
             Post(p, "logout", NoAct, 0, page[p].cred, NextOp))
    /\ ledgerAside /\ UNCHANGED <<admitted, faults>>

\* Suspended, or its clock says that the grant has run out. (With requests
\* under way this is what GiveUp of one of them does.)
Suspend(p) ==
    /\ page[p].cred # 0 /\ Waits(p) = {}
    /\ page' = [page EXCEPT ![p] = Revoked(@)]
    /\ Fault /\ serverUnchanged /\ UNCHANGED <<requests, admitted>>

\* What a page knows of its account, after an answer that may be an old one:
\* within a revision the spending it shows does not shrink.
AcceptState(known, snap) ==
    LET same == known.generation = snap.generation /\ known.revision = snap.revision
        next == [snap EXCEPT !.spent = IF same /\ known.spent > @ THEN known.spent ELSE @]
    IN  IF \/ snap.generation > known.generation
           \/ snap.generation = known.generation /\ snap.revision >= known.revision
        THEN next ELSE known

Spent(snap) == snap.spent >= snap.limit

\* A page whose request was refused, or which doubts the answer.
Drops(p, pg, r, known) ==
    /\ page' = [page EXCEPT ![p] = [Revoked(pg) EXCEPT !.known = known]]
    /\ requests' = Hangup(requests, Waits(p) \union {r})
    /\ UNCHANGED <<waiting, drain, challenges>>

Keeps(p, pg, r) ==
    /\ page' = [page EXCEPT ![p] = pg]
    /\ requests' = Hangup(requests, {r})
    /\ UNCHANGED <<waiting, drain, challenges>>

Fits(q, pg) ==
    /\ q.out.ok /\ q.out.snap.revision = pg.epoch
    /\ q.out.snap.generation = pg.known.generation

\* The answer to a reservation, and whether the bytes may be uploaded; not
\* when the grant was renewed meanwhile.
OnReserve(p, r, q, pg) ==
    LET known == AcceptState(pg.known, q.out.snap)
    IN  IF q.token # pg.cred THEN Keeps(p, pg, r) /\ UNCHANGED admitted
        ELSE IF Fits(q, pg) /\ q.out.accepted
        THEN Keeps(p, [pg EXCEPT !.known = known], r) /\ admitted' = admitted \union {q.op}
        ELSE Drops(p, pg, r, IF Fits(q, pg) THEN known ELSE pg.known) /\ UNCHANGED admitted

\* The answer to a status or renewal. An exhausted allowance ends the grant.
OnMaintain(p, r, q, pg) ==
    LET known == AcceptState(pg.known, q.out.snap)
    IN  /\ IF Fits(q, pg) /\ ~Spent(known)
           THEN Keeps(p, [pg EXCEPT !.known = known, !.cred = q.out.token], r)
           ELSE Drops(p, pg, r, IF Fits(q, pg) THEN known ELSE pg.known)
        /\ UNCHANGED admitted

\* A challenge is signed and sent back; a grant is installed, and what was
\* known of the account before is forgotten.
OnOwner(p, r, q, pg) ==
    /\ CASE ~q.out.ok -> Drops(p, pg, r, pg.known)
         [] q.out.ok /\ q.kind = "challenge" ->
                Sends(p, pg, {r}, Post(p, "authorize", q.act, r, 0, 0))
         [] OTHER ->
                Keeps(p, [pg EXCEPT !.known = q.out.snap, !.cred = q.out.token,
                                    !.epoch = q.out.snap.revision, !.busy = FALSE], r)
    /\ UNCHANGED admitted

OnLogout(p, r, pg) == Keeps(p, [pg EXCEPT !.busy = FALSE], r) /\ UNCHANGED admitted

\* The page gets the answer of r; one that is waited for no more is dropped.
Receive(r) ==
    /\ Awaited(r) /\ requests[r].stage = "done" /\ requests[r].open
    /\ LET q == requests[r]
           p == q.page
           pg == page[p]
       IN  CASE q.kind = "reserve" -> OnReserve(p, r, q, pg)
             [] q.kind \in {"status", "renew"} -> OnMaintain(p, r, q, pg)
             [] q.kind \in {"challenge", "authorize"} -> OnOwner(p, r, q, pg)
             [] q.kind = "logout" -> OnLogout(p, r, pg)
    /\ ledgerAside /\ UNCHANGED faults

\* The connection breaks, or the page or the server has waited too long.
GiveUp(r) ==
    /\ Awaited(r)
    /\ LET p == requests[r].page
           pg == page[p]
       IN  IF requests[r].kind = "logout"
           THEN /\ page' = [page EXCEPT ![p] = [pg EXCEPT !.busy = FALSE]]
                /\ requests' = Hangup(requests, {r})
           ELSE /\ page' = [page EXCEPT ![p] = Revoked(pg)]
                /\ requests' = Hangup(requests, Waits(p))
    /\ ConnectionFails(r) /\ serverUnchanged /\ UNCHANGED admitted

\* A browser may send a request again on a new connection when the old one
\* broke before an answer. The server may have seen the first.
Resend(r) ==
    /\ Awaited(r) /\ CanPost
    /\ Arrives([requests[r] EXCEPT !.stage = "new", !.open = TRUE, !.out = Refused], {r})
    /\ ConnectionFails(r) /\ ledgerAside /\ UNCHANGED pageVars

-----------------------------------------------------------------------------
\* Both pages hold a grant, of one account or of two.
Init ==
    /\ \E owner \in {f \in [Pages -> Identity] : f[1] \in Nostr} :
          LET first == [accounts |-> [i \in Identity |->
                                        IF \E p \in Pages : owner[p] = i THEN NewAccount ELSE NoAccount],
                        grants |-> [p \in Pages |->
                           [account |-> owner[p], page |-> p, web |-> owner[p] \in Web,
                            epoch |-> 1, revoked |-> FALSE, first |-> p,
                            renewal |-> [op |-> 0, token |-> 0]]],
                        operations |-> {}, issued |-> PageCount,
                        charges |-> {}, ever |-> {}]
          IN  /\ disk = first /\ state = first /\ working = first
              /\ page = [p \in Pages |->
                           [cred |-> p, epoch |-> 1, busy |-> FALSE,
                            known |-> Snapshot(first, owner[p])]]
    /\ server = "up" /\ broken = FALSE /\ drain = "off"
    /\ waiting = <<>> /\ batch = <<>> /\ held = <<>> /\ writes = FALSE
    /\ challenges = {} /\ requests = <<>> /\ admitted = {}
    /\ expired = {} /\ used = <<>> /\ faults = 0

PageStep(p) ==
    \/ \E act \in OwnerActs[p] : OwnerAction(p, act)
    \/ ReserveBytes(p) \/ Maintain(p) \/ Disconnect(p) \/ Suspend(p)

Closing == HandlersEnd \/ Closed

\* The server is one event loop: while a promise is settled whose handler has
\* yet to run, nothing new comes in.
EventLoop ==
    /\ drain \notin {"loop", "ending"}
    /\ \A r \in Request : requests[r].stage = "inspected" => requests[r].kind = "renew"

Outside ==
    \/ \E r \in 1..MaxPosts : Resolved(r) \/ Receive(r) \/ GiveUp(r) \/ Resend(r)
    \/ \E p \in Pages : PageStep(p)
    \/ \E c \in challenges : ExpireChallenge(c)
    \/ \E t \in Token : Expires(t)
    \/ WriteDone \/ WriteFails
    \/ Stop \/ Closing \/ Crash \/ Restart

Next ==
    \/ TakeBatch \/ RunEntry \/ DrainEnds
    \/ \E r \in 1..MaxPosts : Inspected(r)
    \/ EventLoop /\ Outside

Spec == Init /\ [][Next]_vars

-----------------------------------------------------------------------------
(* Properties.                                                              *)

\* What accounts have spent is what was charged to them, or to accounts they
\* took over, since the last reset: no retry, link or crash charges twice or
\* forgets (account.spent in src/account-upload-budget.mjs).
Balanced(d) ==
    \A a \in Identity : d.accounts[a].aliasTo = None =>
        d.accounts[a].spent = Cardinality({c \in d.charges : Root(d, c.account) = a})
SpentIsCharged == Balanced(disk) /\ Balanced(state)

\* A challenge authorises once, however often and whenever it comes back
\* (the recheck in authorizeEndpoint, demo/account-budget.mjs).
ChallengeOnce == \A i, j \in DOMAIN used : used[i] = used[j] => i = j

\* A page that is told to upload has been charged for it on disk, over
\* crashes, failed writes and retries.
Account == INSTANCE Allowance WITH
    Charge <- 1..MaxPosts, charged <- disk.ever, admitted <- admitted
AllowanceKept == Account!Spec

\* No operation is left where nothing will run it: each that a handler waits
\* for is in the ledger once, and a loop runs as long as one is there
\* (startDrain, src/account-upload-budget.mjs).
Places(r, write) ==
    LET e == [request |-> r, write |-> write]
    IN  Cardinality({k \in DOMAIN waiting : waiting[k] = e})
        + Cardinality({k \in DOMAIN batch : batch[k] = e})
        + Cardinality({k \in DOMAIN held : held[k].entry = e})
NothingStranded ==
    /\ \A r \in Request :
          /\ Places(r, TRUE) = IF requests[r].stage = "applying" THEN 1 ELSE 0
          /\ Places(r, FALSE) = IF requests[r].stage = "inspecting" THEN 1 ELSE 0
    /\ waiting # <<>> => drain # "off"
    /\ batch # <<>> <=> drain = "batch"
    /\ held # <<>> => drain \in {"batch", "write"}
=============================================================================
