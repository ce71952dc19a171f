----------------------------- MODULE Broadcast ------------------------------
(* Who may run encoders in a media directory (src/broadcast-pipeline.mjs,   *)
(* -worker-control, -worker-guardian, -worker-group, exclusive-state-lease).*)
(* A publisher holds the main lease and forks a guardian, which holds the   *)
(* workers' lease and a dirty marker while it runs worker groups: a wrapper *)
(* process that leads a process group with the encoder. Any of these may    *)
(* die; the kernel frees the leases of the dead, the files stay.            *)
(* Publishers are numbered; each starts once, in any order, as the host     *)
(* restarts them or an operator starts a second one by mistake.             *)
EXTENDS Naturals, FiniteSets

CONSTANTS
    Publishers, Workers,        \* of a publisher: its encoder, its forwarder
    MaxSpawns,                  \* bound: groups launched by one publisher
    MaxFaults                   \* bound: processes killed, proofs out of
                                \* time, files that cannot be written

Nobody == 0
ASSUME BroadcastAssumption ==
    Publishers \subseteq Nat \ {Nobody} /\ {MaxSpawns, MaxFaults} \subseteq Nat

(* main, work   who holds the two leases                                    *)
(* lock         .broadcast-lock: "none", "owned", "lost" (guardianLost)     *)
(* marker       the workers' .dirty file is there                           *)
(* pub, guard   how far each publisher, each guardian is                    *)
(* group        each worker's group: which of its processes live, whether   *)
(*              it is to be killed (signal, killRequested), whether its     *)
(*              wrapper sent the drain witness, how `closed` settled        *)
(* spawns, faults   counts for the bounds                                   *)
(* trouble      history: the faults that an operator must look into         *)
VARIABLES main, work, lock, marker, pub, guard, group, spawns, faults, trouble
files == <<lock, marker>>
leases == <<main, work>>
vars == <<leases, files, pub, guard, group, spawns, faults, trouble>>

NoGroup == [life |-> "none", kill |-> FALSE, told |-> FALSE, end |-> "none"]

Init ==
    /\ main = Nobody /\ work = Nobody /\ lock = "none" /\ marker = FALSE
    /\ pub = [b \in Publishers |-> "off"] /\ guard = [b \in Publishers |-> "none"]
    /\ group = [b \in Publishers |-> [w \in Workers |-> NoGroup]]
    /\ spawns = [b \in Publishers |-> 0] /\ faults = 0 /\ trouble = FALSE

Fault == faults < MaxFaults /\ faults' = faults + 1
NoFault == UNCHANGED <<faults, trouble>>
Trouble == Fault /\ trouble' = TRUE

Alive(g) == g.life \notin {"none", "dead"}      \* some process of the group
Wrapped(g) == g.life \in {"starting", "working", "ended"}
Open(g) == g.life # "none" /\ g.end = "none"    \* `closed` is pending
Freed(lease, b) == IF lease = b THEN Nobody ELSE lease

-----------------------------------------------------------------------------
(* The publisher.                                                           *)

\* startBroadcastPipeline: the lease is not waited for; a record of a lost
\* guardian refuses the start.
Start(b) ==
    /\ pub[b] = "off" /\ main = Nobody
    /\ IF lock = "lost"
       THEN pub' = [pub EXCEPT ![b] = "refused"] /\ UNCHANGED <<main, lock, guard>>
       ELSE /\ pub' = [pub EXCEPT ![b] = "starting"] /\ main' = b /\ lock' = "owned"
            /\ guard' = [guard EXCEPT ![b] = "acquiring"]
    /\ NoFault /\ UNCHANGED <<work, marker, group, spawns>>

Ready(b) ==
    /\ pub[b] = "starting" /\ guard[b] = "ready"
    /\ pub' = [pub EXCEPT ![b] = "running"]
    /\ NoFault /\ UNCHANGED <<leases, files, guard, group, spawns>>

GuardGone(b) == guard[b] \in {"acked", "failed", "killed"}
\* The guardian is waited for, 7 s at most, then told to stop.
GiveUp(b) ==
    /\ pub[b] = "starting" /\ pub' = [pub EXCEPT ![b] = "withdrawing"]
    /\ NoFault /\ UNCHANGED <<leases, files, guard, group, spawns>>
Refused(b) ==
    /\ pub[b] = "withdrawing" /\ GuardGone(b)
    /\ pub' = [pub EXCEPT ![b] = "refused"] /\ main' = Nobody /\ lock' = "none"
    /\ NoFault /\ UNCHANGED <<work, marker, guard, group, spawns>>

\* runWorker: again whenever the last one has ended.
Spawn(b, w) ==
    /\ pub[b] = "running" /\ guard[b] = "ready" /\ ~Open(group[b][w])
    /\ spawns[b] < MaxSpawns
    /\ spawns' = [spawns EXCEPT ![b] = @ + 1]
    /\ group' = [group EXCEPT ![b][w] = [NoGroup EXCEPT !.life = "starting"]]
    /\ NoFault /\ UNCHANGED <<leases, files, pub, guard>>

Close(b) ==
    /\ pub[b] = "running" /\ pub' = [pub EXCEPT ![b] = "closing"]
    /\ NoFault /\ UNCHANGED <<leases, files, guard, group, spawns>>

\* onFailure: the guardian has gone, or says that it failed. The record is
\* written before the lease is given up.
Notices(b) ==
    /\ pub[b] = "running"
    /\ GuardGone(b) \/ \E w \in Workers : group[b][w].end = "failed"
    /\ pub' = [pub EXCEPT ![b] = "fencing"]
    /\ NoFault /\ UNCHANGED <<leases, files, guard, group, spawns>>
Fences(b) ==
    /\ pub[b] = "fencing" /\ pub' = [pub EXCEPT ![b] = "fenced"] /\ lock' = "lost"
    /\ NoFault /\ UNCHANGED <<leases, marker, guard, group, spawns>>

\* close() settles when the guardian has gone: well only if it said so.
Closed(b) ==
    /\ pub[b] \in {"closing", "fenced"} /\ GuardGone(b)
    /\ IF guard[b] = "acked"
       THEN /\ pub' = [pub EXCEPT ![b] = "clean"]
            /\ lock' = IF pub[b] = "fenced" THEN lock ELSE "none"
       ELSE pub' = [pub EXCEPT ![b] = "unclean"] /\ lock' = "lost"
    /\ main' = Nobody
    /\ NoFault /\ UNCHANGED <<work, marker, guard, group, spawns>>

Crash(b) ==
    /\ pub[b] \in {"starting", "withdrawing", "running", "closing", "fencing", "fenced"}
    /\ pub' = [pub EXCEPT ![b] = "crashed"] /\ main' = Nobody
    /\ Fault /\ UNCHANGED <<work, files, guard, group, spawns, trouble>>

-----------------------------------------------------------------------------
(* The guardian. It is told to stop, or its channel to the publisher closes.*)
Told(b) == pub[b] \notin {"starting", "running"}
Gone(b, how) ==
    /\ guard' = [guard EXCEPT ![b] = how] /\ work' = Freed(work, b)
    /\ UNCHANGED <<main, pub, group, spawns>>

\* Only a refusal of the kernel is tried again, for five seconds.
Acquires(b) ==
    /\ guard[b] = "acquiring"
    /\ \/ /\ ~Told(b) /\ work = Nobody /\ work' = b
          /\ guard' = [guard EXCEPT ![b] = "checking"]
          /\ UNCHANGED <<main, pub, group, spawns>>
       \/ work # Nobody /\ Gone(b, "failed")
       \/ Told(b) /\ Gone(b, "acked")
    /\ NoFault /\ UNCHANGED files

\* (For checking OneBroadcast: whoever has the lease may begin.)
CheckMarkerNot(b) == TRUE

CheckMarker(b) == ~marker

Checks(b) ==
    /\ guard[b] = "checking"
    /\ IF CheckMarker(b)
       THEN /\ guard' = [guard EXCEPT ![b] = "marking"] /\ UNCHANGED <<leases, pub, group, spawns>>
       ELSE Gone(b, "failed")
    /\ NoFault /\ UNCHANGED files

\* A marker that could not be synced stays behind.
Marks(b) ==
    /\ guard[b] = "marking" /\ marker' = TRUE
    /\ \/ /\ guard' = [guard EXCEPT ![b] = "ready"]
          /\ NoFault /\ UNCHANGED <<leases, pub, group, spawns>>
       \/ Trouble /\ Gone(b, "failed")
    /\ UNCHANGED lock

\* stop(), also when the guardian is signalled: SIGTERM to every group; a
\* wrapper that is not ready yet will be told to kill.
Stops(b) ==
    /\ guard[b] = "ready"
    /\ IF Told(b) THEN NoFault ELSE Trouble
    /\ guard' = [guard EXCEPT ![b] = "draining"]
    /\ UNCHANGED <<leases, files, pub, group, spawns>>

\* (For checking CleanIsClean: every group was waited for, whatever it said.)
DrainedAnyhow(b) == TRUE

Drained(b) == \A w \in Workers : group[b][w].end # "failed"

\* (For checking RecoversAlone: the lease first, then the marker.)
DrainsHasty(b) ==
    /\ guard[b] = "draining" /\ \A w \in Workers : ~Open(group[b][w])
    /\ Drained(b) /\ guard' = [guard EXCEPT ![b] = "clearing"] /\ work' = Freed(work, b)
    /\ NoFault /\ UNCHANGED <<main, files, pub, group, spawns>>

\* Every group's `closed` has settled. The marker goes only if all were
\* proved stopped, and before the lease.
Drains(b) ==
    /\ guard[b] = "draining" /\ \A w \in Workers : ~Open(group[b][w])
    /\ \/ /\ Drained(b) /\ marker' = FALSE /\ guard' = [guard EXCEPT ![b] = "clearing"]
          /\ NoFault /\ UNCHANGED <<leases, pub, group, spawns>>
       \/ ~Drained(b) /\ Gone(b, "failed") /\ NoFault /\ UNCHANGED marker
       \* The marker cannot be removed: with its publisher there, the
       \* guardian gives up the lease and stays.
       \/ Drained(b) /\ Gone(b, IF pub[b] = "crashed" THEN "failed" ELSE "stuck")
          /\ Trouble /\ UNCHANGED marker
    /\ UNCHANGED lock

Releases(b) ==
    guard[b] = "clearing" /\ Gone(b, "acked") /\ NoFault /\ UNCHANGED files
StuckEnds(b) ==
    guard[b] = "stuck" /\ pub[b] = "crashed" /\ Gone(b, "failed") /\ NoFault /\ UNCHANGED files

Killed(b) ==
    /\ guard[b] \notin {"none", "acked", "failed", "killed"} /\ Gone(b, "killed")
    /\ Trouble /\ UNCHANGED files

-----------------------------------------------------------------------------
(* A worker group: its wrapper (runWorkerGroup), as the guardian sees it    *)
(* (controlWorkerGroup). Messages of one channel arrive in order, the last  *)
(* of them before the channel is seen to close.                             *)
Tended(b) == guard[b] \in {"ready", "draining"}
Group(b, w, g) == group' = [group EXCEPT ![b][w] = g]
Only(b) == UNCHANGED <<leases, files, pub, guard, spawns>>

WrapperReady(b, w) ==
    LET g == group[b][w]
    IN  /\ Tended(b) /\ g.life = "starting" /\ ~g.kill
        /\ Group(b, w, IF guard[b] = "draining" THEN [g EXCEPT !.kill = TRUE]
                       ELSE [g EXCEPT !.life = "working"])
        /\ NoFault /\ Only(b)

\* By itself, or at SIGTERM.
EncoderExits(b, w) ==
    /\ group[b][w].life \in {"working", "orphan"}
    /\ Group(b, w, [group[b][w] EXCEPT !.life = IF @ = "working" THEN "ended" ELSE "dead"])
    /\ NoFault /\ Only(b)

\* (For checking LeaseFreed: a stop has no force timer.)
KillAtResult(b, w) ==
    LET g == group[b][w]
    IN  /\ Tended(b) /\ Wrapped(g) /\ ~g.kill /\ g.life = "ended"
        /\ Group(b, w, [g EXCEPT !.kill = TRUE]) /\ NoFault /\ Only(b)

\* The result of the encoder, the force timer of a stop.
Kill(b, w) ==
    LET g == group[b][w]
    IN  /\ Tended(b) /\ Wrapped(g) /\ ~g.kill
        /\ g.life = "ended" \/ guard[b] = "draining"
        /\ Group(b, w, [g EXCEPT !.kill = TRUE]) /\ NoFault /\ Only(b)

\* The wrapper sends its witness, then kills its own group.
WrapperKills(b, w) ==
    LET g == group[b][w]
    IN  /\ Wrapped(g) /\ g.kill
        /\ Group(b, w, [g EXCEPT !.life = "dead", !.told = TRUE]) /\ NoFault /\ Only(b)
\* So it does when its channel closes, with nobody to tell.
WrapperAlone(b, w) ==
    LET g == group[b][w]
    IN  /\ Wrapped(g) /\ GuardGone(b)
        /\ Group(b, w, [g EXCEPT !.life = "dead"]) /\ NoFault /\ Only(b)
WrapperDies(b, w) ==
    LET g == group[b][w]
    IN  /\ Wrapped(g)
        /\ Group(b, w, [g EXCEPT !.life = IF @ = "working" THEN "orphan" ELSE "dead"])
        /\ Trouble /\ Only(b)

\* The group is absent. Without a witness that is no proof.
Settles(b, w) ==
    LET g == group[b][w]
    IN  /\ Tended(b) /\ Open(g) /\ ~Alive(g)
        /\ IF g.told THEN Group(b, w, NoGroup) /\ UNCHANGED guard
           ELSE /\ Group(b, w, [g EXCEPT !.end = "failed"])
                /\ guard' = [guard EXCEPT ![b] = "draining"]
        /\ NoFault /\ UNCHANGED <<leases, files, pub, spawns>>
\* Five seconds from the kill, or from the wrapper's exit, were not enough.
Unproved(b, w) ==
    LET g == group[b][w]
    IN  /\ Tended(b) /\ Open(g) /\ (g.kill \/ g.life = "orphan")
        /\ Group(b, w, [g EXCEPT !.end = "failed"])
        /\ guard' = [guard EXCEPT ![b] = "draining"]
        /\ IF g.life = "orphan" THEN NoFault ELSE Trouble
        /\ UNCHANGED <<leases, files, pub, spawns>>

\* An operator who has made sure that nothing of it runs any more.
OperatorClears ==
    /\ main = Nobody /\ work = Nobody
    /\ \A b \in Publishers : guard[b] \in {"none", "acked", "failed", "killed"}
    /\ \A b \in Publishers, w \in Workers : ~Alive(group[b][w])
    /\ marker \/ lock # "none"
    /\ marker' = FALSE /\ lock' = "none" /\ trouble' = FALSE
    /\ UNCHANGED <<leases, pub, guard, group, spawns, faults>>

GuardSteps(b) ==
    Acquires(b) \/ Checks(b) \/ Marks(b) \/ Drains(b) \/ Releases(b) \/ StuckEnds(b)
GroupSteps(b, w) ==
    \/ WrapperReady(b, w) \/ Kill(b, w) \/ WrapperKills(b, w) \/ WrapperAlone(b, w)
    \/ Settles(b, w) \/ Unproved(b, w)

Next ==
    \/ \E b \in Publishers :
        \/ Start(b) \/ Ready(b) \/ GiveUp(b) \/ Refused(b) \/ Close(b) \/ Notices(b)
        \/ Fences(b) \/ Closed(b) \/ Crash(b) \/ GuardSteps(b) \/ Stops(b) \/ Killed(b)
        \/ \E w \in Workers :
            Spawn(b, w) \/ GroupSteps(b, w) \/ EncoderExits(b, w) \/ WrapperDies(b, w)
    \/ OperatorClears

Spec == Init /\ [][Next]_vars

\* The host runs every process; timers fire; nobody need close, crash, start
\* or clear anything, and no encoder need exit.
Fairness ==
    \A b \in Publishers :
        /\ WF_vars(GuardSteps(b)) /\ WF_vars(Stops(b) /\ Told(b))
        /\ \A w \in Workers : WF_vars(GroupSteps(b, w))
FairSpec == Spec /\ Fairness

-----------------------------------------------------------------------------
\* The encoders and forwarders that run in a media directory are those of one
\* publisher, whichever of its processes died and in whatever order another
\* publisher was started.
OneBroadcast ==
    Cardinality({b \in Publishers : \E w \in Workers : Alive(group[b][w])}) <= 1

\* A close() that reports success has left no process behind, and no marker
\* but a successor's.
CleanIsClean ==
    \A b \in Publishers : pub[b] = "clean" =>
        /\ \A w \in Workers : ~Alive(group[b][w])
        /\ marker => trouble \/ work \notin {Nobody, b}

\* No operator is needed unless something failed that the guardian could not
\* put right: after a crash of the publisher alone the files refuse nobody, and
\* the lock it left ("owned") is taken over with its lease
\* (broadcast-pipeline.mjs:107-115, deploy/README.md:139, the SIGKILL test
\* test/broadcast-guards.test.mjs:628). docs/BROADCASTING.md:111 says otherwise.
RecoversAlone ==
    ~trouble => (marker => work # Nobody) /\ lock # "lost"

\* Once a publisher has crashed or closes, its lease on the workers is freed.
LeaseFreed == \A b \in Publishers : Told(b) ~> work # b
=============================================================================
