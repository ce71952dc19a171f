-------------------------- MODULE BroadcastProofs --------------------------
(* Proofs about Broadcast: for any publishers, workers and numbers of       *)
(* groups and faults, one broadcast runs at a time, a clean close is clean, *)
(* and without trouble the files refuse nobody. All three rest on one       *)
(* inductive invariant, which says who may own what at each stage of a      *)
(* publisher and of its guardian.                                           *)
EXTENDS Broadcast, TLAPS, FiniteSetTheorems

PubStages ==
    {"off", "refused", "starting", "running", "withdrawing", "closing", "fencing",
     "fenced", "clean", "unclean", "crashed"}
GuardStages ==
    {"none", "acquiring", "checking", "marking", "ready", "draining", "clearing",
     "stuck", "acked", "failed", "killed"}
GroupState ==
    [life : {"none", "starting", "working", "ended", "orphan", "dead"},
     kill : BOOLEAN, told : BOOLEAN, end : {"none", "failed"}]

\* What each variable may hold.
TypeOK ==
    /\ main \in Publishers \cup {Nobody} /\ work \in Publishers \cup {Nobody}
    /\ lock \in {"none", "owned", "lost"} /\ marker \in BOOLEAN
    /\ pub \in [Publishers -> PubStages] /\ guard \in [Publishers -> GuardStages]
    /\ group \in [Publishers -> [Workers -> GroupState]]
    /\ spawns \in [Publishers -> Nat] /\ faults \in Nat /\ trouble \in BOOLEAN

Leading == {"starting", "withdrawing", "running", "closing", "fencing", "fenced"}
Holding == {"checking", "marking", "ready", "draining", "clearing"}
Before == {"none", "acquiring", "checking", "marking"}

\* A lease is held in exactly the stages between its grant and its release.
LeasesHeld ==
    \A b \in Publishers :
        /\ main = b <=> pub[b] \in Leading
        /\ work = b <=> guard[b] \in Holding
        /\ pub[b] = "off" => guard[b] = "none"

\* A guardian launches nothing before its marker is synced; it clears it, and
\* says so, only when every group of its own is proved gone.
NothingRuns ==
    \A b \in Publishers : guard[b] \in Before \cup {"clearing", "acked"} =>
        \A w \in Workers : group[b][w].life = "none" /\ group[b][w].end = "none"

\* The marker stands for as long as any process may be left, and the
\* guardian whose groups run is the only one with any.
Marked ==
    /\ \A b \in Publishers, w \in Workers : Alive(group[b][w]) => marker
    /\ \A b \in Publishers :
        /\ guard[b] \in {"marking", "clearing"} => ~marker
        /\ Tended(b) => marker
Alone ==
    \A b, c \in Publishers : b # c =>
        \/ \A w \in Workers : ~Alive(group[b][w])
        \/ ~Tended(c) /\ \A w \in Workers : ~Alive(group[c][w])

\* Without trouble every group under a guardian ends with its witness, and
\* the guardian of a publisher that runs or closes is on its way to "acked".
NoTrouble ==
    ~trouble =>
        /\ marker => work # Nobody
        /\ lock # "lost"
        /\ \A b \in Publishers :
            /\ guard[b] = "checking" => ~marker
            /\ pub[b] = "running" => guard[b] = "ready"
            /\ pub[b] = "closing" => guard[b] \in {"ready", "draining", "clearing", "acked"}
            /\ pub[b] \notin {"fencing", "fenced"}
            /\ Tended(b) => \A w \in Workers :
                /\ group[b][w].end = "none" /\ group[b][w].life # "orphan"
                /\ group[b][w].life = "dead" => group[b][w].told
CleanAcked == \A b \in Publishers : pub[b] = "clean" => guard[b] = "acked"

IInv == TypeOK /\ LeasesHeld /\ NothingRuns /\ Marked /\ Alone /\ NoTrouble /\ CleanAcked

-----------------------------------------------------------------------------
(* Types.                                                                   *)

\* A new record for one group leaves `group` in its type.
LEMMA GroupTyped ==
    ASSUME TypeOK, NEW b \in Publishers, NEW w \in Workers, NEW g \in GroupState,
           Group(b, w, g)
    PROVE  group' \in [Publishers -> [Workers -> GroupState]]
BY DEF TypeOK, Group

\* A fault is counted, and trouble is remembered.
LEMMA FaultTyped ==
    ASSUME TypeOK, NoFault \/ Trouble
    PROVE  faults' \in Nat /\ trouble' \in BOOLEAN /\ (trouble => trouble')
<1>1. CASE NoFault
  BY <1>1 DEF NoFault, TypeOK
<1>2. CASE Trouble
  <2>1. faults' \in Nat
    BY <1>2 DEF Trouble, Fault, TypeOK
  <2>2. trouble'
    BY <1>2 DEF Trouble
  <2> QED
    BY <1>2, <2>1, <2>2 DEF Trouble
<1> QED
  BY <1>1, <1>2

\* A publisher's steps keep every variable in its type.
LEMMA PublisherTyped ==
    ASSUME TypeOK, NEW b \in Publishers,
           \/ Start(b) \/ Ready(b) \/ GiveUp(b) \/ Refused(b) \/ Close(b) \/ Notices(b)
           \/ Fences(b) \/ Closed(b) \/ Crash(b)
    PROVE  TypeOK'
<1>1. UNCHANGED <<work, marker, group, spawns, trouble>>
  BY DEF Start, Ready, GiveUp, Refused, Close, Notices, Fences, Closed, Crash, NoFault, leases, files
<1>2. faults' \in Nat
  BY DEF TypeOK, Start, Ready, GiveUp, Refused, Close, Notices, Fences, Closed, Crash, NoFault, Fault
<1>3. pub' \in [Publishers -> PubStages]
  BY DEF TypeOK, Start, Ready, GiveUp, Refused, Close, Notices, Fences, Closed, Crash, PubStages
<1>4. guard' \in [Publishers -> GuardStages]
  BY DEF TypeOK, Start, Ready, GiveUp, Refused, Close, Notices, Fences, Closed, Crash, GuardStages
<1>5. main' \in Publishers \cup {Nobody} /\ lock' \in {"none", "owned", "lost"}
  BY DEF TypeOK, Start, Ready, GiveUp, Refused, Close, Notices, Fences, Closed, Crash, leases, files
<1> QED
  BY <1>1, <1>2, <1>3, <1>4, <1>5 DEF TypeOK

\* So do a guardian's.
LEMMA GuardianTyped ==
    ASSUME TypeOK, NEW b \in Publishers, GuardSteps(b) \/ Stops(b) \/ Killed(b)
    PROVE  TypeOK'
<1> USE DEF GuardSteps, Acquires, Checks, Marks, Drains, Releases, StuckEnds, Stops, Killed, Gone
<1>1. UNCHANGED <<main, lock, pub, group, spawns>>
  BY DEF leases, files
<1>2. NoFault \/ Trouble
  OBVIOUS
<1>3. guard' \in [Publishers -> GuardStages]
  BY DEF TypeOK, GuardStages
<1>4. work' \in Publishers \cup {Nobody} /\ marker' \in BOOLEAN
  BY DEF TypeOK, Freed, leases, files
<1> QED
  BY <1>1, <1>2, <1>3, <1>4, FaultTyped DEF TypeOK

-----------------------------------------------------------------------------
(* Steps of a group.                                                        *)

\* Every step of a group but its launch: it concerns a group that is there
\* and may only end its life; of its guardian's stage it changes at most
\* "ready" into "draining".
Witnessed(g) == g.end = "none" /\ g.life # "orphan" /\ (g.life = "dead" => g.told)
GroupStep(b, w, g) ==
    /\ g \in GroupState /\ Group(b, w, g) /\ group[b][w].life # "none"
    /\ Alive(g) => Alive(group[b][w])
    /\ UNCHANGED <<leases, files, pub, spawns>> /\ (NoFault \/ Trouble)
    /\ \/ guard' = guard /\ (Tended(b) /\ ~trouble' /\ Witnessed(group[b][w]) => Witnessed(g))
       \/ /\ Tended(b) /\ guard' = [guard EXCEPT ![b] = "draining"]
          /\ ~trouble' => ~Witnessed(group[b][w])

\* Each action of a group is such a step.
LEMMA GroupSteps_GroupStep ==
    ASSUME TypeOK, NEW b \in Publishers, NEW w \in Workers,
           GroupSteps(b, w) \/ EncoderExits(b, w) \/ WrapperDies(b, w)
    PROVE  \E g \in GroupState : GroupStep(b, w, g)
<1> DEFINE x == group[b][w]
<1>0. x \in GroupState /\ NoGroup \in GroupState
  BY DEF TypeOK, GroupState, NoGroup
<1> USE DEF Only
<1>1. ASSUME WrapperReady(b, w) PROVE \E g \in GroupState : GroupStep(b, w, g)
  <2> DEFINE y == IF guard[b] = "draining" THEN [x EXCEPT !.kill = TRUE]
                  ELSE [x EXCEPT !.life = "working"]
  <2>1. Group(b, w, y) /\ x.life = "starting" /\ NoFault /\ Only(b)
    BY <1>1 DEF WrapperReady
  <2>2. y \in GroupState /\ y.life \in {"starting", "working"} /\ y.end = x.end
    BY <1>0, <2>1 DEF GroupState
  <2> HIDE DEF x, y
  <2> QED
    BY <2>1, <2>2 DEF GroupStep, Alive, Witnessed, x
<1>2. ASSUME Kill(b, w) PROVE \E g \in GroupState : GroupStep(b, w, g)
  <2> DEFINE y == [x EXCEPT !.kill = TRUE]
  <2>1. Group(b, w, y) /\ Wrapped(x) /\ NoFault /\ Only(b)
    BY <1>2 DEF Kill
  <2>2. y \in GroupState /\ y.life = x.life /\ y.end = x.end /\ y.told = x.told
    BY <1>0 DEF GroupState
  <2> HIDE DEF x, y
  <2> QED
    BY <2>1, <2>2 DEF GroupStep, Alive, Witnessed, Wrapped, x
<1>3. ASSUME WrapperKills(b, w) PROVE \E g \in GroupState : GroupStep(b, w, g)
  <2> DEFINE y == [x EXCEPT !.life = "dead", !.told = TRUE]
  <2>1. Group(b, w, y) /\ Wrapped(x) /\ NoFault /\ Only(b)
    BY <1>3 DEF WrapperKills
  <2>2. y \in GroupState /\ y.life = "dead" /\ y.end = x.end /\ y.told
    BY <1>0 DEF GroupState
  <2> HIDE DEF x, y
  <2> QED
    BY <2>1, <2>2 DEF GroupStep, Alive, Witnessed, Wrapped, x
<1>4. ASSUME WrapperAlone(b, w) PROVE \E g \in GroupState : GroupStep(b, w, g)
  <2> DEFINE y == [x EXCEPT !.life = "dead"]
  <2>1. Group(b, w, y) /\ Wrapped(x) /\ NoFault /\ Only(b) /\ ~Tended(b)
    BY <1>4 DEF WrapperAlone, GuardGone, Tended
  <2>2. y \in GroupState /\ y.life = "dead"
    BY <1>0 DEF GroupState
  <2> HIDE DEF x, y
  <2> QED
    BY <2>1, <2>2 DEF GroupStep, Alive, Wrapped, x
<1>5. ASSUME Settles(b, w) PROVE \E g \in GroupState : GroupStep(b, w, g)
  <2> DEFINE y == [x EXCEPT !.end = "failed"]
  <2>1. /\ Tended(b) /\ Open(x) /\ ~Alive(x) /\ NoFault /\ UNCHANGED <<leases, files, pub, spawns>>
        /\ \/ x.told /\ Group(b, w, NoGroup) /\ UNCHANGED guard
           \/ ~x.told /\ Group(b, w, y) /\ guard' = [guard EXCEPT ![b] = "draining"]
    BY <1>5 DEF Settles
  <2>2. y \in GroupState /\ y.life = x.life
    BY <1>0 DEF GroupState
  <2>3. Witnessed(NoGroup) /\ ~Alive(NoGroup)
    BY DEF Witnessed, NoGroup, Alive
  <2> HIDE DEF x, y
  <2> QED
    BY <1>0, <2>1, <2>2, <2>3 DEF GroupStep, Alive, Witnessed, Open, x
<1>6. ASSUME Unproved(b, w) PROVE \E g \in GroupState : GroupStep(b, w, g)
  <2> DEFINE y == [x EXCEPT !.end = "failed"]
  <2>1. /\ Tended(b) /\ Open(x) /\ Group(b, w, y) /\ UNCHANGED <<leases, files, pub, spawns>>
        /\ guard' = [guard EXCEPT ![b] = "draining"]
        /\ (x.life = "orphan" /\ NoFault) \/ Trouble
    BY <1>6 DEF Unproved
  <2>2. y \in GroupState /\ y.life = x.life
    BY <1>0 DEF GroupState
  <2>3. Trouble => trouble'
    BY DEF Trouble
  <2> HIDE DEF x, y
  <2> QED
    BY <1>0, <2>1, <2>2, <2>3 DEF GroupStep, Alive, Witnessed, Open, x
<1>7. ASSUME EncoderExits(b, w) PROVE \E g \in GroupState : GroupStep(b, w, g)
  <2> DEFINE y == [x EXCEPT !.life = IF @ = "working" THEN "ended" ELSE "dead"]
  <2>1. x.life \in {"working", "orphan"} /\ Group(b, w, y) /\ NoFault /\ Only(b)
    BY <1>7 DEF EncoderExits
  <2>2. y \in GroupState /\ y.end = x.end /\ (x.life = "working" => y.life = "ended")
    BY <1>0 DEF GroupState
  <2> HIDE DEF x, y
  <2> QED
    BY <2>1, <2>2 DEF GroupStep, Alive, Witnessed, x
<1>8. ASSUME WrapperDies(b, w) PROVE \E g \in GroupState : GroupStep(b, w, g)
  <2> DEFINE y == [x EXCEPT !.life = IF @ = "working" THEN "orphan" ELSE "dead"]
  <2>1. Wrapped(x) /\ Group(b, w, y) /\ Trouble /\ Only(b)
    BY <1>8 DEF WrapperDies
  <2>2. y \in GroupState
    BY <1>0 DEF GroupState
  <2>3. trouble'
    BY <2>1 DEF Trouble
  <2> HIDE DEF x, y
  <2> QED
    BY <2>1, <2>2, <2>3 DEF GroupStep, Alive, Wrapped, x
<1> QED
  BY <1>1, <1>2, <1>3, <1>4, <1>5, <1>6, <1>7, <1>8 DEF GroupSteps

\* A group step leaves the invariant true.
LEMMA GroupStepKeeps ==
    ASSUME IInv, NEW b \in Publishers, NEW w \in Workers, NEW g \in GroupState,
           GroupStep(b, w, g)
    PROVE  IInv'
<1>1. UNCHANGED <<main, work, lock, marker, pub, spawns>>
  BY DEF GroupStep, leases, files
<1>2. \A c \in Publishers, v \in Workers :
         group'[c][v] = IF c = b /\ v = w THEN g ELSE group[c][v]
  BY DEF GroupStep, Group, IInv, TypeOK
<1>3. \A c \in Publishers, v \in Workers :
         Alive(group'[c][v]) => Alive(group[c][v])
  BY <1>2 DEF GroupStep
<1>4. \A c \in Publishers : guard'[c] = guard[c] \/ (guard[c] = "ready" /\ guard'[c] = "draining")
  BY DEF GroupStep, IInv, TypeOK, Tended
<1>5. TypeOK'
  <2>1. guard' \in [Publishers -> GuardStages]
    BY DEF GroupStep, IInv, TypeOK, GuardStages
  <2> QED
    BY <1>1, <2>1, GroupTyped, FaultTyped DEF GroupStep, IInv, TypeOK
<1>6. LeasesHeld'
  BY <1>1, <1>4 DEF IInv, LeasesHeld, Holding
<1>7. NothingRuns'
  BY <1>2, <1>4 DEF IInv, NothingRuns, Before, GroupStep
<1>8. Marked'
  BY <1>1, <1>3, <1>4 DEF IInv, Marked, Tended
<1>9. Alone'
  BY <1>3, <1>4 DEF IInv, Alone, Tended
<1>10. NoTrouble'
  <2> SUFFICES ASSUME ~trouble' PROVE NoTrouble'
    BY DEF NoTrouble
  <2>1. ~trouble
    BY FaultTyped DEF GroupStep, IInv
  <2>2. guard' = guard
    BY <2>1 DEF GroupStep, IInv, NoTrouble, Witnessed
  <2>3. Tended(b) => Witnessed(g)
    BY <2>1, <2>2 DEF GroupStep, IInv, NoTrouble, Witnessed
  <2> QED
    BY <1>1, <1>2, <2>1, <2>2, <2>3 DEF IInv, NoTrouble, Tended, Witnessed
<1>11. CleanAcked'
  BY <1>1, <1>4 DEF IInv, CleanAcked
<1> QED
  BY <1>5, <1>6, <1>7, <1>8, <1>9, <1>10, <1>11 DEF IInv

-----------------------------------------------------------------------------
(* Steps of a publisher, of a guardian, a launch and an operator.           *)

\* Every step of a publisher keeps the invariant.
LEMMA PublisherKeeps ==
    ASSUME IInv, NEW b \in Publishers,
           \/ Start(b) \/ Ready(b) \/ GiveUp(b) \/ Refused(b) \/ Close(b) \/ Notices(b)
           \/ Fences(b) \/ Closed(b) \/ Crash(b)
    PROVE  IInv'
<1> USE DEF Start, Ready, GiveUp, Refused, Close, Notices, Fences, Closed, Crash
<1>1. TypeOK'
  BY PublisherTyped DEF IInv
<1>2. UNCHANGED <<work, marker, group, spawns, trouble>>
  BY DEF NoFault, leases, files
<1>3. /\ \A c \in Publishers \ {b} : pub'[c] = pub[c]
      /\ \A c \in Publishers : guard'[c] = guard[c]
            \/ (c = b /\ guard[c] = "none" /\ guard'[c] = "acquiring" /\ pub'[c] = "starting")
  BY DEF IInv, TypeOK, LeasesHeld
<1>4. LeasesHeld'
  BY <1>2, <1>3, BroadcastAssumption DEF IInv, TypeOK, LeasesHeld, Leading, Holding, leases, files
<1>5. NothingRuns'
  BY <1>2, <1>3 DEF IInv, NothingRuns, Before
<1>6. Marked'
  BY <1>2, <1>3 DEF IInv, Marked, Tended
<1>7. Alone'
  BY <1>2, <1>3 DEF IInv, Alone, Tended
<1>8. NoTrouble'
  BY <1>2, <1>3 DEF IInv, TypeOK, NoTrouble, Tended, GuardGone, leases, files
<1>9. CleanAcked'
  BY <1>3 DEF IInv, TypeOK, CleanAcked
<1> QED
  BY <1>1, <1>4, <1>5, <1>6, <1>7, <1>8, <1>9 DEF IInv

\* So does every step of a guardian.
LEMMA GuardianKeeps ==
    ASSUME IInv, NEW b \in Publishers, GuardSteps(b) \/ Stops(b) \/ Killed(b)
    PROVE  IInv'
<1> USE DEF GuardSteps, Acquires, Checks, Marks, Drains, Releases, StuckEnds, Stops, Killed, Gone
<1>1. TypeOK'
  BY GuardianTyped DEF IInv
<1>2. UNCHANGED <<main, lock, pub, group, spawns>>
  BY DEF leases, files
<1>3. \A c \in Publishers \ {b} : guard'[c] = guard[c]
  BY DEF IInv, TypeOK
<1>4. LeasesHeld'
  BY <1>2, <1>3, BroadcastAssumption DEF IInv, TypeOK, LeasesHeld, Holding, Freed, leases, files
<1>d. guard[b] = "draining" /\ guard'[b] = "clearing" =>
        \A w \in Workers : group[b][w].life = "none" /\ group[b][w].end = "none"
  <2>1. guard[b] = "draining" /\ guard'[b] = "clearing" =>
          Drained(b) /\ \A w \in Workers : ~Open(group[b][w])
    BY DEF IInv, TypeOK
  <2>2. \A w \in Workers : group[b][w] \in GroupState
    BY DEF IInv, TypeOK
  <2> QED
    BY <2>1, <2>2 DEF Drained, Open, GroupState
<1>s. /\ guard'[b] \in Before \cup {"acked"} => guard[b] \in Before \cup {"clearing"}
      /\ guard'[b] = "clearing" => guard[b] = "draining"
  BY DEF IInv, TypeOK, Before
<1>m. \/ marker' = marker /\ guard'[b] # "clearing" /\ (guard'[b] = "marking" => ~marker)
         /\ (Tended(b)' => Tended(b))
      \/ marker' /\ guard[b] = "marking" /\ guard'[b] \in {"ready", "failed"}
      \/ ~marker' /\ guard[b] = "draining" /\ guard'[b] = "clearing"
  BY DEF IInv, TypeOK, CheckMarker, Tended, files
<1>5. NothingRuns'
  BY <1>2, <1>3, <1>d, <1>s DEF IInv, NothingRuns
<1>6. Marked'
  <2>1. CASE marker' = marker /\ guard'[b] # "clearing" /\ (guard'[b] = "marking" => ~marker)
             /\ (Tended(b)' => Tended(b))
    BY <1>2, <1>3, <2>1 DEF IInv, Marked, Tended
  <2>2. CASE marker' /\ guard[b] = "marking" /\ guard'[b] \in {"ready", "failed"}
    <3>1. \A c \in Publishers \ {b} : guard'[c] \notin {"marking", "clearing"}
      BY <1>3, <2>2 DEF IInv, LeasesHeld, Holding
    <3> QED
      BY <2>2, <3>1 DEF Marked
  <2>3. CASE ~marker' /\ guard[b] = "draining" /\ guard'[b] = "clearing"
    <3>1. \A c \in Publishers \ {b} : ~Tended(c)'
      BY <1>3, <2>3 DEF IInv, LeasesHeld, Holding, Tended
    <3>2. \A c \in Publishers, w \in Workers : ~Alive(group'[c][w])
      BY <1>2, <1>d, <2>3 DEF IInv, Alone, Tended, Alive
    <3> QED
      BY <2>3, <3>1, <3>2 DEF Marked, Tended
  <2> QED
    BY <1>m, <2>1, <2>2, <2>3
<1>7. Alone'
  BY <1>2, <1>3 DEF IInv, TypeOK, Alone, Marked, Tended
<1>8. NoTrouble'
  <2> SUFFICES ASSUME ~trouble' PROVE NoTrouble'
    BY DEF NoTrouble
  <2>1. ~Trouble
    BY DEF Trouble
  <2>2. ~trouble
    BY <2>1, FaultTyped DEF IInv
  <2>3. guard[b] \in Holding /\ guard'[b] \notin Holding => ~marker'
    BY <2>1, <2>2 DEF IInv, TypeOK, NoTrouble, Marked, Tended, Holding, CheckMarker, Drained, files
  <2>4. marker' => work' # Nobody
    <3>1. CASE guard'[b] \in Holding
      BY <3>1, <1>4, BroadcastAssumption DEF LeasesHeld
    <3>2. CASE guard'[b] \notin Holding
      <4>1. guard[b] \notin Holding \/ ~marker'
        BY <2>3, <3>2
      <4>2. guard[b] \notin Holding => work' = work /\ marker' = marker
        BY <3>2, <1>m DEF IInv, TypeOK, LeasesHeld, Holding, Freed, leases
      <4> QED
        BY <4>1, <4>2, <2>2 DEF IInv, NoTrouble
    <3> QED
      BY <3>1, <3>2
  <2>5. \A c \in Publishers : guard'[c] = "checking" => ~marker'
    BY <2>1, <2>2, <1>2, <1>3 DEF IInv, TypeOK, NoTrouble, LeasesHeld, Holding, files
  <2>6. \A c \in Publishers :
          /\ pub[c] = "running" => guard'[c] = "ready"
          /\ pub[c] = "closing" => guard'[c] \in {"ready", "draining", "clearing", "acked"}
    BY <2>1, <2>2, <1>2, <1>3 DEF IInv, TypeOK, NoTrouble, Tended, Told, Drained
  <2>7. \A c \in Publishers : Tended(c)' => Tended(c) \/ guard[c] = "marking"
    BY <1>3 DEF IInv, TypeOK, Tended
  <2>8. \A w \in Workers : guard[b] = "marking" => group[b][w].life = "none" /\ group[b][w].end = "none"
    BY DEF IInv, NothingRuns, Before
  <2> QED
    BY <1>2, <2>2, <2>4, <2>5, <2>6, <2>7, <2>8 DEF IInv, NoTrouble, NothingRuns, Before
<1>9. CleanAcked'
  BY <1>2, <1>3 DEF IInv, TypeOK, CleanAcked
<1> QED
  BY <1>1, <1>4, <1>5, <1>6, <1>7, <1>8, <1>9 DEF IInv

\* A launch needs a guardian that is ready, so it adds to a marked directory
\* a group of the only publisher that may have any.
LEMMA SpawnKeeps ==
    ASSUME IInv, NEW b \in Publishers, NEW w \in Workers, Spawn(b, w)
    PROVE  IInv'
<1> DEFINE g == [NoGroup EXCEPT !.life = "starting"]
<1>1. g \in GroupState /\ g.life = "starting" /\ g.end = "none"
  BY DEF NoGroup, GroupState
<1>2. Group(b, w, g) /\ guard[b] = "ready" /\ pub[b] = "running"
  BY DEF Spawn, Group
<1> HIDE DEF g
<1>3. UNCHANGED <<main, work, lock, marker, pub, guard, faults, trouble>>
  BY DEF Spawn, NoFault, leases, files
<1>4. \A c \in Publishers, v \in Workers :
         group'[c][v] = IF c = b /\ v = w THEN g ELSE group[c][v]
  BY <1>2 DEF Group, IInv, TypeOK
<1>5. TypeOK'
  <2>1. spawns' \in [Publishers -> Nat]
    BY DEF Spawn, IInv, TypeOK
  <2> QED
    BY <1>1, <1>2, <1>3, <2>1, GroupTyped DEF IInv, TypeOK
<1>6. LeasesHeld'
  BY <1>3 DEF IInv, LeasesHeld
<1>7. NothingRuns'
  BY <1>2, <1>3, <1>4 DEF IInv, NothingRuns, Before
<1>8. Marked'
  BY <1>2, <1>3, <1>4 DEF IInv, Marked, Tended
<1>9. Alone'
  <2>1. \A c \in Publishers \ {b}, v \in Workers : ~Alive(group'[c][v]) /\ ~Tended(c)
    BY <1>2, <1>4 DEF IInv, Alone, Tended, LeasesHeld, Holding
  <2> QED
    BY <1>3, <2>1 DEF Alone, Tended
<1>10. NoTrouble'
  BY <1>1, <1>3, <1>4 DEF IInv, NoTrouble, Tended
<1>11. CleanAcked'
  BY <1>3 DEF IInv, CleanAcked
<1> QED
  BY <1>5, <1>6, <1>7, <1>8, <1>9, <1>10, <1>11 DEF IInv

\* The operator clears the files of a directory nobody is in.
LEMMA OperatorKeeps ==
    ASSUME IInv, OperatorClears PROVE IInv'
<1>1. UNCHANGED <<main, work, pub, guard, group, spawns, faults>> /\ marker' = FALSE /\ lock' = "none"
      /\ trouble' = FALSE
  BY DEF OperatorClears, leases
<1>2. \A b \in Publishers :
        /\ guard[b] \in {"none", "acked", "failed", "killed"} /\ pub[b] \notin Leading
        /\ \A w \in Workers : ~Alive(group[b][w])
  BY BroadcastAssumption DEF OperatorClears, IInv, LeasesHeld
<1>3. TypeOK'
  BY <1>1 DEF IInv, TypeOK
<1>4. LeasesHeld' /\ NothingRuns' /\ CleanAcked'
  BY <1>1 DEF IInv, LeasesHeld, NothingRuns, CleanAcked
<1>5. Marked' /\ Alone'
  BY <1>1, <1>2 DEF Marked, Alone, Tended
<1>6. NoTrouble'
  BY <1>1, <1>2 DEF NoTrouble, Leading, Tended
<1> QED
  BY <1>3, <1>4, <1>5, <1>6 DEF IInv

\* The group starts in its inductive invariant.
LEMMA Initially == Init => IInv
<1> SUFFICES ASSUME Init PROVE IInv
  OBVIOUS
<1>1. TypeOK
  BY DEF Init, TypeOK, PubStages, GuardStages, GroupState, NoGroup, Nobody
<1>2. \A b \in Publishers, w \in Workers : group[b][w] = NoGroup
  BY DEF Init
<1>3. LeasesHeld /\ CleanAcked
  BY BroadcastAssumption DEF Init, LeasesHeld, CleanAcked, Leading, Holding
<1>4. NothingRuns /\ Marked /\ Alone /\ NoTrouble
  BY <1>2 DEF Init, NothingRuns, Marked, Alone, NoTrouble, Alive, Tended, NoGroup
<1> QED
  BY <1>1, <1>3, <1>4 DEF IInv

\* Every step of the group keeps it.
LEMMA Inductive == IInv /\ [Next]_vars => IInv'
<1> SUFFICES ASSUME IInv, [Next]_vars PROVE IInv'
  OBVIOUS
<1>1. CASE UNCHANGED vars
  BY <1>1 DEF vars, leases, files, IInv, TypeOK, LeasesHeld, NothingRuns, Marked, Alone, NoTrouble,
              CleanAcked, Alive, Tended
<1>2. CASE OperatorClears
  BY <1>2, OperatorKeeps
<1>3. ASSUME NEW b \in Publishers,
             \/ Start(b) \/ Ready(b) \/ GiveUp(b) \/ Refused(b) \/ Close(b) \/ Notices(b)
             \/ Fences(b) \/ Closed(b) \/ Crash(b)
      PROVE  IInv'
  BY <1>3, PublisherKeeps
<1>4. ASSUME NEW b \in Publishers, GuardSteps(b) \/ Stops(b) \/ Killed(b) PROVE IInv'
  BY <1>4, GuardianKeeps
<1>5. ASSUME NEW b \in Publishers, NEW w \in Workers, Spawn(b, w) PROVE IInv'
  BY <1>5, SpawnKeeps
<1>6. ASSUME NEW b \in Publishers, NEW w \in Workers,
             GroupSteps(b, w) \/ EncoderExits(b, w) \/ WrapperDies(b, w)
      PROVE  IInv'
  <2>1. PICK g \in GroupState : GroupStep(b, w, g)
    BY <1>6, GroupSteps_GroupStep DEF IInv
  <2> QED
    BY <2>1, GroupStepKeeps
<1> QED
  BY <1>1, <1>2, <1>3, <1>4, <1>5, <1>6 DEF Next

-----------------------------------------------------------------------------
(* The theorems.                                                            *)

\* Every reachable state satisfies the invariant.
THEOREM Invariant == Spec => []IInv
<1> QED
  BY Initially, Inductive, PTL DEF Spec

\* One broadcast at a time in a media directory, whatever dies and whoever
\* starts (OneBroadcast of Broadcast): the marker, checked under the lease
\* before the first launch, is what keeps the second publisher out.
THEOREM OneAtATime == Spec => []OneBroadcast
<1>1. IInv => OneBroadcast
  <2> SUFFICES ASSUME IInv PROVE OneBroadcast
    OBVIOUS
  <2> DEFINE S == {b \in Publishers : \E w \in Workers : Alive(group[b][w])}
  <2>1. \A b, c \in S : b = c
    BY DEF IInv, Alone
  <2>2. CASE S = {}
    BY <2>2, FS_EmptySet DEF OneBroadcast
  <2>3. ASSUME NEW b \in S PROVE Cardinality(S) = 1
    <3>1. S = {b}
      BY <2>1, <2>3
    <3> HIDE DEF S
    <3> QED
      BY <3>1, FS_Singleton
  <2> QED
    BY <2>2, <2>3 DEF OneBroadcast
<1> QED
  BY <1>1, Invariant, PTL

\* Without trouble the files refuse nobody (RecoversAlone of Broadcast): a
\* marker without a holder, or a record of a lost guardian, always goes back
\* to a fault that the guardian could not put right.
THEOREM NoOperatorNeeded == Spec => []RecoversAlone
<1>1. IInv => RecoversAlone
  BY DEF IInv, NoTrouble, RecoversAlone
<1> QED
  BY <1>1, Invariant, PTL

\* A close() that reports success left no process, and no marker but a
\* successor's or one that trouble explains (CleanIsClean of Broadcast).
THEOREM CleanClose == Spec => []CleanIsClean
<1>1. IInv => CleanIsClean
  <2> SUFFICES ASSUME IInv, NEW b \in Publishers, pub[b] = "clean"
               PROVE  /\ \A w \in Workers : ~Alive(group[b][w])
                      /\ marker => trouble \/ work \notin {Nobody, b}
    BY DEF CleanIsClean
  <2>1. guard[b] = "acked"
    BY DEF IInv, CleanAcked
  <2>2. \A w \in Workers : ~Alive(group[b][w])
    BY <2>1 DEF IInv, NothingRuns, Alive
  <2>3. marker => trouble \/ work \notin {Nobody, b}
    BY <2>1 DEF IInv, NoTrouble, LeasesHeld, Holding
  <2> QED
    BY <2>2, <2>3
<1> QED
  BY <1>1, Invariant, PTL
=============================================================================
