----------------------------- MODULE RequestPort -----------------------------
(***************************************************************************)
(* What one end of a link promises the host that asks through it, without  *)
(* a word of frames, chunks, timers or channels: one request at a time,    *)
(* each answered exactly once, with its whole object or with nothing.      *)
(* After an answer given early the port may stay taken until the far end   *)
(* has stopped, and it may shut at any time, for good.                     *)
(***************************************************************************)
EXTENDS Naturals, Sequences

CONSTANTS Asks,        \* the requests a host may make
          Whole(_),    \* the answer that serves a request
          None         \* the answer that does not

VARIABLES asked,       \* the requests made, the last one last
          answers,     \* the answers given, [id, bytes], id the request's place
          slot         \* "free", "waiting", "draining" or "shut"

vars == <<asked, answers, slot>>

Init == asked = <<>> /\ answers = <<>> /\ slot = "free"

\* Ask; a port whose channel is failing may answer with None at once.
AskFor(q) ==
    /\ slot = "free"
    /\ asked' = Append(asked, q)
    /\ \/ slot' = "waiting" /\ UNCHANGED answers
       \/ /\ slot' = "free"
          /\ answers' = Append(answers, [id |-> Len(asked) + 1, bytes |-> None])

Answer(bytes, next) ==
    /\ slot = "waiting"
    /\ answers' = Append(answers, [id |-> Len(asked), bytes |-> bytes])
    /\ slot' = next
    /\ UNCHANGED asked

Serve == Answer(Whole(asked[Len(asked)]), "free")
GiveUp == \E next \in {"free", "draining", "shut"} : Answer(None, next)

Release == slot = "draining" /\ slot' = "free" /\ UNCHANGED <<asked, answers>>
Shut == /\ slot \in {"free", "draining"}
        /\ slot' = "shut"
        /\ UNCHANGED <<asked, answers>>

Next == (\E q \in Asks : AskFor(q)) \/ Serve \/ GiveUp \/ Release \/ Shut

Spec == Init /\ [][Next]_vars
=============================================================================
