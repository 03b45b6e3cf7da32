----------------------------- MODULE WriteQueue -----------------------------
(***************************************************************************)
(* What post_write promises the operators of one device                    *)
(* (server/src/routes.rs): a write that is taken is executed at most once, *)
(* in the order in which the writes were taken, or is lost; and "success"  *)
(* is told only of a write that was executed.  WritePath implements this.  *)
(***************************************************************************)
EXTENDS Sequences

CONSTANT Writes

VARIABLES
    queue,   \* taken and not executed, in order
    done,    \* what the PLC executed, in order
    told     \* told[w]: "nothing", "success" or "failure"

queueVars == <<queue, done, told>>

Among(w, s) == \E i \in DOMAIN s : s[i] = w

Init ==
    /\ queue = <<>> /\ done = <<>>
    /\ told = [w \in Writes |-> "nothing"]

Take(w) ==
    /\ told[w] = "nothing" /\ ~Among(w, queue) /\ ~Among(w, done)
    /\ queue' = Append(queue, w)
    /\ UNCHANGED <<done, told>>

Execute ==
    /\ queue # <<>>
    /\ done' = Append(done, Head(queue)) /\ queue' = Tail(queue)
    /\ UNCHANGED told

\* The PLC refuses, or the connection fails.
LoseOne == queue # <<>> /\ queue' = Tail(queue) /\ UNCHANGED <<done, told>>

\* The polling task is stopped; what is on its way to the PLC may arrive.
LoseAll ==
    /\ queue' = <<>> \/ (queue # <<>> /\ queue' = <<Head(queue)>>)
    /\ UNCHANGED <<done, told>>

Tell(w, answer) ==
    /\ told[w] = "nothing"
    /\ answer = "success" => Among(w, done)
    /\ told' = [told EXCEPT ![w] = answer]
    /\ UNCHANGED <<queue, done>>

Next ==
    \/ Execute \/ LoseOne \/ LoseAll
    \/ \E w \in Writes : Take(w) \/ Tell(w, "success") \/ Tell(w, "failure")

Spec == Init /\ [][Next]_queueVars
=============================================================================
