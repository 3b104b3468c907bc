------------------------------- MODULE Debounce -------------------------------
(***************************************************************************)
(* What MRPRecomputeScheduler promises for the alarms of one part, without  *)
(* timers, locks or the relay: "exactly one MRP recompute" for a burst, the *)
(* last writer's (its docstring, and the comment in _schedule).  An alarm   *)
(* waits until a newer one takes its place or it leaves, once; what has     *)
(* left is answered by a request in its bucket, its own unless there was    *)
(* one already.  Only a failed append or a crash loses it.                  *)
(***************************************************************************)
VARIABLES
    waiting,   \* the alarm, [id, bucket], that the next request is for, if any
    leaving,   \* the departures under way: [thread, alarm]
    answered,  \* the alarms requested for
    mishaps    \* history variable: the kinds of failure so far

vars == <<waiting, leaving, answered, mishaps>>

Init ==
    /\ waiting = {}
    /\ leaving = {}
    /\ answered = {}
    /\ mishaps = {}

\* Last writer wins.
Ask(alarm) ==
    /\ waiting' = {alarm}
    /\ UNCHANGED <<leaving, answered>>

\* The alarm leaves, with a thread that has no other.
Leave ==
    /\ waiting' = {}
    /\ \E taken \in leaving' :
           /\ waiting = {taken.alarm}
           /\ \A other \in leaving : other.thread # taken.thread
           /\ leaving' = leaving \cup {taken}
    /\ UNCHANGED <<answered, mishaps>>

Buckets == {alarm.bucket : alarm \in answered}

Answer(taken) ==
    /\ leaving' = leaving \ {taken}
    /\ answered' = IF taken.alarm.bucket \in Buckets THEN answered
                   ELSE answered \cup {taken.alarm}
    /\ UNCHANGED <<waiting, mishaps>>

Lose(taken) ==
    /\ leaving' = leaving \ {taken}
    /\ mishaps' = mishaps \cup {"emit"}
    /\ UNCHANGED <<waiting, answered>>

\* The process dies.
Forget ==
    /\ waiting' = {} /\ leaving' = {}
    /\ mishaps' = mishaps \cup {"crash"}
    /\ UNCHANGED answered

\* A failure of the relay.
Stumble == mishaps' = mishaps \cup {"publish"}

Next ==
    \/ \E alarm \in waiting' : Ask(alarm) /\ (UNCHANGED mishaps \/ Stumble)
    \/ Leave
    \/ \E taken \in leaving : Answer(taken) \/ Lose(taken)
    \/ Forget
    \/ Stumble /\ UNCHANGED <<waiting, leaving, answered>>

Spec == Init /\ [][Next]_vars
=============================================================================
