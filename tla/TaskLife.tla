------------------------------ MODULE TaskLife ------------------------------
(***************************************************************************)
(* What an AOTP_TASK object promises to the rest of AWeb (task.h): its     *)
(* process is started at most once and never when the object has been      *)
(* disposed of; the object is freed only after it was disposed of, and     *)
(* never while its process runs.  Task implements this.                    *)
(***************************************************************************)
CONSTANT Task

VARIABLES
    object,    \* the memory of the object
    process,   \* its Exec process
    asked      \* the tasks that have been disposed of

vars == <<object, process, asked>>

Init ==
    /\ object = [t \in Task |-> "none"]
    /\ process = [t \in Task |-> "none"]
    /\ asked = {}

Create(t) ==
    /\ object[t] = "none"
    /\ object' = [object EXCEPT ![t] = "live"]
    /\ UNCHANGED <<process, asked>>

Start(t) ==
    /\ object[t] = "live" /\ process[t] = "none" /\ t \notin asked
    /\ process' = [process EXCEPT ![t] = "runs"]
    /\ UNCHANGED <<object, asked>>

\* The subtask function returns, for reasons of its own or because it was told.
End(t) ==
    /\ object[t] = "live" /\ process[t] = "runs"
    /\ process' = [process EXCEPT ![t] = "ended"]
    /\ UNCHANGED <<object, asked>>

Dispose(t) ==
    /\ object[t] = "live" /\ t \notin asked
    /\ asked' = asked \cup {t}
    /\ UNCHANGED <<object, process>>

Free(t) ==
    /\ object[t] = "live" /\ t \in asked /\ process[t] # "runs"
    /\ object' = [object EXCEPT ![t] = "freed"]
    /\ UNCHANGED <<process, asked>>

Next == \E t \in Task : Create(t) \/ Start(t) \/ End(t) \/ Dispose(t) \/ Free(t)

Spec == Init /\ [][Next]_vars
=============================================================================
