------------------------------- MODULE JobLedger -------------------------------
(***************************************************************************)
(* What jobs/queue.py promises the rest of the program about one job,      *)
(* without saying how: a job waits, is run by at most one worker at a      *)
(* time, ends at most once, and is started at most MAX_ATTEMPTS times when *)
(* the starts its worker gives back are not counted.  A worker may vanish: *)
(* the job then stays active with nobody running it, because nothing in    *)
(* the program reclaims it.                                                *)
(*                                                                         *)
(* JobQueue implements this specification (its PROPERTY Ledger!Spec).      *)
(***************************************************************************)
EXTENDS Naturals

CONSTANTS Jobs, Workers, MAX_ATTEMPTS

VARIABLES
    phase,      \* phase[j]: where job j is in its life
    tries,      \* tries[j]: the attempts charged to j
    holder      \* holder[j]: the workers running j, at most one

vars == <<phase, tries, holder>>

Ended == {"succeeded", "failed"}

Init ==
    /\ phase = [j \in Jobs |-> "absent"]
    /\ tries = [j \in Jobs |-> 0]
    /\ holder = [j \in Jobs |-> {}]

Submit(j) ==
    /\ phase[j] = "absent"
    /\ phase' = [phase EXCEPT ![j] = "waiting"]
    /\ UNCHANGED <<tries, holder>>

\* A start is charged at once.  hs is {} when the worker vanishes while starting.
Start(j, hs) ==
    /\ phase[j] = "waiting"
    /\ tries[j] < MAX_ATTEMPTS
    /\ phase' = [phase EXCEPT ![j] = "active"]
    /\ tries' = [tries EXCEPT ![j] = @ + 1]
    /\ holder' = [holder EXCEPT ![j] = hs]

\* Only the worker running a job moves it out of "active", and it lets go of it.
Release(j, p, n) ==
    /\ phase[j] = "active"
    /\ holder[j] # {}
    /\ phase' = [phase EXCEPT ![j] = p]
    /\ tries' = [tries EXCEPT ![j] = n]
    /\ holder' = [holder EXCEPT ![j] = {}]

GiveBack(j) == Release(j, "waiting", tries[j] - 1)

Retry(j) == tries[j] < MAX_ATTEMPTS /\ Release(j, "waiting", tries[j])

End(j) == \E p \in Ended : Release(j, p, tries[j])

Vanish(j) ==
    /\ holder[j] # {}
    /\ holder' = [holder EXCEPT ![j] = {}]
    /\ UNCHANGED <<phase, tries>>

Next ==
    \E j \in Jobs :
        \/ Submit(j)
        \/ Start(j, {})
        \/ \E w \in Workers : Start(j, {w})
        \/ GiveBack(j)
        \/ Retry(j)
        \/ End(j)
        \/ Vanish(j)

Spec == Init /\ [][Next]_vars
================================================================================
