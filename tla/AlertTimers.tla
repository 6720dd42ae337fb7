---------------------------- MODULE AlertTimers -----------------------------
(***************************************************************************)
(* What alert evaluation promises, with no caches, snapshots or batches: a *)
(* sample is judged in one indivisible step.  An instant rule is raised by *)
(* a firing sample; a duration rule is raised by a firing sample that      *)
(* comes Duration or more after the sample that started its timer, with    *)
(* no clearing sample in between; a clearing sample lowers both.           *)
(***************************************************************************)
EXTENDS Integers

CONSTANTS Rules, Duration, None,
    Times    \* the instants at which a sample may be taken

VARIABLES
    since,   \* rule -> time of the sample that started its timer, or None
    raised   \* rule -> time the alert was raised, or None

Unset == [r \in Rules |-> None]

Init == since = Unset /\ raised = Unset

Held(r, t) == Duration[r] = 0 \/ (since[r] # None /\ t - since[r] >= Duration[r])

\* A sample taken at time t in which the rules of fired hold, those of cleared do
\* not, and the others gave no result.
Judge(t, fired, cleared) ==
    /\ since' = [r \in Rules |->
                   IF r \in cleared THEN None
                   ELSE IF r \in fired /\ Duration[r] # 0 /\ since[r] = None THEN t
                   ELSE since[r]]
    /\ raised' = [r \in Rules |->
                    IF r \in cleared THEN None
                    ELSE IF r \in fired /\ Held(r, t) /\ raised[r] = None THEN t
                    ELSE raised[r]]

\* A sample taken inside the maintenance window stops every timer.
Suspend == since' = Unset /\ raised' = raised

\* The host is deleted.
Forget == since' = Unset /\ raised' = Unset

Next ==
    \/ \E t \in Times, fired, cleared \in SUBSET Rules :
         fired \cap cleared = {} /\ Judge(t, fired, cleared)
    \/ Suspend
    \/ Forget

Spec == Init /\ [][Next]_<<since, raised>>
=============================================================================
