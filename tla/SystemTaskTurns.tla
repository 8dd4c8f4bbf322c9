---------------------------- MODULE SystemTaskTurns -----------------------------
(***************************************************************************)
(* What the leases of model/system_task.go promise for the tasks of one    *)
(* type: a key has one active task, a task has the turn only from before   *)
(* it starts, and once the turn has gone the task can only fail.           *)
(***************************************************************************)
EXTENDS Integers

CONSTANTS Tasks, KeyPlans

VARIABLES st, key, turn   \* turn: the task whose lease is on record, 0 for none

turnVars == <<st, key, turn>>

IsActive(t) == st[t] \in {"pending", "running"}

TurnInit ==
    /\ st = [t \in Tasks |-> "none"] /\ turn = 0
    /\ key \in KeyPlans

Submit(t) ==
    /\ st[t] = "none" /\ st' = [st EXCEPT ![t] = "pending"]
    /\ \A u \in Tasks : IsActive(u) => key[u] # key[t]
    /\ UNCHANGED <<key, turn>>

\* a claim takes the turn before the task starts; whoever had it has lost it
Take(t) == st[t] = "pending" /\ turn' = t /\ UNCHANGED <<st, key>>
Drop == turn' = 0 /\ UNCHANGED <<st, key>>
\* a claim that stalled starts its task although the turn has gone elsewhere
Start(t) ==
    /\ st[t] = "pending" /\ st' = [st EXCEPT ![t] = "running"]
    /\ turn' \in {turn, 0} /\ UNCHANGED key

\* a result is recorded in turn; a lapsed task is failed at any time
Finish(t) ==
    /\ st[t] = "running" /\ turn = t
    /\ \E s \in {"succeeded", "failed"} : st' = [st EXCEPT ![t] = s]
    /\ UNCHANGED <<key, turn>>
Expire(t) == st[t] = "running" /\ st' = [st EXCEPT ![t] = "failed"] /\ UNCHANGED <<key, turn>>

TurnNext == Drop \/ \E t \in Tasks : Submit(t) \/ Take(t) \/ Start(t) \/ Finish(t) \/ Expire(t)
TurnSpec == TurnInit /\ [][TurnNext]_turnVars
=============================================================================
