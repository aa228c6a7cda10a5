---------------------------- MODULE SyncJobLease ----------------------------
(***************************************************************************)
(* What the queue of synchronisation jobs promises, without connections,   *)
(* requests, row locks, schedules or clocks: a job is run by one worker at *)
(* a time, at most MaxAttempts times, only its runner settles it, and a    *)
(* settled job is never touched again.  A job whose runner dies stays      *)
(* running with nobody at it.                                              *)
(***************************************************************************)
EXTENDS Naturals

CONSTANTS Jobs, Workers, MaxAttempts

VARIABLES
    status,    \* job -> its state
    attempts,  \* job -> runs started so far
    runners    \* job -> the workers at it

leaseVars == <<status, attempts, runners>>

LeaseInit ==
    /\ status = [j \in Jobs |-> "absent"]
    /\ attempts = [j \in Jobs |-> 0]
    /\ runners = [j \in Jobs |-> {}]

Enqueue(new) ==
    /\ \A j \in new : status[j] = "absent"
    /\ status' = [j \in Jobs |-> IF j \in new THEN "queued" ELSE status[j]]
    /\ UNCHANGED <<attempts, runners>>

Start(j, w) ==
    /\ status[j] = "queued"
    /\ attempts[j] < MaxAttempts
    /\ \A i \in Jobs : w \notin runners[i]
    /\ runners[j] = {}
    /\ status' = [status EXCEPT ![j] = "running"]
    /\ attempts' = [attempts EXCEPT ![j] = @ + 1]
    /\ runners' = [runners EXCEPT ![j] = {w}]

Settle(j, w) ==
    /\ status[j] = "running"
    /\ runners[j] = {w}
    /\ \E outcome \in {"succeeded",
                       IF attempts[j] < MaxAttempts THEN "queued" ELSE "failed"} :
         status' = [status EXCEPT ![j] = outcome]
    /\ runners' = [runners EXCEPT ![j] = {}]
    /\ UNCHANGED attempts

Lose(j, w) ==
    /\ status[j] = "running"
    /\ runners[j] = {w}
    /\ runners' = [runners EXCEPT ![j] = {}]
    /\ UNCHANGED <<status, attempts>>

LeaseNext ==
    \/ \E new \in SUBSET Jobs : Enqueue(new)
    \/ \E j \in Jobs, w \in Workers : Start(j, w) \/ Settle(j, w) \/ Lose(j, w)

LeaseSpec == LeaseInit /\ [][LeaseNext]_leaseVars
=============================================================================
