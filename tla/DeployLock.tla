----------------------------- MODULE DeployLock -----------------------------
(***************************************************************************)
(* The deployment lock of app/core/deploy_lock.py.                         *)
(*                                                                         *)
(* The lock is a table in the memory of the one server process: a key is   *)
(* held when it has a timestamp, and a timestamp older than                *)
(* LOCK_TIMEOUT_SECONDS is dropped by the next call of acquire.  The table *)
(* does not know who holds a key, so release takes no owner; `holder' is a *)
(* history variable that remembers the task a key was acquired for.        *)
(***************************************************************************)
EXTENDS Integers, Sequences, FiniteSets

CONSTANTS
    Key,                   \* lock keys, "system:service:environment[...]"
    Task,                  \* DeployTask ids
    NoTask,                \* no task
    LOCK_TIMEOUT_SECONDS   \* the lifetime of a lock, in ticks of `now'

ASSUME LockTimeoutAssumption == LOCK_TIMEOUT_SECONDS \in Nat
ASSUME NoTaskAssumption == NoTask \notin Task

VARIABLES
    now,      \* time.time()
    stamp,    \* _lock_timestamps: key -> time it was acquired, or Free
    holder    \* history: key -> the task it was acquired for

lockVars == <<now, stamp, holder>>

Free == -1

LockInit ==
    /\ now = 0
    /\ stamp = [k \in Key |-> Free]
    /\ holder = [k \in Key |-> NoTask]

Expired(k) == stamp[k] # Free /\ now - stamp[k] > LOCK_TIMEOUT_SECONDS

\* What DeployLock.is_locked answers.
IsLocked(k) == stamp[k] # Free /\ ~Expired(k)

\* DeployLock.acquire(key) returning True, on behalf of task t: the call drops
\* every expired key before it looks at its own.
Acquire(k, t) ==
    /\ ~IsLocked(k)
    /\ stamp' = [i \in Key |-> IF i = k THEN now
                               ELSE IF Expired(i) THEN Free ELSE stamp[i]]
    /\ holder' = [i \in Key |-> IF i = k THEN t
                                ELSE IF Expired(i) THEN NoTask ELSE holder[i]]
    /\ UNCHANGED now

\* DeployLock.acquire(key) returning False.
AcquireConflict(k) ==
    /\ IsLocked(k)
    /\ stamp' = [i \in Key |-> IF Expired(i) THEN Free ELSE stamp[i]]
    /\ holder' = [i \in Key |-> IF Expired(i) THEN NoTask ELSE holder[i]]
    /\ UNCHANGED now

\* DeployLock.release, called for each key of a set: no owner is checked.
ReleaseAll(ks) ==
    /\ stamp' = [k \in Key |-> IF k \in ks THEN Free ELSE stamp[k]]
    /\ holder' = [k \in Key |-> IF k \in ks THEN NoTask ELSE holder[k]]
    /\ UNCHANGED now

Release(k) == ReleaseAll({k})

\* A restart of the process empties the table.
ForgetLocks == ReleaseAll(Key)

\* The tasks that own a key which the next acquire drops.
Lapsing == {holder[k] : k \in {i \in Key : Expired(i)}}

LockTypeOK ==
    /\ now \in Nat
    /\ stamp \in [Key -> Nat \cup {Free}]
    /\ holder \in [Key -> Task \cup {NoTask}]
    /\ \A k \in Key : stamp[k] = Free <=> holder[k] = NoTask
=============================================================================
