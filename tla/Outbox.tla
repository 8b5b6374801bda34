------------------------------- MODULE Outbox -------------------------------
(***************************************************************************)
(* The message_outbox table of Brain and the four statements of            *)
(* PostgresOutboxStore that change it (brain-python/services/outbox.py).   *)
(* Every statement is one Postgres transaction on rows it locks, so every  *)
(* statement is one atomic step.                                           *)
(*                                                                         *)
(* The instants locked_until and next_attempt_at are kept as the time left *)
(* until them, which is all that the comparisons with now() can see; time  *)
(* passes for every row at once.                                           *)
(***************************************************************************)
EXTENDS Integers, FiniteSets

CONSTANTS
    Items,        \* the ids BIGSERIAL hands out, in ORDER BY created_at, id order
    MaxAttempts,  \* the max_attempts values producers may ask for
    PullLimit,    \* limit of a pull
    Lease         \* lease_seconds of a pull, in clock ticks

ASSUME OutboxAssumption ==
    /\ Items \subseteq Nat \ {0}
    /\ IsFiniteSet(Items)
    /\ MaxAttempts \subseteq Nat \ {0}
    /\ PullLimit \in Nat \ {0}
    /\ Lease \in Nat \ {0}

VARIABLES
    status,       \* status column; "absent" before the row is inserted
    attempts,     \* attempts column
    maxAttempts,  \* max_attempts column; 0 before the row is inserted
    lockLeft,     \* time left until locked_until, NoLock for NULL
    retryLeft     \* time left until next_attempt_at

storeVars == <<status, attempts, maxAttempts, lockLeft, retryLeft>>

NoLock == -1
Statuses == {"absent", "pending", "processing", "sent", "failed"}
Live == {"pending", "processing"}
Settled == {"sent", "failed"}

StoreTypeOK ==
    /\ status \in [Items -> Statuses]
    /\ attempts \in [Items -> Nat]
    /\ maxAttempts \in [Items -> MaxAttempts \cup {0}]
    /\ lockLeft \in [Items -> 0..Lease \cup {NoLock}]
    /\ retryLeft \in [Items -> Nat]

-----------------------------------------------------------------------------
StoreInit ==
    /\ status = [i \in Items |-> "absent"]
    /\ attempts = [i \in Items |-> 0]
    /\ maxAttempts = [i \in Items |-> 0]
    /\ lockLeft = [i \in Items |-> NoLock]
    /\ retryLeft = [i \in Items |-> 0]

\* INSERT of a validated request; the other columns take their defaults.
Enqueue(i, m) ==
    /\ status[i] = "absent"
    /\ \A j \in Items : j < i => status[j] # "absent"
    /\ status' = [status EXCEPT ![i] = "pending"]
    /\ maxAttempts' = [maxAttempts EXCEPT ![i] = m]
    /\ UNCHANGED <<attempts, lockLeft, retryLeft>>

\* Mutants of Pullable: no look at locked_until, and no second chance for a row
\* whose lease ran out.
PullableWhileLeased(i) ==
    /\ attempts[i] < maxAttempts[i]
    /\ status[i] \in Live
    /\ status[i] = "pending" => retryLeft[i] = 0

PullableOnce(i) ==
    attempts[i] < maxAttempts[i] /\ status[i] = "pending" /\ retryLeft[i] = 0

Pullable(i) ==
    /\ attempts[i] < maxAttempts[i]
    /\ \/ status[i] = "pending" /\ retryLeft[i] = 0
       \/ status[i] = "processing" /\ lockLeft[i] <= 0

\* The rows a pull picks when FOR UPDATE SKIP LOCKED passes over "skipped":
\* the PullLimit first of the others.
Picked(skipped) ==
    LET free == {i \in Items : Pullable(i)} \ skipped
    IN  {i \in free : Cardinality({j \in free : j < i}) < PullLimit}

\* Mutant of Pull: a delivery counts as an attempt already when it starts.
PullCounting(skipped) ==
    /\ status' = [i \in Items |->
                    IF i \in Picked(skipped) THEN "processing" ELSE status[i]]
    /\ lockLeft' = [i \in Items |->
                    IF i \in Picked(skipped) THEN Lease ELSE lockLeft[i]]
    /\ attempts' = [i \in Items |->
                    IF i \in Picked(skipped) THEN attempts[i] + 1 ELSE attempts[i]]
    /\ UNCHANGED <<maxAttempts, retryLeft>>

Pull(skipped) ==
    /\ status' = [i \in Items |->
                    IF i \in Picked(skipped) THEN "processing" ELSE status[i]]
    /\ lockLeft' = [i \in Items |->
                    IF i \in Picked(skipped) THEN Lease ELSE lockLeft[i]]
    /\ UNCHANGED <<attempts, maxAttempts, retryLeft>>

\* Mutant of AckFinds: no filter on the status.
AckFindsAny(i) == status[i] # "absent"

\* Neither ack nor fail asks who holds the lease. Each finds no row, and Brain
\* answers 404, when its condition is false.
AckFinds(i) == status[i] \in Live \cup {"sent"}

Ack(i) ==
    /\ AckFinds(i)
    /\ status' = [status EXCEPT ![i] = "sent"]
    /\ lockLeft' = [lockLeft EXCEPT ![i] = NoLock]
    /\ UNCHANGED <<attempts, maxAttempts, retryLeft>>

FailFinds(i) == status[i] \in Live /\ attempts[i] < maxAttempts[i]

RetryDelay == 0    \* next_attempt_at = now()

\* Mutant of Fail: the last attempt is not seen to be the last.
FailOffByOne(i) ==
    /\ FailFinds(i)
    /\ attempts' = [attempts EXCEPT ![i] = @ + 1]
    /\ status' = [status EXCEPT ![i] =
                    IF attempts[i] >= maxAttempts[i] THEN "failed" ELSE "pending"]
    /\ lockLeft' = [lockLeft EXCEPT ![i] = NoLock]
    /\ retryLeft' = [retryLeft EXCEPT ![i] = RetryDelay]
    /\ UNCHANGED maxAttempts

Fail(i) ==
    /\ FailFinds(i)
    /\ attempts' = [attempts EXCEPT ![i] = @ + 1]
    /\ status' = [status EXCEPT ![i] =
                    IF attempts[i] + 1 >= maxAttempts[i] THEN "failed" ELSE "pending"]
    /\ lockLeft' = [lockLeft EXCEPT ![i] = NoLock]
    /\ retryLeft' = [retryLeft EXCEPT ![i] = RetryDelay]
    /\ UNCHANGED maxAttempts

Elapse(t) == IF t > 0 THEN t - 1 ELSE t

Tick ==
    /\ lockLeft' = [i \in Items |-> Elapse(lockLeft[i])]
    /\ retryLeft' = [i \in Items |-> Elapse(retryLeft[i])]
    /\ UNCHANGED <<status, attempts, maxAttempts>>

StoreNext ==
    \/ \E i \in Items, m \in MaxAttempts : Enqueue(i, m)
    \/ \E skipped \in SUBSET Items : Pull(skipped)
    \/ \E i \in Items : Ack(i) \/ Fail(i)
    \/ Tick

StoreSpec == StoreInit /\ [][StoreNext]_storeVars

-----------------------------------------------------------------------------
\* The columns of a row agree whatever sequence of statements produced them:
\* a lease exists exactly while the row is being delivered, a row that can
\* still be delivered has attempts left (otherwise no pull and no fail would
\* ever touch it again and it would hang for good), and a row gives up exactly
\* when its attempts are used up.
RowCoherent ==
    \A i \in Items :
        /\ lockLeft[i] # NoLock <=> status[i] = "processing"
        /\ status[i] \in Live \cup {"sent"} => attempts[i] < maxAttempts[i]
        /\ status[i] = "failed" => attempts[i] = maxAttempts[i]
        /\ status[i] = "absent" => attempts[i] = 0

\* A row that Brain has recorded as sent or failed keeps that outcome, whatever
\* late or repeated ack, fail or pull still arrives for it.
OutcomeIsFinal ==
    [][\A i \in Items : status[i] \in Settled => status'[i] = status[i]]_storeVars

\* A lease that has not run out is not extended or handed to somebody else: it
\* only runs down, or ends because the delivery was reported.
LeaseIsExclusive ==
    [][\A i \in Items :
        lockLeft[i] > 0 => lockLeft'[i] <= lockLeft[i]]_storeVars

\* Every failure report that is counted uses up exactly one attempt, and no
\* other statement changes the count: redelivery alone never exhausts a row.
OnlyFailuresCount ==
    [][\A i \in Items :
        attempts'[i] # attempts[i] =>
            /\ attempts'[i] = attempts[i] + 1
            /\ status[i] \in Live
            /\ status'[i] \in {"pending", "failed"}]_storeVars

=============================================================================
