---------------------------- MODULE OutboxPromise ----------------------------
(***************************************************************************)
(* What the outbox promises to a producer of asynchronous messages,        *)
(* whatever the number of Gateway sessions and the calls that get lost:    *)
(* an accepted item ends at most once, as sent only after it has been      *)
(* transmitted and as failed exactly when its last allowed attempt has     *)
(* been missed. It may be transmitted more than once.                      *)
(***************************************************************************)
EXTENDS Naturals

CONSTANTS Items, MaxAttempts

VARIABLES
    outcome,     \* "absent", "queued", "sent" or "failed"
    allowed,     \* attempts the producer allows
    missed,      \* attempts reported as failed
    transmitted  \* items that have been written to a WebSocket

vars == <<outcome, allowed, missed, transmitted>>

Init ==
    /\ outcome = [i \in Items |-> "absent"]
    /\ allowed = [i \in Items |-> 0]
    /\ missed = [i \in Items |-> 0]
    /\ transmitted = {}

Accept(i) ==
    /\ outcome[i] = "absent"
    /\ outcome' = [outcome EXCEPT ![i] = "queued"]
    /\ \E m \in MaxAttempts : allowed' = [allowed EXCEPT ![i] = m]
    /\ UNCHANGED <<missed, transmitted>>

Transmit(i) ==
    /\ outcome[i] # "absent"
    /\ transmitted' = transmitted \cup {i}
    /\ UNCHANGED <<outcome, allowed, missed>>

Succeed(i) ==
    /\ outcome[i] = "queued" /\ i \in transmitted
    /\ outcome' = [outcome EXCEPT ![i] = "sent"]
    /\ UNCHANGED <<allowed, missed, transmitted>>

Miss(i) ==
    /\ outcome[i] = "queued"
    /\ missed' = [missed EXCEPT ![i] = @ + 1]
    /\ outcome' = [outcome EXCEPT ![i] =
                    IF missed'[i] = allowed[i] THEN "failed" ELSE @]
    /\ UNCHANGED <<allowed, transmitted>>

Next == \E i \in Items : Accept(i) \/ Transmit(i) \/ Succeed(i) \/ Miss(i)

Spec == Init /\ [][Next]_vars

=============================================================================
