--------------------------- MODULE MemoryService ---------------------------
(***************************************************************************)
(* The memory of Brain at work: administrators' commands, decay sweeps and *)
(* extraction jobs on one memory_items table (brain-python/services/       *)
(* memory.py and memory_extractor.py). Commands are requests with threads  *)
(* of their own, an extraction runs in a background thread, and a sweep or *)
(* a job uses in one transaction what it has read in another: everything   *)
(* here interleaves.                                                       *)
(***************************************************************************)
EXTENDS MemoryItems, Sequences

CONSTANTS
    Groups,         \* the groups whose administrators issue commands
    Commands,       \* bound: the kinds of commands they issue
    Sweeps,         \* decay commands that may run at the same time
    Days,           \* the days arguments of /memory lifecycle decay
    Nights,         \* bound: numbers of days that may pass at once
    Jobs,           \* extraction jobs
    Answers,        \* what the extractor model may answer
    MaxCandidates,  \* max_candidates: how many candidates of an answer are used
    BatchSize,      \* how many of the latest messages a job reads
    Backlog,        \* messages stored before the behaviour starts
    Faults          \* what may go wrong: "database", "model", "restart"

VARIABLES
    enabled,        \* memory_settings: the groups in which memory is enabled
    said,           \* the messages stored so far
    sweeps,         \* what each sweep has read and not yet written back
    jobs,           \* the background threads of extractions
    runs,           \* memory_runs: the status of each job's row, "none" before it
    notices,        \* the notice each job has put into the outbox
    earned          \* history: rows a human or their evidence has confirmed

restVars == <<said, sweeps, jobs, runs, notices>>
vars == <<items, enabled, earned, restVars>>

\* What the model writes about a memory. Only the class may be missing.
RawFact == [scope : STRING, group : Names, user : Names, target : Names,
            type : Types, class : Classes \cup {""}, content : STRING]
RawCandidate == [fact : RawFact, evidence : SUBSET Messages, confidence : Percent,
                 importance : Percent, conflict : Nat]

ASSUME ServiceAssumption ==
    /\ Groups \subseteq Names
    /\ Days \subseteq Nat /\ Nights \subseteq Nat /\ BatchSize \in Nat /\ MaxCandidates \in Nat \ {0}
    /\ Answers \subseteq Seq(RawCandidate)
    /\ Backlog \subseteq Messages
    /\ \A table \in InitialTables, i \in Ids : table[i].evidence \subseteq Backlog

-----------------------------------------------------------------------------
(* Validation of the candidates of a model (_clean_candidate and           *)
(* _validate_candidates).                                                  *)

Cleaned(raw) ==
    [scope |-> raw.scope, group |-> raw.group, type |-> raw.type, content |-> raw.content,
     user |-> IF raw.scope = "group" THEN Nobody ELSE raw.user,
     target |-> IF raw.scope = "relationship" THEN raw.target ELSE Nobody,
     class |-> IF raw.class = "" THEN ClassForType(raw.type) ELSE raw.class]

Senders(batch) == {m.sender : m \in batch}

\* Mutant of Supported: whoever the model names is believed.
SupportedByEvidence(c, group, batch) ==
    /\ c.fact.scope \in Scopes \ {"global"} /\ c.fact.group = group
    /\ c.evidence # {} /\ c.evidence \subseteq batch

Supported(c, group, batch) ==
    /\ c.fact.scope \in Scopes \ {"global"} /\ c.fact.group = group
    /\ c.evidence # {} /\ c.evidence \subseteq batch
    /\ c.fact.scope = "user" => c.fact.user \in Senders(batch) \ {Nobody}
    /\ c.fact.scope = "relationship" =>
            /\ {c.fact.user, c.fact.target} \subseteq Senders(batch) \ {Nobody}
            /\ c.fact.user # c.fact.target

\* The positions of the candidates that are stored; the others are skipped.
Accepted(answer, group, batch) ==
    {k \in 1..Len(answer) : k <= MaxCandidates /\ Supported(answer[k], group, batch)}

-----------------------------------------------------------------------------
Stages == {"idle", "reading", "opening", "asking", "storing", "matching", "writing",
           "closing", "notifying", "done", "lost"}

Verdicts == {"", "succeeded", "failed", "no_messages"}
RunStatuses == {"none", "running", "succeeded", "failed"}

NoCandidate == [fact |-> NoFact, evidence |-> {}, confidence |-> 0, importance |-> 0]

\* A thread of _run_extract_background: the batch it has read, the answer it
\* got, the positions still to store, the candidate in hand and the row (with
\* its id, 0 for none) that says the same already.
Job == [stage : Stages, group : Names, batch : SUBSET Messages,
        answer : {<<>>} \cup Answers, todo : SUBSET Nat,
        candidate : Candidate, match : Ids \cup {0}, seen : Row, verdict : Verdicts]

NewJob == [stage |-> "idle", group |-> Nobody, batch |-> {}, answer |-> <<>>, todo |-> {},
           candidate |-> NoCandidate, match |-> 0, seen |-> Absent, verdict |-> ""]

\* A decay command: the rows it has read and those it has still to write back.
DecaySweep == [left : SUBSET Ids, seen : [Ids -> Row], days : Nat]
NoSweep == [left |-> {}, seen |-> [i \in Ids |-> Absent], days |-> 0]

TypeOK ==
    /\ items \in [Ids -> Row]
    /\ enabled \subseteq Groups
    /\ said \subseteq Messages
    /\ sweeps \in [Sweeps -> DecaySweep]
    /\ jobs \in [Jobs -> Job]
    /\ runs \in [Jobs -> RunStatuses]
    /\ notices \in [Jobs -> Verdicts]
    /\ earned \subseteq Ids

Proven(row) ==
    /\ row.status # "absent"
    /\ \/ row.fact.type = "warning" /\ row.confidence >= 70
       \/ row.confidence >= 78 /\ row.importance >= 55 /\ Cardinality(row.evidence) >= 2

Init ==
    /\ items \in InitialTables
    /\ enabled = Groups
    /\ said = Backlog
    /\ sweeps = [s \in Sweeps |-> NoSweep]
    /\ jobs = [x \in Jobs |-> NewJob]
    /\ runs = [x \in Jobs |-> "none"]
    /\ notices = [x \in Jobs |-> ""]
    /\ earned = {i \in Ids : Recallable(items[i]) \/ Proven(items[i])}

Remember == earned' = earned \cup {i \in Ids : Proven(items'[i])}

-----------------------------------------------------------------------------
(* Administrators, chats and time. *)

AdminConfirms ==
    \E i \in Ids, g \in Groups \cup {Nobody}, anywhere \in BOOLEAN :
        Confirm(i, g, anywhere) /\ earned' = earned \cup {i} /\ UNCHANGED <<enabled, restVars>>

AdminRetires ==
    /\ \E i \in Ids, g \in Groups \cup {Nobody}, anywhere \in BOOLEAN :
            Archive(i, g, anywhere) \/ MarkStale(i, g, anywhere) \/ Delete(i, g, anywhere)
    /\ UNCHANGED <<earned, enabled, restVars>>

AdminForgets ==
    /\ \E g \in Groups : DeleteGroup(g) \/ \E u \in Senders(Messages) : DeleteUser(g, u)
    /\ UNCHANGED <<earned, enabled, restVars>>

SetGroupMemory(g, on) ==
    /\ enabled' = IF on THEN enabled \cup {g} ELSE enabled \ {g}
    /\ UNCHANGED <<items, earned, restVars>>

\* Messages get their ids in the order in which they are stored.
Say(m) ==
    /\ m \notin said /\ \A n \in Messages \ said : m.id <= n.id
    /\ said' = said \cup {m}
    /\ UNCHANGED <<items, enabled, sweeps, jobs, runs, notices, earned>>

Age(days) ==
    /\ \E i \in Ids : Stored(i) /\ items[i].age < AgeCap
    /\ DaysPass(days) /\ UNCHANGED <<earned, enabled, restVars>>

-----------------------------------------------------------------------------
(* Decay sweeps (apply_decay). *)

SweepVars == <<enabled, said, jobs, runs, notices>>

StartSweep(s, g, days) ==
    LET rows == DecayScan(g)
    IN  /\ sweeps[s].left = {} /\ rows # {}
        /\ sweeps' = [sweeps EXCEPT ![s] =
                [left |-> rows, days |-> days,
                 seen |-> [i \in Ids |-> IF i \in rows THEN items[i] ELSE Absent]]]
        /\ UNCHANGED <<items, earned, SweepVars>>

\* One turn of the loop: the oldest row first.
SweepRow(s, i) ==
    /\ i \in sweeps[s].left
    /\ \A j \in sweeps[s].left :
            \/ sweeps[s].seen[i].age > sweeps[s].seen[j].age
            \/ sweeps[s].seen[i].age = sweeps[s].seen[j].age /\ i <= j
    /\ DecayWrite(i, sweeps[s].seen[i], sweeps[s].days) /\ Remember
    /\ sweeps' = [sweeps EXCEPT ![s] =
            IF sweeps[s].left = {i} THEN NoSweep
            ELSE [left |-> sweeps[s].left \ {i}, days |-> sweeps[s].days,
                  seen |-> [sweeps[s].seen EXCEPT ![i] = Absent]]]
    /\ UNCHANGED SweepVars

\* A statement fails: the command answers that memory is unavailable and the
\* rows written so far stay written.
SweepFails(s) ==
    /\ "database" \in Faults /\ sweeps[s].left # {}
    /\ sweeps' = [sweeps EXCEPT ![s] = NoSweep]
    /\ UNCHANGED <<items, earned, SweepVars>>
-----------------------------------------------------------------------------
(* Extraction jobs (extract_group_memories in _run_extract_background).    *)

JobVars == <<enabled, said, sweeps>>
Rows == <<items, earned>>

\* The thread goes on with nothing but what it has come to.
Jump(x, stage, verdict) ==
    jobs' = [jobs EXCEPT ![x] = [NewJob EXCEPT !.stage = stage, !.verdict = verdict]]

\* /memory extract: the only look at the group's setting.
Extract(x, g) ==
    /\ jobs[x].stage = "idle" /\ g \in enabled
    /\ jobs' = [jobs EXCEPT ![x].stage = "reading", ![x].group = g]
    /\ UNCHANGED <<Rows, JobVars, runs, notices>>

\* The latest n of some messages.
Newest(S, n) == {m \in S : Cardinality({l \in S : l.id > m.id}) < n}

ReadMessages(x) ==
    LET batch == Newest({m \in said : m.group = jobs[x].group}, BatchSize)
    IN  /\ jobs[x].stage = "reading"
        /\ jobs' = [jobs EXCEPT ![x].batch = batch,
                                ![x].stage = IF batch = {} THEN "notifying" ELSE "opening",
                                ![x].verdict = IF batch = {} THEN "no_messages" ELSE @]
        /\ UNCHANGED <<Rows, JobVars, runs, notices>>

OpenRun(x) ==
    /\ jobs[x].stage = "opening"
    /\ runs' = [runs EXCEPT ![x] = "running"]
    /\ jobs' = [jobs EXCEPT ![x].stage = "asking"]
    /\ UNCHANGED <<Rows, JobVars, notices>>

ModelAnswers(x, answer) ==
    /\ jobs[x].stage = "asking"
    /\ jobs' = [jobs EXCEPT ![x].stage = "storing", ![x].answer = answer,
                            ![x].todo = Accepted(answer, jobs[x].group, jobs[x].batch)]
    /\ UNCHANGED <<Rows, JobVars, runs, notices>>

\* Mutant of TakeCandidate: the loop does not move on.
TakeCandidateAgain(x, k) ==
    /\ jobs[x].stage = "storing" /\ k \in jobs[x].todo
    /\ jobs' = [jobs EXCEPT ![x].stage = "matching",
                            ![x].candidate = [NoCandidate EXCEPT !.fact = Cleaned(jobs[x].answer[k].fact),
                                              !.evidence = jobs[x].answer[k].evidence]]
    /\ UNCHANGED <<Rows, JobVars, runs, notices>>

\* The next candidate: the row it contradicts is marked first.
TakeCandidate(x, k) ==
    /\ jobs[x].stage = "storing"
    /\ k \in jobs[x].todo /\ \A j \in jobs[x].todo : k <= j
    /\ LET c == jobs[x].answer[k]
       IN  /\ IF Contradictable(c.conflict, jobs[x].group)
              THEN Contradict(c.conflict, jobs[x].group) ELSE UNCHANGED items
           /\ jobs' = [jobs EXCEPT ![x].stage = "matching", ![x].todo = @ \ {k},
                ![x].candidate = [fact |-> Cleaned(c.fact), evidence |-> c.evidence,
                                  confidence |-> c.confidence, importance |-> c.importance]]
    /\ Remember /\ UNCHANGED <<JobVars, runs, notices>>

Match(x) ==
    LET rows == Matching(jobs[x].candidate.fact)
    IN  /\ jobs[x].stage = "matching"
        /\ \/ \E i \in rows :
                /\ LastSeen(i, rows)
                /\ jobs' = [jobs EXCEPT ![x].stage = "writing", ![x].match = i,
                                        ![x].seen = items[i]]
           \/ /\ rows = {}
              /\ jobs' = [jobs EXCEPT ![x].stage = "writing"]
        /\ UNCHANGED <<Rows, JobVars, runs, notices>>

Write(x, i) ==
    /\ jobs[x].stage = "writing"
    /\ IF jobs[x].match = 0 THEN Insert(i, jobs[x].candidate)
       ELSE i = jobs[x].match /\ ReinforceWrite(i, jobs[x].seen, jobs[x].candidate)
    /\ jobs' = [jobs EXCEPT ![x].stage = "storing", ![x].candidate = NoCandidate,
                            ![x].match = 0, ![x].seen = Absent]
    /\ Remember /\ UNCHANGED <<JobVars, runs, notices>>

\* Mutant of CloseRun: the row is closed the same way whatever happened.
CloseRunAlike(x) ==
    /\ jobs[x].stage = "closing" \/ (jobs[x].stage = "storing" /\ jobs[x].todo = {})
    /\ runs' = [runs EXCEPT ![x] = "succeeded"]
    /\ Jump(x, "notifying", IF jobs[x].stage = "closing" THEN "failed" ELSE "succeeded")
    /\ UNCHANGED <<Rows, JobVars, notices>>

\* finish_memory_run, with the status the job has come to.
CloseRun(x) ==
    LET verdict == IF jobs[x].stage = "closing" THEN "failed" ELSE "succeeded"
    IN  /\ jobs[x].stage = "closing" \/ (jobs[x].stage = "storing" /\ jobs[x].todo = {})
        /\ runs' = [runs EXCEPT ![x] = verdict]
        /\ Jump(x, "notifying", verdict)
        /\ UNCHANGED <<Rows, JobVars, notices>>

\* The notice goes into the outbox (services/outbox.py).
Notify(x) ==
    /\ jobs[x].stage = "notifying"
    /\ notices' = [notices EXCEPT ![x] = jobs[x].verdict]
    /\ Jump(x, "done", "")
    /\ UNCHANGED <<Rows, JobVars, runs>>

\* A call raises. Once the run exists its row is closed as failed, unless that
\* statement fails too; a notice that cannot be stored is only logged.
JobFails(x) ==
    /\ (IF jobs[x].stage = "asking" THEN "model" ELSE "database") \in Faults
    /\ \/ jobs[x].stage \in {"reading", "opening", "closing"} /\ Jump(x, "notifying", "failed")
       \/ jobs[x].stage \in {"asking", "storing", "matching", "writing"} /\ Jump(x, "closing", "")
       \/ jobs[x].stage = "notifying" /\ Jump(x, "done", "")
    /\ UNCHANGED <<Rows, JobVars, runs, notices>>

\* Brain stops: its threads are daemons and nothing takes their work up again.
Restart ==
    /\ "restart" \in Faults
    /\ sweeps' = [s \in Sweeps |-> NoSweep]
    /\ jobs' = [x \in Jobs |-> IF jobs[x].stage \in {"idle", "done"} THEN jobs[x]
                               ELSE [NewJob EXCEPT !.stage = "lost"]]
    /\ jobs' # jobs \/ sweeps' # sweeps
    /\ UNCHANGED <<Rows, enabled, said, runs, notices>>

-----------------------------------------------------------------------------
Admin ==
    \/ "confirm" \in Commands /\ AdminConfirms
    \/ "forget" \in Commands /\ AdminForgets
    \/ "retire" \in Commands /\ AdminRetires
    \/ "disable" \in Commands /\ \E g \in Groups, on \in BOOLEAN : SetGroupMemory(g, on)

Sweep == \E s \in Sweeps :
    \/ \E g \in Groups \cup {Nobody}, days \in Days : StartSweep(s, g, days)
    \/ \E i \in Ids : SweepRow(s, i)
    \/ SweepFails(s)

Work(x) ==
    \/ ReadMessages(x) \/ OpenRun(x) \/ Match(x) \/ CloseRun(x) \/ Notify(x)
    \/ \E answer \in Answers : ModelAnswers(x, answer)
    \/ \E k \in 1..MaxCandidates : TakeCandidate(x, k)
    \/ \E i \in Ids : Write(x, i)

Next ==
    \/ Admin \/ Sweep \/ Restart
    \/ \E m \in Messages : Say(m)
    \/ \E days \in Nights : Age(days)
    \/ \E x \in Jobs : Work(x) \/ JobFails(x) \/ \E g \in Groups : Extract(x, g)

Spec == Init /\ [][Next]_vars

\* Threads go on as long as the process lives; nothing else is promised.
FairSpec ==
    /\ Spec
    /\ \A x \in Jobs : WF_vars(Work(x))
    /\ \A s \in Sweeps : WF_vars(\E i \in Ids : SweepRow(s, i))

-----------------------------------------------------------------------------
\* The rows of the table, whatever mixture of statements and stale write-backs
\* produced them: an active row is never archived, and a contradiction can
\* still be counted on a row that is marked contradicted.
RowsCoherent == \A i \in Ids : RowCoherent(items[i])

\* A memory that rests on messages of its own group, among people who have
\* spoken there.
Grounded(fact, evidence, messages) ==
    LET here == {m \in messages : m.group = fact.group}
    IN  /\ evidence # {} /\ evidence \subseteq here
        /\ {fact.user, fact.target} \subseteq Senders(here) \cup {Nobody}
        /\ fact.scope = "relationship" => fact.user # fact.target

\* docs/overview/ai-memory-plan.zh-CN.md asks for evidence of the batch for
\* every memory. Whatever the model answers, a stored memory rests on messages
\* of its own group, and the people it is about have spoken there.
MemoriesAreGrounded ==
    \A i \in Ids : Stored(i) => Grounded(items[i].fact, items[i].evidence, said)

\* What a recall may use was once confirmed by a human or by evidence that
\* meets the documented thresholds, even when concurrent write-backs have taken
\* some of that evidence away again.
RecallableIsEarned == \A i \in Ids : Recallable(items[i]) => i \in earned

HeldBySweep == UNION {sweeps[s].left : s \in Sweeps}
HeldByJob == {jobs[x].match : x \in {y \in Jobs : jobs[y].seen.lifecycle # "contradicted"}}

\* A memory that was forgotten stays forgotten, except through a decay sweep
\* that had read the row before: no command, no extraction and no later sweep
\* brings it back.
ForgottenStays ==
    [][\A i \in Ids \ HeldBySweep :
        items[i].status = "deleted" => items'[i].status = "deleted"]_vars

\* A contradicted memory is used again only after a human confirmed it, except
\* through the write-back of somebody who had read the row before.
ContradictionStays ==
    [][\A i \in Ids \ (HeldBySweep \cup HeldByJob) :
        items[i].lifecycle = "contradicted" /\ Recallable(items'[i]) =>
            \E g \in Groups \cup {Nobody}, anywhere \in BOOLEAN : Confirm(i, g, anywhere)]_vars

\* The notice of a job and its row in memory_runs tell the same story; only a
\* database failure may leave the run without a verdict, and never a success
\* behind a notice of failure.
VerdictsAgree ==
    \A x \in Jobs : notices[x] \in {"succeeded", "failed"} =>
        \/ runs[x] = notices[x]
        \/ notices[x] = "failed" /\ runs[x] \in {"none", "running"} /\ "database" \in Faults

\* Every sweep and every extraction comes to an end, whatever fails.
WorkEnds ==
    /\ \A x \in Jobs : jobs[x].stage = "reading" ~> jobs[x].stage \in {"done", "lost"}
    /\ \A s \in Sweeps : sweeps[s].left # {} ~> sweeps[s].left = {}

Promise == INSTANCE MemoryPromise WITH
    Memories <- Ids,
    known <- {i \in Ids : Stored(i)},
    usable <- {i \in Ids : Recallable(items[i])},
    forgotten <- {i \in Ids : items[i].status = "deleted"}

\* Commands and concurrent extractions implement the promise of MemoryPromise.
KeepsPromise == Promise!Spec

-----------------------------------------------------------------------------
(* What the documents say of the same steps.                               *)

\* docs/api/memory-api.md: a deleted row is "Never recalled".
DeletedNeverRecalled ==
    [][\A i \in Ids : items[i].status = "deleted" => ~Recallable(items'[i])]_vars

=============================================================================
