---------------------------- MODULE MemoryProofs ----------------------------
(***************************************************************************)
(* Theorems about Brain's memory (MemoryService): they hold for any number *)
(* of rows, messages, groups, sweeps and jobs, whatever the model answers, *)
(* whatever fails and however the threads interleave.                      *)
(***************************************************************************)
EXTENDS MemoryService, MemoryItemsProofs

JobsOK == jobs \in [Jobs -> Job]

\* The thread of an extraction moves on.
Moves(x, job) == x \in Jobs /\ job \in Job /\ jobs' = [jobs EXCEPT ![x] = job]

\* What a job has still to do, and what it holds.
SameWork(old, new) ==
    new.group = old.group /\ new.batch = old.batch /\ new.answer = old.answer
                          /\ new.todo = old.todo
SameHand(old, new) ==
    new.candidate = old.candidate /\ new.match = old.match /\ new.seen = old.seen

\* Work is only held where the code has the variables for it, and every
\* position still to store is one whose candidate passed the validation.
JobIsSound(job) ==
    /\ job.batch # {} => job.stage \notin {"idle", "reading"}
    /\ job.todo # {} => job.stage \in {"storing", "matching", "writing"}
    /\ job.match # 0 => job.stage = "writing" /\ job.seen.lifecycle # "archived"
    /\ \A k \in job.todo :
            k \in 1..Len(job.answer) /\ Supported(job.answer[k], job.group, job.batch)

JobsAreSound == \A x \in Jobs : JobIsSound(jobs[x])

-----------------------------------------------------------------------------
(* The steps of an extraction.                                             *)

\* Empty records have the types of their columns.
LEMMA AbsentType == Absent \in Row
  <1> DEFINE zero == 0
  <1>1. zero \in Percent /\ zero \in Fraction /\ zero \in Nat
    BY DEF Percent, Fraction
  <1>2. "absent" \in RowStatuses /\ "weak" \in Lifecycles
    BY DEF RowStatuses, Lifecycles
  <1>3. Absent = [status |-> "absent", lifecycle |-> "weak", fact |-> NoFact,
                  evidence |-> {}, confidence |-> zero, importance |-> zero,
                  stability |-> zero, contradictions |-> zero, age |-> zero,
                  decay |-> zero, quality |-> zero]
    BY DEF Absent
  <1> HIDE DEF zero
  <1>4. QED
    BY <1>1, <1>2, <1>3 DEF Row

\* A job that holds no candidate.
LEMMA NoCandidateType == NoCandidate \in Candidate
  <1> DEFINE zero == 0
  <1>1. zero \in Percent
    BY DEF Percent
  <1>2. NoCandidate = [fact |-> NoFact, evidence |-> {}, confidence |-> zero,
                       importance |-> zero]
    BY DEF NoCandidate
  <1> HIDE DEF zero
  <1>3. QED
    BY <1>1, <1>2 DEF Candidate

\* A job that has not started.
LEMMA NewJobType ==
    /\ NewJob \in Job /\ NewJob.stage = "idle" /\ NewJob.verdict = ""
    /\ NewJob.batch = {} /\ NewJob.todo = {} /\ NewJob.match = 0
  <1> DEFINE zero == 0
             empty == <<>>
  <1>1. "idle" \in Stages /\ "" \in Verdicts
    BY DEF Stages, Verdicts
  <1>2. Nobody \in Names
    BY DEF Names
  <1>3. zero \in Ids \cup {0} /\ empty \in {<<>>} \cup Answers /\ zero = 0
    OBVIOUS
  <1>4. NewJob = [stage |-> "idle", group |-> Nobody, batch |-> {}, answer |-> empty,
                  todo |-> {}, candidate |-> NoCandidate, match |-> zero, seen |-> Absent,
                  verdict |-> ""]
    BY DEF NewJob
  <1> HIDE DEF empty
  <1>5. zero \in Ids \cup {0} => NewJob \in Job
    <2> HIDE DEF zero
    <2>1. QED
      BY <1>1, <1>2, <1>3, <1>4, AbsentType, NoCandidateType DEF Job
  <1>6. QED
    BY <1>3, <1>4, <1>5

\* The columns of a job.
LEMMA JobColumns ==
    ASSUME NEW job \in Job
    PROVE  /\ job.stage \in Stages /\ job.group \in Names /\ job.batch \in SUBSET Messages
           /\ job.answer \in {<<>>} \cup Answers /\ job.todo \in SUBSET Nat
           /\ job.candidate \in Candidate /\ job.match \in Ids \cup {0} /\ job.seen \in Row
           /\ job.verdict \in Verdicts
  BY DEF Job

\* A thread that keeps nothing but its verdict.
JumpsTo(x, stage, verdict) == \E job \in Job :
    /\ Moves(x, job) /\ job.stage = stage /\ job.verdict = verdict
    /\ job.batch = {} /\ job.todo = {} /\ job.match = 0

\* Whatever a thread leaves behind, it has dropped its work.
LEMMA JumpMoves ==
    ASSUME JobsOK, NEW x \in Jobs, NEW stage \in Stages, NEW verdict \in Verdicts,
           Jump(x, stage, verdict)
    PROVE  JumpsTo(x, stage, verdict)
  <1> DEFINE job == [NewJob EXCEPT !.stage = stage, !.verdict = verdict]
  <1>1. jobs' = [jobs EXCEPT ![x] = job]
    BY DEF Jump
  <1>2. /\ job \in Job /\ job.stage = stage /\ job.verdict = verdict
        /\ job.batch = NewJob.batch /\ job.todo = NewJob.todo /\ job.match = NewJob.match
    BY NewJobType DEF Job
  <1> HIDE DEF job
  <1>3. QED
    BY <1>1, <1>2, NewJobType DEF Moves, JumpsTo

\* The command hands the group to the thread.
LEMMA ExtractMoves ==
    ASSUME JobsOK, NEW x \in Jobs, NEW g \in Groups, Extract(x, g)
    PROVE  \E job \in Job :
                /\ Moves(x, job) /\ jobs[x].stage = "idle"
                /\ job.stage = "reading" /\ job.group = g /\ job.verdict = jobs[x].verdict
                /\ job.batch = jobs[x].batch /\ job.todo = jobs[x].todo
                /\ SameHand(jobs[x], job)
  <1> DEFINE job == [jobs[x] EXCEPT !.stage = "reading", !.group = g]
  <1>1. jobs[x] \in Job
    BY DEF JobsOK
  <1>2. jobs' = [jobs EXCEPT ![x] = job] /\ jobs[x].stage = "idle"
    BY <1>1 DEF Extract, JobsOK
  <1>3. "reading" \in Stages /\ g \in Names
    BY ServiceAssumption DEF Stages
  <1>4. /\ job \in Job /\ job.stage = "reading" /\ job.group = g
        /\ job.verdict = jobs[x].verdict /\ job.batch = jobs[x].batch
        /\ job.todo = jobs[x].todo /\ SameHand(jobs[x], job)
    BY <1>1, <1>3 DEF Job, SameHand
  <1> HIDE DEF job
  <1>5. QED
    BY <1>2, <1>4 DEF Moves

\* The batch holds messages of the job's group.
LEMMA ReadMoves ==
    ASSUME JobsOK, NEW x \in Jobs, said \in SUBSET Messages, ReadMessages(x)
    PROVE  \E job \in Job :
                /\ Moves(x, job) /\ jobs[x].stage = "reading"
                /\ job.batch \subseteq {m \in said : m.group = jobs[x].group}
                /\ \/ job.stage = "opening" /\ job.verdict = jobs[x].verdict
                   \/ job.stage = "notifying" /\ job.verdict = "no_messages"
                /\ job.group = jobs[x].group /\ job.todo = jobs[x].todo
                /\ SameHand(jobs[x], job)
  <1> DEFINE here == {m \in said : m.group = jobs[x].group}
             batch == Newest(here, BatchSize)
             stage == IF batch = {} THEN "notifying" ELSE "opening"
             verdict == IF batch = {} THEN "no_messages" ELSE jobs[x].verdict
             job == [jobs[x] EXCEPT !.batch = batch, !.stage = stage, !.verdict = verdict]
  <1>1. jobs[x] \in Job
    BY DEF JobsOK
  <1>2. jobs' = [jobs EXCEPT ![x] = job] /\ jobs[x].stage = "reading"
    BY <1>1 DEF ReadMessages, JobsOK
  <1>3. batch \subseteq here /\ here \in SUBSET Messages
    BY DEF Newest
  <1> HIDE DEF batch
  <1>4. /\ stage \in Stages /\ verdict \in Verdicts
        /\ \/ stage = "opening" /\ verdict = jobs[x].verdict
           \/ stage = "notifying" /\ verdict = "no_messages"
    BY <1>1, JobColumns DEF Stages, Verdicts
  <1> HIDE DEF stage, verdict
  <1>5. batch \in SUBSET Messages
    BY <1>3
  <1>6. /\ job \in Job /\ job.batch = batch /\ job.stage = stage /\ job.verdict = verdict
        /\ job.group = jobs[x].group /\ job.todo = jobs[x].todo /\ SameHand(jobs[x], job)
    BY <1>1, <1>4, <1>5 DEF Job, SameHand
  <1> HIDE DEF job
  <1>7. QED
    BY <1>2, <1>3, <1>4, <1>6 DEF Moves

\* The run is opened.
LEMMA OpenMoves ==
    ASSUME JobsOK, NEW x \in Jobs, OpenRun(x)
    PROVE  \E job \in Job :
                /\ Moves(x, job) /\ jobs[x].stage = "opening" /\ job.stage = "asking"
                /\ job.verdict = jobs[x].verdict
                /\ SameWork(jobs[x], job) /\ SameHand(jobs[x], job)
  <1> DEFINE job == [jobs[x] EXCEPT !.stage = "asking"]
  <1>1. jobs[x] \in Job
    BY DEF JobsOK
  <1>2. jobs' = [jobs EXCEPT ![x] = job] /\ jobs[x].stage = "opening"
    BY <1>1 DEF OpenRun, JobsOK
  <1>3. "asking" \in Stages
    BY DEF Stages
  <1>4. /\ job \in Job /\ job.stage = "asking" /\ job.verdict = jobs[x].verdict
        /\ SameWork(jobs[x], job) /\ SameHand(jobs[x], job)
    BY <1>1, <1>3 DEF Job, SameWork, SameHand
  <1> HIDE DEF job
  <1>5. QED
    BY <1>2, <1>4 DEF Moves

\* Of an answer only the candidates that pass the validation are to be stored.
LEMMA AnswerMoves ==
    ASSUME JobsOK, NEW x \in Jobs, NEW answer \in Answers, ModelAnswers(x, answer)
    PROVE  \E job \in Job :
                /\ Moves(x, job) /\ jobs[x].stage = "asking" /\ job.stage = "storing"
                /\ job.answer = answer /\ job.group = jobs[x].group
                /\ job.batch = jobs[x].batch /\ job.verdict = jobs[x].verdict
                /\ job.todo = Accepted(answer, jobs[x].group, jobs[x].batch)
                /\ SameHand(jobs[x], job)
  <1> DEFINE todo == Accepted(answer, jobs[x].group, jobs[x].batch)
             job == [jobs[x] EXCEPT !.stage = "storing", !.answer = answer, !.todo = todo]
  <1>1. jobs[x] \in Job
    BY DEF JobsOK
  <1>2. jobs' = [jobs EXCEPT ![x] = job] /\ jobs[x].stage = "asking"
    BY <1>1 DEF ModelAnswers, JobsOK
  <1>3. "storing" \in Stages
    BY DEF Stages
  <1>4. todo \in SUBSET Nat
    BY DEF Accepted
  <1> HIDE DEF todo
  <1>5. /\ job \in Job /\ job.stage = "storing" /\ job.answer = answer
        /\ job.group = jobs[x].group /\ job.batch = jobs[x].batch
        /\ job.verdict = jobs[x].verdict /\ job.todo = todo /\ SameHand(jobs[x], job)
    BY <1>1, <1>3, <1>4 DEF Job, SameHand
  <1> HIDE DEF job
  <1>6. QED
    BY <1>2, <1>5 DEF Moves, todo

\* What passes the validation has, once it is cleaned, the types of the table.
LEMMA CleanedType ==
    ASSUME NEW raw \in RawCandidate, NEW group, NEW batch, Supported(raw, group, batch)
    PROVE  Cleaned(raw.fact) \in Fact
  <1> DEFINE fact == raw.fact
             user == IF fact.scope = "group" THEN Nobody ELSE fact.user
             target == IF fact.scope = "relationship" THEN fact.target ELSE Nobody
             class == IF fact.class = "" THEN ClassForType(fact.type) ELSE fact.class
  <1>1. fact \in RawFact
    BY DEF RawCandidate
  <1>2. fact.scope \in Scopes
    BY DEF Supported
  <1> HIDE DEF fact
  <1>3. /\ fact.group \in Names /\ fact.user \in Names /\ fact.target \in Names
        /\ fact.type \in Types /\ fact.class \in Classes \cup {""} /\ fact.content \in STRING
    BY <1>1 DEF RawFact
  <1>4. user \in Names /\ target \in Names
    BY <1>3 DEF Names
  <1>5. ClassForType(fact.type) \in Classes
    BY DEF ClassForType, Classes, HalfLife
  <1>6. class \in Classes
    BY <1>3, <1>5
  <1> DEFINE clean == [scope |-> fact.scope, group |-> fact.group, type |-> fact.type,
                       content |-> fact.content, user |-> user, target |-> target,
                       class |-> class]
  <1>7. Cleaned(fact) = clean
    BY DEF Cleaned
  <1> HIDE DEF user, target, class
  <1>8. clean \in Fact
    BY <1>2, <1>3, <1>4, <1>6 DEF Fact
  <1>9. QED
    BY <1>7, <1>8 DEF fact

\* A position still to store holds a candidate of the model that was validated.
LEMMA TodoIsValid ==
    ASSUME JobsOK, JobsAreSound, NEW x \in Jobs, NEW k \in jobs[x].todo
    PROVE  /\ jobs[x].answer[k] \in RawCandidate
           /\ Supported(jobs[x].answer[k], jobs[x].group, jobs[x].batch)
  <1> DEFINE answer == jobs[x].answer
  <1>1. /\ k \in 1..Len(answer)
        /\ Supported(answer[k], jobs[x].group, jobs[x].batch)
    BY DEF JobsAreSound, JobIsSound
  <1>2. jobs[x] \in Job
    BY DEF JobsOK
  <1>3. answer \in {<<>>} \cup Answers
    BY <1>2, JobColumns
  <1> HIDE DEF answer
  <1>4. answer # <<>>
    BY <1>1
  <1>5. answer \in Seq(RawCandidate)
    BY <1>3, <1>4, ServiceAssumption
  <1>6. answer[k] \in RawCandidate
    BY <1>1, <1>5
  <1>7. QED
    BY <1>1, <1>6 DEF answer

\* The next candidate is one that passed the validation.
LEMMA TakeMoves ==
    ASSUME JobsOK, JobsAreSound, NEW x \in Jobs, NEW k, TakeCandidate(x, k)
    PROVE  LET c == jobs[x].answer[k]
           IN  /\ k \in jobs[x].todo
               /\ \E job \in Job :
                    /\ Moves(x, job) /\ jobs[x].stage = "storing" /\ job.stage = "matching"
                    /\ job.todo = jobs[x].todo \ {k} /\ job.answer = jobs[x].answer
                    /\ job.group = jobs[x].group /\ job.batch = jobs[x].batch
                    /\ job.candidate.fact = Cleaned(c.fact)
                    /\ job.candidate.evidence = c.evidence
                    /\ job.match = jobs[x].match /\ job.verdict = jobs[x].verdict
  <1> DEFINE c == jobs[x].answer[k]
             hand == [fact |-> Cleaned(c.fact), evidence |-> c.evidence,
                      confidence |-> c.confidence, importance |-> c.importance]
             todo == jobs[x].todo \ {k}
             job == [jobs[x] EXCEPT !.stage = "matching", !.todo = todo, !.candidate = hand]
  <1>1. jobs[x] \in Job
    BY DEF JobsOK
  <1>2. /\ jobs' = [jobs EXCEPT ![x] = job] /\ jobs[x].stage = "storing"
        /\ k \in jobs[x].todo
    BY <1>1 DEF TakeCandidate, JobsOK
  <1>3. c \in RawCandidate /\ Cleaned(c.fact) \in Fact
    BY <1>2, TodoIsValid, CleanedType
  <1> HIDE DEF c
  <1>4. /\ hand \in Candidate /\ hand.fact = Cleaned(c.fact) /\ hand.evidence = c.evidence
    BY <1>3 DEF Candidate, RawCandidate
  <1>5. "matching" \in Stages
    BY DEF Stages
  <1>6. todo \in SUBSET Nat
    BY <1>1, JobColumns
  <1> HIDE DEF hand, todo
  <1>7. /\ job \in Job /\ job.stage = "matching" /\ job.todo = todo
        /\ job.answer = jobs[x].answer /\ job.group = jobs[x].group
        /\ job.batch = jobs[x].batch /\ job.candidate = hand
        /\ job.match = jobs[x].match /\ job.verdict = jobs[x].verdict
    BY <1>1, <1>4, <1>5, <1>6 DEF Job
  <1> HIDE DEF job
  <1>8. \E new \in Job :
            /\ Moves(x, new) /\ new.stage = "matching"
            /\ new.todo = todo /\ new.answer = jobs[x].answer
            /\ new.group = jobs[x].group /\ new.batch = jobs[x].batch
            /\ new.candidate.fact = Cleaned(c.fact) /\ new.candidate.evidence = c.evidence
            /\ new.match = jobs[x].match /\ new.verdict = jobs[x].verdict
    BY <1>2, <1>4, <1>7 DEF Moves
  <1>9. QED
    BY <1>2, <1>8 DEF todo, c

\* The row a job takes for its candidate is an active one that says the same.
LEMMA MatchMoves ==
    ASSUME JobsOK, ItemsOK, NEW x \in Jobs, Match(x)
    PROVE  \E job \in Job :
                /\ Moves(x, job) /\ jobs[x].stage = "matching" /\ job.stage = "writing"
                /\ job.verdict = jobs[x].verdict /\ SameWork(jobs[x], job)
                /\ job.candidate = jobs[x].candidate
                /\ \/ /\ job.match \in Matching(jobs[x].candidate.fact)
                      /\ job.seen = items[job.match]
                   \/ SameHand(jobs[x], job)
  <1>1. jobs[x] \in Job
    BY DEF JobsOK
  <1>2. "writing" \in Stages
    BY DEF Stages
  <1>3. ASSUME NEW i \in Matching(jobs[x].candidate.fact),
               jobs' = [jobs EXCEPT ![x].stage = "writing", ![x].match = i,
                                    ![x].seen = items[i]]
        PROVE  \E job \in Job :
                /\ Moves(x, job) /\ job.stage = "writing"
                /\ job.verdict = jobs[x].verdict /\ SameWork(jobs[x], job)
                /\ job.candidate = jobs[x].candidate
                /\ job.match = i /\ job.seen = items[i]
    <2> DEFINE job == [jobs[x] EXCEPT !.stage = "writing", !.match = i, !.seen = items[i]]
    <2>1. i \in Ids \cup {0} /\ items[i] \in Row
      BY DEF Matching, ItemsOK
    <2>2. jobs' = [jobs EXCEPT ![x] = job]
      BY <1>1, <1>3 DEF JobsOK
    <2>3. /\ job \in Job /\ job.stage = "writing" /\ job.verdict = jobs[x].verdict
          /\ SameWork(jobs[x], job) /\ job.candidate = jobs[x].candidate
          /\ job.match = i /\ job.seen = items[i]
      BY <1>1, <1>2, <2>1 DEF Job, SameWork
    <2> HIDE DEF job
    <2>4. QED
      BY <2>2, <2>3 DEF Moves
  <1>4. ASSUME jobs' = [jobs EXCEPT ![x].stage = "writing"]
        PROVE  \E job \in Job :
                /\ Moves(x, job) /\ job.stage = "writing"
                /\ job.verdict = jobs[x].verdict /\ SameWork(jobs[x], job)
                /\ SameHand(jobs[x], job)
    <2> DEFINE job == [jobs[x] EXCEPT !.stage = "writing"]
    <2>1. jobs' = [jobs EXCEPT ![x] = job]
      BY <1>1, <1>4 DEF JobsOK
    <2>2. /\ job \in Job /\ job.stage = "writing" /\ job.verdict = jobs[x].verdict
          /\ SameWork(jobs[x], job) /\ SameHand(jobs[x], job)
      BY <1>1, <1>2 DEF Job, SameWork, SameHand
    <2> HIDE DEF job
    <2>3. QED
      BY <2>1, <2>2 DEF Moves
  <1>5. /\ jobs[x].stage = "matching"
        /\ \/ \E i \in Matching(jobs[x].candidate.fact) :
                jobs' = [jobs EXCEPT ![x].stage = "writing", ![x].match = i,
                                     ![x].seen = items[i]]
           \/ jobs' = [jobs EXCEPT ![x].stage = "writing"]
    BY DEF Match
  <1>6. CASE jobs' = [jobs EXCEPT ![x].stage = "writing"]
    BY <1>4, <1>5, <1>6 DEF SameHand
  <1>7. CASE \E i \in Matching(jobs[x].candidate.fact) :
                jobs' = [jobs EXCEPT ![x].stage = "writing", ![x].match = i,
                                     ![x].seen = items[i]]
    <2>1. PICK i \in Matching(jobs[x].candidate.fact) :
                jobs' = [jobs EXCEPT ![x].stage = "writing", ![x].match = i,
                                     ![x].seen = items[i]]
      BY <1>7
    <2>2. PICK job \in Job :
                /\ Moves(x, job) /\ job.stage = "writing"
                /\ job.verdict = jobs[x].verdict /\ SameWork(jobs[x], job)
                /\ job.candidate = jobs[x].candidate
                /\ job.match = i /\ job.seen = items[i]
      BY <1>3, <2>1
    <2>3. /\ job.match \in Matching(jobs[x].candidate.fact)
          /\ job.seen = items[job.match]
      BY <2>2
    <2>4. QED
      BY <1>5, <2>2, <2>3
  <1>8. QED
    BY <1>5, <1>6, <1>7

\* After a write the hands of a job are empty.
LEMMA WriteMoves ==
    ASSUME JobsOK, NEW x \in Jobs, NEW i, Write(x, i)
    PROVE  \E job \in Job :
                /\ Moves(x, job) /\ jobs[x].stage = "writing" /\ job.stage = "storing"
                /\ job.match = 0 /\ job.verdict = jobs[x].verdict /\ SameWork(jobs[x], job)
  <1> DEFINE none == 0
             job == [jobs[x] EXCEPT !.stage = "storing", !.candidate = NoCandidate,
                                    !.match = none, !.seen = Absent]
  <1>1. jobs[x] \in Job
    BY DEF JobsOK
  <1>2. jobs' = [jobs EXCEPT ![x] = job] /\ jobs[x].stage = "writing"
    BY <1>1 DEF Write, JobsOK
  <1>3. "storing" \in Stages
    BY DEF Stages
  <1>4. none \in Ids \cup {0} /\ none = 0
    OBVIOUS
  <1>5. none \in Ids \cup {0} =>
            /\ job \in Job /\ job.stage = "storing" /\ job.match = none
            /\ job.verdict = jobs[x].verdict /\ SameWork(jobs[x], job)
    <2> HIDE DEF none
    <2>1. QED
      BY <1>1, <1>3, AbsentType, NoCandidateType DEF Job, SameWork
  <1> HIDE DEF job
  <1>6. QED
    BY <1>2, <1>4, <1>5 DEF Moves

-----------------------------------------------------------------------------
(* The steps of a decay sweep.                                             *)

\* A sweep that has nothing to do.
LEMMA NoSweepType == NoSweep \in DecaySweep /\ NoSweep.left = {}
  <1> DEFINE none == 0
             seen == [i \in Ids |-> Absent]
  <1>1. none \in Nat
    OBVIOUS
  <1>2. seen \in [Ids -> Row]
    BY AbsentType
  <1>3. NoSweep = [left |-> {}, seen |-> seen, days |-> none]
    BY DEF NoSweep
  <1> HIDE DEF none, seen
  <1>4. QED
    BY <1>1, <1>2, <1>3 DEF DecaySweep

\* A sweep starts with the rows as they are.
LEMMA StartMoves ==
    ASSUME ItemsOK, NEW s \in Sweeps, NEW g, NEW days \in Days, StartSweep(s, g, days)
    PROVE  \E new \in DecaySweep :
                /\ sweeps' = [sweeps EXCEPT ![s] = new]
                /\ new.left = DecayScan(g) /\ \A i \in new.left : new.seen[i] = items[i]
  <1> DEFINE rows == DecayScan(g)
             seen == [i \in Ids |-> IF i \in rows THEN items[i] ELSE Absent]
             new == [left |-> rows, days |-> days, seen |-> seen]
  <1>1. rows \subseteq Ids
    BY DEF DecayScan
  <1>2. sweeps' = [sweeps EXCEPT ![s] = new]
    BY DEF StartSweep
  <1> HIDE DEF rows
  <1>3. seen \in [Ids -> Row] /\ \A i \in rows : seen[i] = items[i]
    BY <1>1, AbsentType DEF ItemsOK
  <1>4. days \in Nat
    BY ServiceAssumption
  <1> HIDE DEF seen
  <1>5. new \in DecaySweep /\ new.left = rows /\ new.seen = seen
    BY <1>1, <1>3, <1>4 DEF DecaySweep
  <1>6. QED
    BY <1>2, <1>3, <1>5 DEF rows

\* A sweep goes on with the rows that are left, as it has read them.
LEMMA SweepMoves ==
    ASSUME sweeps \in [Sweeps -> DecaySweep], NEW s \in Sweeps, NEW i \in Ids, SweepRow(s, i)
    PROVE  /\ i \in sweeps[s].left
           /\ \E new \in DecaySweep :
                /\ sweeps' = [sweeps EXCEPT ![s] = new]
                /\ new.left \subseteq sweeps[s].left \ {i}
                /\ \A j \in new.left : new.seen[j] = sweeps[s].seen[j]
  <1> DEFINE old == sweeps[s]
             left == old.left \ {i}
             seen == [old.seen EXCEPT ![i] = Absent]
             rest == [left |-> left, days |-> old.days, seen |-> seen]
             new == IF old.left = {i} THEN NoSweep ELSE rest
  <1>1. i \in old.left /\ sweeps' = [sweeps EXCEPT ![s] = new]
    BY Zenon DEF SweepRow
  <1>2. old \in DecaySweep
    OBVIOUS
  <1> HIDE DEF old
  <1>3. left \in SUBSET Ids /\ seen \in [Ids -> Row]
    BY <1>2, AbsentType DEF DecaySweep
  <1>4. \A j \in left : seen[j] = old.seen[j]
    BY <1>2 DEF DecaySweep
  <1>5. left \subseteq old.left \ {i}
    OBVIOUS
  <1> HIDE DEF left, seen
  <1>6. rest \in DecaySweep /\ rest.left = left /\ rest.seen = seen
    BY <1>2, <1>3 DEF DecaySweep
  <1>7. \/ new = NoSweep
        \/ new = rest
    OBVIOUS
  <1> HIDE DEF rest
  <1> HIDE DEF new
  <1>8. /\ new \in DecaySweep /\ new.left \subseteq old.left \ {i}
        /\ \A j \in new.left : new.seen[j] = old.seen[j]
    BY <1>4, <1>5, <1>6, <1>7, NoSweepType
  <1>9. QED
    BY <1>1, <1>8 DEF old

-----------------------------------------------------------------------------
(* Types.                                                                  *)

\* One thread moves: the others are as sound as before.
LEMMA OthersAreSound ==
    ASSUME JobsOK, JobsAreSound, NEW x, NEW job, Moves(x, job), JobIsSound(job)
    PROVE  JobsOK' /\ JobsAreSound'
  <1>1. x \in Jobs /\ job \in Job /\ jobs' = [jobs EXCEPT ![x] = job]
    BY DEF Moves
  <1>2. \A y \in Jobs : jobs'[y] \in {jobs[y], job}
    BY <1>1 DEF JobsOK
  <1>3. QED
    BY <1>1, <1>2 DEF JobsOK, JobsAreSound

\* A thread that has dropped its work is sound.
LEMMA IdleIsSound ==
    ASSUME NEW job \in Job, job.batch = {}, job.todo = {}, job.match = 0
    PROVE  JobIsSound(job)
  BY DEF JobIsSound

\* Dropping everything keeps a job sound.
LEMMA JumpIsSound ==
    ASSUME JobsOK, NEW x \in Jobs, NEW stage \in Stages, NEW verdict \in Verdicts,
           Jump(x, stage, verdict)
    PROVE  \E job : Moves(x, job) /\ JobIsSound(job)
  <1>1. PICK job \in Job :
                Moves(x, job) /\ job.batch = {} /\ job.todo = {} /\ job.match = 0
    BY JumpMoves DEF JumpsTo
  <1>2. QED
    BY <1>1, IdleIsSound

\* A step of an extraction keeps its thread sound.
LEMMA WorkIsSound ==
    ASSUME TypeOK, JobsAreSound, NEW x \in Jobs, Work(x)
    PROVE  JobsOK' /\ JobsAreSound'
  <1> USE DEF JobIsSound
  <1>1. JobsOK /\ ItemsOK /\ said \in SUBSET Messages /\ JobIsSound(jobs[x])
    BY DEF TypeOK, JobsOK, ItemsOK, JobsAreSound
  <1>2. SUFFICES \E job : Moves(x, job) /\ JobIsSound(job)
    BY <1>1, OthersAreSound DEF JobIsSound
  <1>3. CASE ReadMessages(x)
    <2>1. PICK job \in Job :
                /\ Moves(x, job) /\ jobs[x].stage = "reading"
                /\ job.stage \in {"opening", "notifying"}
                /\ job.todo = jobs[x].todo /\ SameHand(jobs[x], job)
      BY <1>1, <1>3, ReadMoves
    <2>2. job.todo = {} /\ job.match = 0
      BY <1>1, <2>1 DEF SameHand
    <2>3. QED
      BY <2>1, <2>2
  <1>4. CASE OpenRun(x)
    <2>1. PICK job \in Job :
                /\ Moves(x, job) /\ jobs[x].stage = "opening" /\ job.stage = "asking"
                /\ SameWork(jobs[x], job) /\ SameHand(jobs[x], job)
      BY <1>1, <1>4, OpenMoves
    <2>2. job.todo = {} /\ job.match = 0
      BY <1>1, <2>1 DEF SameHand, SameWork
    <2>3. QED
      BY <2>1, <2>2
  <1>5. CASE Match(x)
    <2>1. PICK job \in Job :
                /\ Moves(x, job) /\ jobs[x].stage = "matching" /\ job.stage = "writing"
                /\ SameWork(jobs[x], job)
                /\ \/ /\ job.match \in Matching(jobs[x].candidate.fact)
                      /\ job.seen = items[job.match]
                   \/ SameHand(jobs[x], job)
      BY <1>1, <1>5, MatchMoves
    <2>2. job.match # 0 => job.seen.lifecycle # "archived"
      BY <1>1, <2>1 DEF SameHand, Matching
    <2>3. QED
      BY <1>1, <2>1, <2>2 DEF SameWork
  <1>6. CASE CloseRun(x)
    <2>1. PICK verdict \in {"failed", "succeeded"} : Jump(x, "notifying", verdict)
      BY <1>6 DEF CloseRun
    <2>2. verdict \in Verdicts /\ "notifying" \in Stages
      BY DEF Verdicts, Stages
    <2>3. QED
      BY <1>1, <2>1, <2>2, JumpIsSound
  <1>7. CASE Notify(x)
    <2>1. Jump(x, "done", "") /\ "" \in Verdicts /\ "done" \in Stages
      BY <1>7 DEF Notify, Verdicts, Stages
    <2>2. QED
      BY <1>1, <2>1, JumpIsSound
  <1>8. ASSUME NEW answer \in Answers, ModelAnswers(x, answer)
        PROVE  \E job : Moves(x, job) /\ JobIsSound(job)
    <2>1. PICK job \in Job :
                /\ Moves(x, job) /\ jobs[x].stage = "asking" /\ job.stage = "storing"
                /\ job.answer = answer /\ job.group = jobs[x].group
                /\ job.batch = jobs[x].batch
                /\ job.todo = Accepted(answer, jobs[x].group, jobs[x].batch)
                /\ SameHand(jobs[x], job)
      BY <1>1, <1>8, AnswerMoves
    <2>2. job.match = 0
      BY <1>1, <2>1 DEF SameHand
    <2>3. \A k \in job.todo :
                k \in 1..Len(job.answer) /\ Supported(job.answer[k], job.group, job.batch)
      BY <2>1 DEF Accepted
    <2>4. QED
      BY <2>1, <2>2, <2>3
  <1>9. ASSUME NEW k, TakeCandidate(x, k)
        PROVE  \E job : Moves(x, job) /\ JobIsSound(job)
    <2>1. PICK job \in Job :
                /\ Moves(x, job) /\ jobs[x].stage = "storing" /\ job.stage = "matching"
                /\ job.todo = jobs[x].todo \ {k} /\ job.answer = jobs[x].answer
                /\ job.group = jobs[x].group /\ job.batch = jobs[x].batch
                /\ job.match = jobs[x].match
      BY <1>1, <1>9, TakeMoves
    <2>2. QED
      BY <1>1, <2>1
  <1>10. ASSUME NEW i, Write(x, i)
         PROVE  \E job : Moves(x, job) /\ JobIsSound(job)
    <2>1. PICK job \in Job :
                /\ Moves(x, job) /\ jobs[x].stage = "writing" /\ job.stage = "storing"
                /\ job.match = 0 /\ SameWork(jobs[x], job)
      BY <1>1, <1>10, WriteMoves
    <2>2. QED
      BY <1>1, <2>1 DEF SameWork
  <1>11. QED
    BY <1>3, <1>4, <1>5, <1>6, <1>7, <1>8, <1>9, <1>10 DEF Work

\* A failure, a new command and a restart do so too.
LEMMA OtherJobStepsAreSound ==
    ASSUME TypeOK, JobsAreSound, NEW x \in Jobs,
           JobFails(x) \/ (\E g \in Groups : Extract(x, g)) \/ Restart
    PROVE  JobsOK' /\ JobsAreSound'
  <1>1. JobsOK /\ JobIsSound(jobs[x])
    BY DEF TypeOK, JobsOK, JobsAreSound
  <1>2. CASE JobFails(x)
    <2>1. PICK stage \in {"notifying", "closing", "done"}, verdict \in {"failed", ""} :
                Jump(x, stage, verdict)
      BY <1>2 DEF JobFails
    <2>2. stage \in Stages /\ verdict \in Verdicts
      BY DEF Stages, Verdicts
    <2>3. PICK job : Moves(x, job) /\ JobIsSound(job)
      BY <1>1, <2>1, <2>2, JumpIsSound
    <2>4. QED
      BY <1>1, <2>3, OthersAreSound
  <1>3. ASSUME NEW g \in Groups, Extract(x, g)
        PROVE  JobsOK' /\ JobsAreSound'
    <2>1. PICK job \in Job :
                /\ Moves(x, job) /\ jobs[x].stage = "idle" /\ job.stage = "reading"
                /\ job.batch = jobs[x].batch /\ job.todo = jobs[x].todo
                /\ SameHand(jobs[x], job)
      BY <1>1, <1>3, ExtractMoves
    <2>2. job.batch = {} /\ job.todo = {} /\ job.match = 0
      BY <1>1, <2>1 DEF JobIsSound, SameHand
    <2>3. QED
      BY <1>1, <2>1, <2>2, IdleIsSound, OthersAreSound
  <1>4. CASE Restart
    <2> DEFINE lost == [NewJob EXCEPT !.stage = "lost"]
    <2>1. "lost" \in Stages
      BY DEF Stages
    <2>2. lost \in Job /\ lost.batch = NewJob.batch /\ lost.todo = NewJob.todo
                       /\ lost.match = NewJob.match
      BY <2>1, NewJobType DEF Job
    <2>3. jobs' = [y \in Jobs |-> IF jobs[y].stage \in {"idle", "done"} THEN jobs[y] ELSE lost]
      BY <1>4 DEF Restart
    <2> HIDE DEF lost
    <2>4. JobIsSound(lost)
      BY <2>2, NewJobType, IdleIsSound
    <2>5. QED
      BY <1>1, <2>2, <2>3, <2>4 DEF JobsOK, JobsAreSound
  <1>5. QED
    BY <1>2, <1>3, <1>4

\* Every statement keeps the types of the table.
LEMMA WritesKeepTypes ==
    ASSUME ItemsOK, NEW i, NEW row, Writes(i, row)
    PROVE  ItemsOK'
  BY DEF ItemsOK, Writes

\* The steps that touch the table, told apart by their statement.
LEMMA TableSteps ==
    ASSUME [Next]_vars
    PROVE  \/ UNCHANGED <<items, earned>>
           \/ \E i \in Ids, g \in Groups \cup {Nobody}, anywhere \in BOOLEAN :
                /\ Confirm(i, g, anywhere)
                /\ earned' = earned \cup {i} /\ UNCHANGED restVars
           \/ \E i \in Ids, g \in Groups \cup {Nobody}, anywhere \in BOOLEAN :
                /\ Archive(i, g, anywhere) \/ MarkStale(i, g, anywhere) \/ Delete(i, g, anywhere)
                /\ UNCHANGED <<earned, restVars>>
           \/ \E g \in Groups : \E u :
                /\ DeleteGroup(g) \/ DeleteUser(g, u)
                /\ UNCHANGED <<earned, restVars>>
           \/ \E days \in Nights : Age(days)
           \/ \E s \in Sweeps, i \in Ids : SweepRow(s, i)
           \/ \E x \in Jobs, k \in 1..MaxCandidates : TakeCandidate(x, k)
           \/ \E x \in Jobs, i \in Ids : Write(x, i)
  <1>1. CASE AdminConfirms
    BY <1>1 DEF AdminConfirms
  <1>2. CASE AdminRetires
    BY <1>2 DEF AdminRetires
  <1>3. CASE AdminForgets
    BY <1>3 DEF AdminForgets
  <1>4. CASE \E g \in Groups, on \in BOOLEAN : SetGroupMemory(g, on)
    BY <1>4 DEF SetGroupMemory
  <1>5. CASE Sweep
    BY <1>5 DEF Sweep, StartSweep, SweepFails
  <1>6. CASE Restart \/ \E m \in Messages : Say(m)
    BY <1>6 DEF Restart, Rows, Say
  <1>7. CASE \E x \in Jobs : Work(x)
    BY <1>7 DEF Work, ReadMessages, OpenRun, Match, CloseRun, Notify, ModelAnswers, Rows
  <1>8. CASE \E x \in Jobs : JobFails(x) \/ \E g \in Groups : Extract(x, g)
    BY <1>8 DEF JobFails, Extract, Rows
  <1>9. CASE UNCHANGED vars
    BY <1>9 DEF vars
  <1>10. QED
    BY <1>1, <1>2, <1>3, <1>4, <1>5, <1>6, <1>7, <1>8, <1>9 DEF Next, Admin

\* What a job is about to write.
LEMMA HandColumns ==
    ASSUME TypeOK, JobsAreSound, NEW x \in Jobs
    PROVE  /\ jobs[x].candidate \in Candidate /\ jobs[x].seen \in Row
           /\ jobs[x].match # 0 => jobs[x].match \in Ids /\ jobs[x].seen.lifecycle # "archived"
  <1>1. jobs[x] \in Job /\ JobIsSound(jobs[x])
    BY DEF TypeOK, JobsAreSound
  <1>2. QED
    BY <1>1, JobColumns DEF JobIsSound

\* Every step keeps the types of the table.
LEMMA ItemsStep ==
    ASSUME TypeOK, JobsAreSound, [Next]_vars
    PROVE  ItemsOK'
  <1>1. ItemsOK
    BY DEF TypeOK, ItemsOK
  <1>2. CASE UNCHANGED <<items, earned>>
    BY <1>1, <1>2 DEF ItemsOK
  <1>3. ASSUME NEW i \in Ids, NEW g, NEW anywhere,
               \/ Confirm(i, g, anywhere) \/ Archive(i, g, anywhere)
               \/ MarkStale(i, g, anywhere) \/ Delete(i, g, anywhere)
        PROVE  ItemsOK'
    BY <1>1, <1>3, ConfirmWrites, RetireWrites, WritesKeepTypes
  <1>4. ASSUME NEW g, NEW u, DeleteGroup(g) \/ DeleteUser(g, u)
        PROVE  ItemsOK'
    BY <1>1, <1>4, ForgetWrites DEF ItemsOK
  <1>5. ASSUME NEW days \in Nights, Age(days)
        PROVE  ItemsOK'
    <2>1. days \in Nat /\ DaysPass(days)
      BY <1>5, ServiceAssumption DEF Age
    <2>2. QED
      BY <1>1, <2>1, DaysWrite DEF ItemsOK
  <1>6. ASSUME NEW s \in Sweeps, NEW i \in Ids, SweepRow(s, i)
        PROVE  ItemsOK'
    <2>1. sweeps[s].seen[i] \in Row /\ sweeps[s].days \in Nat
      BY DEF TypeOK, DecaySweep
    <2>2. DecayWrite(i, sweeps[s].seen[i], sweeps[s].days)
      BY <1>6 DEF SweepRow
    <2>3. QED
      BY <1>1, <2>1, <2>2, DecayWrites, WritesKeepTypes
  <1>7. ASSUME NEW x \in Jobs, NEW k, TakeCandidate(x, k)
        PROVE  ItemsOK'
    <2>1. CASE UNCHANGED items
      BY <1>1, <2>1 DEF ItemsOK
    <2>2. QED
      BY <1>1, <1>7, <2>1, ContradictWrites, WritesKeepTypes DEF TakeCandidate
  <1>8. ASSUME NEW x \in Jobs, NEW i \in Ids, Write(x, i)
        PROVE  ItemsOK'
    <2>1. CASE Insert(i, jobs[x].candidate)
      BY <1>1, <2>1, HandColumns, InsertWrites, WritesKeepTypes
    <2>2. CASE jobs[x].match # 0 /\ ReinforceWrite(i, jobs[x].seen, jobs[x].candidate)
      BY <1>1, <2>2, HandColumns, ReinforceWrites, WritesKeepTypes
    <2>3. QED
      BY <1>8, <2>1, <2>2 DEF Write
  <1>9. QED
    BY <1>2, <1>3, <1>4, <1>5, <1>6, <1>7, <1>8, TableSteps

\* Every step keeps the threads of the extractions sound.
LEMMA JobsStep ==
    ASSUME TypeOK, JobsAreSound, [Next]_vars
    PROVE  JobsOK' /\ JobsAreSound'
  <1>1. CASE UNCHANGED jobs
    BY <1>1 DEF TypeOK, JobsOK, JobsAreSound
  <1>2. ASSUME NEW x \in Jobs, Work(x) \/ JobFails(x) \/ \E g \in Groups : Extract(x, g)
        PROVE  JobsOK' /\ JobsAreSound'
    BY <1>2, WorkIsSound, OtherJobStepsAreSound
  <1>3. CASE Restart
    <2>1. CASE Jobs = {}
      BY <1>3, <2>1 DEF Restart, JobsOK, JobsAreSound
    <2>2. QED
      BY <1>3, <2>1, OtherJobStepsAreSound
  <1>4. Admin \/ Sweep => UNCHANGED jobs
    BY DEF Admin, AdminConfirms, AdminForgets, AdminRetires, SetGroupMemory, restVars,
           Sweep, StartSweep, SweepRow, SweepFails, SweepVars
  <1>5. (\E m \in Messages : Say(m)) \/ (\E days \in Nights : Age(days)) => UNCHANGED jobs
    BY DEF Say, Age, restVars
  <1>6. UNCHANGED vars => UNCHANGED jobs
    BY DEF vars, restVars
  <1>7. QED
    BY <1>1, <1>2, <1>3, <1>4, <1>5, <1>6 DEF Next

\* Only a sweep or a restart changes what the sweeps hold.
LEMMA SweepsMove ==
    ASSUME [Next]_vars
    PROVE  UNCHANGED sweeps \/ Sweep \/ Restart
  <1>1. Admin => UNCHANGED sweeps
    BY DEF Admin, AdminConfirms, AdminForgets, AdminRetires, SetGroupMemory, restVars
  <1>2. ASSUME NEW x \in Jobs, Work(x) \/ JobFails(x) \/ \E g \in Groups : Extract(x, g)
        PROVE  UNCHANGED sweeps
    BY <1>2 DEF Work, ReadMessages, OpenRun, Match, CloseRun, Notify, ModelAnswers,
                TakeCandidate, Write, JobFails, Extract, JobVars
  <1>3. (\E m \in Messages : Say(m)) \/ (\E days \in Nights : Age(days)) => UNCHANGED sweeps
    BY DEF Say, Age, restVars
  <1>4. UNCHANGED vars => UNCHANGED sweeps
    BY DEF vars, restVars
  <1>5. QED
    BY <1>1, <1>2, <1>3, <1>4 DEF Next

\* Every step keeps the types of the sweeps.
LEMMA SweepsStep ==
    ASSUME TypeOK, [Next]_vars
    PROVE  sweeps' \in [Sweeps -> DecaySweep]
  <1>1. ItemsOK /\ sweeps \in [Sweeps -> DecaySweep]
    BY DEF TypeOK, ItemsOK
  <1>2. ASSUME NEW s \in Sweeps, NEW new \in DecaySweep,
               sweeps' = [sweeps EXCEPT ![s] = new]
        PROVE  sweeps' \in [Sweeps -> DecaySweep]
    BY <1>1, <1>2
  <1>3. ASSUME NEW s \in Sweeps, NEW g, NEW days \in Days, StartSweep(s, g, days)
        PROVE  sweeps' \in [Sweeps -> DecaySweep]
    BY <1>1, <1>2, <1>3, StartMoves
  <1>4. ASSUME NEW s \in Sweeps, NEW i \in Ids, SweepRow(s, i)
        PROVE  sweeps' \in [Sweeps -> DecaySweep]
    BY <1>1, <1>2, <1>4, SweepMoves
  <1>5. ASSUME NEW s \in Sweeps, SweepFails(s)
        PROVE  sweeps' \in [Sweeps -> DecaySweep]
    BY <1>2, <1>5, NoSweepType DEF SweepFails
  <1>6. Sweep => sweeps' \in [Sweeps -> DecaySweep]
    BY <1>3, <1>4, <1>5 DEF Sweep
  <1>7. Restart => sweeps' \in [Sweeps -> DecaySweep]
    BY NoSweepType DEF Restart
  <1>8. QED
    BY <1>1, <1>6, <1>7, SweepsMove

\* Every step keeps the types of the other variables.
LEMMA OtherColumnsStep ==
    ASSUME TypeOK, [Next]_vars
    PROVE  /\ enabled' \subseteq Groups /\ said' \subseteq Messages
           /\ runs' \in [Jobs -> RunStatuses] /\ notices' \in [Jobs -> Verdicts]
           /\ earned' \subseteq Ids
  <1> DEFINE OK == /\ enabled' \subseteq Groups /\ said' \subseteq Messages
                   /\ runs' \in [Jobs -> RunStatuses] /\ notices' \in [Jobs -> Verdicts]
                   /\ earned' \subseteq Ids
  <1>1. /\ enabled \subseteq Groups /\ said \subseteq Messages
        /\ runs \in [Jobs -> RunStatuses] /\ notices \in [Jobs -> Verdicts]
        /\ earned \subseteq Ids
    BY DEF TypeOK
  <1>2. Remember => earned' \subseteq Ids
    BY <1>1 DEF Remember
  <1>3. CASE Admin
    BY <1>1, <1>3 DEF Admin, AdminConfirms, AdminForgets, AdminRetires, SetGroupMemory, restVars
  <1>4. CASE Sweep
    BY <1>1, <1>2, <1>4 DEF Sweep, StartSweep, SweepRow, SweepFails, SweepVars
  <1>5. CASE Restart
    BY <1>1, <1>5 DEF Restart, Rows
  <1>6. ASSUME NEW m \in Messages, Say(m) PROVE OK
    BY <1>1, <1>6 DEF Say
  <1>7. ASSUME NEW days \in Nights, Age(days) PROVE OK
    BY <1>1, <1>7 DEF Age, restVars
  <1>8. ASSUME NEW x \in Jobs, JobFails(x) \/ \E g \in Groups : Extract(x, g) PROVE OK
    BY <1>1, <1>8 DEF JobFails, Extract, Rows, JobVars
  <1>9. ASSUME NEW x \in Jobs, Work(x) PROVE OK
    <2>1. CASE OpenRun(x)
      <3>1. "running" \in RunStatuses
        BY DEF RunStatuses
      <3>2. QED
        BY <1>1, <2>1, <3>1 DEF OpenRun, Rows, JobVars
    <2>2. CASE CloseRun(x)
      <3>1. {"failed", "succeeded"} \subseteq RunStatuses
        BY DEF RunStatuses
      <3>2. PICK verdict \in {"failed", "succeeded"} : runs' = [runs EXCEPT ![x] = verdict]
        BY <2>2 DEF CloseRun
      <3>3. runs' \in [Jobs -> RunStatuses]
        BY <1>1, <3>1, <3>2
      <3>4. QED
        BY <1>1, <2>2, <3>3 DEF CloseRun, Rows, JobVars
    <2>3. CASE Notify(x)
      <3>1. jobs[x].verdict \in Verdicts
        BY JobColumns DEF TypeOK
      <3>2. QED
        BY <1>1, <2>3, <3>1 DEF Notify, Rows, JobVars
    <2>4. CASE \/ ReadMessages(x) \/ Match(x)
               \/ \E answer \in Answers : ModelAnswers(x, answer)
      BY <1>1, <2>4 DEF ReadMessages, Match, ModelAnswers, Rows, JobVars
    <2>5. CASE \/ \E k \in 1..MaxCandidates : TakeCandidate(x, k)
               \/ \E i \in Ids : Write(x, i)
      BY <1>1, <1>2, <2>5 DEF TakeCandidate, Write, JobVars
    <2>6. QED
      BY <1>9, <2>1, <2>2, <2>3, <2>4, <2>5 DEF Work
  <1>10. CASE UNCHANGED vars
    BY <1>1, <1>10 DEF vars, restVars
  <1>11. QED
    BY <1>3, <1>4, <1>5, <1>6, <1>7, <1>8, <1>9, <1>10 DEF Next

\* The state at the start has the types of the variables.
LEMMA InitialTypes ==
    ASSUME Init
    PROVE  TypeOK /\ JobsAreSound
  <1>1. items \in [Ids -> Row]
    BY MemoryAssumption DEF Init
  <1>2. /\ enabled \subseteq Groups /\ said \subseteq Messages /\ earned \subseteq Ids
    BY ServiceAssumption DEF Init
  <1>3. sweeps \in [Sweeps -> DecaySweep]
    BY NoSweepType DEF Init
  <1>4. jobs \in [Jobs -> Job] /\ \A x \in Jobs : jobs[x] = NewJob
    BY NewJobType DEF Init
  <1>5. JobIsSound(NewJob)
    BY NewJobType, IdleIsSound
  <1>6. "none" \in RunStatuses /\ "" \in Verdicts
    BY DEF RunStatuses, Verdicts
  <1>7. runs \in [Jobs -> RunStatuses] /\ notices \in [Jobs -> Verdicts]
    BY <1>6 DEF Init
  <1>8. QED
    BY <1>1, <1>2, <1>3, <1>4, <1>5, <1>7 DEF TypeOK, JobsAreSound

\* Every step keeps the types of all the variables.
LEMMA TypesStep ==
    ASSUME TypeOK, JobsAreSound, [Next]_vars
    PROVE  (TypeOK /\ JobsAreSound)'
  <1>1. ItemsOK' /\ JobsOK' /\ JobsAreSound' /\ sweeps' \in [Sweeps -> DecaySweep]
    BY ItemsStep, JobsStep, SweepsStep
  <1>2. QED
    BY <1>1, OtherColumnsStep DEF TypeOK, ItemsOK, JobsOK

-----------------------------------------------------------------------------
(* What a step does to one row.                                            *)

ByHuman(i) == \E g \in Groups \cup {Nobody}, anywhere \in BOOLEAN : Confirm(i, g, anywhere)

\* What a job has read about the row it is going to update is still true of it,
\* as far as it matters.
MatchHolds(x) ==
    LET i == jobs[x].match
        seen == jobs[x].seen
    IN  i # 0 => /\ Stored(i) /\ seen.fact = jobs[x].candidate.fact
                 /\ seen.contradictions <= items[i].contradictions
                 /\ seen.lifecycle = "contradicted" => seen.contradictions > 0
                 /\ seen.lifecycle \in RecallLifecycles => i \in earned

MatchIsFaithful == \A x \in Jobs : MatchHolds(x)

Untouched(i) ==
    /\ Kept(items[i], items'[i])
    /\ items'[i].status = items[i].status /\ items'[i].lifecycle = items[i].lifecycle

Confirmed(i) ==
    /\ ByHuman(i) /\ Kept(items[i], items'[i]) /\ i \in earned'
    /\ items[i].status \notin {"absent", "deleted"}
    /\ items'[i].status = "active" /\ items'[i].lifecycle = "confirmed"

Retired(i) ==
    /\ Kept(items[i], items'[i])
    /\ items[i].status \notin {"absent", "deleted"}
    /\ \/ items'[i].status \in {"archived", "deleted"} /\ items'[i].lifecycle = "archived"
       \/ items'[i].status = "active" /\ items'[i].lifecycle = "stale"

WrittenBack(i) == \E s \in Sweeps :
    LET seen == sweeps[s].seen[i]
    IN  /\ i \in sweeps[s].left /\ Kept(items[i], items'[i])
        /\ \/ items'[i].status = "archived" /\ items'[i].lifecycle = "archived"
           \/ items'[i].status = seen.status /\ items'[i].lifecycle \in {"stale", seen.lifecycle}

Doubted(i) ==
    /\ items[i].status = "active" /\ items'[i].status = "active"
    /\ items'[i].lifecycle = "contradicted"
    /\ items'[i].fact = items[i].fact /\ items'[i].evidence = items[i].evidence
    /\ items'[i].confidence = items[i].confidence /\ items'[i].importance = items[i].importance
    /\ items'[i].contradictions = items[i].contradictions + 1

Strengthened(i) == \E x \in Jobs :
    LET seen == jobs[x].seen
    IN  /\ jobs[x].match = i /\ i # 0 /\ jobs[x].stage = "writing"
        /\ items'[i].status = items[i].status
        /\ items'[i].contradictions = items[i].contradictions
        /\ items'[i].fact = seen.fact
        /\ items'[i].evidence = seen.evidence \cup jobs[x].candidate.evidence
        /\ items'[i].lifecycle # "archived"
        /\ items'[i].lifecycle = "contradicted" <=> seen.lifecycle = "contradicted"
        /\ items'[i].lifecycle \in RecallLifecycles =>
                seen.lifecycle \in RecallLifecycles \/ i \in earned'
        /\ Proven(items'[i]) => i \in earned'

Inserted(i) == \E x \in Jobs :
    /\ jobs[x].match = 0 /\ jobs[x].stage = "writing" /\ items[i].status = "absent"
    /\ items'[i].status = "active" /\ items'[i].lifecycle \in {"weak", "confirmed"}
    /\ items'[i].fact = jobs[x].candidate.fact
    /\ items'[i].evidence = jobs[x].candidate.evidence
    /\ items'[i].lifecycle = "confirmed" \/ Proven(items'[i]) => i \in earned'

\* Nothing that was earned is lost.
LEMMA EarnedGrows ==
    ASSUME [Next]_vars
    PROVE  earned \subseteq earned'
  <1>1. Remember => earned \subseteq earned'
    BY DEF Remember
  <1>2. QED
    BY <1>1, TableSteps DEF Age, SweepRow, TakeCandidate, Write

\* A statement that writes one row leaves the others alone.
LEMMA OtherRows ==
    ASSUME ItemsOK, NEW i, NEW row, Writes(i, row), NEW j \in Ids, j # i
    PROVE  Untouched(j)
  BY DEF ItemsOK, Writes, Untouched, Kept

\* Evidence that is worth it earns a row its place.
LEMMA ProvenIsEarned ==
    ASSUME Remember, NEW i \in Ids, NEW type, items'[i].status # "absent",
           items'[i].fact.type = type,
           \/ type = "warning" /\ items'[i].confidence >= 70
           \/ /\ items'[i].confidence >= 78 /\ items'[i].importance >= 55
              /\ Cardinality(items'[i].evidence) >= 2
    PROVE  i \in earned'
  BY DEF Remember, Proven

\* Every step does one of these to a row.
LEMMA RowSteps ==
    ASSUME TypeOK, JobsAreSound, MatchIsFaithful, [Next]_vars, NEW j \in Ids
    PROVE  \/ Untouched(j) \/ Confirmed(j) \/ Retired(j) \/ WrittenBack(j)
           \/ Doubted(j) \/ Strengthened(j) \/ Inserted(j)
  <1> DEFINE Goal == \/ Untouched(j) \/ Confirmed(j) \/ Retired(j) \/ WrittenBack(j)
                     \/ Doubted(j) \/ Strengthened(j) \/ Inserted(j)
  <1>1. ItemsOK /\ items[j] \in Row
    BY DEF TypeOK, ItemsOK
  <1>2. ASSUME UNCHANGED <<items, earned>>
        PROVE  Goal
    BY <1>2 DEF Untouched, Kept
  <1>3. ASSUME NEW i \in Ids, NEW g \in Groups \cup {Nobody}, NEW anywhere \in BOOLEAN,
               Confirm(i, g, anywhere), earned' = earned \cup {i}
        PROVE  Goal
    <2>1. PICK row \in Row :
                /\ Writes(i, row) /\ Kept(items[i], row)
                /\ row.status = "active" /\ row.lifecycle = "confirmed"
                /\ items[i].status \notin {"absent", "deleted"}
      BY <1>1, <1>3, ConfirmWrites
    <2>2. CASE j = i
      <3>1. items'[j] = row
        BY <1>1, <2>1, <2>2 DEF Writes, ItemsOK
      <3>2. ByHuman(j) /\ j \in earned'
        BY <1>3, <2>2 DEF ByHuman
      <3>3. QED
        BY <2>1, <2>2, <3>1, <3>2 DEF Confirmed
    <2>3. QED
      BY <1>1, <2>1, <2>2, OtherRows
  <1>4. ASSUME NEW i \in Ids, NEW g, NEW anywhere,
               Archive(i, g, anywhere) \/ MarkStale(i, g, anywhere) \/ Delete(i, g, anywhere)
        PROVE  Goal
    <2>1. PICK row \in Row :
                /\ Writes(i, row) /\ Kept(items[i], row)
                /\ \/ row.status \in {"archived", "deleted"} /\ row.lifecycle = "archived"
                   \/ row.status = "active" /\ row.lifecycle = "stale"
                /\ items[i].status \notin {"absent", "deleted"}
      BY <1>1, <1>4, RetireWrites
    <2>2. CASE j = i
      <3>1. items'[j] = row
        BY <1>1, <2>1, <2>2 DEF Writes, ItemsOK
      <3>2. QED
        BY <2>1, <2>2, <3>1 DEF Retired
    <2>3. QED
      BY <1>1, <2>1, <2>2, OtherRows
  <1>5. ASSUME NEW g, NEW u, DeleteGroup(g) \/ DeleteUser(g, u)
        PROVE  Goal
    <2>1. \/ items'[j] = items[j]
          \/ items[j].status = "active" /\ items'[j] = Forgotten(items[j])
      BY <1>1, <1>5, ForgetWrites
    <2>2. QED
      BY <1>1, <2>1, ForgottenRow DEF Untouched, Kept, Retired
  <1>6. ASSUME NEW days \in Nights, Age(days)
        PROVE  Goal
    <2>1. days \in Nat /\ DaysPass(days)
      BY <1>6, ServiceAssumption DEF Age
    <2>2. QED
      BY <1>1, <2>1, DaysWrite DEF Untouched
  <1>7. ASSUME NEW s \in Sweeps, NEW i \in Ids, SweepRow(s, i)
        PROVE  Goal
    <2>1. sweeps[s].seen[i] \in Row /\ sweeps[s].days \in Nat
      BY DEF TypeOK, DecaySweep
    <2>2. DecayWrite(i, sweeps[s].seen[i], sweeps[s].days) /\ i \in sweeps[s].left
      BY <1>7 DEF SweepRow
    <2> DEFINE seen == sweeps[s].seen[i]
    <2> HIDE DEF seen
    <2>3. PICK row \in Row :
                /\ Writes(i, row) /\ Kept(items[i], row)
                /\ \/ row.status = "archived" /\ row.lifecycle = "archived"
                   \/ row.status = seen.status /\ row.lifecycle = "stale"
                   \/ row.status = seen.status /\ row.lifecycle = seen.lifecycle
      BY <1>1, <2>1, <2>2, DecayWrites DEF seen
    <2>4. CASE j = i
      <3>1. items'[j] = row
        BY <1>1, <2>3, <2>4 DEF Writes, ItemsOK
      <3>2. QED
        BY <2>2, <2>3, <2>4, <3>1 DEF WrittenBack, seen
    <2>5. QED
      BY <1>1, <2>3, <2>4, OtherRows
  <1>8. ASSUME NEW x \in Jobs, NEW k, TakeCandidate(x, k)
        PROVE  Goal
    <2>1. CASE UNCHANGED items
      BY <2>1 DEF Untouched, Kept
    <2>2. ASSUME NEW i, NEW g, Contradict(i, g)
          PROVE  Goal
      <3>1. PICK row \in Row :
                /\ Writes(i, row) /\ items[i].status = "active"
                /\ row.status = "active" /\ row.lifecycle = "contradicted"
                /\ row.fact = items[i].fact /\ row.evidence = items[i].evidence
                /\ row.confidence = items[i].confidence /\ row.importance = items[i].importance
                /\ row.contradictions = items[i].contradictions + 1
        BY <1>1, <2>2, ContradictWrites
      <3>2. CASE j = i
        <4>1. items'[j] = row
          BY <1>1, <3>1, <3>2 DEF Writes, ItemsOK
        <4>2. QED
          BY <3>1, <3>2, <4>1 DEF Doubted
      <3>3. QED
        BY <1>1, <3>1, <3>2, OtherRows
    <2>3. QED
      BY <1>8, <2>1, <2>2 DEF TakeCandidate
  <1>9. ASSUME NEW x \in Jobs, NEW i \in Ids, Write(x, i)
        PROVE  Goal
    <2>1. Remember /\ jobs[x].stage = "writing"
      BY <1>9 DEF Write
    <2>2. /\ jobs[x].candidate \in Candidate /\ jobs[x].seen \in Row
          /\ jobs[x].match # 0 => jobs[x].match \in Ids /\ jobs[x].seen.lifecycle # "archived"
      BY HandColumns
    <2> DEFINE c == jobs[x].candidate
               seen == jobs[x].seen
    <2> HIDE DEF c, seen
    <2>3. CASE jobs[x].match = 0 /\ Insert(i, c)
      <3>1. PICK row \in Row :
                /\ Writes(i, row) /\ items[i].status = "absent"
                /\ row.status = "active" /\ row.fact = c.fact /\ row.evidence = c.evidence
                /\ row.lifecycle \in {"weak", "confirmed"}
                /\ row.lifecycle = "confirmed" =>
                     \/ c.fact.type = "warning" /\ row.confidence >= 70
                     \/ /\ row.confidence >= 78 /\ row.importance >= 55
                        /\ Cardinality(row.evidence) >= 2
        BY <1>1, <2>2, <2>3, InsertWrites DEF c
      <3>2. CASE j = i
        <4>1. items'[j] = row
          BY <1>1, <3>1, <3>2 DEF Writes, ItemsOK
        <4>2. row.lifecycle = "confirmed" => j \in earned'
          BY <2>1, <3>1, <4>1, ProvenIsEarned
        <4>3. Proven(items'[j]) => j \in earned'
          BY <2>1 DEF Remember
        <4>4. QED
          BY <2>1, <2>3, <3>1, <3>2, <4>1, <4>2, <4>3 DEF Inserted, c
      <3>3. QED
        BY <1>1, <3>1, <3>2, OtherRows
    <2>4. CASE jobs[x].match # 0 /\ i = jobs[x].match /\ ReinforceWrite(i, seen, c)
      <3>1. Stored(i) /\ seen.fact = c.fact
        BY <2>4 DEF MatchIsFaithful, MatchHolds, seen, c
      <3>2. PICK row \in Row :
                /\ Writes(i, row)
                /\ row.status = items[i].status /\ row.contradictions = items[i].contradictions
                /\ row.fact = seen.fact /\ row.evidence = seen.evidence \cup c.evidence
                /\ row.lifecycle # "archived"
                /\ row.lifecycle = "contradicted" <=> seen.lifecycle = "contradicted"
                /\ row.lifecycle \in RecallLifecycles =>
                     \/ seen.lifecycle \in RecallLifecycles
                     \/ c.fact.type = "warning" /\ row.confidence >= 70
                     \/ /\ row.confidence >= 78 /\ row.importance >= 55
                        /\ Cardinality(row.evidence) >= 2
        BY <1>1, <2>2, <2>4, ReinforceWrites DEF c, seen
      <3>3. CASE j = i
        <4>1. items'[j] = row
          BY <1>1, <3>2, <3>3 DEF Writes, ItemsOK
        <4>2. items'[j].status # "absent" /\ items'[j].fact.type = c.fact.type
          BY <3>1, <3>2, <3>3, <4>1 DEF Stored
        <4>3. row.lifecycle \in RecallLifecycles =>
                seen.lifecycle \in RecallLifecycles \/ j \in earned'
          BY <2>1, <3>2, <4>1, <4>2, ProvenIsEarned
        <4>4. Proven(items'[j]) => j \in earned'
          BY <2>1 DEF Remember
        <4>5. QED
          BY <2>1, <2>4, <3>2, <3>3, <4>1, <4>3, <4>4 DEF Strengthened, c, seen
      <3>4. QED
        BY <1>1, <3>2, <3>3, OtherRows
    <2>5. QED
      BY <1>9, <2>3, <2>4 DEF Write, c, seen
  <1>10. QED
    <2> HIDE DEF Goal
    <2>1. (\E i \in Ids, g \in Groups \cup {Nobody}, anywhere \in BOOLEAN :
                /\ Confirm(i, g, anywhere)
                /\ earned' = earned \cup {i} /\ UNCHANGED restVars) => Goal
      BY <1>3
    <2>2. (\E i \in Ids, g \in Groups \cup {Nobody}, anywhere \in BOOLEAN :
                /\ Archive(i, g, anywhere) \/ MarkStale(i, g, anywhere) \/ Delete(i, g, anywhere)
                /\ UNCHANGED <<earned, restVars>>) => Goal
      BY <1>4
    <2>3. (\E g \in Groups : \E u : /\ DeleteGroup(g) \/ DeleteUser(g, u)
                                /\ UNCHANGED <<earned, restVars>>) => Goal
      BY <1>5
    <2>4. (\E days \in Nights : Age(days)) => Goal
      BY <1>6
    <2>5. (\E s \in Sweeps, i \in Ids : SweepRow(s, i)) => Goal
      BY <1>7
    <2>6. (\E x \in Jobs, k \in 1..MaxCandidates : TakeCandidate(x, k)) => Goal
      BY <1>8
    <2>7. (\E x \in Jobs, i \in Ids : Write(x, i)) => Goal
      BY <1>9
    <2>8. Goal
      BY <1>2, <2>1, <2>2, <2>3, <2>4, <2>5, <2>6, <2>7, TableSteps
    <2>9. QED
      BY <2>8 DEF Goal

-----------------------------------------------------------------------------
(* The inductive invariant of the table.                                   *)

\* A sweep goes on writing back what it has read: rows in use, each of which
\* had earned the lifecycle the sweep may restore.
SweepsReadActive == \A s \in Sweeps : \A i \in sweeps[s].left :
    LET seen == sweeps[s].seen[i]
    IN  /\ Stored(i) /\ seen.status = "active" /\ seen.lifecycle \in DecayLifecycles
        /\ seen.lifecycle \in RecallLifecycles => i \in earned

BlankRows == \A i \in Ids : items[i].status = "absent" => items[i].lifecycle = "weak"

Inv ==
    /\ TypeOK /\ JobsAreSound /\ MatchIsFaithful /\ SweepsReadActive
    /\ RowsCoherent /\ RecallableIsEarned /\ BlankRows

\* One row stays as the invariant wants it, and what is known of it stays true.
LEMMA RowStaysSound ==
    ASSUME Inv, [Next]_vars, NEW i \in Ids
    PROVE  /\ RowCoherent(items'[i])
           /\ Recallable(items'[i]) => i \in earned'
           /\ items'[i].status = "absent" => items'[i].lifecycle = "weak"
           /\ Stored(i) => /\ items'[i].status # "absent"
                           /\ items[i].contradictions <= items'[i].contradictions
  <1> DEFINE old == items[i]
             new == items'[i]
             Goal == /\ RowCoherent(new)
                     /\ Recallable(new) => i \in earned'
                     /\ new.status = "absent" => new.lifecycle = "weak"
                     /\ old.status # "absent" =>
                            new.status # "absent" /\ old.contradictions <= new.contradictions
  <1>1. /\ RowCoherent(old)
        /\ Recallable(old) => i \in earned
        /\ old.status = "absent" => old.lifecycle = "weak"
    BY DEF Inv, RowsCoherent, RecallableIsEarned, BlankRows
  <1>2. old.contradictions \in Nat
    BY RowColumns DEF Inv, TypeOK
  <1>3. earned \subseteq earned'
    BY EarnedGrows
  <1>4. Untouched(i) => Goal
    BY <1>1, <1>2, <1>3 DEF Untouched, Kept, RowCoherent, Recallable
  <1>5. Confirmed(i) => Goal
    BY <1>1, <1>2 DEF Confirmed, Kept, RowCoherent
  <1>6. Retired(i) => Goal
    BY <1>1, <1>2 DEF Retired, Kept, RowCoherent, Recallable, RecallLifecycles
  <1>7. WrittenBack(i) => Goal
    <2> SUFFICES ASSUME WrittenBack(i) PROVE Goal
      OBVIOUS
    <2>1. PICK s \in Sweeps :
                /\ i \in sweeps[s].left /\ Kept(old, new)
                /\ \/ new.status = "archived" /\ new.lifecycle = "archived"
                   \/ /\ new.status = sweeps[s].seen[i].status
                      /\ new.lifecycle \in {"stale", sweeps[s].seen[i].lifecycle}
      BY DEF WrittenBack
    <2> DEFINE seen == sweeps[s].seen[i]
    <2>2. /\ seen.status = "active" /\ seen.lifecycle \in DecayLifecycles
          /\ seen.lifecycle \in RecallLifecycles => i \in earned
      BY <2>1 DEF Inv, SweepsReadActive
    <2> HIDE DEF seen
    <2>3. \/ new.status = "archived" /\ new.lifecycle = "archived"
          \/ new.status = "active" /\ new.lifecycle \in {"stale", seen.lifecycle}
      BY <2>1, <2>2 DEF seen
    <2>4. QED
      BY <1>1, <1>2, <1>3, <2>1, <2>2, <2>3
         DEF Kept, RowCoherent, Recallable, RecallLifecycles, DecayLifecycles
  <1>8. Doubted(i) => Goal
    BY <1>1, <1>2 DEF Doubted, RowCoherent, Recallable, RecallLifecycles
  <1>9. Strengthened(i) => Goal
    <2> SUFFICES ASSUME Strengthened(i) PROVE Goal
      OBVIOUS
    <2>1. PICK x \in Jobs :
                /\ jobs[x].match = i /\ i # 0
                /\ new.status = old.status /\ new.contradictions = old.contradictions
                /\ new.lifecycle # "archived"
                /\ new.lifecycle = "contradicted" <=> jobs[x].seen.lifecycle = "contradicted"
                /\ new.lifecycle \in RecallLifecycles =>
                        jobs[x].seen.lifecycle \in RecallLifecycles \/ i \in earned'
      BY DEF Strengthened
    <2> DEFINE seen == jobs[x].seen
    <2>2. /\ Stored(i) /\ seen.contradictions <= old.contradictions
          /\ seen.lifecycle = "contradicted" => seen.contradictions > 0
          /\ seen.lifecycle \in RecallLifecycles => i \in earned
      BY <2>1 DEF Inv, MatchIsFaithful, MatchHolds
    <2>3. seen.contradictions \in Nat
      BY RowColumns, HandColumns DEF Inv
    <2>4. seen.lifecycle = "contradicted" => old.contradictions > 0
      BY <1>2, <2>2, <2>3
    <2> HIDE DEF seen
    <2>5. RowCoherent(new)
      BY <2>1, <2>4 DEF RowCoherent, seen
    <2>6. Recallable(new) => i \in earned'
      BY <1>3, <2>1, <2>2 DEF Recallable, seen
    <2>7. QED
      BY <1>2, <2>1, <2>2, <2>5, <2>6 DEF Stored
  <1>10. Inserted(i) => Goal
    BY <1>1 DEF Inserted, RowCoherent, Recallable, RecallLifecycles
  <1>11. QED
    <2> HIDE DEF Goal
    <2>1. Goal
      BY <1>4, <1>5, <1>6, <1>7, <1>8, <1>9, <1>10, RowSteps DEF Inv
    <2>2. QED
      BY <2>1 DEF Goal, Stored

\* The table keeps its invariants.
LEMMA TableStep ==
    ASSUME Inv, [Next]_vars
    PROVE  RowsCoherent' /\ RecallableIsEarned' /\ BlankRows'
  BY RowStaysSound DEF RowsCoherent, RecallableIsEarned, BlankRows

\* What a sweep holds stays true.
LEMMA SweepsStayActive ==
    ASSUME Inv, [Next]_vars
    PROVE  SweepsReadActive'
  <1> DEFINE Good(new) == \A i \in new.left :
                /\ Stored(i)' /\ new.seen[i].status = "active"
                /\ new.seen[i].lifecycle \in DecayLifecycles
                /\ new.seen[i].lifecycle \in RecallLifecycles => i \in earned'
  <1>1. earned \subseteq earned' /\ ItemsOK /\ sweeps \in [Sweeps -> DecaySweep]
    BY EarnedGrows DEF Inv, TypeOK, ItemsOK
  <1>2. \A s \in Sweeps : Good(sweeps[s])
    <2>1. \A s \in Sweeps : sweeps[s].left \subseteq Ids
      BY <1>1 DEF DecaySweep
    <2>2. \A i \in Ids : Stored(i) => Stored(i)'
      BY RowStaysSound DEF Stored
    <2>3. QED
      BY <1>1, <2>1, <2>2 DEF Inv, SweepsReadActive
  <1>3. ASSUME NEW s \in Sweeps, NEW new, sweeps' = [sweeps EXCEPT ![s] = new], Good(new)
        PROVE  SweepsReadActive'
    <2>1. \A r \in Sweeps : sweeps'[r] \in {sweeps[r], new}
      BY <1>1, <1>3
    <2>2. \A r \in Sweeps : Good(sweeps'[r])
      BY <1>2, <1>3, <2>1
    <2>3. QED
      BY <2>2 DEF SweepsReadActive
  <1>4. Good(NoSweep)
    BY NoSweepType
  <1>5. ASSUME UNCHANGED sweeps
        PROVE  SweepsReadActive'
    BY <1>2, <1>5 DEF SweepsReadActive
  <1>6. ASSUME NEW s \in Sweeps, NEW g, NEW days \in Days, StartSweep(s, g, days)
        PROVE  SweepsReadActive'
    <2>1. PICK new \in DecaySweep :
                /\ sweeps' = [sweeps EXCEPT ![s] = new]
                /\ new.left = DecayScan(g) /\ \A i \in new.left : new.seen[i] = items[i]
      BY <1>1, <1>6, StartMoves
    <2>2. \A i \in DecayScan(g) :
                /\ i \in Ids /\ items[i].status = "active"
                /\ items[i].lifecycle \in DecayLifecycles
      BY DEF DecayScan
    <2>3. \A i \in new.left : Recallable(items[i]) => i \in earned
      BY <2>1, <2>2 DEF Inv, RecallableIsEarned
    <2>4. \A i \in new.left : Stored(i)'
      BY <2>1, <2>2, RowStaysSound DEF Stored
    <2>5. Good(new)
      BY <1>1, <2>1, <2>2, <2>3, <2>4 DEF Recallable
    <2>6. QED
      BY <1>3, <2>1, <2>5
  <1>7. ASSUME NEW s \in Sweeps, NEW i \in Ids, SweepRow(s, i)
        PROVE  SweepsReadActive'
    <2>1. PICK new \in DecaySweep :
                /\ sweeps' = [sweeps EXCEPT ![s] = new]
                /\ new.left \subseteq sweeps[s].left \ {i}
                /\ \A j \in new.left : new.seen[j] = sweeps[s].seen[j]
      BY <1>1, <1>7, SweepMoves
    <2>2. Good(new)
      BY <1>2, <2>1
    <2>3. QED
      BY <1>3, <2>1, <2>2
  <1>8. ASSUME NEW s \in Sweeps, SweepFails(s)
        PROVE  SweepsReadActive'
    BY <1>3, <1>4, <1>8 DEF SweepFails
  <1>9. CASE Restart
    BY <1>9, NoSweepType DEF Restart, SweepsReadActive
  <1>10. Sweep => SweepsReadActive'
    BY <1>6, <1>7, <1>8 DEF Sweep
  <1>11. \/ UNCHANGED sweeps \/ Sweep \/ Restart
    BY SweepsMove
  <1>12. QED
    BY <1>5, <1>9, <1>10, <1>11

-----------------------------------------------------------------------------
(* What a step does to one job.                                            *)

Dropped(y) == jobs'[y].batch = {} /\ jobs'[y].todo = {} /\ jobs'[y].match = 0

Silent(y) == runs'[y] = runs[y] /\ notices'[y] = notices[y]

SameVerdict(y) == Silent(y) /\ jobs'[y].verdict = jobs[y].verdict

From(y, stage, new) == jobs[y].stage = stage /\ jobs'[y].stage = new

Rests(y) == jobs'[y] = jobs[y] /\ Silent(y)

Starts(y) ==
    /\ From(y, "idle", "reading") /\ SameVerdict(y) /\ SameHand(jobs[y], jobs'[y])
    /\ jobs'[y].batch = jobs[y].batch /\ jobs'[y].todo = jobs[y].todo

Reads(y) ==
    /\ jobs[y].stage = "reading" /\ Silent(y) /\ SameHand(jobs[y], jobs'[y])
    /\ jobs'[y].group = jobs[y].group
    /\ jobs'[y].batch \subseteq {m \in said : m.group = jobs[y].group}
    /\ \/ jobs'[y].stage = "opening" /\ jobs'[y].verdict = jobs[y].verdict
       \/ jobs'[y].stage = "notifying" /\ jobs'[y].verdict = "no_messages"

Opens(y) ==
    /\ From(y, "opening", "asking") /\ SameWork(jobs[y], jobs'[y])
    /\ SameHand(jobs[y], jobs'[y])
    /\ runs'[y] = "running" /\ notices'[y] = notices[y]

IsAnswered(y) ==
    /\ From(y, "asking", "storing") /\ SameVerdict(y) /\ SameHand(jobs[y], jobs'[y])
    /\ jobs'[y].group = jobs[y].group /\ jobs'[y].batch = jobs[y].batch

Takes(y) ==
    /\ From(y, "storing", "matching") /\ SameVerdict(y)
    /\ jobs'[y].group = jobs[y].group /\ jobs'[y].batch = jobs[y].batch
    /\ jobs'[y].match = jobs[y].match
    /\ \E k \in jobs[y].todo :
            LET c == jobs[y].answer[k]
            IN  /\ jobs'[y].candidate.fact = Cleaned(c.fact)
                /\ jobs'[y].candidate.evidence = c.evidence

Matches(y) ==
    /\ From(y, "matching", "writing") /\ SameVerdict(y) /\ SameWork(jobs[y], jobs'[y])
    /\ jobs'[y].candidate = jobs[y].candidate
    /\ \/ /\ jobs'[y].match \in Matching(jobs[y].candidate.fact)
          /\ jobs'[y].seen = items[jobs'[y].match]
       \/ SameHand(jobs[y], jobs'[y])

HasWritten(y) ==
    /\ From(y, "writing", "storing") /\ SameVerdict(y) /\ SameWork(jobs[y], jobs'[y])
    /\ jobs'[y].match = 0

Closes(y) ==
    /\ Dropped(y) /\ jobs[y].stage \in {"closing", "storing"}
    /\ jobs'[y].stage = "notifying"
    /\ jobs'[y].verdict = IF jobs[y].stage = "closing" THEN "failed" ELSE "succeeded"
    /\ runs'[y] = jobs'[y].verdict /\ notices'[y] = notices[y]

Notifies(y) ==
    /\ Dropped(y) /\ From(y, "notifying", "done")
    /\ runs'[y] = runs[y] /\ notices'[y] = jobs[y].verdict

GivesUp(y) ==
    /\ Dropped(y) /\ Silent(y)
    /\ \/ /\ jobs[y].stage \in {"reading", "opening", "closing"} /\ "database" \in Faults
          /\ jobs'[y].stage = "notifying" /\ jobs'[y].verdict = "failed"
       \/ /\ jobs[y].stage \in {"asking", "storing", "matching", "writing"}
          /\ jobs'[y].stage = "closing"
       \/ From(y, "notifying", "done")

IsLost(y) == Dropped(y) /\ Silent(y) /\ jobs'[y].stage = "lost"

\* A thread leaves the others, their runs and their notices alone.
LEMMA OthersRest ==
    ASSUME JobsOK, NEW x, NEW job, Moves(x, job), NEW y \in Jobs, y # x,
           runs'[y] = runs[y], notices'[y] = notices[y]
    PROVE  Rests(y)
  BY DEF JobsOK, Moves, Rests, Silent

\* Every step of an extraction does one of these to its job.
LEMMA WorkSteps ==
    ASSUME TypeOK, JobsAreSound, NEW x \in Jobs, Work(x), NEW y \in Jobs
    PROVE  \/ Rests(y) \/ Reads(y) \/ Opens(y) \/ IsAnswered(y) \/ Takes(y)
           \/ Matches(y) \/ HasWritten(y) \/ Closes(y) \/ Notifies(y)
  <1> DEFINE Goal == \/ Rests(y) \/ Reads(y) \/ Opens(y) \/ IsAnswered(y) \/ Takes(y)
                     \/ Matches(y) \/ HasWritten(y) \/ Closes(y) \/ Notifies(y)
  <1>1. /\ JobsOK /\ ItemsOK /\ said \in SUBSET Messages
        /\ runs \in [Jobs -> RunStatuses] /\ notices \in [Jobs -> Verdicts]
    BY DEF TypeOK, JobsOK, ItemsOK
  <1>2. ASSUME NEW job, Moves(x, job), UNCHANGED <<runs, notices>>
        PROVE  /\ Silent(y)
               /\ y # x => Rests(y)
               /\ y = x => jobs'[y] = job
    BY <1>1, <1>2 DEF Silent, Rests, Moves, JobsOK
  <1>3. ASSUME ReadMessages(x)
        PROVE  Goal
    <2>1. PICK job \in Job :
                /\ Moves(x, job) /\ jobs[x].stage = "reading"
                /\ job.batch \subseteq {m \in said : m.group = jobs[x].group}
                /\ \/ job.stage = "opening" /\ job.verdict = jobs[x].verdict
                   \/ job.stage = "notifying" /\ job.verdict = "no_messages"
                /\ job.group = jobs[x].group /\ job.todo = jobs[x].todo
                /\ SameHand(jobs[x], job)
      BY <1>1, <1>3, ReadMoves
    <2>2. UNCHANGED <<runs, notices>>
      BY <1>3 DEF ReadMessages
    <2>3. QED
      BY <1>2, <2>1, <2>2 DEF Reads
  <1>4. ASSUME OpenRun(x)
        PROVE  Goal
    <2>1. PICK job \in Job :
                /\ Moves(x, job) /\ jobs[x].stage = "opening" /\ job.stage = "asking"
                /\ SameWork(jobs[x], job) /\ SameHand(jobs[x], job)
      BY <1>1, <1>4, OpenMoves
    <2>2. notices' = notices /\ runs' = [runs EXCEPT ![x] = "running"]
      BY <1>4 DEF OpenRun
    <2>3. QED
      BY <1>1, <2>1, <2>2, OthersRest DEF Opens, From, Moves, JobsOK
  <1>5. ASSUME NEW answer \in Answers, ModelAnswers(x, answer)
        PROVE  Goal
    <2>1. PICK job \in Job :
                /\ Moves(x, job) /\ jobs[x].stage = "asking" /\ job.stage = "storing"
                /\ job.group = jobs[x].group
                /\ job.batch = jobs[x].batch /\ job.verdict = jobs[x].verdict
                /\ SameHand(jobs[x], job)
      BY <1>1, <1>5, AnswerMoves
    <2>2. UNCHANGED <<runs, notices>>
      BY <1>5 DEF ModelAnswers
    <2>3. QED
      BY <1>2, <2>1, <2>2 DEF IsAnswered, From, SameVerdict
  <1>6. ASSUME NEW k, TakeCandidate(x, k)
        PROVE  Goal
    <2> DEFINE c == jobs[x].answer[k]
    <2>1. k \in jobs[x].todo
      BY <1>1, <1>6, TakeMoves
    <2>2. PICK job \in Job :
                    /\ Moves(x, job) /\ jobs[x].stage = "storing" /\ job.stage = "matching"
                    /\ job.group = jobs[x].group /\ job.batch = jobs[x].batch
                    /\ job.candidate.fact = Cleaned(c.fact)
                    /\ job.candidate.evidence = c.evidence
                    /\ job.match = jobs[x].match /\ job.verdict = jobs[x].verdict
      BY <1>1, <1>6, TakeMoves
    <2>3. UNCHANGED <<runs, notices>>
      BY <1>6 DEF TakeCandidate
    <2>4. QED
      BY <1>2, <2>1, <2>2, <2>3 DEF Takes, From, SameVerdict
  <1>7. ASSUME Match(x)
        PROVE  Goal
    <2>1. PICK job \in Job :
                /\ Moves(x, job) /\ jobs[x].stage = "matching" /\ job.stage = "writing"
                /\ job.verdict = jobs[x].verdict /\ SameWork(jobs[x], job)
                /\ job.candidate = jobs[x].candidate
                /\ \/ /\ job.match \in Matching(jobs[x].candidate.fact)
                      /\ job.seen = items[job.match]
                   \/ SameHand(jobs[x], job)
      BY <1>1, <1>7, MatchMoves
    <2>2. UNCHANGED <<runs, notices>>
      BY <1>7 DEF Match
    <2>3. QED
      BY <1>2, <2>1, <2>2 DEF Matches, From, SameVerdict
  <1>8. ASSUME NEW i, Write(x, i)
        PROVE  Goal
    <2>1. PICK job \in Job :
                /\ Moves(x, job) /\ jobs[x].stage = "writing" /\ job.stage = "storing"
                /\ job.match = 0 /\ job.verdict = jobs[x].verdict /\ SameWork(jobs[x], job)
      BY <1>1, <1>8, WriteMoves
    <2>2. UNCHANGED <<runs, notices>>
      BY <1>8 DEF Write
    <2>3. QED
      BY <1>2, <2>1, <2>2 DEF HasWritten, From, SameVerdict
  <1>9. ASSUME CloseRun(x)
        PROVE  Goal
    <2> DEFINE verdict == IF jobs[x].stage = "closing" THEN "failed" ELSE "succeeded"
               next == "notifying"
    <2>1. /\ jobs[x].stage \in {"closing", "storing"}
          /\ runs' = [runs EXCEPT ![x] = verdict] /\ notices' = notices
      BY <1>9 DEF CloseRun
    <2>2. Jump(x, next, verdict)
      BY <1>9 DEF CloseRun
    <2>3. verdict \in Verdicts /\ next \in Stages
      BY DEF Verdicts, Stages
    <2> HIDE DEF verdict, next
    <2>4. PICK job \in Job :
                /\ Moves(x, job) /\ job.stage = next /\ job.verdict = verdict
                /\ job.batch = {} /\ job.todo = {} /\ job.match = 0
      <3>1. JumpsTo(x, next, verdict)
        BY <1>1, <2>2, <2>3, JumpMoves
      <3>2. QED
        BY <3>1 DEF JumpsTo
    <2>5. y # x => Rests(y)
      BY <1>1, <2>1, <2>4, OthersRest
    <2>6. y = x => jobs'[y] = job /\ runs'[y] = verdict
      BY <1>1, <2>1, <2>4 DEF Moves, JobsOK
    <2>7. QED
      BY <2>1, <2>4, <2>5, <2>6 DEF Closes, Dropped, verdict, next
  <1>10. ASSUME Notify(x)
         PROVE  Goal
    <2> DEFINE verdict == ""
               next == "done"
    <2>1. /\ jobs[x].stage = "notifying" /\ runs' = runs
          /\ notices' = [notices EXCEPT ![x] = jobs[x].verdict]
      BY <1>10 DEF Notify
    <2>2. Jump(x, next, verdict)
      BY <1>10 DEF Notify
    <2>3. verdict \in Verdicts /\ next \in Stages
      BY DEF Verdicts, Stages
    <2> HIDE DEF verdict, next
    <2>4. PICK job \in Job :
                /\ Moves(x, job) /\ job.stage = next
                /\ job.batch = {} /\ job.todo = {} /\ job.match = 0
      <3>1. JumpsTo(x, next, verdict)
        BY <1>1, <2>2, <2>3, JumpMoves
      <3>2. QED
        BY <3>1 DEF JumpsTo
    <2>5. y # x => Rests(y)
      BY <1>1, <2>1, <2>4, OthersRest
    <2>6. y = x => jobs'[y] = job /\ notices'[y] = jobs[y].verdict
      BY <1>1, <2>1, <2>4 DEF Moves, JobsOK
    <2>7. QED
      BY <2>1, <2>4, <2>5, <2>6 DEF Notifies, Dropped, From, next
  <1>11. QED
    <2> HIDE DEF Goal
    <2>1. Goal
      BY <1>3, <1>4, <1>5, <1>6, <1>7, <1>8, <1>9, <1>10 DEF Work
    <2>2. QED
      BY <2>1 DEF Goal

\* So does every other step.
LEMMA JobSteps ==
    ASSUME TypeOK, JobsAreSound, [Next]_vars, NEW y \in Jobs
    PROVE  \/ Rests(y) \/ Starts(y) \/ Reads(y) \/ Opens(y) \/ IsAnswered(y) \/ Takes(y)
           \/ Matches(y) \/ HasWritten(y) \/ Closes(y) \/ Notifies(y) \/ GivesUp(y) \/ IsLost(y)
  <1> DEFINE Goal == \/ Rests(y) \/ Starts(y) \/ Reads(y) \/ Opens(y) \/ IsAnswered(y)
                     \/ Takes(y) \/ Matches(y) \/ HasWritten(y) \/ Closes(y) \/ Notifies(y)
                     \/ GivesUp(y) \/ IsLost(y)
  <1>1. JobsOK
    BY DEF TypeOK, JobsOK
  <1>2. UNCHANGED <<jobs, runs, notices>> => Goal
    BY DEF Rests, Silent
  <1>3. ASSUME NEW x \in Jobs, Work(x)
        PROVE  Goal
    BY <1>3, WorkSteps
  <1>4. ASSUME NEW x \in Jobs, NEW g \in Groups, Extract(x, g)
        PROVE  Goal
    <2>1. PICK job \in Job :
                /\ Moves(x, job) /\ jobs[x].stage = "idle" /\ job.stage = "reading"
                /\ job.verdict = jobs[x].verdict
                /\ job.batch = jobs[x].batch /\ job.todo = jobs[x].todo
                /\ SameHand(jobs[x], job)
      BY <1>1, <1>4, ExtractMoves
    <2>2. UNCHANGED <<runs, notices>>
      BY <1>4 DEF Extract
    <2>3. QED
      BY <1>1, <2>1, <2>2, OthersRest DEF Starts, From, SameVerdict, Silent, Moves, JobsOK
  <1>5. ASSUME NEW x \in Jobs, JobFails(x)
        PROVE  Goal
    <2>1. PICK stage \in {"notifying", "closing", "done"}, verdict \in {"failed", ""} :
                /\ Jump(x, stage, verdict)
                /\ \/ /\ jobs[x].stage \in {"reading", "opening", "closing"}
                      /\ stage = "notifying" /\ verdict = "failed"
                   \/ /\ jobs[x].stage \in {"asking", "storing", "matching", "writing"}
                      /\ stage = "closing"
                   \/ jobs[x].stage = "notifying" /\ stage = "done"
      BY <1>5 DEF JobFails
    <2>2. stage \in Stages /\ verdict \in Verdicts
      BY DEF Stages, Verdicts
    <2>3. Jump(x, stage, verdict)
      BY <2>1
    <2>4. PICK job \in Job :
                /\ Moves(x, job) /\ job.stage = stage /\ job.verdict = verdict
                /\ job.batch = {} /\ job.todo = {} /\ job.match = 0
      <3>1. JumpsTo(x, stage, verdict)
        BY <1>1, <2>2, <2>3, JumpMoves
      <3>2. QED
        BY <3>1 DEF JumpsTo
    <2>5. /\ UNCHANGED <<runs, notices>>
          /\ jobs[x].stage # "asking" => "database" \in Faults
      BY <1>5 DEF JobFails
    <2>6. y # x => Rests(y)
      BY <1>1, <2>4, <2>5, OthersRest
    <2>7. y = x => jobs'[y] = job
      BY <1>1, <2>4 DEF Moves, JobsOK
    <2>8. QED
      BY <2>1, <2>4, <2>5, <2>6, <2>7 DEF GivesUp, Dropped, Silent, From
  <1>6. ASSUME Restart
        PROVE  Goal
    <2> DEFINE lost == [NewJob EXCEPT !.stage = "lost"]
    <2>1. "lost" \in Stages
      BY DEF Stages
    <2>2. /\ lost.stage = "lost" /\ lost.batch = NewJob.batch /\ lost.todo = NewJob.todo
          /\ lost.match = NewJob.match
      BY <2>1, NewJobType DEF Job
    <2>3. /\ jobs' = [x \in Jobs |-> IF jobs[x].stage \in {"idle", "done"} THEN jobs[x] ELSE lost]
          /\ UNCHANGED <<runs, notices>>
      BY <1>6 DEF Restart
    <2> HIDE DEF lost
    <2>4. QED
      BY <2>2, <2>3, NewJobType DEF Rests, IsLost, Dropped, Silent
  <1>7. Admin \/ Sweep => UNCHANGED <<jobs, runs, notices>>
    BY DEF Admin, AdminConfirms, AdminForgets, AdminRetires, SetGroupMemory, restVars,
           Sweep, StartSweep, SweepRow, SweepFails, SweepVars
  <1>8. (\E m \in Messages : Say(m)) \/ (\E days \in Nights : Age(days)) =>
                UNCHANGED <<jobs, runs, notices>>
    BY DEF Say, Age, restVars
  <1>9. UNCHANGED vars => UNCHANGED <<jobs, runs, notices>>
    BY DEF vars, restVars
  <1>10. QED
    <2> HIDE DEF Goal
    <2>1. Goal
      BY <1>2, <1>3, <1>4, <1>5, <1>6, <1>7, <1>8, <1>9 DEF Next
    <2>2. QED
      BY <2>1 DEF Goal

-----------------------------------------------------------------------------
(* The invariant holds.                                                    *)

\* The row a job is going to update stays what the job has read, as far as it
\* matters.
LEMMA MatchStaysFaithful ==
    ASSUME Inv, [Next]_vars
    PROVE  MatchIsFaithful'
  <1> SUFFICES ASSUME NEW x \in Jobs, jobs'[x].match # 0
               PROVE  MatchHolds(x)'
    BY DEF MatchIsFaithful, MatchHolds
  <1> DEFINE i == jobs'[x].match
             seen == jobs'[x].seen
             fact == jobs'[x].candidate.fact
             Known == /\ i \in Ids /\ seen \in Row /\ Stored(i) /\ seen.fact = fact
                      /\ seen.contradictions <= items[i].contradictions
                      /\ seen.lifecycle = "contradicted" => seen.contradictions > 0
                      /\ seen.lifecycle \in RecallLifecycles => i \in earned
  <1>1. TypeOK /\ JobsAreSound /\ ItemsOK /\ JobIsSound(jobs[x]) /\ earned \subseteq earned'
    BY EarnedGrows DEF Inv, TypeOK, ItemsOK, JobsAreSound
  <1>2. SameHand(jobs[x], jobs'[x]) => Known
    <2>1. /\ jobs[x].seen \in Row
          /\ jobs[x].match # 0 => jobs[x].match \in Ids
      BY <1>1, HandColumns
    <2>2. QED
      BY <2>1 DEF SameHand, Inv, MatchIsFaithful, MatchHolds
  <1>3. ASSUME i \in Matching(fact), seen = items[i]
        PROVE  Known
    <2>1. /\ i \in Ids /\ items[i].status = "active" /\ items[i].fact = fact
      BY <1>3 DEF Matching
    <2>2. items[i] \in Row /\ items[i].contradictions \in Nat
      BY <1>1, <2>1, RowColumns DEF ItemsOK
    <2>3. /\ RowCoherent(items[i])
          /\ Recallable(items[i]) => i \in earned
      BY <2>1 DEF Inv, RowsCoherent, RecallableIsEarned
    <2>4. QED
      BY <1>3, <2>1, <2>2, <2>3 DEF Stored, RowCoherent, Recallable
  <1>4. Known
    <2>1. Rests(x) => SameHand(jobs[x], jobs'[x])
      BY DEF Rests, SameHand
    <2>2. Starts(x) \/ Reads(x) \/ Opens(x) \/ IsAnswered(x) => SameHand(jobs[x], jobs'[x])
      BY DEF Starts, Reads, Opens, IsAnswered
    <2>3. ~Takes(x)
      BY <1>1 DEF Takes, From, JobIsSound
    <2>4. ~HasWritten(x)
      BY DEF HasWritten
    <2>5. ~(Closes(x) \/ Notifies(x) \/ GivesUp(x) \/ IsLost(x))
      BY DEF Closes, Notifies, GivesUp, IsLost, Dropped
    <2>6. Matches(x) => SameHand(jobs[x], jobs'[x]) \/ (i \in Matching(fact) /\ seen = items[i])
      BY DEF Matches
    <2> HIDE DEF i, seen, fact, Known
    <2>7. QED
      BY <1>1, <1>2, <1>3, <2>1, <2>2, <2>3, <2>4, <2>5, <2>6, JobSteps
  <1>5. /\ items'[i].status # "absent" /\ items[i].contradictions <= items'[i].contradictions
    <2> HIDE DEF i
    <2>1. QED
      BY <1>4, RowStaysSound
  <1>6. /\ seen.contradictions \in Nat /\ items[i].contradictions \in Nat
        /\ items'[i].contradictions \in Nat
    <2>1. ItemsOK'
      BY <1>1, ItemsStep
    <2> HIDE DEF i, seen
    <2>2. i \in Ids /\ seen \in Row
      BY <1>4
    <2>3. items[i] \in Row /\ items'[i] \in Row
      BY <1>1, <2>1, <2>2 DEF ItemsOK
    <2>4. QED
      BY <2>2, <2>3, RowColumns
  <1>7. QED
    <2> HIDE DEF i, seen, fact
    <2>1. seen.contradictions <= items'[i].contradictions
      BY <1>4, <1>5, <1>6
    <2>2. QED
      BY <1>1, <1>4, <1>5, <2>1 DEF Stored, MatchHolds, i, seen, fact

\* The invariant holds at the start.
LEMMA InitialInv ==
    ASSUME Init
    PROVE  Inv
  <1>1. TypeOK /\ JobsAreSound
    BY InitialTypes
  <1>2. MatchIsFaithful
    <2>1. \A x \in Jobs : jobs[x].match = 0
      BY NewJobType DEF Init
    <2>2. QED
      BY <2>1 DEF MatchIsFaithful, MatchHolds
  <1>3. SweepsReadActive
    BY NoSweepType DEF Init, SweepsReadActive
  <1>4. RowsCoherent /\ BlankRows
    <2>1. \A i \in Ids : RowCoherent(items[i]) /\ (items[i].status = "absent" => items[i] = Absent)
      BY MemoryAssumption DEF Init
    <2>2. Absent.lifecycle = "weak"
      BY DEF Absent
    <2>3. QED
      BY <2>1, <2>2 DEF RowsCoherent, BlankRows
  <1>5. RecallableIsEarned
    BY DEF Init, RecallableIsEarned
  <1>6. QED
    BY <1>1, <1>2, <1>3, <1>4, <1>5 DEF Inv

\* Every step keeps the invariant.
LEMMA InvStep ==
    ASSUME Inv, [Next]_vars
    PROVE  Inv'
  <1>1. TypeOK /\ JobsAreSound
    BY DEF Inv
  <1>2. (TypeOK /\ JobsAreSound)'
    BY <1>1, TypesStep
  <1>3. RowsCoherent' /\ RecallableIsEarned' /\ BlankRows'
    BY TableStep
  <1>4. QED
    BY <1>2, <1>3, MatchStaysFaithful, SweepsStayActive DEF Inv

\* What the memory of Brain keeps true of its table, its sweeps and its jobs.
THEOREM Invariance == Spec => []Inv
  <1>1. Init => Inv
    BY InitialInv
  <1>2. Inv /\ [Next]_vars => Inv'
    BY InvStep
  <1>3. QED
    BY <1>1, <1>2, PTL DEF Spec

\* The variables keep their types (memory.py, memory_extractor.py).
THEOREM TypeCorrect == Spec => []TypeOK
  BY Invariance, PTL DEF Inv

\* An active row is never archived and a contradiction leaves its trace, whatever
\* mixture of commands, sweeps and stale write-backs wrote the row.
THEOREM Coherence == Spec => []RowsCoherent
  BY Invariance, PTL DEF Inv

\* What a recall may use was once confirmed by a human or by its evidence.
THEOREM Earned == Spec => []RecallableIsEarned
  BY Invariance, PTL DEF Inv

\* A deleted memory stays deleted unless a sweep had read it before.
THEOREM Forgetting == Spec => ForgottenStays
  <1>1. Inv /\ [Next]_vars =>
            [\A i \in Ids \ HeldBySweep :
                items[i].status = "deleted" => items'[i].status = "deleted"]_vars
    <2> SUFFICES ASSUME Inv, [Next]_vars, NEW i \in Ids \ HeldBySweep,
                        items[i].status = "deleted"
                 PROVE  items'[i].status = "deleted"
      OBVIOUS
    <2>1. ~WrittenBack(i)
      BY DEF WrittenBack, HeldBySweep
    <2>2. ~(Confirmed(i) \/ Retired(i) \/ Doubted(i) \/ Inserted(i))
      BY DEF Confirmed, Retired, Doubted, Inserted
    <2>3. Untouched(i) \/ Strengthened(i)
      BY <2>1, <2>2, RowSteps DEF Inv
    <2>4. QED
      BY <2>3 DEF Untouched, Strengthened
  <1>2. QED
    BY <1>1, Invariance, PTL DEF Spec, ForgottenStays

\* A contradicted memory is recalled again only when a human confirms it, unless
\* somebody who had read the row before writes it back.
THEOREM Contradiction == Spec => ContradictionStays
  <1> DEFINE Back(i) == /\ items[i].lifecycle = "contradicted" /\ Recallable(items'[i])
             Step == \A i \in Ids \ (HeldBySweep \cup HeldByJob) :
                items[i].lifecycle = "contradicted" /\ Recallable(items'[i]) =>
                    \E g \in Groups \cup {Nobody}, anywhere \in BOOLEAN : Confirm(i, g, anywhere)
  <1>1. Inv /\ [Next]_vars => [Step]_vars
    <2> SUFFICES ASSUME Inv, [Next]_vars, NEW i \in Ids \ (HeldBySweep \cup HeldByJob),
                        Back(i)
                 PROVE  ByHuman(i)
      BY DEF ByHuman
    <2>1. ~WrittenBack(i)
      BY DEF WrittenBack, HeldBySweep
    <2>2. /\ items'[i].status = "active" /\ items'[i].lifecycle \in RecallLifecycles
      BY DEF Recallable
    <2>3. ~(Untouched(i) \/ Retired(i) \/ Doubted(i))
      BY <2>2 DEF Untouched, Retired, Doubted, RecallLifecycles
    <2>4. ~Inserted(i)
      BY DEF Inserted, Inv, BlankRows
    <2>5. ~Strengthened(i)
      <3> SUFFICES ASSUME Strengthened(i) PROVE FALSE
        OBVIOUS
      <3>1. PICK x \in Jobs :
                /\ jobs[x].match = i
                /\ items'[i].lifecycle = "contradicted" <=> jobs[x].seen.lifecycle = "contradicted"
        BY DEF Strengthened
      <3>2. jobs[x].seen.lifecycle # "contradicted"
        BY <2>2, <3>1 DEF RecallLifecycles
      <3>3. QED
        BY <3>1, <3>2 DEF HeldByJob
    <2>6. Confirmed(i)
      BY <2>1, <2>3, <2>4, <2>5, RowSteps DEF Inv
    <2>7. QED
      BY <2>6 DEF Confirmed
  <1>2. QED
    BY <1>1, Invariance, PTL DEF Spec, ContradictionStays

-----------------------------------------------------------------------------
(* Runs and notices.                                                       *)

\* The run a job leaves behind, as far as its notice may speak of it.
Agrees(verdict, run) ==
    verdict \in {"succeeded", "failed"} =>
        \/ run = verdict
        \/ verdict = "failed" /\ run \in {"none", "running"} /\ "database" \in Faults

\* Where a job is tells what its run and its notice can be.
StoryOfJob(x) ==
    LET stage == jobs[x].stage
    IN  /\ stage \in {"idle", "reading", "opening"} => runs[x] = "none" /\ jobs[x].verdict = ""
        /\ stage \in {"asking", "storing", "matching", "writing", "closing"} =>
                runs[x] = "running"
        /\ stage = "notifying" => Agrees(jobs[x].verdict, runs[x])
        /\ stage \notin {"done", "lost"} => notices[x] = ""
        /\ Agrees(notices[x], runs[x])

\* A step of a job keeps its story.
LEMMA StoryStep ==
    ASSUME TypeOK, JobsAreSound, [Next]_vars, NEW x \in Jobs, StoryOfJob(x)
    PROVE  StoryOfJob(x)'
  <1> DEFINE stage == jobs[x].stage
  <1>1. ~Agrees("failed", "running") => "database" \notin Faults
    BY DEF Agrees
  <1>2. /\ Agrees("", runs'[x]) /\ Agrees("no_messages", runs[x])
        /\ Agrees("failed", "failed") /\ Agrees("succeeded", "succeeded")
    BY DEF Agrees
  <1>3. Rests(x) => StoryOfJob(x)'
    BY DEF Rests, Silent, StoryOfJob
  <1>4. Starts(x) => StoryOfJob(x)'
    BY DEF Starts, From, SameVerdict, Silent, StoryOfJob
  <1>5. Reads(x) => StoryOfJob(x)'
    BY <1>2 DEF Reads, Silent, StoryOfJob
  <1>6. Opens(x) => StoryOfJob(x)'
    BY <1>2 DEF Opens, From, StoryOfJob
  <1>7. IsAnswered(x) \/ Takes(x) \/ Matches(x) \/ HasWritten(x) => StoryOfJob(x)'
    BY DEF IsAnswered, Takes, Matches, HasWritten, From, SameVerdict, Silent, StoryOfJob
  <1>8. Closes(x) => StoryOfJob(x)'
    <2> SUFFICES ASSUME Closes(x) PROVE StoryOfJob(x)'
      OBVIOUS
    <2>1. /\ jobs'[x].verdict \in {"failed", "succeeded"} /\ runs'[x] = jobs'[x].verdict
          /\ jobs'[x].stage = "notifying" /\ notices'[x] = ""
      BY DEF Closes, StoryOfJob
    <2>2. Agrees(jobs'[x].verdict, runs'[x])
      BY <1>2, <2>1
    <2>3. QED
      BY <1>2, <2>1, <2>2 DEF StoryOfJob
  <1>9. Notifies(x) => StoryOfJob(x)'
    BY DEF Notifies, From, StoryOfJob
  <1>10. GivesUp(x) => StoryOfJob(x)'
    <2> SUFFICES ASSUME GivesUp(x) PROVE StoryOfJob(x)'
      OBVIOUS
    <2>1. runs'[x] = runs[x] /\ notices'[x] = notices[x] /\ Agrees(notices[x], runs[x])
      BY DEF GivesUp, Silent, StoryOfJob
    <2>2. CASE /\ jobs[x].stage \in {"reading", "opening", "closing"} /\ "database" \in Faults
               /\ jobs'[x].stage = "notifying" /\ jobs'[x].verdict = "failed"
      <3>1. runs[x] \in {"none", "running"} /\ notices[x] = ""
        BY <2>2 DEF StoryOfJob
      <3>2. Agrees("failed", runs[x])
        BY <2>2, <3>1 DEF Agrees
      <3>3. QED
        BY <2>1, <2>2, <3>1, <3>2 DEF StoryOfJob
    <2>3. CASE /\ jobs[x].stage \in {"asking", "storing", "matching", "writing"}
               /\ jobs'[x].stage = "closing"
      BY <2>1, <2>3 DEF StoryOfJob
    <2>4. CASE From(x, "notifying", "done")
      BY <2>1, <2>4 DEF StoryOfJob, From
    <2>5. QED
      BY <2>2, <2>3, <2>4 DEF GivesUp
  <1>11. IsLost(x) => StoryOfJob(x)'
    BY DEF IsLost, Silent, StoryOfJob
  <1>12. QED
    BY <1>3, <1>4, <1>5, <1>6, <1>7, <1>8, <1>9, <1>10, <1>11, JobSteps

\* The notice of a job and its row in memory_runs tell the same story: only a
\* database failure may leave the run without the verdict of the notice.
THEOREM Verdict == Spec => []VerdictsAgree
  <1> DEFINE Stories == \A x \in Jobs : StoryOfJob(x)
  <1>1. Init => Stories
    <2> SUFFICES ASSUME Init, NEW x \in Jobs
                 PROVE  StoryOfJob(x)
      OBVIOUS
    <2>1. jobs[x] = NewJob /\ runs[x] = "none" /\ notices[x] = ""
      BY DEF Init
    <2>2. QED
      BY <2>1, NewJobType DEF StoryOfJob, Agrees
  <1>2. Inv /\ Stories /\ [Next]_vars => Stories'
    BY StoryStep DEF Inv
  <1>3. Stories => VerdictsAgree
    BY DEF StoryOfJob, Agrees, VerdictsAgree
  <1> HIDE DEF Stories
  <1>4. QED
    BY <1>1, <1>2, <1>3, Invariance, PTL DEF Spec

-----------------------------------------------------------------------------
(* Evidence.                                                               *)

\* Messages are only ever added.
LEMMA MessagesStay ==
    ASSUME [Next]_vars
    PROVE  said \subseteq said'
  <1>1. Admin \/ Sweep \/ Restart => UNCHANGED said
    BY DEF Admin, AdminConfirms, AdminForgets, AdminRetires, SetGroupMemory, restVars,
           Sweep, StartSweep, SweepRow, SweepFails, SweepVars, Restart
  <1>2. ASSUME NEW x \in Jobs, Work(x) \/ JobFails(x) \/ \E g \in Groups : Extract(x, g)
        PROVE  UNCHANGED said
    BY <1>2 DEF Work, ReadMessages, OpenRun, Match, CloseRun, Notify, ModelAnswers,
                TakeCandidate, Write, JobFails, Extract, JobVars
  <1>3. (\E m \in Messages : Say(m)) => said \subseteq said'
    BY DEF Say
  <1>4. (\E days \in Nights : Age(days)) \/ UNCHANGED vars => UNCHANGED said
    BY DEF Age, vars, restVars
  <1>5. QED
    BY <1>1, <1>2, <1>3, <1>4 DEF Next

\* A memory stays grounded when more is said.
LEMMA GroundedGrows ==
    ASSUME NEW fact, NEW evidence, NEW ms, NEW more, ms \subseteq more,
           Grounded(fact, evidence, ms)
    PROVE  Grounded(fact, evidence, more)
  <1>1. {m \in ms : m.group = fact.group} \subseteq {m \in more : m.group = fact.group}
    OBVIOUS
  <1>2. Senders({m \in ms : m.group = fact.group})
            \subseteq Senders({m \in more : m.group = fact.group})
    BY <1>1 DEF Senders
  <1>3. QED
    BY <1>1, <1>2 DEF Grounded

\* So it does when evidence for the same fact is joined.
LEMMA GroundedJoins ==
    ASSUME NEW fact, NEW e, NEW f, NEW ms, Grounded(fact, e, ms), Grounded(fact, f, ms)
    PROVE  Grounded(fact, e \cup f, ms)
  BY DEF Grounded

\* A candidate that passes the validation is grounded in the messages of its batch.
LEMMA SupportedIsGrounded ==
    ASSUME NEW c \in RawCandidate, NEW group, NEW batch, NEW ms,
           batch \subseteq {m \in ms : m.group = group}, Supported(c, group, batch)
    PROVE  Grounded(Cleaned(c.fact), c.evidence, ms)
  <1> DEFINE raw == c.fact
             clean == Cleaned(raw)
             here == {m \in ms : m.group = group}
  <1>1. /\ clean.scope = raw.scope /\ clean.group = raw.group
        /\ clean.user = IF raw.scope = "group" THEN Nobody ELSE raw.user
        /\ clean.target = IF raw.scope = "relationship" THEN raw.target ELSE Nobody
    BY DEF Cleaned
  <1>2. /\ raw.scope \in {"group", "user", "relationship"} /\ raw.group = group
        /\ c.evidence # {} /\ c.evidence \subseteq batch
        /\ raw.scope = "user" => raw.user \in Senders(batch)
        /\ raw.scope = "relationship" =>
                /\ {raw.user, raw.target} \subseteq Senders(batch)
                /\ raw.user # raw.target
    BY DEF Supported, Scopes
  <1>3. Senders(batch) \subseteq Senders(here)
    BY DEF Senders
  <1> HIDE DEF clean, raw
  <1>4. {clean.user, clean.target} \subseteq Senders(here) \cup {Nobody}
    <2> HIDE DEF here
    <2>1. QED
      BY <1>1, <1>2, <1>3
  <1>5. clean.scope = "relationship" => clean.user # clean.target
    BY <1>1, <1>2
  <1>6. c.evidence # {} /\ c.evidence \subseteq here /\ clean.group = group
    BY <1>1, <1>2
  <1>7. Grounded(clean, c.evidence, ms)
    BY <1>4, <1>5, <1>6 DEF Grounded
  <1>8. QED
    BY <1>7 DEF clean, raw

\* What a job holds is grounded in what was said.
HandIsGrounded(x) ==
    /\ jobs[x].batch \subseteq {m \in said : m.group = jobs[x].group}
    /\ jobs[x].stage \in {"matching", "writing"} =>
            Grounded(jobs[x].candidate.fact, jobs[x].candidate.evidence, said)
    /\ jobs[x].match # 0 => Grounded(jobs[x].seen.fact, jobs[x].seen.evidence, said)

HandsAreGrounded == \A x \in Jobs : HandIsGrounded(x)

\* A step of a job keeps its hand grounded.
LEMMA HandStep ==
    ASSUME TypeOK, JobsAreSound, MemoriesAreGrounded, [Next]_vars, NEW x \in Jobs,
           HandIsGrounded(x)
    PROVE  HandIsGrounded(x)'
  <1>1. said \subseteq said' /\ JobIsSound(jobs[x]) /\ JobsOK
    BY MessagesStay DEF JobsAreSound, TypeOK, JobsOK
  <1>2. Grounded(jobs[x].candidate.fact, jobs[x].candidate.evidence, said) =>
            Grounded(jobs[x].candidate.fact, jobs[x].candidate.evidence, said')
    BY <1>1, GroundedGrows
  <1>3. Grounded(jobs[x].seen.fact, jobs[x].seen.evidence, said) =>
            Grounded(jobs[x].seen.fact, jobs[x].seen.evidence, said')
    BY <1>1, GroundedGrows
  <1>4. Rests(x) => HandIsGrounded(x)'
    BY <1>1, <1>2, <1>3 DEF Rests, HandIsGrounded
  <1>5. Starts(x) => HandIsGrounded(x)'
    BY <1>1, <1>3 DEF Starts, From, SameHand, JobIsSound, HandIsGrounded
  <1>6. Reads(x) => HandIsGrounded(x)'
    BY <1>1, <1>3 DEF Reads, SameHand, JobIsSound, HandIsGrounded
  <1>7. Opens(x) \/ IsAnswered(x) => HandIsGrounded(x)'
    BY <1>1, <1>3 DEF Opens, IsAnswered, From, SameWork, SameHand, HandIsGrounded
  <1>8. Takes(x) => HandIsGrounded(x)'
    <2> SUFFICES ASSUME Takes(x) PROVE HandIsGrounded(x)'
      OBVIOUS
    <2>1. PICK k \in jobs[x].todo :
                /\ jobs'[x].candidate.fact = Cleaned(jobs[x].answer[k].fact)
                /\ jobs'[x].candidate.evidence = jobs[x].answer[k].evidence
      BY DEF Takes
    <2>2. /\ jobs[x].answer[k] \in RawCandidate
          /\ Supported(jobs[x].answer[k], jobs[x].group, jobs[x].batch)
      BY <1>1, TodoIsValid
    <2>3. jobs[x].batch \subseteq {m \in said' : m.group = jobs[x].group}
      BY <1>1 DEF HandIsGrounded
    <2>4. Grounded(Cleaned(jobs[x].answer[k].fact), jobs[x].answer[k].evidence, said')
      BY <2>2, <2>3, SupportedIsGrounded
    <2>5. jobs'[x].match = 0
      BY <1>1 DEF Takes, From, JobIsSound
    <2>6. QED
      BY <2>1, <2>3, <2>4, <2>5 DEF Takes, From, HandIsGrounded
  <1>9. Matches(x) => HandIsGrounded(x)'
    <2> SUFFICES ASSUME Matches(x) PROVE HandIsGrounded(x)'
      OBVIOUS
    <2>1. /\ jobs'[x].batch = jobs[x].batch /\ jobs'[x].group = jobs[x].group
          /\ jobs'[x].stage = "writing" /\ jobs[x].stage = "matching"
          /\ jobs'[x].candidate = jobs[x].candidate
      BY DEF Matches, From, SameWork
    <2>2. jobs'[x].match # 0 => Grounded(jobs'[x].seen.fact, jobs'[x].seen.evidence, said')
      <3>1. CASE /\ jobs'[x].match \in Matching(jobs[x].candidate.fact)
                 /\ jobs'[x].seen = items[jobs'[x].match]
        <4>1. jobs'[x].match \in Ids /\ Stored(jobs'[x].match)
          BY <3>1 DEF Matching, Stored
        <4>2. Grounded(jobs'[x].seen.fact, jobs'[x].seen.evidence, said)
          BY <3>1, <4>1 DEF MemoriesAreGrounded
        <4>3. QED
          BY <1>1, <4>2, GroundedGrows
      <3>2. CASE SameHand(jobs[x], jobs'[x])
        BY <1>3, <3>2 DEF SameHand, HandIsGrounded
      <3>3. QED
        BY <3>1, <3>2 DEF Matches
    <2>3. QED
      BY <1>1, <1>2, <2>1, <2>2 DEF HandIsGrounded
  <1>10. HasWritten(x) => HandIsGrounded(x)'
    BY <1>1 DEF HasWritten, From, SameWork, HandIsGrounded
  <1>11. Closes(x) \/ Notifies(x) \/ GivesUp(x) \/ IsLost(x) => HandIsGrounded(x)'
    BY DEF Closes, Notifies, GivesUp, IsLost, Dropped, From, HandIsGrounded
  <1>12. QED
    BY <1>4, <1>5, <1>6, <1>7, <1>8, <1>9, <1>10, <1>11, JobSteps

\* A step keeps the table grounded.
LEMMA GroundStep ==
    ASSUME Inv, HandsAreGrounded, MemoriesAreGrounded, [Next]_vars, NEW i \in Ids,
           items'[i].status # "absent"
    PROVE  Grounded(items'[i].fact, items'[i].evidence, said')
  <1>1. said \subseteq said' /\ TypeOK /\ JobsAreSound /\ MatchIsFaithful
    BY MessagesStay DEF Inv
  <1>2. Stored(i) => Grounded(items[i].fact, items[i].evidence, said')
    BY <1>1, GroundedGrows DEF MemoriesAreGrounded
  <1>3. CASE Untouched(i)
    BY <1>2, <1>3 DEF Untouched, Kept, Stored
  <1>4. CASE Confirmed(i) \/ Retired(i) \/ Doubted(i)
    BY <1>2, <1>4 DEF Confirmed, Retired, Doubted, Kept, Stored
  <1>5. CASE WrittenBack(i)
    <2>1. Stored(i)
      BY <1>5 DEF WrittenBack, Inv, SweepsReadActive
    <2>2. QED
      BY <1>2, <1>5, <2>1 DEF WrittenBack, Kept
  <1>6. CASE Strengthened(i)
    <2>1. PICK x \in Jobs :
                /\ jobs[x].match = i /\ i # 0 /\ jobs[x].stage = "writing"
                /\ items'[i].fact = jobs[x].seen.fact
                /\ items'[i].evidence = jobs[x].seen.evidence \cup jobs[x].candidate.evidence
      BY <1>6 DEF Strengthened
    <2>2. jobs[x].seen.fact = jobs[x].candidate.fact
      BY <1>1, <2>1 DEF MatchIsFaithful, MatchHolds
    <2>3. /\ Grounded(jobs[x].seen.fact, jobs[x].seen.evidence, said)
          /\ Grounded(jobs[x].seen.fact, jobs[x].candidate.evidence, said)
      BY <2>1, <2>2 DEF HandsAreGrounded, HandIsGrounded
    <2>4. QED
      BY <1>1, <2>1, <2>3, GroundedJoins, GroundedGrows
  <1>7. CASE Inserted(i)
    <2>1. PICK x \in Jobs :
                /\ jobs[x].stage = "writing"
                /\ items'[i].fact = jobs[x].candidate.fact
                /\ items'[i].evidence = jobs[x].candidate.evidence
      BY <1>7 DEF Inserted
    <2>2. Grounded(jobs[x].candidate.fact, jobs[x].candidate.evidence, said)
      BY <2>1 DEF HandsAreGrounded, HandIsGrounded
    <2>3. QED
      BY <1>1, <2>1, <2>2, GroundedGrows
  <1>8. QED
    BY <1>1, <1>3, <1>4, <1>5, <1>6, <1>7, RowSteps

\* If the memories the table starts with are grounded in the messages stored
\* before, then every memory it ever holds is: whatever the model answers,
\* validation and matching let nothing else in.
THEOREM Grounding ==
    ASSUME \A table \in InitialTables : \A i \in Ids :
                table[i].status # "absent" =>
                    Grounded(table[i].fact, table[i].evidence, Backlog)
    PROVE  Spec => []MemoriesAreGrounded
  <1>1. Init => MemoriesAreGrounded
    BY DEF Init, MemoriesAreGrounded, Stored
  <1>2. Init => HandsAreGrounded
    <2> SUFFICES ASSUME Init, NEW x \in Jobs
                 PROVE  HandIsGrounded(x)
      BY DEF HandsAreGrounded
    <2>1. jobs[x] = NewJob
      BY DEF Init
    <2>2. QED
      BY <2>1, NewJobType DEF HandIsGrounded
  <1>3. Inv /\ MemoriesAreGrounded /\ HandsAreGrounded /\ [Next]_vars => MemoriesAreGrounded'
    BY GroundStep DEF MemoriesAreGrounded, Stored
  <1>4. Inv /\ MemoriesAreGrounded /\ HandsAreGrounded /\ [Next]_vars => HandsAreGrounded'
    BY HandStep DEF HandsAreGrounded, Inv
  <1>5. QED
    BY <1>1, <1>2, <1>3, <1>4, Invariance, PTL DEF Spec

-----------------------------------------------------------------------------
(* The promise.                                                            *)

ProvenIsIn == \A i \in Ids : Proven(items[i]) => i \in earned

Known == {i \in Ids : Stored(i)}
UsableRows == {i \in Ids : Recallable(items[i])}
Deleted == {i \in Ids : items[i].status = "deleted"}

\* A row whose columns a command leaves alone has earned what it had.
LEMMA ProvenStays ==
    ASSUME NEW old, NEW new, Kept(old, new), Proven(new), old.status # "absent"
    PROVE  Proven(old)
  BY DEF Kept, Proven

\* Writing one row changes what is known, usable and forgotten by that row only.
LEMMA OneRow ==
    ASSUME ItemsOK, NEW i, NEW row, Writes(i, row), row.status # "absent"
    PROVE  /\ i \in Ids
           /\ Known' = Known \cup {i}
           /\ UsableRows' = IF Recallable(row) THEN UsableRows \cup {i} ELSE UsableRows \ {i}
           /\ Deleted' = IF row.status = "deleted" THEN Deleted \cup {i} ELSE Deleted \ {i}
  <1>1. /\ i \in Ids /\ items'[i] = row
        /\ \A j \in Ids : j # i => items'[j] = items[j]
    BY DEF Writes, ItemsOK
  <1>2. Known' = Known \cup {i}
    BY <1>1 DEF Known, Stored
  <1>3. UsableRows' = IF Recallable(row) THEN UsableRows \cup {i} ELSE UsableRows \ {i}
    <2>1. \A j \in Ids : j # i => (Recallable(items'[j]) <=> Recallable(items[j]))
      BY <1>1
    <2>2. UsableRows' = {j \in Ids : Recallable(items'[j])}
      BY DEF UsableRows
    <2>3. QED
      BY <1>1, <2>1, <2>2 DEF UsableRows
  <1>4. Deleted' = IF row.status = "deleted" THEN Deleted \cup {i} ELSE Deleted \ {i}
    BY <1>1 DEF Deleted
  <1>5. QED
    BY <1>1, <1>2, <1>3, <1>4

\* Writing one row earns that row at most.
LEMMA OneEarned ==
    ASSUME ItemsOK, ProvenIsIn, Remember, NEW i, NEW row, Writes(i, row)
    PROVE  earned' \in {earned, earned \cup {i}}
  <1>1. \A j \in Ids : j # i => items'[j] = items[j]
    BY DEF Writes, ItemsOK
  <1>2. \A j \in Ids : Proven(items'[j]) => j = i \/ j \in earned
    BY <1>1 DEF ProvenIsIn
  <1>3. QED
    BY <1>2 DEF Remember

\* A step of the memory, without sweeps, in the terms of the promise.
PromisedStep ==
    \/ UNCHANGED <<Known, earned, UsableRows, Deleted>>
    \/ \E i \in Ids :
        \/ /\ i \notin Known /\ Known' = Known \cup {i}
           /\ earned' \in {earned, earned \cup {i}}
           /\ UsableRows' \in {UsableRows, UsableRows \cup (earned' \cap {i})}
           /\ UNCHANGED Deleted
        \/ /\ i \in Known /\ earned' = earned \cup {i}
           /\ UsableRows' \in {UsableRows, UsableRows \cup ({i} \ Deleted)}
           /\ UNCHANGED <<Known, Deleted>>
        \/ UsableRows' = UsableRows \ {i} /\ UNCHANGED <<Known, earned, Deleted>>
    \/ \E S \in SUBSET Known :
            /\ Deleted' = Deleted \cup S /\ UsableRows' = UsableRows \ S
            /\ UNCHANGED <<Known, earned>>

\* Every step does what the promise allows.
LEMMA StepIsPromised ==
    ASSUME Inv, ProvenIsIn, Sweeps = {}, [Next]_vars
    PROVE  PromisedStep
  <1>1. /\ TypeOK /\ JobsAreSound /\ ItemsOK /\ MatchIsFaithful /\ RecallableIsEarned
        /\ RecallableIsEarned'
    BY TableStep DEF Inv, TypeOK, ItemsOK
  <1>2. UNCHANGED <<items, earned>> => PromisedStep
    BY DEF PromisedStep, Known, UsableRows, Deleted, Stored
  <1>3. ASSUME NEW i \in Ids, NEW g \in Groups \cup {Nobody}, NEW anywhere \in BOOLEAN,
               Confirm(i, g, anywhere), earned' = earned \cup {i}
        PROVE  PromisedStep
    <2>1. PICK row \in Row :
                /\ Writes(i, row) /\ row.status = "active" /\ row.lifecycle = "confirmed"
                /\ items[i].status \notin {"absent", "deleted"}
      BY <1>1, <1>3, ConfirmWrites
    <2>2. Recallable(row)
      BY <2>1 DEF Recallable, RecallLifecycles
    <2>3. i \in Known /\ i \notin Deleted
      BY <2>1 DEF Known, Deleted, Stored
    <2>4. /\ Known' = Known \cup {i} /\ UsableRows' = UsableRows \cup {i}
          /\ Deleted' = Deleted \ {i}
      BY <1>1, <2>1, <2>2, OneRow
    <2>5. QED
      BY <1>3, <2>3, <2>4 DEF PromisedStep
  <1>4. ASSUME NEW i \in Ids, NEW g, NEW anywhere, earned' = earned,
               Archive(i, g, anywhere) \/ MarkStale(i, g, anywhere) \/ Delete(i, g, anywhere)
        PROVE  PromisedStep
    <2>1. PICK row \in Row :
                /\ Writes(i, row)
                /\ \/ row.status \in {"archived", "deleted"} /\ row.lifecycle = "archived"
                   \/ row.status = "active" /\ row.lifecycle = "stale"
                /\ items[i].status \notin {"absent", "deleted"}
      BY <1>1, <1>4, RetireWrites
    <2>2. ~Recallable(row) /\ row.status # "absent"
      BY <2>1 DEF Recallable, RecallLifecycles
    <2>3. i \in Known /\ i \notin Deleted
      BY <2>1 DEF Known, Deleted, Stored
    <2>4. /\ Known' = Known \cup {i} /\ UsableRows' = UsableRows \ {i}
          /\ Deleted' = IF row.status = "deleted" THEN Deleted \cup {i} ELSE Deleted \ {i}
      BY <1>1, <2>1, <2>2, OneRow
    <2>5. QED
      BY <1>4, <2>3, <2>4 DEF PromisedStep
  <1>5. ASSUME NEW g, NEW u, DeleteGroup(g) \/ DeleteUser(g, u), earned' = earned
        PROVE  PromisedStep
    <2> DEFINE S == {i \in Ids : items'[i] # items[i]}
    <2>1. \A i \in Ids : \/ items'[i] = items[i]
                         \/ items[i].status = "active" /\ items'[i].status = "deleted"
      BY <1>1, <1>5, ForgetWrites, ForgottenRow DEF ItemsOK
    <2>2. \A i \in S : /\ i \in Ids /\ items[i].status = "active"
                       /\ items'[i].status = "deleted"
      BY <2>1
    <2>3. \A i \in Ids \ S : items'[i] = items[i]
      OBVIOUS
    <2> HIDE DEF S
    <2>4. S \subseteq Known /\ Known' = Known
      BY <2>2, <2>3 DEF Known, Stored
    <2>5. Deleted' = Deleted \cup S
      BY <2>2, <2>3 DEF Deleted
    <2>6. UsableRows' = UsableRows \ S
      <3>1. \A i \in Ids : Recallable(items'[i]) <=> Recallable(items[i]) /\ i \notin S
        BY <2>2, <2>3 DEF Recallable
      <3>2. UsableRows' = {i \in Ids : Recallable(items'[i])}
        BY DEF UsableRows
      <3>3. QED
        BY <3>1, <3>2 DEF UsableRows
    <2>7. QED
      BY <1>5, <2>4, <2>5, <2>6 DEF PromisedStep
  <1>6. ASSUME NEW days \in Nights, Age(days)
        PROVE  PromisedStep
    <2>1. days \in Nat /\ DaysPass(days) /\ earned' = earned
      BY <1>6, ServiceAssumption DEF Age
    <2>2. \A i \in Ids : /\ items'[i].status = items[i].status
                         /\ items'[i].lifecycle = items[i].lifecycle
      BY <1>1, <2>1, DaysWrite
    <2>3. \A i \in Ids : Recallable(items'[i]) <=> Recallable(items[i])
      BY <2>2 DEF Recallable
    <2>4. UsableRows' = UsableRows
      BY <2>3 DEF UsableRows
    <2>5. Known' = Known /\ Deleted' = Deleted
      BY <2>2 DEF Known, Deleted, Stored
    <2>6. QED
      BY <2>1, <2>4, <2>5 DEF PromisedStep
  <1>7. ASSUME NEW x \in Jobs, NEW k, TakeCandidate(x, k)
        PROVE  PromisedStep
    <2>1. Remember
      BY <1>7 DEF TakeCandidate
    <2>2. CASE UNCHANGED items
      <3>1. earned' = earned
        BY <2>1, <2>2 DEF Remember, ProvenIsIn
      <3>2. QED
        BY <1>2, <2>2, <3>1
    <2>3. ASSUME NEW i, NEW g, Contradict(i, g)
          PROVE  PromisedStep
      <3>1. PICK row \in Row :
                /\ Writes(i, row) /\ items[i].status = "active"
                /\ row.status = "active" /\ row.lifecycle = "contradicted"
                /\ row.fact = items[i].fact /\ row.evidence = items[i].evidence
                /\ row.confidence = items[i].confidence /\ row.importance = items[i].importance
        BY <1>1, <2>3, ContradictWrites
      <3>2. ~Recallable(row)
        BY <3>1 DEF Recallable, RecallLifecycles
      <3>3. /\ i \in Ids /\ Known' = Known \cup {i} /\ UsableRows' = UsableRows \ {i}
            /\ Deleted' = Deleted \ {i}
        BY <1>1, <3>1, <3>2, OneRow
      <3>4. i \in Known /\ i \notin Deleted
        BY <3>1, <3>3 DEF Known, Deleted, Stored
      <3>5. items'[i] = row
        BY <1>1, <3>1 DEF Writes, ItemsOK
      <3>6. Proven(row) => Proven(items[i])
        BY <3>1 DEF Proven
      <3>7. earned' = earned
        BY <1>1, <2>1, <3>1, <3>3, <3>5, <3>6, OneEarned DEF ProvenIsIn, Remember, Writes, ItemsOK
      <3>8. QED
        BY <3>3, <3>4, <3>7 DEF PromisedStep
    <2>4. QED
      BY <1>7, <2>2, <2>3 DEF TakeCandidate
  <1>8. ASSUME NEW x \in Jobs, NEW i \in Ids, Write(x, i)
        PROVE  PromisedStep
    <2>1. Remember
      BY <1>8 DEF Write
    <2>2. /\ jobs[x].candidate \in Candidate /\ jobs[x].seen \in Row
          /\ jobs[x].match # 0 => jobs[x].match \in Ids /\ jobs[x].seen.lifecycle # "archived"
      BY <1>1, HandColumns
    <2>3. \A j \in Ids : Recallable(items'[j]) => j \in earned'
      BY <1>1 DEF RecallableIsEarned
    <2>4. CASE Insert(i, jobs[x].candidate)
      <3>1. PICK row \in Row : Writes(i, row) /\ items[i].status = "absent" /\ row.status = "active"
        BY <1>1, <2>2, <2>4, InsertWrites
      <3>2. i \notin Known /\ i \notin UsableRows /\ i \notin Deleted
        BY <3>1 DEF Known, UsableRows, Deleted, Stored, Recallable
      <3>3. /\ Known' = Known \cup {i} /\ Deleted' = Deleted \ {i}
            /\ UsableRows' = IF Recallable(row) THEN UsableRows \cup {i} ELSE UsableRows \ {i}
        BY <1>1, <3>1, OneRow
      <3>4. earned' \in {earned, earned \cup {i}}
        BY <1>1, <2>1, <3>1, OneEarned
      <3>5. Recallable(row) => i \in earned'
        BY <1>1, <2>3, <3>1 DEF Writes, ItemsOK
      <3>6. UsableRows' \in {UsableRows, UsableRows \cup (earned' \cap {i})}
        BY <3>2, <3>3, <3>5
      <3>7. QED
        BY <3>2, <3>3, <3>4, <3>6 DEF PromisedStep
    <2>5. CASE jobs[x].match # 0 /\ i = jobs[x].match
                    /\ ReinforceWrite(i, jobs[x].seen, jobs[x].candidate)
      <3>1. PICK row \in Row : Writes(i, row) /\ row.status = items[i].status
        BY <1>1, <2>2, <2>5, ReinforceWrites
      <3>2. items[i].status # "absent" /\ i \in Known
        BY <1>1, <2>5 DEF MatchIsFaithful, MatchHolds, Stored, Known
      <3>3. /\ Known' = Known \cup {i}
            /\ UsableRows' = IF Recallable(row) THEN UsableRows \cup {i} ELSE UsableRows \ {i}
            /\ Deleted' = IF row.status = "deleted" THEN Deleted \cup {i} ELSE Deleted \ {i}
        BY <1>1, <3>1, <3>2, OneRow
      <3>4. Known' = Known /\ Deleted' = Deleted
        BY <3>1, <3>2, <3>3 DEF Deleted
      <3>5. earned' \in {earned, earned \cup {i}}
        BY <1>1, <2>1, <3>1, OneEarned
      <3>6. CASE Recallable(row)
        <4>1. i \in earned'
          BY <1>1, <2>3, <3>1, <3>6 DEF Writes, ItemsOK
        <4>2. i \notin Deleted
          BY <3>1, <3>6 DEF Recallable, Deleted
        <4>3. earned' = earned \cup {i} /\ UsableRows' = UsableRows \cup ({i} \ Deleted)
          BY <3>3, <3>5, <3>6, <4>1, <4>2
        <4>4. QED
          BY <3>2, <3>4, <4>3 DEF PromisedStep
      <3>7. CASE ~Recallable(row) /\ i \in UsableRows
        <4>1. i \in earned
          BY <1>1, <3>7 DEF UsableRows, RecallableIsEarned
        <4>2. earned' = earned /\ UsableRows' = UsableRows \ {i}
          BY <3>3, <3>5, <3>7, <4>1
        <4>3. QED
          BY <3>4, <4>2 DEF PromisedStep
      <3>8. CASE ~Recallable(row) /\ i \notin UsableRows
        <4>1. UsableRows' = UsableRows
          BY <3>3, <3>8
        <4>2. QED
          BY <3>2, <3>4, <3>5, <4>1 DEF PromisedStep
      <3>9. QED
        BY <3>6, <3>7, <3>8
    <2>6. QED
      BY <1>8, <2>4, <2>5 DEF Write
  <1>9. QED
    <2>1. (\E i \in Ids, g \in Groups \cup {Nobody}, anywhere \in BOOLEAN :
                /\ Confirm(i, g, anywhere)
                /\ earned' = earned \cup {i} /\ UNCHANGED restVars) => PromisedStep
      BY <1>3
    <2>2. (\E i \in Ids, g \in Groups \cup {Nobody}, anywhere \in BOOLEAN :
                /\ Archive(i, g, anywhere) \/ MarkStale(i, g, anywhere) \/ Delete(i, g, anywhere)
                /\ UNCHANGED <<earned, restVars>>) => PromisedStep
      BY <1>4
    <2>3. (\E g \in Groups : \E u : /\ DeleteGroup(g) \/ DeleteUser(g, u)
                                /\ UNCHANGED <<earned, restVars>>) => PromisedStep
      BY <1>5
    <2>4. QED
      BY <1>2, <2>1, <2>2, <2>3, <1>6, <1>7, <1>8, TableSteps

\* Evidence that is worth it is never forgotten.
LEMMA ProvenStep ==
    ASSUME Inv, ProvenIsIn, Sweeps = {}, [Next]_vars
    PROVE  ProvenIsIn'
  <1> SUFFICES ASSUME NEW i \in Ids, Proven(items'[i])
               PROVE  i \in earned'
    BY DEF ProvenIsIn
  <1>1. earned \subseteq earned' /\ ItemsOK
    BY EarnedGrows DEF Inv, TypeOK, ItemsOK
  <1>2. Proven(items[i]) => i \in earned'
    BY <1>1 DEF ProvenIsIn
  <1>3. items'[i].status # "absent"
    BY DEF Proven
  <1>4. CASE Untouched(i) \/ Confirmed(i) \/ Retired(i)
    <2>1. items[i].status # "absent" /\ Kept(items[i], items'[i])
      BY <1>3, <1>4 DEF Untouched, Confirmed, Retired
    <2>2. QED
      BY <1>2, <2>1, ProvenStays
  <1>5. CASE Doubted(i)
    BY <1>2, <1>5 DEF Doubted, Proven
  <1>6. CASE Strengthened(i) \/ Inserted(i)
    BY <1>6 DEF Strengthened, Inserted
  <1>7. ~WrittenBack(i)
    BY DEF WrittenBack
  <1>8. QED
    BY <1>4, <1>5, <1>6, <1>7, RowSteps DEF Inv

\* As long as no sweep runs and nothing was deleted before, administrators and
\* concurrent extractions keep the promise of MemoryPromise.
THEOREM Promised ==
    ASSUME Sweeps = {},
           \A table \in InitialTables : \A i \in Ids : table[i].status # "deleted"
    PROVE  Spec => KeepsPromise
  <1>1. Init => Promise!Init /\ ProvenIsIn
    <2> SUFFICES ASSUME Init PROVE Promise!Init /\ ProvenIsIn
      OBVIOUS
    <2>1. earned = {i \in Ids : Recallable(items[i]) \/ Proven(items[i])}
      BY DEF Init
    <2>2. \A i \in Ids : items[i].status # "deleted"
      BY DEF Init
    <2>3. \A i \in earned : i \in Ids /\ Stored(i)
      BY <2>1 DEF Recallable, Proven, Stored
    <2>4. QED
      BY <2>1, <2>2, <2>3 DEF Promise!Init, ProvenIsIn
  <1>2. Inv /\ ProvenIsIn /\ [Next]_vars => ProvenIsIn'
    BY ProvenStep
  <1>3. PromisedStep => [Promise!Next]_Promise!vars
    BY DEF PromisedStep, Known, UsableRows, Deleted, Promise!Next, Promise!vars, Promise!Learn,
           Promise!Trust, Promise!Withhold, Promise!Forget
  <1>4. Inv /\ ProvenIsIn /\ [Next]_vars => [Promise!Next]_Promise!vars
    BY <1>3, StepIsPromised
  <1>5. QED
    BY <1>1, <1>2, <1>4, Invariance, PTL DEF Spec, KeepsPromise, Promise!Spec

=============================================================================
