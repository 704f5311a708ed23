----------------------------- MODULE BatchRunner ----------------------------
(***************************************************************************)
(* The second half of run_tests (src/stress_tests/conformance.py, lines   *)
(* 501-537): the jobs run one after the other in the calling process      *)
(* (--parallel 0) or in a ProcessPoolExecutor of Workers processes, whose *)
(* executor.map hands jobs out in job order and gives the results back in *)
(* job order; then the hashes report is written and the number of failed  *)
(* jobs is the exit status.  An exception in a job ends the batch.        *)
(***************************************************************************)
EXTENDS JobExecutor, SequencesExt

CONSTANT Workers   \* int(args.parallel); 0 runs the jobs in-process

ASSUME Workers \in Nat

VARIABLES
    phase,      \* "running", "report", "done" or "crashed"
    collected,  \* how many results the loop over executor.map has consumed
    fails,      \* the failure counter
    testJobs,   \* the list test_jobs, index = job number + 1
    hashes      \* the hashes.json written at the end

runnerVars == <<phase, collected, fails, testJobs, hashes>>
vars == <<execVars, runnerVars>>

N == Len(JobList)

\* A test_jobs entry as built at lines 485-497: a job dict, which has a
\* sequence but no name.
JobDict(j) == [number |-> j - 1, sequence |-> JobList[j].sequence]

Init ==
    /\ ExecInit
    /\ phase = IF N = 0 THEN "report" ELSE "running"
    /\ collected = 0
    /\ fails = 0
    /\ testJobs = [j \in Jobs |-> JobDict(j)]
    /\ hashes = <<>>

Busy(j) == pc[j] \notin {"queued", "done", "raised"}

\* A job starts: the pool hands jobs out in order to at most Workers
\* processes; in-process, job j starts when the loop reached it.
Dispatch(j) ==
    /\ phase = "running"
    /\ pc[j] = "queued"
    /\ \A i \in Jobs : i < j => pc[i] # "queued"
    /\ IF Workers = 0 THEN collected = j - 1
                      ELSE Cardinality({i \in Jobs : Busy(i)}) < Workers
    /\ Goto(j, "exists")
    /\ UNCHANGED <<dirs, tmpdirs, fs, outcome, ok, sum, result, updated, runnerVars>>

StoreReturned(n) ==
    IF Workers = 0 THEN testJobs ELSE [testJobs EXCEPT ![n] = updated[n]]

\* Lines 505 and 513: the loop ends after the last job.
LoopEndsEarly(n) == n = N - 1   \* variant: one job short
LoopEnds(n) == n = N

\* Lines 505-508 and 513-517: the next result in job order.  An exception
\* of that job propagates and ends the batch; otherwise a failure is
\* counted and, from a worker, the returned test is stored at its number.
Collect ==
    LET n == collected + 1
    IN  /\ phase = "running"
        /\ collected < N
        /\ pc[n] \in {"done", "raised"}
        /\ IF pc[n] = "raised"
              THEN /\ phase' = "crashed"
                   /\ UNCHANGED <<collected, fails, testJobs>>
              ELSE /\ collected' = n
                   /\ fails' = fails + (IF result[n] THEN 0 ELSE 1)
                   /\ testJobs' = StoreReturned(n)
                   /\ phase' = IF LoopEnds(n) THEN "report" ELSE "running"
        /\ UNCHANGED <<execVars, hashes>>

\* Lines 524-532: one hashes entry per test_jobs entry, keyed by its
\* sequence and name; {} when it has no checksum.
HashKeyByName(e) == <<e.name>>   \* variant: forgets the sequence
HashKey(e) == <<e.sequence, e.name>>
HashEntry(e) == IF e.checksum = Absent THEN <<>> ELSE [hash |-> e.checksum]
HasKey(e) == "name" \in DOMAIN e /\ e.sequence # Absent

BuildHashes(entries) ==
    FoldLeft(LAMBDA h, e : (HashKey(e) :> HashEntry(e)) @@ h, <<>>, entries)

\* Lines 522-535: the KeyError for a missing name or sequence is not
\* caught and ends the batch before hashes.json is written.
WriteReport ==
    /\ phase = "report"
    /\ IF \A j \in Jobs : HasKey(testJobs[j])
          THEN phase' = "done" /\ hashes' = BuildHashes(testJobs)
          ELSE phase' = "crashed" /\ UNCHANGED hashes
    /\ UNCHANGED <<execVars, collected, fails, testJobs>>

\* The batch has exited.
Exited ==
    /\ phase \in {"done", "crashed"}
    /\ UNCHANGED vars

\* A step of the worker running job j (in-process: of the loop at 506).
Work(j) == phase = "running" /\ JobStep(j) /\ UNCHANGED runnerVars

Next ==
    \/ \E j \in Jobs : Dispatch(j)
    \/ \E j \in Jobs : Work(j)
    \/ Collect
    \/ WriteReport
    \/ Exited

Spec == Init /\ [][Next]_vars

\* A worker process that can take a step eventually does (the OS schedules
\* it; each external tool is assumed to exit, which p.wait() at line 151
\* does not enforce); the pool hands a free worker the next job; the
\* parent blocked in executor.map takes each result when it is there.
Fairness ==
    /\ \A j \in Jobs : WF_vars(Dispatch(j)) /\ WF_vars(Work(j))
    /\ WF_vars(Collect)
    /\ WF_vars(WriteReport)

FairSpec == Spec /\ Fairness

-----------------------------------------------------------------------------
(* Properties of a batch.                                                 *)

TypeOK ==
    /\ ExecTypeOK
    /\ phase \in {"running", "report", "done", "crashed"}
    /\ collected \in 0..N
    /\ fails \in 0..collected
    /\ \A j \in Jobs : testJobs[j] \in {JobDict(j), updated[j]}

\* The batch exits normally (the exit status and hashes.json are only
\* produced then).
NoCrash == phase # "crashed"

\* Once all results are in, the failure count that becomes the exit status
\* is the number of jobs whose verdict was FALSE, whatever the order in
\* which the workers finished.
FailCount ==
    phase \in {"report", "done"} =>
        fails = Cardinality({j \in Jobs : ~result[j]})

\* hashes.json has one entry per job output, holding the recon checksum
\* that job computed, however the jobs were spread over the workers.
ReportFaithful ==
    phase = "done" =>
        /\ DOMAIN hashes = Outputs
        /\ \A j \in Jobs : hashes[Output(j)] = [hash |-> sum[j].enc]

=============================================================================
