----------------------------- MODULE AnchorWorker -----------------------------
(***************************************************************************)
(* The OpenTimestamps worker (forensics/anchor_worker.py, anchor.py): a     *)
(* one-shot process that a timer starts.  It snapshots the chain tip, tracks *)
(* it in an SQLite table, and moves every due row along its life cycle by    *)
(* submitting to calendars, upgrading proofs and writing proof files.        *)
(*                                                                         *)
(* A worker may die between any two steps, its proof write and its commit    *)
(* included, and two workers may overlap: every UPDATE is guarded by the     *)
(* state that was read, the proof files are not.  The machine may lose power: *)
(* a commit is durable, a rename that no fsync of its directory followed may  *)
(* be undone.                                                               *)
(*                                                                         *)
(* Time is relative: wait[t] is how long row t's next_attempt lies ahead (0:  *)
(* passed or NULL), elapsed[w] how long ago worker w read its clock.          *)
(***************************************************************************)
EXTENDS Naturals, Sequences, FiniteSets

CONSTANTS
    Workers,       \* worker processes that may run at the same time
    MaxTip,        \* bound: chain tips, numbered by their sequence
    Interval,      \* interval_minutes, in ticks
    BackoffBase, BackoffMax,  \* BACKOFF_*_SECONDS, in ticks
    MaxAttempts,   \* attempts whose delay is computed without overflow
    MaxFaults,     \* bound: workers that die and database errors
    MaxDamage,     \* bound: proof files damaged on the disk
    MaxLosses      \* bound: power losses

ASSUME AnchorAssumption ==
    /\ MaxTip \in Nat \ {0} /\ Interval \in Nat \ {0}
    /\ BackoffBase \in Nat \ {0} /\ BackoffMax \in Nat /\ BackoffBase <= BackoffMax
    /\ MaxAttempts \in Nat \ {0} /\ MaxFaults \in Nat /\ MaxDamage \in Nat
    /\ MaxLosses \in Nat

\* A fact of arithmetic that the provers have no axiom for.
ASSUME PowersOfTwo == \A n \in 0 .. MaxAttempts : 2 ^ n \in Nat

VARIABLES
    tip,       \* the chain's length; its tip is record number tip
    row,       \* per tip: its row of the anchors table
    wait,      \* per tip: time to next_attempt
    proof,     \* per tip: what its .ots file holds
    disk,      \* per tip: what of it a power loss leaves, while one may come
    attested,  \* tips whose Bitcoin attestation the calendars can deliver
    pc, elapsed,
    jobs,      \* per worker: the due rows it selected and has not processed
    job,       \* per worker: the row it works on, as it read it
    got,       \* per worker: the proof bytes in its hands
    alone,     \* history: no two runs have overlapped
    lost,      \* history: tips whose label a power loss left without its proof
    faults, damage, losses

dbVars == <<row, wait>>
files == <<proof, disk>>
workVars == <<elapsed, jobs, job, got>>
bounds == <<faults, damage, losses>>
history == <<alone, lost>>
vars == <<tip, row, wait, proof, disk, attested, pc, elapsed, jobs, job, got, alone, lost,
          faults, damage, losses>>

Tips == 1 .. MaxTip
States == {"queued", "submitted_pending", "upgraded_unverified", "retry_failed"}
RETRY_SOURCES == {"queued", "submitted_pending", "upgraded_unverified"}

Row(state, retry_from, class, attempts) ==
    [state |-> state, retry_from |-> retry_from, failure_class |-> class,
     attempt_count |-> attempts]
NoRow == Row("absent", "none", "none", 0)
NoJob == [tip |-> 0, row |-> NoRow]

Init ==
    /\ tip = 0
    /\ row = [t \in Tips |-> NoRow] /\ wait = [t \in Tips |-> 0]
    /\ proof = [t \in Tips |-> "none"] /\ disk = proof
    /\ attested = {}
    /\ pc = [w \in Workers |-> "idle"]
    /\ elapsed = [w \in Workers |-> 0]
    /\ jobs = [w \in Workers |-> << >>]
    /\ job = [w \in Workers |-> NoJob]
    /\ got = [w \in Workers |-> "none"]
    /\ alone = TRUE /\ lost = {}
    /\ faults = 0 /\ damage = 0 /\ losses = 0

-----------------------------------------------------------------------------
(* The environment: the chain, the calendars, the clock, the disk *)

AppendRecord ==
    /\ tip < MaxTip
    /\ tip' = tip + 1
    /\ UNCHANGED <<dbVars, files, attested, pc, workVars, history, bounds>>

\* A block confirms the calendars' commitment for a proof they were asked for.
Attest(t) ==
    /\ proof[t] # "none" /\ t \notin attested
    /\ attested' = attested \cup {t}
    /\ UNCHANGED <<tip, dbVars, files, pc, workVars, history, bounds>>

MaxWait == IF Interval > BackoffMax + BackoffMax \div 4 THEN Interval
           ELSE BackoffMax + BackoffMax \div 4

\* A tick is long against the moments between reading the clock and selecting
\* the due rows, and long enough for the filesystem to write its directories.
Tick ==
    /\ \A w \in Workers : pc[w] \notin {"snapshot", "select"}
    /\ wait' = [t \in Tips |-> IF wait[t] > 0 THEN wait[t] - 1 ELSE 0]
    /\ elapsed' = [w \in Workers |-> IF pc[w] # "idle" /\ elapsed[w] < MaxWait
                                     THEN elapsed[w] + 1 ELSE elapsed[w]]
    /\ disk' = proof
    /\ UNCHANGED <<tip, row, proof, attested, pc, jobs, job, got, history, bounds>>

DamageProof(t) ==
    /\ damage < MaxDamage
    /\ proof[t] \in {"pending", "bitcoin"}
    /\ proof' = [proof EXCEPT ![t] = "damaged"]
    /\ disk' = [disk EXCEPT ![t] = "damaged"]
    /\ damage' = damage + 1
    /\ UNCHANGED <<tip, dbVars, attested, pc, workVars, history, faults, losses>>

\* Whether a proof file is what a row's state promises of it.
Backs(p, state) == CASE state = "submitted_pending"   -> p # "none"
                     [] state = "upgraded_unverified" -> p \in {"bitcoin", "damaged"}
                     [] OTHER                         -> TRUE

\* What the row says of its proof, also while an attempt at it has failed.
Label(t) == IF row[t].state = "retry_failed" THEN row[t].retry_from ELSE row[t].state

\* The machine stops and comes back.  The table keeps its commits; of the renames
\* since the last tick any may be undone.  The code does nothing against this, and
\* what it leaves without its proof is excused in the properties as lost.
PowerLoss ==
    /\ losses < MaxLosses
    /\ losses' = losses + 1
    /\ \E kept \in SUBSET Tips :
          proof' = [t \in Tips |-> IF t \in kept THEN proof[t] ELSE disk[t]]
    /\ disk' = proof'
    /\ lost' = lost \cup {t \in Tips : proof'[t] # proof[t] /\ ~ Backs(proof'[t], Label(t))}
    /\ pc' = [w \in Workers |-> "idle"]
    /\ elapsed' = [w \in Workers |-> 0]
    /\ jobs' = [w \in Workers |-> << >>]
    /\ job' = [w \in Workers |-> NoJob]
    /\ got' = [w \in Workers |-> "none"]
    /\ UNCHANGED <<tip, dbVars, attested, alone, faults, damage>>

-----------------------------------------------------------------------------
(* Rows and delays *)

Least(a, b) == IF a < b THEN a ELSE b

\* Variant: the jitter is added after the cap.
RetryDelayUncapped(attempt, jitter) ==
    LET raw == BackoffBase * 2 ^ (attempt - 1)
    IN  Least(raw, BackoffMax) + (raw * jitter) \div 4

\* retry_delay_seconds; jitter is 0 or 1, the ends of its interval.
RetryDelay(attempt, jitter) ==
    LET raw == BackoffBase * 2 ^ (attempt - 1)
    IN  Least(Least(raw, BackoffMax) + (raw * jitter) \div 4,
              BackoffMax + BackoffMax \div 4)

\* The jitter multiplies the uncapped power of two by a float: from some attempt
\* on (the 1016th, with the code's constants) the integer is too large for one.
DelayOverflows(attempt) == attempt > MaxAttempts

\* Time from now to a moment d after the worker read its clock.
Ahead(w, d) == IF d > elapsed[w] THEN d - elapsed[w] ELSE 0

\* Variant: failed rows are not selected again.
DueForgetsRetries(t) ==
    \/ row[t].state = "queued"
    \/ row[t].state = "submitted_pending" /\ wait[t] = 0

\* Variant: the failure class is not looked at.
DueAnyFailure(t) ==
    \/ row[t].state = "queued"
    \/ row[t].state \in {"submitted_pending", "retry_failed"} /\ wait[t] = 0

Due(t) ==
    \/ row[t].state = "queued"
    \/ row[t].state = "submitted_pending" /\ wait[t] = 0
    \/ /\ row[t].state = "retry_failed" /\ row[t].failure_class = "transient"
       /\ wait[t] = 0

\* The due rows in the order of their sequence.
DueJobs == [i \in 1 .. Cardinality({t \in Tips : Due(t)}) |->
              LET t == CHOOSE t \in Tips : /\ Due(t)
                                           /\ Cardinality({s \in 1 .. t : Due(s)}) = i
              IN  [tip |-> t, row |-> row[t]]]

\* inspect_proof on a file whose bytes do not parse, or bind another digest.
InspectRaises(t) == proof[t] = "damaged"

\* _target_state: what a proof that passes inspection makes of its row.
TargetState(p) == IF p = "bitcoin" THEN "upgraded_unverified" ELSE "submitted_pending"

Goto(w, label) == pc' = [pc EXCEPT ![w] = label]

\* The run ends, or is cut short by an exception that nothing catches.
Exit(w) ==
    /\ Goto(w, "idle")
    /\ elapsed' = [elapsed EXCEPT ![w] = 0]
    /\ jobs' = [jobs EXCEPT ![w] = << >>]
    /\ job' = [job EXCEPT ![w] = NoJob]
    /\ got' = [got EXCEPT ![w] = "none"]

\* This job is over; the loop goes on with the next.
JobDone(w) ==
    /\ Goto(w, "loop")
    /\ job' = [job EXCEPT ![w] = NoJob]
    /\ got' = [got EXCEPT ![w] = "none"]
    /\ UNCHANGED <<elapsed, jobs>>

SetRow(t, r, delay) == /\ row' = [row EXCEPT ![t] = r]
                       /\ wait' = [wait EXCEPT ![t] = delay]

\* Variant: the UPDATE does not look at the row's state.
Unguarded(w) == TRUE

\* WHERE id = ? AND state = ?: the row is still in the state that was read.
Unmoved(w) == row[job[w].tip].state = job[w].row.state

-----------------------------------------------------------------------------
(* run_once *)

\* The clock is read and snapshot_tip succeeds.  A run whose snapshot fails (no
\* chain, empty chain, damaged chain, lock timeout) ends before it does anything.
StartRun(w) ==
    /\ pc[w] = "idle" /\ tip > 0
    /\ job' = [job EXCEPT ![w] = [NoJob EXCEPT !.tip = tip]]
    /\ Goto(w, "snapshot")
    /\ alone' = (alone /\ \A v \in Workers : pc[v] = "idle")
    /\ UNCHANGED <<tip, dbVars, files, attested, elapsed, jobs, got, lost, bounds>>

\* INSERT OR IGNORE under UNIQUE (sequence, tip_hash).
TrackTip(w) ==
    /\ pc[w] = "snapshot"
    /\ IF row[job[w].tip] = NoRow
       THEN SetRow(job[w].tip, Row("queued", "none", "none", 0), 0)
       ELSE UNCHANGED dbVars
    /\ job' = [job EXCEPT ![w] = NoJob]
    /\ Goto(w, "select")
    /\ UNCHANGED <<tip, files, attested, elapsed, jobs, got, history, bounds>>

SelectDue(w) ==
    /\ pc[w] = "select"
    /\ jobs' = [jobs EXCEPT ![w] = DueJobs]
    /\ Goto(w, "loop")
    /\ UNCHANGED <<tip, dbVars, files, attested, elapsed, job, got, history, bounds>>

EndRun(w) ==
    /\ pc[w] = "loop" /\ jobs[w] = << >>
    /\ Exit(w)
    /\ UNCHANGED <<tip, dbVars, files, attested, history, bounds>>

NextJob(w) ==
    /\ pc[w] = "loop" /\ jobs[w] # << >>
    /\ job' = [job EXCEPT ![w] = Head(jobs[w])]
    /\ jobs' = [jobs EXCEPT ![w] = Tail(jobs[w])]
    /\ Goto(w, IF Head(jobs[w]).row.state = "retry_failed" THEN "resume" ELSE "begin")
    /\ UNCHANGED <<tip, dbVars, files, attested, elapsed, got, history, bounds>>

\* Variant: every retry starts over as a new submission.
ResumeAsQueued(w) == "queued"

ResumeState(w) == job[w].row.retry_from

\* resume_retry; outside the try, so a row that moved ends the run.
ResumeRetry(w) ==
    /\ pc[w] = "resume"
    /\ IF Unmoved(w)
       THEN LET r == [row[job[w].tip] EXCEPT !.state = ResumeState(w),
                                             !.failure_class = "none"]
            IN  /\ SetRow(job[w].tip, r, 0)
                /\ Goto(w, "reread")
                /\ UNCHANGED workVars
       ELSE Exit(w) /\ UNCHANGED dbVars
    /\ UNCHANGED <<tip, files, attested, history, bounds>>

\* ... and reads the row back.  _process_job has no branch for a row that another
\* worker has failed or upgraded in between.
RereadRow(w) ==
    /\ pc[w] = "reread"
    /\ LET r == row[job[w].tip] IN
       IF r.state \in {"queued", "submitted_pending"}
       THEN /\ job' = [job EXCEPT ![w].row = r]
            /\ Goto(w, "begin")
            /\ UNCHANGED <<elapsed, jobs, got>>
       ELSE JobDone(w)
    /\ UNCHANGED <<tip, dbVars, files, attested, history, bounds>>

-----------------------------------------------------------------------------
(* _process_queued *)

\* A proof file left by an earlier run is used as it is.
QueuedFindsProof(w) ==
    /\ pc[w] = "begin" /\ job[w].row.state = "queued"
    /\ proof[job[w].tip] # "none"
    /\ got' = [got EXCEPT ![w] = proof[job[w].tip]]
    /\ Goto(w, IF InspectRaises(job[w].tip) THEN "integrity" ELSE "commit")
    /\ UNCHANGED <<tip, dbVars, files, attested, elapsed, jobs, job, history, bounds>>

\* backend.stamp and inspect_proof succeed.  The submission carries a new nonce, which
\* no block holds yet: a fresh proof is pending, although the code has a branch for one
\* that reaches Bitcoin (anchor_worker.py:349).
StampSucceeds(w) ==
    /\ pc[w] = "begin" /\ job[w].row.state = "queued"
    /\ proof[job[w].tip] = "none"
    /\ got' = [got EXCEPT ![w] = "pending"]
    /\ Goto(w, "stamped")
    /\ UNCHANGED <<tip, dbVars, files, attested, elapsed, jobs, job, history, bounds>>

StampFails(w) ==
    /\ pc[w] = "begin" /\ job[w].row.state = "queued"
    /\ proof[job[w].tip] = "none"
    /\ Goto(w, "transient")
    /\ UNCHANGED <<tip, dbVars, files, attested, workVars, history, bounds>>

\* AnchorConfigurationError is not recorded: it ends the run and its other jobs.
StampMisconfigured(w) ==
    /\ pc[w] = "begin" /\ job[w].row.state = "queued"
    /\ proof[job[w].tip] = "none"
    /\ Exit(w)
    /\ UNCHANGED <<tip, dbVars, files, attested, history, bounds>>

\* write_proof_atomic(replace=False): the existence check ...
CheckNoProof(w) ==
    /\ pc[w] = "stamped"
    /\ Goto(w, IF proof[job[w].tip] = "none" THEN "replace" ELSE "transient")
    /\ UNCHANGED <<tip, dbVars, files, attested, workVars, history, bounds>>

-----------------------------------------------------------------------------
(* _process_pending *)

\* Variant: every failure of the reading branch is retried.
AfterReadingRetries(p) == CASE p \in {"none", "damaged"} -> "transient"
                            [] p = "bitcoin" -> "commit"
                            [] p = "pending" -> "upgrade"

\* Missing file: OSError.  Damaged: AnchorIntegrityError.  Already attested: commit.
AfterReading(p) == CASE p = "none"    -> "transient"
                     [] p = "damaged" -> "integrity"
                     [] p = "bitcoin" -> "commit"
                     [] p = "pending" -> "upgrade"

PendingReadsProof(w) ==
    /\ pc[w] = "begin" /\ job[w].row.state = "submitted_pending"
    /\ got' = [got EXCEPT ![w] = proof[job[w].tip]]
    /\ Goto(w, AfterReading(proof[job[w].tip]))
    /\ UNCHANGED <<tip, dbVars, files, attested, elapsed, jobs, job, history, bounds>>

\* backend.upgrade returns None: row and proof stay, the next check is scheduled.
UpgradeNotReady(w) ==
    /\ pc[w] = "upgrade" /\ job[w].tip \notin attested
    /\ Goto(w, "commit")
    /\ UNCHANGED <<tip, dbVars, files, attested, workVars, history, bounds>>

\* It returns changed bytes: the answers are merged into the proof that was read, so
\* it reaches Bitcoin if that did or if an answer does; another calendar's answer
\* may change the bytes and not reach Bitcoin yet.
UpgradeSucceeds(w) ==
    /\ pc[w] = "upgrade"
    /\ \E b \in {got[w]} \cup (IF job[w].tip \in attested THEN {"bitcoin"} ELSE {}) :
          got' = [got EXCEPT ![w] = b]
    /\ Goto(w, "replace")
    /\ UNCHANGED <<tip, dbVars, files, attested, elapsed, jobs, job, history, bounds>>

\* Any calendar that fails makes the whole upgrade fail; other answers are lost.
UpgradeFails(w) ==
    /\ pc[w] = "upgrade"
    /\ Goto(w, "transient")
    /\ UNCHANGED <<tip, dbVars, files, attested, workVars, history, bounds>>

-----------------------------------------------------------------------------
(* Proof files and commits *)

\* Variant: the row is committed before its proof is in place.
ReplaceProofLater(w) ==
    /\ pc[w] = "replace"
    /\ Goto(w, "commit")
    /\ UNCHANGED <<tip, dbVars, files, attested, workVars, history, bounds>>

\* ... and os.replace of a complete, fsynced temporary file.
ReplaceProof(w) ==
    /\ pc[w] = "replace"
    /\ proof' = [proof EXCEPT ![job[w].tip] = got[w]]
    /\ disk' = IF losses < MaxLosses THEN disk ELSE proof'
    /\ Goto(w, "commit")
    /\ UNCHANGED <<tip, dbVars, attested, workVars, history, bounds>>

\* The temporary file cannot be written; the target keeps its old bytes.
ReplaceFails(w) ==
    /\ pc[w] = "replace"
    /\ Goto(w, "transient")
    /\ UNCHANGED <<tip, dbVars, files, attested, workVars, history, bounds>>

\* Variant: success starts the attempt count afresh.
AttemptsReset(t) == 0

AttemptsKept(t) == row[t].attempt_count

\* transition to the state the proof in hand stands for, or pending_checked when
\* that is the state it has.  A row that moved raises inside the try.
Commit(w) ==
    /\ pc[w] = "commit"
    /\ IF Unmoved(w)
       THEN LET target == TargetState(got[w])
            IN  /\ SetRow(job[w].tip,
                          Row(target, "none", "none", AttemptsKept(job[w].tip)),
                          IF target = "submitted_pending" THEN Ahead(w, Interval) ELSE 0)
                /\ JobDone(w)
       ELSE /\ Goto(w, "transient")
            /\ UNCHANGED <<dbVars, workVars>>
    /\ UNCHANGED <<tip, files, attested, history, bounds>>

\* record_failure, in the except clause: a row that moved ends the run, and so does
\* a delay that overflows.  (The count of an integrity failure is bounded here by
\* MaxAttempts; it is the last one unless runs overlap.)
RecordFailure(w) ==
    /\ pc[w] \in {"transient", "integrity"}
    /\ LET attempt == job[w].row.attempt_count + 1 IN
       IF Unmoved(w) /\ ~ (pc[w] = "transient" /\ DelayOverflows(attempt))
       THEN /\ \E jitter \in {0, 1} :
                  SetRow(job[w].tip,
                         Row("retry_failed", job[w].row.state, pc[w],
                             Least(attempt, MaxAttempts)),
                         IF pc[w] = "transient"
                         THEN Ahead(w, RetryDelay(attempt, jitter)) ELSE 0)
            /\ JobDone(w)
       ELSE Exit(w) /\ UNCHANGED dbVars
    /\ UNCHANGED <<tip, files, attested, history, bounds>>

\* SQLite raises.  Around the commit of a result the exception is one more
\* transient failure; anywhere else it ends the run.
DatabaseFails(w) ==
    /\ faults < MaxFaults
    /\ faults' = faults + 1
    /\ \/ pc[w] = "commit" /\ Goto(w, "transient") /\ UNCHANGED workVars
       \/ pc[w] \in {"snapshot", "select", "resume", "reread", "transient",
                     "integrity"} /\ Exit(w)
    /\ UNCHANGED <<tip, dbVars, files, attested, history, damage, losses>>

\* The process dies; what is committed or replaced stays.
Crash(w) ==
    /\ pc[w] # "idle" /\ faults < MaxFaults
    /\ faults' = faults + 1
    /\ Exit(w)
    /\ UNCHANGED <<tip, dbVars, files, attested, history, damage, losses>>

-----------------------------------------------------------------------------
RunStep(w) ==
    \/ TrackTip(w) \/ SelectDue(w) \/ EndRun(w) \/ NextJob(w)
    \/ ResumeRetry(w) \/ RereadRow(w)
    \/ QueuedFindsProof(w) \/ StampSucceeds(w) \/ StampFails(w)
    \/ StampMisconfigured(w) \/ CheckNoProof(w)
    \/ PendingReadsProof(w) \/ UpgradeNotReady(w) \/ UpgradeSucceeds(w)
    \/ UpgradeFails(w)
    \/ ReplaceProof(w) \/ ReplaceFails(w) \/ Commit(w) \/ RecordFailure(w)

Next == \/ AppendRecord \/ Tick
        \/ \E t \in Tips : Attest(t) \/ DamageProof(t)
        \/ PowerLoss
        \/ \E w \in Workers : StartRun(w) \/ RunStep(w) \/ DatabaseFails(w) \/ Crash(w)

Spec == Init /\ [][Next]_vars

\* The timer keeps starting runs and a run that is started goes on; time passes
\* and blocks are found.  A calendar that is asked again and again answers some
\* time, and so does the disk.
Fairness ==
    /\ SF_vars(Tick)
    /\ \A t \in Tips : WF_vars(Attest(t))
    /\ \A w \in Workers : WF_vars(StartRun(w)) /\ WF_vars(RunStep(w))
    /\ \A w \in Workers, t \in Tips :
          /\ SF_vars(job[w].tip = t /\ StampSucceeds(w))
          /\ SF_vars(job[w].tip = t /\ UpgradeSucceeds(w) /\ got'[w] = "bitcoin")
          /\ SF_vars(job[w].tip = t /\ ReplaceProof(w) /\ got[w] = "bitcoin")
          /\ SF_vars(job[w].tip = t /\ ReplaceProof(w))

FairSpec == Spec /\ Fairness

-----------------------------------------------------------------------------
(* Properties *)

Labels == {"idle", "snapshot", "select", "loop", "resume", "reread", "begin", "stamped",
           "upgrade", "replace", "commit", "transient", "integrity"}
Rows == [state : States \cup {"absent"}, retry_from : RETRY_SOURCES \cup {"none"},
         failure_class : {"none", "transient", "integrity"},
         attempt_count : 0 .. MaxAttempts]
Jobs == [tip : 0 .. MaxTip, row : Rows]

\* Every variable has its type.
TypeOK ==
    /\ tip \in 0 .. MaxTip /\ attested \subseteq Tips
    /\ row \in [Tips -> Rows] /\ wait \in [Tips -> 0 .. MaxWait]
    /\ proof \in [Tips -> {"none", "pending", "bitcoin", "damaged"}]
    /\ pc \in [Workers -> Labels] /\ elapsed \in [Workers -> 0 .. MaxWait]
    /\ jobs \in [Workers -> Seq(Jobs)] /\ job \in [Workers -> Jobs]
    /\ got \in [Workers -> {"none", "pending", "bitcoin", "damaged"}]
    /\ disk \in [Tips -> {"none", "pending", "bitcoin", "damaged"}]
    /\ alone \in BOOLEAN /\ lost \subseteq Tips
    /\ faults \in 0 .. MaxFaults /\ damage \in 0 .. MaxDamage /\ losses \in 0 .. MaxLosses

\* Past submission a row has a proof file, whoever wrote it, also when runs overlap
\* and when a worker died between writing the file and committing the row (ADR
\* 0002, line 151).  A power loss can break this for a file that was renamed since
\* the last tick (anchor.py:259), and for no other.
SubmittedHasProof ==
    \A t \in Tips \ lost :
        row[t].state \in {"submitted_pending", "upgraded_unverified"} => proof[t] # "none"

\* ADR 0002, line 152, of upgraded_unverified: "The proof reaches a Bitcoin
\* block-header attestation".
UpgradedReachesBitcoin ==
    \A t \in Tips : row[t].state = "upgraded_unverified" => Backs(proof[t], row[t].state)

\* As long as runs do not overlap, the label of a row is backed by its proof file
\* after every crash and every failed attempt, and the proof of a failed attempt is
\* still there.  What a power loss took is the exception, and stays the only one.
ProofBacksState == alone => \A t \in Tips \ lost : Backs(proof[t], Label(t))

\* A row moves only along its life cycle: out of the table never, out of upgraded
\* never, and out of retry_failed only to the state the failed attempt started
\* from (ALLOWED_TRANSITIONS, resume_retry).
LifeCycle ==
    [][\A t \in Tips : alone /\ row'[t].state # row[t].state =>
          CASE row[t].state = "absent"            -> row'[t].state = "queued"
            [] row[t].state = "queued"            -> row'[t].state # "absent"
            [] row[t].state = "submitted_pending" ->
                  row'[t].state \in {"upgraded_unverified", "retry_failed"}
            [] row[t].state = "retry_failed"      ->
                  row'[t].state = row[t].retry_from /\ row[t].failure_class = "transient"
            [] row[t].state = "upgraded_unverified" -> FALSE]_vars

\* An integrity failure stays as it is for the operator's review: no later run
\* touches the row, and its proof file is not overwritten by a new submission
\* (anchor_worker.py:412-413, 176-179; ADR 0002, lines 174-175).
IntegrityFailureStands ==
    [][\A t \in Tips : alone /\ row[t].failure_class = "integrity" =>
          row'[t] = row[t] /\ proof'[t] = proof[t]]_vars

\* A damaged proof is never hidden by the retry path, also when runs overlap: a run
\* that has read one changes its row, if at all, into an integrity failure, which is
\* not selected again (anchor_worker.py:412-420, 176-179).
DamageNeverRetried ==
    [][\A w \in Workers :
          got[w] = "damaged" /\ pc'[w] # pc[w] /\ row'[job[w].tip] # row[job[w].tip] =>
              row'[job[w].tip].failure_class = "integrity"]_vars

\* Overlapping workers never take a row back from upgraded_unverified, which no
\* run selects again: a late worker's UPDATE finds the state moved.
UpgradedIsFinal ==
    [][\A t \in Tips : row[t].state = "upgraded_unverified" => row'[t] = row[t]]_vars

\* Attempt history is retained: no step lowers a row's attempt_count.
AttemptsRetained ==
    [][\A t \in Tips : alone => row'[t].attempt_count >= row[t].attempt_count]_vars

\* Every tracked tip is anchored in the end, or waits for review: whatever failed
\* attempts, backoffs, deaths and other due jobs come between.
EventuallyAnchored ==
    \A t \in Tips : row[t].state # "absent" ~>
        (row[t].state = "upgraded_unverified" \/ row[t].failure_class = "integrity")
=============================================================================
