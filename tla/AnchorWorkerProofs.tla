-------------------------- MODULE AnchorWorkerProofs --------------------------
(* Theorems about AnchorWorker, for every set of workers, every number of    *)
(* tips, every interval and backoff and every bound on faults, damage and    *)
(* power losses.                                                            *)
EXTENDS AnchorWorker, WellFoundedInduction, FiniteSetTheorems, TLAPS

-----------------------------------------------------------------------------
(* The inductive invariant *)

\* Inside the try of _process_job: record_failure is what an exception leads to.
InTry == {"begin", "stamped", "upgrade", "replace", "commit", "transient", "integrity"}

\* A failed row knows where its attempt started, and only a failed row has a
\* failure class.
RowSound(r) ==
    /\ r.state = "retry_failed" => r.retry_from \in {"queued", "submitted_pending"}
    /\ r.state # "retry_failed" => r.failure_class = "none"

RowsSound == \A t \in Tips : RowSound(row[t])

\* A row as due_jobs selects it.
Selected(r) ==
    \/ /\ r.state \in {"queued", "submitted_pending"} /\ r.failure_class = "none"
    \/ /\ r.state = "retry_failed" /\ r.failure_class = "transient"
       /\ r.retry_from \in {"queued", "submitted_pending"}

\* The rows that a worker holds are rows that were due, each of another tip.
JobsSound(w) ==
    /\ pc[w] \in {"idle", "snapshot", "select"} => jobs[w] = << >>
    /\ \A i \in 1 .. Len(jobs[w]) : jobs[w][i].tip \in Tips /\ Selected(jobs[w][i].row)
    /\ \A i, j \in 1 .. Len(jobs[w]) : i # j => jobs[w][i].tip # jobs[w][j].tip

JobSound(w) ==
    /\ pc[w] \in {"snapshot", "resume", "reread"} \cup InTry => job[w].tip \in Tips
    /\ pc[w] = "resume" => Selected(job[w].row) /\ job[w].row.state = "retry_failed"
    /\ pc[w] \in InTry => Selected(job[w].row) /\ job[w].row.state # "retry_failed"
    /\ pc[w] \in {"resume", "reread"} \cup InTry =>
          \A i \in 1 .. Len(jobs[w]) : jobs[w][i].tip # job[w].tip

\* Past submission there is a proof file, unless a power loss took it.
LabelOf(r) == IF r.state = "retry_failed" THEN r.retry_from ELSE r.state
HasProof(t, r) ==
    LabelOf(r) \in {"submitted_pending", "upgraded_unverified"} =>
        proof[t] # "none" \/ t \in lost

LabelsHaveProof == \A t \in Tips : HasProof(t, row[t])

\* The same of the rows in a worker's hands, which may be stale, and what the
\* worker knows of the bytes it has read, stamped or upgraded.
HandsSound(w) ==
    /\ pc[w] \in {"resume"} \cup InTry => HasProof(job[w].tip, job[w].row)
    /\ \A i \in 1 .. Len(jobs[w]) : HasProof(jobs[w][i].tip, jobs[w][i].row)
    /\ pc[w] \in {"stamped", "upgrade"} => got[w] = "pending"
    /\ pc[w] \in {"replace", "commit"} => got[w] \in {"pending", "bitcoin"}
    /\ pc[w] \in {"upgrade", "commit"} => proof[job[w].tip] # "none"

\* Without overlap, the rows in its hands are still those of the table, and the
\* proof file is the one it has seen or written, if it was not damaged since.
AloneSound(w) ==
    alone =>
        /\ pc[w] \in {"resume"} \cup InTry => row[job[w].tip] = job[w].row
        /\ \A i \in 1 .. Len(jobs[w]) : row[jobs[w][i].tip] = jobs[w][i].row
        /\ pc[w] = "replace" => proof[job[w].tip] # "bitcoin"
        /\ pc[w] = "upgrade" => proof[job[w].tip] \in {"pending", "damaged"}
        /\ pc[w] = "commit" => proof[job[w].tip] \in {got[w], "damaged"}
        /\ pc[w] = "integrity" => proof[job[w].tip] = "damaged"

WorkerSound(w) == JobsSound(w) /\ JobSound(w) /\ HandsSound(w) /\ AloneSound(w)

\* Runs that have not overlapped are of one worker at a time.
OneAtATime ==
    alone => \A v, w \in Workers : pc[v] # "idle" /\ pc[w] # "idle" => v = w

\* A damaged file is damaged on the disk as well.
DamageIsOnDisk == \A t \in Tips : proof[t] = "damaged" => disk[t] = "damaged"

\* An integrity failure is about a file that is damaged.
IntegrityIsDamage ==
    alone => \A t \in Tips : row[t].failure_class = "integrity" => proof[t] = "damaged"

TableSound == RowsSound /\ LabelsHaveProof /\ ProofBacksState /\ IntegrityIsDamage

IInv == /\ TypeOK /\ TableSound /\ OneAtATime /\ DamageIsOnDisk
        /\ \A w \in Workers : WorkerSound(w)

-----------------------------------------------------------------------------
(* Rows and delays *)

\* The columns of a row.
LEMMA RowFacts ==
    ASSUME NEW s, NEW f, NEW c, NEW n
    PROVE  /\ Row(s, f, c, n).state = s /\ Row(s, f, c, n).retry_from = f
           /\ Row(s, f, c, n).failure_class = c /\ Row(s, f, c, n).attempt_count = n
  BY DEF Row

\* A row of well-typed columns is a row.
LEMMA RowType ==
    ASSUME NEW s \in States \cup {"absent"}, NEW f \in RETRY_SOURCES \cup {"none"},
           NEW c \in {"none", "transient", "integrity"}, NEW n \in 0 .. MaxAttempts
    PROVE  Row(s, f, c, n) \in Rows
  BY DEF Row, Rows

\* The columns of a row are typed.
LEMMA RowsType ==
    ASSUME NEW r \in Rows
    PROVE  /\ r.state \in States \cup {"absent"}
           /\ r.retry_from \in RETRY_SOURCES \cup {"none"}
           /\ r.failure_class \in {"none", "transient", "integrity"}
           /\ r.attempt_count \in 0 .. MaxAttempts
  BY DEF Rows

\* A job is a tip and a row.
LEMMA JobsType ==
    ASSUME NEW j \in Jobs
    PROVE  j.tip \in 0 .. MaxTip /\ j.row \in Rows
  BY DEF Jobs

\* No job is a job.
LEMMA NoJobType == NoJob \in Jobs
<1>1. NoRow \in Rows /\ 0 \in 0 .. MaxTip
  BY RowType, AnchorAssumption DEF NoRow
<1> QED BY <1>1 DEF NoJob, Jobs

\* The longest delay covers the interval and the capped backoff.
LEMMA MaxWaitFacts ==
    /\ MaxWait \in Nat /\ Interval <= MaxWait
    /\ BackoffMax + BackoffMax \div 4 \in Nat
    /\ BackoffMax + BackoffMax \div 4 <= MaxWait
  BY AnchorAssumption DEF MaxWait

\* retry_delay_seconds never exceeds its final cap, for every attempt.
LEMMA RetryDelayBounded ==
    ASSUME NEW attempt \in 1 .. MaxAttempts + 1, NEW jitter \in {0, 1}
    PROVE  RetryDelay(attempt, jitter) \in 0 .. MaxWait
<1> DEFINE p == 2 ^ (attempt - 1)
           raw == BackoffBase * p
           cap == BackoffMax + BackoffMax \div 4
<1>1. attempt - 1 \in 0 .. MaxAttempts
  BY AnchorAssumption
<1>2. p \in Nat
  BY <1>1, PowersOfTwo
<1> HIDE DEF p
<1>3. raw \in Nat
  BY <1>2, AnchorAssumption
<1>4. RetryDelay(attempt, jitter) =
         Least(Least(raw, BackoffMax) + (raw * jitter) \div 4, cap)
  BY DEF RetryDelay, p
<1> HIDE DEF raw
<1>5. (raw * jitter) \div 4 \in Nat
  <2>1. raw * jitter \in Nat
    BY <1>3
  <2> QED BY <2>1
<1> DEFINE j == (raw * jitter) \div 4
<1> HIDE DEF j, cap
<1>6. cap \in Nat /\ cap <= MaxWait /\ MaxWait \in Nat /\ BackoffMax \in Nat
  BY MaxWaitFacts, AnchorAssumption DEF cap
<1> QED BY <1>3, <1>4, <1>5, <1>6 DEF Least, j

\* A moment that lies d after the clock was read is at most d ahead.
LEMMA AheadBounded ==
    ASSUME TypeOK, NEW w \in Workers, NEW d \in 0 .. MaxWait
    PROVE  Ahead(w, d) \in 0 .. MaxWait
  BY MaxWaitFacts DEF Ahead, TypeOK

-----------------------------------------------------------------------------
(* due_jobs: the rows in the order of their sequence *)

\* The order of the natural numbers as a relation, to which the library's
\* theorem on well-founded relations applies.
LEMMA LessThanRelation ==
    ASSUME NEW x \in Nat, NEW y \in Nat, y < x
    PROVE  <<y, x>> \in OpToRel(<, Nat)
  BY Zenon DEF OpToRel

\* Every non-empty set of natural numbers has a least element.
LEMMA LeastNumber ==
    ASSUME NEW T, T \subseteq Nat, T # {}
    PROVE  \E x \in T : \A y \in T : x <= y
<1>1. PICK x \in T : \A y \in T : ~ (<<y, x>> \in OpToRel(<, Nat))
  BY NatLessThanWellFounded, WFMin, Zenon
<1>2. \A y \in T : ~ (y < x)
  BY <1>1, LessThanRelation, Zenon
<1> QED BY <1>2, SMT

\* How many of the first t tips are in D.
Rank(D, t) == Cardinality({s \in 1 .. t : s \in D})

\* Ranks rise by one at the members of D and stay elsewhere.
LEMMA RankStep ==
    ASSUME NEW D, NEW t \in Nat \ {0}
    PROVE  /\ Rank(D, t) \in Nat /\ Rank(D, t - 1) \in Nat
           /\ t \in D => Rank(D, t) = Rank(D, t - 1) + 1
           /\ t \notin D => Rank(D, t) = Rank(D, t - 1)
<1> DEFINE A == {s \in 1 .. t - 1 : s \in D}
           B == {s \in 1 .. t : s \in D}
<1>1. IsFiniteSet(1 .. t - 1) /\ A \subseteq 1 .. t - 1
  BY FS_Interval
<1>2. IsFiniteSet(A)
  BY <1>1, FS_Subset
<1>3. Cardinality(A) \in Nat
  BY <1>2, FS_CardinalityType
<1>4. t \notin A
  OBVIOUS
<1>4a. Rank(D, t) = Cardinality(B) /\ Rank(D, t - 1) = Cardinality(A)
  BY DEF Rank
<1>5. CASE t \in D
  <2>1. B = A \cup {t}
    BY <1>5
  <2> HIDE DEF A, B
  <2>2. Cardinality(A \cup {t}) = Cardinality(A) + 1
    BY <1>2, <1>4, FS_AddElement
  <2> QED BY <1>3, <1>4a, <1>5, <2>1, <2>2
<1>6. CASE t \notin D
  <2>1. B = A
    BY <1>6
  <2> QED BY <1>3, <1>6, <2>1 DEF Rank
<1> QED BY <1>5, <1>6

\* Every rank up to that of n is the rank of a member of D.
LEMMA RankHit ==
    ASSUME NEW D, NEW n \in Nat, NEW i \in 1 .. Rank(D, n), Rank(D, n) \in Nat
    PROVE  \E t \in 1 .. n : t \in D /\ Rank(D, t) = i
<1> DEFINE T == {t \in 0 .. n : Rank(D, t) >= i}
<1>1. Rank(D, 0) = 0
  <2>1. {s \in 1 .. 0 : s \in D} = {}
    OBVIOUS
  <2> QED BY <2>1, FS_EmptySet DEF Rank
<1>2. n \in T /\ T \subseteq Nat /\ i \in Nat /\ i > 0
  OBVIOUS
<1>3. PICK t \in T : \A y \in T : t <= y
  BY <1>2, LeastNumber
<1>4. t # 0
  BY <1>1, <1>2, <1>3
<1>5. t \in Nat \ {0} /\ t \in 1 .. n /\ t - 1 \in 0 .. n /\ Rank(D, t) >= i
  BY <1>3, <1>4
<1>6. t - 1 \notin T
  BY <1>3, <1>5
<1>7. Rank(D, t - 1) < i
  BY <1>2, <1>5, <1>6, RankStep
<1>8. t \in D
  BY <1>2, <1>5, <1>7, RankStep
<1>9. Rank(D, t) = i
  BY <1>2, <1>5, <1>7, <1>8, RankStep
<1> QED BY <1>5, <1>8, <1>9

\* due_jobs lists due tips only, with their rows, and no tip twice.
LEMMA DueJobsFacts ==
    ASSUME TypeOK
    PROVE  /\ DueJobs \in Seq(Jobs)
           /\ \A i \in 1 .. Len(DueJobs) : /\ DueJobs[i].tip \in Tips
                                           /\ Due(DueJobs[i].tip)
                                           /\ DueJobs[i].row = row[DueJobs[i].tip]
           /\ \A i, j \in 1 .. Len(DueJobs) :
                 i # j => DueJobs[i].tip # DueJobs[j].tip
<1> DEFINE D == {t \in Tips : Due(t)}
           n == Cardinality(D)
           At(i) == CHOOSE t \in Tips : /\ Due(t)
                                        /\ Cardinality({s \in 1 .. t : Due(s)}) = i
<1>1. MaxTip \in Nat /\ Tips = 1 .. MaxTip
  BY AnchorAssumption DEF Tips
<1>2. \A t \in Tips : {s \in 1 .. t : Due(s)} = {s \in 1 .. t : s \in D}
  BY <1>1
<1>3. {s \in 1 .. MaxTip : s \in D} = D
  BY <1>1
<1>4. n = Rank(D, MaxTip) /\ n \in Nat
  <2>1. n = Rank(D, MaxTip)
    BY <1>3 DEF Rank
  <2>2. IsFiniteSet(Tips)
    BY <1>1, FS_Interval
  <2>3. IsFiniteSet(D)
    BY <2>2, FS_Subset
  <2> QED BY <2>1, <2>3, FS_CardinalityType
<1>5. ASSUME NEW i \in 1 .. n
      PROVE  At(i) \in Tips /\ Due(At(i)) /\ Rank(D, At(i)) = i
  <2>1. \E t \in Tips : t \in D /\ Rank(D, t) = i
    <3> HIDE DEF D, n
    <3> QED BY <1>1, <1>4, RankHit
  <2>2. \E t \in Tips : Due(t) /\ Cardinality({s \in 1 .. t : Due(s)}) = i
    BY <1>2, <2>1 DEF Rank
  <2>3. /\ At(i) \in Tips /\ Due(At(i))
        /\ Cardinality({s \in 1 .. At(i) : Due(s)}) = i
    BY <2>2, Zenon
  <2> HIDE DEF At
  <2> QED BY <1>2, <2>3 DEF Rank
<1> HIDE DEF At, n
<1>6. DueJobs = [i \in 1 .. n |-> [tip |-> At(i), row |-> row[At(i)]]]
  BY DEF DueJobs, At, n
<1>7. \A i \in 1 .. n : [tip |-> At(i), row |-> row[At(i)]] \in Jobs
  <2>1. ASSUME NEW t \in Tips PROVE [tip |-> t, row |-> row[t]] \in Jobs
    <3>1. row[t] \in Rows /\ t \in 0 .. MaxTip
      BY <1>1 DEF TypeOK
    <3> QED BY <3>1 DEF Jobs
  <2> QED BY <1>5, <2>1
<1>8. DueJobs \in Seq(Jobs) /\ Len(DueJobs) = n
  BY <1>4, <1>6, <1>7
<1>9. \A i \in 1 .. n : DueJobs[i].tip = At(i) /\ DueJobs[i].row = row[At(i)]
  BY <1>6
<1> HIDE DEF D
<1>10. ASSUME NEW i \in 1 .. n, NEW j \in 1 .. n, At(i) = At(j) PROVE i = j
  <2>1. Rank(D, At(i)) = i /\ Rank(D, At(j)) = j
    BY <1>5
  <2> QED BY <1>10, <2>1
<1>11. \A i \in 1 .. n : /\ DueJobs[i].tip \in Tips /\ Due(DueJobs[i].tip)
                         /\ DueJobs[i].row = row[DueJobs[i].tip]
  BY <1>5, <1>9
<1>12. \A i, j \in 1 .. n : i # j => DueJobs[i].tip # DueJobs[j].tip
  BY <1>9, <1>10
<1> QED BY <1>8, <1>11, <1>12
-----------------------------------------------------------------------------
(* What every step of a worker leaves alone *)

\* The types of the workers' locals, and of everything else.
LocalsTyped ==
    /\ pc \in [Workers -> Labels] /\ elapsed \in [Workers -> 0 .. MaxWait]
    /\ jobs \in [Workers -> Seq(Jobs)] /\ job \in [Workers -> Jobs]
    /\ got \in [Workers -> {"none", "pending", "bitcoin", "damaged"}]

SharedTyped ==
    /\ tip \in 0 .. MaxTip /\ attested \subseteq Tips
    /\ row \in [Tips -> Rows] /\ wait \in [Tips -> 0 .. MaxWait]
    /\ proof \in [Tips -> {"none", "pending", "bitcoin", "damaged"}]
    /\ disk \in [Tips -> {"none", "pending", "bitcoin", "damaged"}]
    /\ alone \in BOOLEAN /\ lost \subseteq Tips
    /\ faults \in 0 .. MaxFaults /\ damage \in 0 .. MaxDamage /\ losses \in 0 .. MaxLosses

\* The type invariant is the two together.
LEMMA TypeSplit == TypeOK <=> LocalsTyped /\ SharedTyped
  BY DEF TypeOK, LocalsTyped, SharedTyped

\* A step of w leaves the locals of the other workers alone.
Others(w) == \A u \in Workers \ {w} : /\ pc'[u] = pc[u] /\ job'[u] = job[u]
                                      /\ jobs'[u] = jobs[u] /\ got'[u] = got[u]

\* The state of the machine that is not a local of a worker.
shared == <<tip, row, wait, proof, disk, attested, alone, lost, damage, losses>>

\* What Goto does to the program counters.
LEMMA GotoFacts ==
    ASSUME LocalsTyped, NEW w \in Workers, NEW l \in Labels, Goto(w, l)
    PROVE  /\ pc' \in [Workers -> Labels] /\ pc'[w] = l
           /\ \A u \in Workers \ {w} : pc'[u] = pc[u]
  BY DEF LocalsTyped, Goto

\* The end of a run leaves nothing in the worker's hands.
LEMMA ExitFacts ==
    ASSUME LocalsTyped, NEW w \in Workers, Exit(w)
    PROVE  LocalsTyped' /\ Others(w) /\ pc'[w] = "idle" /\ jobs'[w] = << >>
<1>1. /\ pc' \in [Workers -> Labels] /\ pc'[w] = "idle"
      /\ \A u \in Workers \ {w} : pc'[u] = pc[u]
  BY GotoFacts DEF Exit, Labels
<1>2. NoJob \in Jobs /\ << >> \in Seq(Jobs) /\ 0 \in 0 .. MaxWait
  BY NoJobType, MaxWaitFacts
<1>3. LocalsTyped'
  BY <1>1, <1>2 DEF Exit, LocalsTyped
<1> QED BY <1>1, <1>3 DEF Exit, Others, LocalsTyped

\* The end of a job leaves the jobs that are still to do.
LEMMA JobDoneFacts ==
    ASSUME LocalsTyped, NEW w \in Workers, JobDone(w)
    PROVE  LocalsTyped' /\ Others(w) /\ pc'[w] = "loop" /\ jobs' = jobs
<1>1. /\ pc' \in [Workers -> Labels] /\ pc'[w] = "loop"
      /\ \A u \in Workers \ {w} : pc'[u] = pc[u]
  BY GotoFacts DEF JobDone, Labels
<1>2. LocalsTyped'
  BY <1>1, NoJobType DEF JobDone, LocalsTyped
<1> QED BY <1>1, <1>2 DEF JobDone, Others, LocalsTyped

\* The table's part of the invariant looks at rows and proofs only.
LEMMA TableUntouched ==
    ASSUME TableSound, row' = row, proof' = proof, lost' = lost, alone' = alone
    PROVE  TableSound'
  BY DEF TableSound, RowsSound, RowSound, LabelsHaveProof, HasProof, LabelOf,
         ProofBacksState, Backs, Label, IntegrityIsDamage

\* A worker that is not running when another one steps has nothing in its hands,
\* or the runs have overlapped.
LEMMA OthersIdle ==
    ASSUME IInv, NEW w \in Workers, pc[w] # "idle", alone, NEW u \in Workers \ {w}
    PROVE  pc[u] = "idle" /\ jobs[u] = << >>
<1>1. pc[u] = "idle"
  BY DEF IInv, OneAtATime
<1> QED BY <1>1 DEF IInv, WorkerSound, JobsSound

\* What a step of w leaves of the other workers' part, when no proof disappears.
LEMMA OthersSound ==
    ASSUME IInv, NEW w \in Workers, pc[w] # "idle", Others(w), alone' = alone, lost' = lost,
           \A t \in Tips : proof[t] # "none" => proof'[t] # "none",
           NEW u \in Workers \ {w}
    PROVE  WorkerSound(u)'
<1>1. pc'[u] = pc[u] /\ job'[u] = job[u] /\ jobs'[u] = jobs[u] /\ got'[u] = got[u]
  BY DEF Others
<1>2. JobsSound(u) /\ JobSound(u) /\ HandsSound(u)
  BY DEF IInv, WorkerSound
<1>3. JobsSound(u)'
  BY <1>1, <1>2 DEF JobsSound
<1>4. JobSound(u)'
  BY <1>1, <1>2 DEF JobSound
<1>5. HandsSound(u)'
  <2>1. ASSUME NEW t \in Tips, NEW r, HasProof(t, r)
        PROVE  HasProof(t, r)'
    BY <2>1 DEF HasProof
  <2>2. pc[u] \in {"resume"} \cup InTry => job[u].tip \in Tips
    BY <1>2 DEF JobSound
  <2>3. pc[u] \in {"upgrade", "commit"} => proof'[job[u].tip] # "none"
    BY <1>2, <2>2 DEF HandsSound, InTry
  <2>4. pc[u] \in {"resume"} \cup InTry => HasProof(job[u].tip, job[u].row)'
    BY <1>1, <1>2, <2>1, <2>2 DEF HandsSound, HasProof
  <2>5. ASSUME NEW i \in 1 .. Len(jobs[u])
        PROVE  HasProof(jobs[u][i].tip, jobs[u][i].row)'
    BY <1>1, <1>2 DEF HandsSound, JobsSound, HasProof
  <2> QED BY <1>1, <1>2, <2>3, <2>4, <2>5 DEF HandsSound
<1>6. AloneSound(u)'
  <2>1. SUFFICES ASSUME alone PROVE AloneSound(u)'
    BY DEF AloneSound
  <2>2. pc'[u] = "idle" /\ jobs'[u] = << >>
    BY <1>1, <2>1, OthersIdle
  <2> QED BY <2>2 DEF AloneSound, InTry
<1> QED BY <1>3, <1>4, <1>5, <1>6 DEF WorkerSound

\* One worker at a time stays one, when it is the one that steps.
LEMMA StillOne ==
    ASSUME IInv, NEW w \in Workers, pc[w] # "idle", Others(w), alone' = alone
    PROVE  OneAtATime'
  BY DEF IInv, OneAtATime, Others

\* A step of w that loses no proof keeps the invariant, if it keeps the table's
\* part and its own.
LEMMA WorkerMove ==
    ASSUME IInv, NEW w \in Workers, pc[w] # "idle", LocalsTyped', SharedTyped',
           TableSound', DamageIsOnDisk', Others(w), alone' = alone, lost' = lost,
           \A t \in Tips : proof[t] # "none" => proof'[t] # "none",
           WorkerSound(w)'
    PROVE  IInv'
<1>1. \A u \in Workers \ {w} : WorkerSound(u)'
  BY OthersSound
<1>2. \A u \in Workers : WorkerSound(u)'
  BY <1>1
<1>3. OneAtATime' /\ TypeOK'
  BY StillOne DEF TypeOK, LocalsTyped, SharedTyped
<1> QED BY <1>2, <1>3 DEF IInv

\* The same for a step that changes nothing but locals, and perhaps counts a fault.
LEMMA QuietMove ==
    ASSUME IInv, NEW w \in Workers, pc[w] # "idle", LocalsTyped', UNCHANGED shared,
           faults' \in 0 .. MaxFaults, Others(w), WorkerSound(w)'
    PROVE  IInv'
<1>1. TableSound'
  BY TableUntouched DEF IInv, shared
<1>2. SharedTyped'
  BY TypeSplit DEF IInv, SharedTyped, shared
<1>3. DamageIsOnDisk'
  BY DEF IInv, DamageIsOnDisk, shared
<1>4. alone' = alone /\ lost' = lost /\ proof' = proof
  BY DEF shared
<1> QED BY <1>1, <1>2, <1>3, <1>4, WorkerMove

\* A worker without a run needs nothing.
LEMMA IdleSound ==
    ASSUME NEW w \in Workers, pc'[w] = "idle", jobs'[w] = << >>
    PROVE  WorkerSound(w)'
  BY DEF WorkerSound, JobsSound, JobSound, HandsSound, AloneSound, InTry

\* A run may end at any moment.
LEMMA QuietExit ==
    ASSUME IInv, NEW w \in Workers, pc[w] # "idle", Exit(w), UNCHANGED shared,
           faults' \in 0 .. MaxFaults
    PROVE  IInv'
<1>1. LocalsTyped' /\ Others(w) /\ pc'[w] = "idle" /\ jobs'[w] = << >>
  BY ExitFacts, TypeSplit DEF IInv
<1> QED BY <1>1, IdleSound, QuietMove

\* A job may end when no row but its own has changed.
LEMMA JobDoneSound ==
    ASSUME IInv, NEW w \in Workers, pc[w] \in {"resume", "reread"} \cup InTry, JobDone(w),
           \A t \in Tips : t # job[w].tip => row'[t] = row[t],
           proof' = proof, lost' = lost, alone' = alone
    PROVE  WorkerSound(w)'
<1>1. pc'[w] = "loop" /\ jobs' = jobs
  BY JobDoneFacts, TypeSplit DEF IInv
<1>2. JobsSound(w) /\ JobSound(w) /\ HandsSound(w) /\ AloneSound(w)
  BY DEF IInv, WorkerSound
<1>3. JobsSound(w)' /\ JobSound(w)'
  BY <1>1, <1>2 DEF JobsSound, JobSound, InTry
<1>4. HandsSound(w)'
  BY <1>1, <1>2 DEF HandsSound, HasProof, InTry
<1>5. AloneSound(w)'
  <2>1. \A i \in 1 .. Len(jobs[w]) : row'[jobs[w][i].tip] = row[jobs[w][i].tip]
    BY <1>2 DEF JobsSound, JobSound
  <2> QED BY <1>1, <1>2, <2>1 DEF AloneSound, InTry
<1> QED BY <1>3, <1>4, <1>5 DEF WorkerSound
-----------------------------------------------------------------------------
(* Steps inside the try that change only where the worker is and what it holds *)

\* What the place l and the bytes g in hand require of the proof file.
HandsFit(w, l, g) ==
    /\ l \in {"stamped", "upgrade"} => g = "pending"
    /\ l \in {"replace", "commit"} => g \in {"pending", "bitcoin"}
    /\ l \in {"upgrade", "commit"} => proof[job[w].tip] # "none"
    /\ alone =>
          /\ l = "replace" => proof[job[w].tip] # "bitcoin"
          /\ l = "upgrade" => proof[job[w].tip] \in {"pending", "damaged"}
          /\ l = "commit" => proof[job[w].tip] \in {g, "damaged"}
          /\ l = "integrity" => proof[job[w].tip] = "damaged"

\* Such a step keeps the invariant when what it holds fits where it goes.
LEMMA TryMove ==
    ASSUME IInv, NEW w \in Workers, pc[w] \in InTry, NEW l \in InTry, Goto(w, l),
           NEW g \in {"none", "pending", "bitcoin", "damaged"},
           got' = [got EXCEPT ![w] = g], HandsFit(w, l, g),
           UNCHANGED <<elapsed, jobs, job>>, UNCHANGED shared, faults' \in 0 .. MaxFaults
    PROVE  IInv'
<1>1. LocalsTyped /\ pc[w] # "idle" /\ l \in Labels /\ l \notin {"idle", "snapshot", "select"}
  BY TypeSplit DEF IInv, InTry, Labels
<1>2. /\ pc' \in [Workers -> Labels] /\ pc'[w] = l
      /\ \A u \in Workers \ {w} : pc'[u] = pc[u]
  BY <1>1, GotoFacts
<1>3. /\ LocalsTyped' /\ Others(w) /\ got'[w] = g
      /\ row' = row /\ proof' = proof /\ lost' = lost /\ alone' = alone
      /\ job' = job /\ jobs' = jobs
  BY <1>1, <1>2 DEF LocalsTyped, Others, shared
<1>4. JobsSound(w) /\ JobSound(w) /\ HandsSound(w) /\ AloneSound(w)
  BY DEF IInv, WorkerSound
<1>5. JobsSound(w)'
  BY <1>1, <1>2, <1>3, <1>4 DEF JobsSound
<1>6. JobSound(w)'
  <2>1. l \notin {"snapshot", "resume", "reread"} /\ l # "resume"
    BY DEF InTry
  <2> QED BY <1>2, <1>3, <1>4, <2>1 DEF JobSound
<1>7. HandsSound(w)'
  <2>1. l \notin {"resume"}
    BY DEF InTry
  <2>2. HasProof(job[w].tip, job[w].row)'
    BY <1>3, <1>4 DEF HandsSound, HasProof
  <2>3. \A i \in 1 .. Len(jobs[w]) : HasProof(jobs[w][i].tip, jobs[w][i].row)'
    BY <1>3, <1>4 DEF HandsSound, HasProof
  <2> QED BY <1>2, <1>3, <2>2, <2>3 DEF HandsSound, HandsFit
<1>8. AloneSound(w)'
  BY <1>2, <1>3, <1>4 DEF AloneSound, HandsFit
<1> QED BY <1>1, <1>3, <1>5, <1>6, <1>7, <1>8, QuietMove DEF WorkerSound

\* Writing down what a variable has already changes nothing.
LEMMA SameHands ==
    ASSUME TypeOK, NEW w \in Workers
    PROVE  /\ got = [got EXCEPT ![w] = got[w]]
           /\ got[w] \in {"none", "pending", "bitcoin", "damaged"}
  BY DEF TypeOK

\* The proof of a job is one of the four.
LEMMA ProofOfJob ==
    ASSUME IInv, NEW w \in Workers, pc[w] \in InTry
    PROVE  /\ job[w].tip \in Tips
           /\ proof[job[w].tip] \in {"none", "pending", "bitcoin", "damaged"}
<1>1. job[w].tip \in Tips
  BY DEF IInv, WorkerSound, JobSound
<1> QED BY <1>1 DEF IInv, TypeOK

\* A failure inside the try is recorded next, whatever is in hand.
LEMMA GivesUp ==
    ASSUME IInv, NEW w \in Workers, pc[w] \in InTry, Goto(w, "transient"),
           UNCHANGED workVars, UNCHANGED shared, faults' \in 0 .. MaxFaults
    PROVE  IInv'
<1>1. got' = [got EXCEPT ![w] = got[w]] /\ got[w] \in {"none", "pending", "bitcoin", "damaged"}
  BY SameHands DEF IInv, workVars
<1>2. HandsFit(w, "transient", got[w]) /\ "transient" \in InTry
  BY DEF HandsFit, InTry
<1>3. UNCHANGED <<elapsed, jobs, job>>
  BY DEF workVars
<1> QED BY <1>1, <1>2, <1>3, TryMove

\* All that a step of a worker usually leaves alone.
LEMMA QuietFrame ==
    ASSUME IInv, UNCHANGED <<tip, dbVars, files, attested, history, bounds>>
    PROVE  UNCHANGED shared /\ faults' \in 0 .. MaxFaults
  BY DEF IInv, TypeOK, dbVars, files, history, bounds, shared

\* A proof that an earlier run left is taken as it is.
LEMMA QueuedFindsProofInv ==
    ASSUME IInv, NEW w \in Workers, QueuedFindsProof(w)
    PROVE  IInv'
<1> DEFINE p == proof[job[w].tip]
           l == IF p = "damaged" THEN "integrity" ELSE "commit"
<1>1. /\ pc[w] \in InTry /\ p # "none" /\ got' = [got EXCEPT ![w] = p] /\ Goto(w, l)
      /\ UNCHANGED <<elapsed, jobs, job>> /\ UNCHANGED shared /\ faults' \in 0 .. MaxFaults
  BY QuietFrame DEF QueuedFindsProof, InspectRaises, InTry
<1>2. p \in {"pending", "bitcoin", "damaged"}
  BY <1>1, ProofOfJob
<1>3. HandsFit(w, l, p) /\ l \in InTry
  BY <1>2 DEF HandsFit, InTry
<1> HIDE DEF p, l
<1> QED BY <1>1, <1>2, <1>3, TryMove

\* A stamp is pending at first.
LEMMA StampSucceedsInv ==
    ASSUME IInv, NEW w \in Workers, StampSucceeds(w)
    PROVE  IInv'
<1>1. /\ pc[w] \in InTry /\ got' = [got EXCEPT ![w] = "pending"] /\ Goto(w, "stamped")
      /\ UNCHANGED <<elapsed, jobs, job>> /\ UNCHANGED shared /\ faults' \in 0 .. MaxFaults
  BY QuietFrame DEF StampSucceeds, InTry
<1>2. HandsFit(w, "stamped", "pending") /\ "stamped" \in InTry
  BY DEF HandsFit, InTry
<1> QED BY <1>1, <1>2, TryMove

\* The target does not exist, or the stamp is a failure.
LEMMA CheckNoProofInv ==
    ASSUME IInv, NEW w \in Workers, CheckNoProof(w)
    PROVE  IInv'
<1>1. /\ pc[w] = "stamped" /\ UNCHANGED workVars /\ UNCHANGED shared
      /\ faults' \in 0 .. MaxFaults
  BY QuietFrame DEF CheckNoProof
<1>2. CASE proof[job[w].tip] = "none"
  <2>1. Goto(w, "replace") /\ pc[w] \in InTry /\ UNCHANGED <<elapsed, jobs, job>>
    BY <1>1, <1>2 DEF CheckNoProof, InTry, workVars
  <2>2. got' = [got EXCEPT ![w] = got[w]] /\ got[w] = "pending"
    BY <1>1, SameHands DEF IInv, WorkerSound, HandsSound, workVars
  <2>3. HandsFit(w, "replace", "pending") /\ "replace" \in InTry
    BY <1>2 DEF HandsFit, InTry
  <2> QED BY <1>1, <2>1, <2>2, <2>3, TryMove
<1>3. CASE proof[job[w].tip] # "none"
  <2>1. Goto(w, "transient") /\ pc[w] \in InTry
    BY <1>1, <1>3 DEF CheckNoProof, InTry
  <2> QED BY <1>1, <2>1, GivesUp
<1> QED BY <1>2, <1>3

\* What the worker reads decides where it goes.
LEMMA PendingReadsProofInv ==
    ASSUME IInv, NEW w \in Workers, PendingReadsProof(w)
    PROVE  IInv'
<1> DEFINE p == proof[job[w].tip]
           l == AfterReading(p)
<1>1. /\ pc[w] \in InTry /\ got' = [got EXCEPT ![w] = p] /\ Goto(w, l)
      /\ UNCHANGED <<elapsed, jobs, job>> /\ UNCHANGED shared /\ faults' \in 0 .. MaxFaults
  BY QuietFrame DEF PendingReadsProof, InTry
<1>2. p \in {"none", "pending", "bitcoin", "damaged"}
  BY <1>1, ProofOfJob
<1>3. /\ p = "none" => l = "transient"
      /\ p = "damaged" => l = "integrity"
      /\ p = "bitcoin" => l = "commit"
      /\ p = "pending" => l = "upgrade"
  BY DEF AfterReading
<1>4. HandsFit(w, l, p) /\ l \in InTry
  BY <1>2, <1>3 DEF HandsFit, InTry
<1> HIDE DEF p, l
<1> QED BY <1>1, <1>2, <1>4, TryMove

\* Nothing new: the proof in hand is still the one in the file.
LEMMA UpgradeNotReadyInv ==
    ASSUME IInv, NEW w \in Workers, UpgradeNotReady(w)
    PROVE  IInv'
<1>1. /\ pc[w] = "upgrade" /\ Goto(w, "commit") /\ UNCHANGED workVars /\ UNCHANGED shared
      /\ faults' \in 0 .. MaxFaults
  BY QuietFrame DEF UpgradeNotReady
<1>2. /\ got[w] = "pending" /\ proof[job[w].tip] # "none"
      /\ alone => proof[job[w].tip] \in {"pending", "damaged"}
  BY <1>1 DEF IInv, WorkerSound, HandsSound, AloneSound
<1>3. got' = [got EXCEPT ![w] = "pending"] /\ UNCHANGED <<elapsed, jobs, job>>
  BY <1>1, <1>2, SameHands DEF IInv, workVars
<1>4. HandsFit(w, "commit", "pending") /\ "commit" \in InTry /\ pc[w] \in InTry
  BY <1>1, <1>2 DEF HandsFit, InTry
<1> QED BY <1>1, <1>3, <1>4, TryMove

\* The new bytes replace a proof that does not reach Bitcoin.
LEMMA UpgradeSucceedsInv ==
    ASSUME IInv, NEW w \in Workers, UpgradeSucceeds(w)
    PROVE  IInv'
<1>1. /\ pc[w] = "upgrade" /\ Goto(w, "replace") /\ UNCHANGED <<elapsed, jobs, job>>
      /\ UNCHANGED shared /\ faults' \in 0 .. MaxFaults
  BY QuietFrame DEF UpgradeSucceeds
<1>2. PICK b \in {"pending", "bitcoin"} : got' = [got EXCEPT ![w] = b]
  BY <1>1 DEF UpgradeSucceeds, IInv, WorkerSound, HandsSound
<1>3. alone => proof[job[w].tip] \in {"pending", "damaged"}
  BY <1>1 DEF IInv, WorkerSound, AloneSound
<1>4. HandsFit(w, "replace", b) /\ "replace" \in InTry /\ pc[w] \in InTry
  BY <1>1, <1>2, <1>3 DEF HandsFit, InTry
<1> QED BY <1>1, <1>2, <1>4, TryMove
-----------------------------------------------------------------------------
(* The steps of run_once *)

\* A run that starts while another is on its way ends what was alone.
LEMMA StartRunInv ==
    ASSUME IInv, NEW w \in Workers, StartRun(w)
    PROVE  IInv'
<1>1. /\ pc[w] = "idle" /\ tip > 0 /\ Goto(w, "snapshot")
      /\ job' = [job EXCEPT ![w] = [NoJob EXCEPT !.tip = tip]]
      /\ jobs' = jobs /\ got' = got /\ elapsed' = elapsed
      /\ UNCHANGED <<tip, dbVars, files, attested, lost, bounds>>
  BY DEF StartRun
<1>2. alone' => alone /\ \A v \in Workers : pc[v] = "idle"
  BY DEF StartRun
<1>3. alone' \in BOOLEAN
  BY DEF StartRun
<1>4. LocalsTyped /\ SharedTyped
  BY TypeSplit DEF IInv
<1>5. tip \in Tips /\ tip \in 0 .. MaxTip
  BY <1>1, <1>4, AnchorAssumption DEF SharedTyped, Tips
<1>6. [NoJob EXCEPT !.tip = tip] \in Jobs /\ [NoJob EXCEPT !.tip = tip].tip = tip
  BY <1>5, NoJobType DEF Jobs, NoJob
<1>7. /\ pc' \in [Workers -> Labels] /\ pc'[w] = "snapshot"
      /\ \A u \in Workers \ {w} : pc'[u] = pc[u]
  BY <1>1, <1>4, GotoFacts DEF Labels
<1>8. /\ LocalsTyped' /\ job'[w].tip = tip
      /\ \A u \in Workers \ {w} : job'[u] = job[u]
  BY <1>1, <1>4, <1>6, <1>7 DEF LocalsTyped
<1>9. SharedTyped'
  BY <1>1, <1>3, <1>4 DEF SharedTyped, dbVars, files, bounds
<1>10. TypeOK'
  BY <1>8, <1>9 DEF TypeOK, LocalsTyped, SharedTyped
<1>11. row' = row /\ proof' = proof /\ disk' = disk /\ lost' = lost
  BY <1>1 DEF dbVars, files
<1>12. TableSound'
  BY <1>2, <1>11
  DEF IInv, TableSound, RowsSound, RowSound, LabelsHaveProof, HasProof, LabelOf,
      ProofBacksState, Backs, Label, IntegrityIsDamage
<1>13. OneAtATime'
  BY <1>2, <1>7 DEF OneAtATime
<1>14. DamageIsOnDisk'
  BY <1>11 DEF IInv, DamageIsOnDisk
<1>15. WorkerSound(w)'
  <2>1. jobs'[w] = << >>
    BY <1>1 DEF IInv, WorkerSound, JobsSound
  <2> QED BY <1>5, <1>7, <1>8, <2>1
          DEF WorkerSound, JobsSound, JobSound, HandsSound, AloneSound, InTry
<1>16. ASSUME NEW u \in Workers \ {w} PROVE WorkerSound(u)'
  <2>1. /\ pc'[u] = pc[u] /\ job'[u] = job[u] /\ jobs'[u] = jobs[u] /\ got'[u] = got[u]
        /\ WorkerSound(u)
    BY <1>1, <1>7, <1>8 DEF IInv
  <2>2. JobsSound(u)' /\ JobSound(u)'
    BY <2>1 DEF WorkerSound, JobsSound, JobSound
  <2>3. HandsSound(u)'
    BY <1>11, <2>1 DEF WorkerSound, HandsSound, HasProof
  <2>4. AloneSound(u)'
    BY <1>2, <1>11, <2>1 DEF WorkerSound, AloneSound
  <2> QED BY <2>2, <2>3, <2>4 DEF WorkerSound
<1> QED BY <1>10, <1>12, <1>13, <1>14, <1>15, <1>16 DEF IInv

\* The selected rows are the due ones, as they are in the table.
LEMMA SelectDueInv ==
    ASSUME IInv, NEW w \in Workers, SelectDue(w)
    PROVE  IInv'
<1>1. /\ pc[w] = "select" /\ jobs' = [jobs EXCEPT ![w] = DueJobs] /\ Goto(w, "loop")
      /\ job' = job /\ got' = got /\ elapsed' = elapsed
      /\ UNCHANGED shared /\ faults' \in 0 .. MaxFaults
  BY QuietFrame DEF SelectDue
<1>2. LocalsTyped /\ SharedTyped /\ TypeOK
  BY TypeSplit DEF IInv
<1>3. /\ pc' \in [Workers -> Labels] /\ pc'[w] = "loop"
      /\ \A u \in Workers \ {w} : pc'[u] = pc[u]
  BY <1>1, <1>2, GotoFacts DEF Labels
<1>4. /\ DueJobs \in Seq(Jobs)
      /\ \A i \in 1 .. Len(DueJobs) : /\ DueJobs[i].tip \in Tips
                                      /\ Due(DueJobs[i].tip)
                                      /\ DueJobs[i].row = row[DueJobs[i].tip]
      /\ \A i, j \in 1 .. Len(DueJobs) : i # j => DueJobs[i].tip # DueJobs[j].tip
  BY <1>2, DueJobsFacts
<1>5. PICK s : s = DueJobs
  OBVIOUS
<1>6. /\ s \in Seq(Jobs)
      /\ \A i \in 1 .. Len(s) : s[i].tip \in Tips /\ Due(s[i].tip) /\ s[i].row = row[s[i].tip]
      /\ \A i, j \in 1 .. Len(s) : i # j => s[i].tip # s[j].tip
  BY <1>4, <1>5
<1>7. LocalsTyped' /\ Others(w) /\ jobs'[w] = s
  BY <1>1, <1>2, <1>3, <1>5, <1>6 DEF LocalsTyped, Others
<1>8. row' = row /\ proof' = proof /\ lost' = lost /\ alone' = alone
  BY <1>1 DEF shared
<1>9. \A t \in Tips : Due(t) => Selected(row[t])
  BY DEF Due, IInv, TableSound, RowsSound, RowSound, Selected
<1>10. JobsSound(w)'
  BY <1>3, <1>6, <1>7, <1>9 DEF JobsSound
<1>11. HandsSound(w)'
  <2>1. \A t \in Tips : HasProof(t, row[t])
    BY DEF IInv, TableSound, LabelsHaveProof
  <2> QED BY <1>3, <1>6, <1>7, <1>8, <2>1 DEF HandsSound, HasProof, InTry
<1>12. JobSound(w)' /\ AloneSound(w)'
  BY <1>3, <1>6, <1>7, <1>8 DEF JobSound, AloneSound, InTry
<1> QED BY <1>1, <1>7, <1>10, <1>11, <1>12, QuietMove DEF WorkerSound

\* The first of the jobs is taken in hand, the others wait.
LEMMA NextJobInv ==
    ASSUME IInv, NEW w \in Workers, NextJob(w)
    PROVE  IInv'
<1> DEFINE s == jobs[w]
           l == IF Head(s).row.state = "retry_failed" THEN "resume" ELSE "begin"
<1>1. /\ pc[w] = "loop" /\ s # << >> /\ Goto(w, l)
      /\ job' = [job EXCEPT ![w] = Head(s)] /\ jobs' = [jobs EXCEPT ![w] = Tail(s)]
      /\ got' = got /\ elapsed' = elapsed
      /\ UNCHANGED shared /\ faults' \in 0 .. MaxFaults
  BY QuietFrame DEF NextJob
<1>2. LocalsTyped /\ s \in Seq(Jobs) /\ l \in Labels
  BY TypeSplit DEF IInv, LocalsTyped, Labels
<1>3. /\ Head(s) = s[1] /\ Head(s) \in Jobs /\ Tail(s) \in Seq(Jobs)
      /\ Len(s) \in Nat /\ 1 \in 1 .. Len(s) /\ Len(Tail(s)) = Len(s) - 1
      /\ \A i \in 1 .. Len(Tail(s)) : Tail(s)[i] = s[i + 1] /\ i + 1 \in 1 .. Len(s)
  BY <1>1, <1>2
<1>4. /\ pc' \in [Workers -> Labels] /\ pc'[w] = l
      /\ \A u \in Workers \ {w} : pc'[u] = pc[u]
  BY <1>1, <1>2, GotoFacts
<1>5. LocalsTyped' /\ Others(w) /\ job'[w] = s[1] /\ jobs'[w] = Tail(s)
  BY <1>1, <1>2, <1>3, <1>4 DEF LocalsTyped, Others
<1>6. row' = row /\ proof' = proof /\ lost' = lost /\ alone' = alone
  BY <1>1 DEF shared
<1>7. /\ \A i \in 1 .. Len(s) : s[i].tip \in Tips /\ Selected(s[i].row)
      /\ \A i, j \in 1 .. Len(s) : i # j => s[i].tip # s[j].tip
      /\ \A i \in 1 .. Len(s) : HasProof(s[i].tip, s[i].row)
      /\ alone => \A i \in 1 .. Len(s) : row[s[i].tip] = s[i].row
  BY DEF IInv, WorkerSound, JobsSound, HandsSound, AloneSound
<1>8. l = IF s[1].row.state = "retry_failed" THEN "resume" ELSE "begin"
  BY <1>3
<1>8a. \A i \in 1 .. Len(Tail(s)) : i + 1 # 1
  BY <1>3
<1> HIDE DEF s, l
<1>9. JobsSound(w)'
  <2>1. \A i, j \in 1 .. Len(Tail(s)) : i # j => i + 1 # j + 1
    BY <1>3
  <2> QED BY <1>3, <1>4, <1>5, <1>7, <1>8, <2>1 DEF JobsSound
<1>10. JobSound(w)'
  BY <1>3, <1>4, <1>5, <1>7, <1>8, <1>8a DEF JobSound, InTry
<1>11. HandsSound(w)'
  BY <1>3, <1>4, <1>5, <1>6, <1>7, <1>8 DEF HandsSound, HasProof, InTry
<1>12. AloneSound(w)'
  BY <1>3, <1>4, <1>5, <1>6, <1>7, <1>8 DEF AloneSound, InTry
<1> QED BY <1>1, <1>5, <1>9, <1>10, <1>11, <1>12, QuietMove DEF WorkerSound

\* The row that is read back goes on as it is found, if it is one to work on.
LEMMA RereadRowInv ==
    ASSUME IInv, NEW w \in Workers, RereadRow(w)
    PROVE  IInv'
<1> DEFINE t == job[w].tip
           r == row[t]
<1>1. pc[w] = "reread" /\ UNCHANGED shared /\ faults' \in 0 .. MaxFaults
  BY QuietFrame DEF RereadRow
<1>2. LocalsTyped /\ SharedTyped /\ JobsSound(w) /\ JobSound(w) /\ HandsSound(w) /\ AloneSound(w)
  BY TypeSplit DEF IInv, WorkerSound
<1>3. t \in Tips /\ r \in Rows /\ job[w] \in Jobs
  BY <1>1, <1>2 DEF JobSound, LocalsTyped, SharedTyped
<1>4. row' = row /\ proof' = proof /\ lost' = lost /\ alone' = alone
  BY <1>1 DEF shared
<1>5. CASE r.state \in {"queued", "submitted_pending"}
  <2>1. /\ job' = [job EXCEPT ![w].row = r] /\ Goto(w, "begin")
        /\ elapsed' = elapsed /\ jobs' = jobs /\ got' = got
    BY <1>5 DEF RereadRow
  <2>2. /\ pc' \in [Workers -> Labels] /\ pc'[w] = "begin"
        /\ \A u \in Workers \ {w} : pc'[u] = pc[u]
    BY <1>2, <2>1, GotoFacts DEF Labels
  <2>3. [job[w] EXCEPT !.row = r] \in Jobs /\ [job[w] EXCEPT !.row = r].tip = t
        /\ [job[w] EXCEPT !.row = r].row = r
    BY <1>3 DEF Jobs
  <2>4. job' = [job EXCEPT ![w] = [job[w] EXCEPT !.row = r]]
    BY <2>1
  <2>5. LocalsTyped' /\ Others(w) /\ job'[w].tip = t /\ job'[w].row = r
    <3>1. PICK q \in Jobs : q.tip = t /\ q.row = r /\ job' = [job EXCEPT ![w] = q]
      BY <2>3, <2>4, Zenon
    <3> HIDE DEF t, r
    <3> QED BY <1>2, <2>1, <2>2, <3>1 DEF LocalsTyped, Others
  <2>6. Selected(r) /\ r.state # "retry_failed" /\ HasProof(t, r)
    BY <1>3, <1>5 DEF IInv, TableSound, RowsSound, RowSound, Selected, LabelsHaveProof
  <2> HIDE DEF t, r
  <2>7. JobsSound(w)'
    BY <1>2, <2>1, <2>2 DEF JobsSound
  <2>8. JobSound(w)'
    BY <1>1, <1>2, <1>3, <2>1, <2>2, <2>5, <2>6 DEF JobSound, InTry, t
  <2>9. HandsSound(w)'
    <3>1. HasProof(job[w].tip, job[w].row)'
      BY <1>4, <2>5, <2>6 DEF HasProof
    <3>2. \A i \in 1 .. Len(jobs[w]) : HasProof(jobs[w][i].tip, jobs[w][i].row)'
      BY <1>2, <1>4, <2>1 DEF HandsSound, HasProof
    <3> QED BY <2>1, <2>2, <3>1, <3>2 DEF HandsSound, InTry
  <2>10. AloneSound(w)'
    BY <1>2, <1>4, <2>1, <2>2, <2>5 DEF AloneSound, InTry, r
  <2>11. pc[w] # "idle"
    BY <1>1
  <2> QED BY <1>1, <2>5, <2>7, <2>8, <2>9, <2>10, <2>11, QuietMove DEF WorkerSound
<1>6. CASE r.state \notin {"queued", "submitted_pending"}
  <2>1. JobDone(w) /\ pc[w] # "idle" /\ pc[w] \in {"resume", "reread"} \cup InTry
    BY <1>1, <1>6 DEF RereadRow
  <2>2. LocalsTyped' /\ Others(w)
    BY <1>2, <2>1, JobDoneFacts
  <2>3. WorkerSound(w)'
    BY <1>4, <2>1, JobDoneSound
  <2> QED BY <1>1, <2>1, <2>2, <2>3, QuietMove
<1> QED BY <1>5, <1>6
-----------------------------------------------------------------------------
(* The steps that update a row *)

\* An UPDATE of one row keeps the invariant if the new row is sound, is backed by
\* the proof file as it is, and fits what the worker has in hand then.
LEMMA RowMove ==
    ASSUME IInv, NEW w \in Workers, pc[w] # "idle", NEW t \in Tips, NEW r \in Rows,
           NEW d \in 0 .. MaxWait, SetRow(t, r, d),
           UNCHANGED <<tip, files, attested, history, bounds>>,
           LocalsTyped', Others(w), RowSound(r), HasProof(t, r),
           alone => t \in lost \/ Backs(proof[t], LabelOf(r)),
           alone /\ r.failure_class = "integrity" => proof[t] = "damaged",
           WorkerSound(w)'
    PROVE  IInv'
<1>1. /\ row' = [row EXCEPT ![t] = r] /\ wait' = [wait EXCEPT ![t] = d]
      /\ proof' = proof /\ disk' = disk /\ lost' = lost /\ alone' = alone
      /\ tip' = tip /\ attested' = attested /\ UNCHANGED <<faults, damage, losses>>
  BY DEF SetRow, files, history, bounds
<1>2. SharedTyped
  BY TypeSplit DEF IInv
<1>3. SharedTyped'
  BY <1>1, <1>2 DEF SharedTyped
<1>4. row'[t] = r /\ \A x \in Tips \ {t} : row'[x] = row[x]
  BY <1>1, <1>2 DEF SharedTyped
<1>5. RowsSound'
  BY <1>4 DEF IInv, TableSound, RowsSound, RowSound
<1>6. LabelsHaveProof'
  BY <1>1, <1>4 DEF IInv, TableSound, LabelsHaveProof, HasProof, LabelOf
<1>7. ProofBacksState'
  <2>1. \A x \in Tips : Label(x)' = LabelOf(row'[x]) /\ Label(x) = LabelOf(row[x])
    BY DEF Label, LabelOf
  <2>2. alone => \A x \in Tips \ lost : Backs(proof[x], LabelOf(row[x]))
    BY <2>1 DEF IInv, TableSound, ProofBacksState
  <2>3. alone => \A x \in Tips \ lost : Backs(proof[x], LabelOf(row'[x]))
    BY <1>4, <2>2
  <2> QED BY <1>1, <2>1, <2>3 DEF ProofBacksState
<1>8. IntegrityIsDamage'
  BY <1>1, <1>4 DEF IInv, TableSound, IntegrityIsDamage
<1>9. DamageIsOnDisk'
  BY <1>1 DEF IInv, DamageIsOnDisk
<1> QED BY <1>1, <1>3, <1>5, <1>6, <1>7, <1>8, <1>9, WorkerMove DEF TableSound

\* A tip is tracked once, as a queued row.
LEMMA TrackTipInv ==
    ASSUME IInv, NEW w \in Workers, TrackTip(w)
    PROVE  IInv'
<1> DEFINE t == job[w].tip
           r == Row("queued", "none", "none", 0)
<1>1. /\ pc[w] = "snapshot" /\ pc[w] # "idle" /\ job' = [job EXCEPT ![w] = NoJob]
      /\ Goto(w, "select") /\ elapsed' = elapsed /\ jobs' = jobs /\ got' = got
      /\ UNCHANGED <<tip, files, attested, history, bounds>>
  BY DEF TrackTip
<1>2. LocalsTyped /\ t \in Tips /\ jobs[w] = << >>
  BY <1>1, TypeSplit DEF IInv, WorkerSound, JobsSound, JobSound
<1>3. /\ pc' \in [Workers -> Labels] /\ pc'[w] = "select"
      /\ \A u \in Workers \ {w} : pc'[u] = pc[u]
  BY <1>1, <1>2, GotoFacts DEF Labels
<1>4. LocalsTyped' /\ Others(w)
  BY <1>1, <1>2, <1>3, NoJobType DEF LocalsTyped, Others
<1>5. WorkerSound(w)'
  BY <1>1, <1>2, <1>3 DEF WorkerSound, JobsSound, JobSound, HandsSound, AloneSound, InTry
<1>6. r \in Rows
  BY RowType, AnchorAssumption DEF States
<1>7. r.state = "queued" /\ r.failure_class = "none"
  BY RowFacts
<1> HIDE DEF t, r
<1>8. RowSound(r) /\ HasProof(t, r) /\ Backs(proof[t], LabelOf(r))
  BY <1>7 DEF RowSound, HasProof, LabelOf, Backs
<1>9. CASE SetRow(t, r, 0)
  <2>1. 0 \in 0 .. MaxWait
    BY MaxWaitFacts
  <2> QED BY <1>1, <1>2, <1>4, <1>5, <1>6, <1>7, <1>8, <1>9, <2>1, RowMove
<1>10. CASE UNCHANGED dbVars
  <2>1. UNCHANGED shared /\ faults' \in 0 .. MaxFaults
    BY <1>1, <1>10, QuietFrame
  <2> QED BY <1>1, <1>4, <1>5, <2>1, QuietMove
<1> QED BY <1>9, <1>10 DEF TrackTip, t, r

\* A failed row goes back to where its attempt started, which has its proof.
LEMMA ResumeRetryInv ==
    ASSUME IInv, NEW w \in Workers, ResumeRetry(w)
    PROVE  IInv'
<1> DEFINE t == job[w].tip
           f == job[w].row.retry_from
           r == [row[t] EXCEPT !.state = f, !.failure_class = "none"]
<1>1. /\ pc[w] = "resume" /\ pc[w] # "idle"
      /\ UNCHANGED <<tip, files, attested, history, bounds>>
  BY DEF ResumeRetry
<1>2. /\ LocalsTyped /\ SharedTyped /\ JobsSound(w) /\ JobSound(w) /\ HandsSound(w)
      /\ AloneSound(w)
  BY TypeSplit DEF IInv, WorkerSound
<1>3. CASE Unmoved(w)
  <2>1. SetRow(t, r, 0) /\ Goto(w, "reread") /\ UNCHANGED workVars
    BY <1>3 DEF ResumeRetry, ResumeState
  <2>2. /\ t \in Tips /\ f \in {"queued", "submitted_pending"} /\ row[t] \in Rows
        /\ job[w].row.state = "retry_failed"
    BY <1>1, <1>2 DEF JobSound, Selected, SharedTyped
  <2>3. r \in Rows /\ r.state = f /\ r.failure_class = "none"
    <3>1. f \in States \cup {"absent"}
      BY <2>2 DEF States
    <3> HIDE DEF f, t
    <3> QED BY <2>2, <3>1 DEF Rows
  <2>4. /\ pc' \in [Workers -> Labels] /\ pc'[w] = "reread"
        /\ \A u \in Workers \ {w} : pc'[u] = pc[u]
    BY <1>2, <2>1, GotoFacts DEF Labels
  <2>5. job' = job /\ jobs' = jobs /\ got' = got /\ elapsed' = elapsed
    BY <2>1 DEF workVars
  <2>6. LocalsTyped' /\ Others(w)
    BY <1>2, <2>4, <2>5 DEF LocalsTyped, Others
  <2>7. /\ proof' = proof /\ lost' = lost /\ alone' = alone
        /\ \A x \in Tips \ {t} : row'[x] = row[x]
    BY <1>1, <1>2, <2>1 DEF SetRow, files, history, SharedTyped
  <2>8. HasProof(t, job[w].row) /\ LabelOf(job[w].row) = f
    BY <1>1, <1>2, <2>2 DEF HandsSound, LabelOf
  <2>9. alone => LabelOf(row[t]) = f
    BY <1>1, <1>2, <2>2 DEF AloneSound, LabelOf
  <2>10. alone => t \in lost \/ Backs(proof[t], f)
    BY <2>2, <2>9 DEF IInv, TableSound, ProofBacksState, Label, LabelOf
  <2> HIDE DEF t, f, r
  <2>11. LabelOf(r) = f
    BY <2>2, <2>3 DEF LabelOf
  <2>12. RowSound(r) /\ HasProof(t, r)
    BY <2>2, <2>3, <2>8, <2>11 DEF RowSound, HasProof
  <2>13. WorkerSound(w)'
    <3>1. JobsSound(w)' /\ JobSound(w)'
      BY <1>1, <1>2, <2>4, <2>5 DEF JobsSound, JobSound, InTry
    <3>2. HandsSound(w)'
      BY <1>2, <2>4, <2>5, <2>7 DEF HandsSound, HasProof, InTry
    <3>3. \A i \in 1 .. Len(jobs[w]) : jobs[w][i].tip \in Tips \ {t}
      BY <1>1, <1>2 DEF JobsSound, JobSound, t
    <3>4. AloneSound(w)'
      BY <1>2, <2>4, <2>5, <2>7, <3>3 DEF AloneSound, InTry
    <3> QED BY <3>1, <3>2, <3>4 DEF WorkerSound
  <2>14. 0 \in 0 .. MaxWait
    BY MaxWaitFacts
  <2> QED BY <1>1, <2>1, <2>2, <2>3, <2>6, <2>10, <2>11, <2>12, <2>13, <2>14, RowMove
<1>4. CASE ~ Unmoved(w)
  <2>1. Exit(w) /\ UNCHANGED dbVars
    BY <1>4 DEF ResumeRetry
  <2> QED BY <1>1, <2>1, QuietFrame, QuietExit
<1> QED BY <1>3, <1>4

\* The proof in hand becomes the row's state: it is in the file, or damaged there.
LEMMA CommitInv ==
    ASSUME IInv, NEW w \in Workers, Commit(w)
    PROVE  IInv'
<1> DEFINE t == job[w].tip
           target == TargetState(got[w])
           r == Row(target, "none", "none", row[t].attempt_count)
           d == IF target = "submitted_pending" THEN Ahead(w, Interval) ELSE 0
<1>1. /\ pc[w] = "commit" /\ pc[w] # "idle" /\ pc[w] \in InTry
      /\ UNCHANGED <<tip, files, attested, history, bounds>>
  BY DEF Commit, InTry
<1>2. CASE Unmoved(w)
  <2>1. SetRow(t, r, d) /\ JobDone(w)
    BY <1>2 DEF Commit, AttemptsKept
  <2>2. /\ t \in Tips /\ got[w] \in {"pending", "bitcoin"} /\ proof[t] # "none"
        /\ alone => proof[t] \in {got[w], "damaged"}
    BY <1>1 DEF IInv, WorkerSound, JobSound, HandsSound, AloneSound
  <2>3. /\ got[w] = "bitcoin" => target = "upgraded_unverified"
        /\ got[w] = "pending" => target = "submitted_pending"
    BY DEF TargetState
  <2>4. target \in States \cup {"absent"} /\ "none" \in RETRY_SOURCES \cup {"none"}
    BY <2>2, <2>3 DEF States
  <2>5. row[t].attempt_count \in 0 .. MaxAttempts
    BY <2>2, RowsType DEF IInv, TypeOK
  <2> HIDE DEF target
  <2>6. r \in Rows
    BY <2>4, <2>5, RowType
  <2>7. r.state = target /\ r.failure_class = "none"
    BY RowFacts
  <2>8. d \in 0 .. MaxWait
    <3>1. Interval \in 0 .. MaxWait /\ 0 \in 0 .. MaxWait
      BY MaxWaitFacts, AnchorAssumption
    <3>2. Ahead(w, Interval) \in 0 .. MaxWait
      BY <3>1, AheadBounded DEF IInv
    <3> QED BY <3>1, <3>2
  <2> HIDE DEF t, r, d
  <2>9. LabelOf(r) = target
    BY <2>2, <2>3, <2>7 DEF LabelOf
  <2>10. RowSound(r) /\ HasProof(t, r) /\ (alone => Backs(proof[t], LabelOf(r)))
    BY <2>2, <2>3, <2>7, <2>9 DEF RowSound, HasProof, Backs
  <2>11. LocalsTyped' /\ Others(w)
    BY <2>1, JobDoneFacts, TypeSplit DEF IInv
  <2>12. /\ proof' = proof /\ lost' = lost /\ alone' = alone
         /\ \A x \in Tips : x # t => row'[x] = row[x]
    BY <1>1, <2>1 DEF SetRow, files, history, IInv, TypeOK
  <2>13. WorkerSound(w)'
    BY <1>1, <2>1, <2>12, JobDoneSound DEF t
  <2> QED BY <1>1, <2>1, <2>2, <2>6, <2>7, <2>8, <2>10, <2>11, <2>13, RowMove
<1>3. CASE ~ Unmoved(w)
  <2>1. Goto(w, "transient") /\ UNCHANGED dbVars /\ UNCHANGED workVars
    BY <1>3 DEF Commit
  <2> QED BY <1>1, <2>1, QuietFrame, GivesUp
<1> QED BY <1>2, <1>3

\* A failure is recorded on the state that the attempt started from.
LEMMA RecordFailureInv ==
    ASSUME IInv, NEW w \in Workers, RecordFailure(w)
    PROVE  IInv'
<1> DEFINE t == job[w].tip
           attempt == job[w].row.attempt_count + 1
           f == job[w].row.state
           r == Row("retry_failed", f, pc[w], Least(attempt, MaxAttempts))
<1>1. /\ pc[w] \in {"transient", "integrity"} /\ pc[w] # "idle" /\ pc[w] \in InTry
      /\ UNCHANGED <<tip, files, attested, history, bounds>>
  BY DEF RecordFailure, InTry
<1>2. CASE Unmoved(w) /\ ~ (pc[w] = "transient" /\ DelayOverflows(attempt))
  <2>1. JobDone(w)
    BY <1>2 DEF RecordFailure
  <2>2. PICK jitter \in {0, 1} :
           SetRow(t, r, IF pc[w] = "transient" THEN Ahead(w, RetryDelay(attempt, jitter)) ELSE 0)
    BY <1>2 DEF RecordFailure
  <2> DEFINE d == IF pc[w] = "transient" THEN Ahead(w, RetryDelay(attempt, jitter)) ELSE 0
  <2>3. /\ t \in Tips /\ f \in {"queued", "submitted_pending"} /\ HasProof(t, job[w].row)
        /\ alone => row[t] = job[w].row
        /\ alone /\ pc[w] = "integrity" => proof[t] = "damaged"
    BY <1>1 DEF IInv, WorkerSound, JobSound, HandsSound, AloneSound, Selected
  <2>4. job[w].row \in Rows
    BY JobsType DEF IInv, TypeOK
  <2>5. /\ job[w].row.attempt_count \in 0 .. MaxAttempts /\ MaxAttempts \in Nat \ {0}
        /\ attempt \in 1 .. MaxAttempts + 1
    BY <2>4, RowsType, AnchorAssumption
  <2>6. Least(attempt, MaxAttempts) \in 0 .. MaxAttempts
    BY <2>5 DEF Least
  <2>7. r \in Rows
    BY <1>1, <2>3, <2>6, RowType DEF States, RETRY_SOURCES
  <2>8. r.state = "retry_failed" /\ r.retry_from = f /\ r.failure_class = pc[w]
    BY RowFacts
  <2>9. d \in 0 .. MaxWait
    <3>1. RetryDelay(attempt, jitter) \in 0 .. MaxWait /\ 0 \in 0 .. MaxWait
      BY <2>5, RetryDelayBounded, MaxWaitFacts
    <3>2. Ahead(w, RetryDelay(attempt, jitter)) \in 0 .. MaxWait
      BY <3>1, AheadBounded DEF IInv
    <3> QED BY <3>1, <3>2
  <2>10. SetRow(t, r, d)
    BY <2>2
  <2>11. LabelOf(job[w].row) = f
    BY <2>3 DEF LabelOf
  <2>12. alone => t \in lost \/ Backs(proof[t], f)
    BY <2>3, <2>11 DEF IInv, TableSound, ProofBacksState, Label, LabelOf
  <2>13. /\ proof' = proof /\ lost' = lost /\ alone' = alone
         /\ \A x \in Tips : x # t => row'[x] = row[x]
    BY <1>1, <2>10 DEF SetRow, files, history, IInv, TypeOK
  <2> HIDE DEF t, r, d, f, attempt
  <2>14. LabelOf(r) = f /\ RowSound(r) /\ HasProof(t, r)
    BY <2>3, <2>8, <2>11 DEF LabelOf, RowSound, HasProof
  <2>15. LocalsTyped' /\ Others(w)
    BY <2>1, JobDoneFacts, TypeSplit DEF IInv
  <2>16. WorkerSound(w)'
    BY <1>1, <2>1, <2>13, JobDoneSound DEF t
  <2> QED BY <1>1, <2>3, <2>7, <2>8, <2>9, <2>10, <2>12, <2>14, <2>15, <2>16, RowMove
<1>3. CASE ~ Unmoved(w) \/ (pc[w] = "transient" /\ DelayOverflows(attempt))
  <2>1. Exit(w) /\ UNCHANGED dbVars
    BY <1>3 DEF RecordFailure
  <2> QED BY <1>1, <2>1, QuietFrame, QuietExit
<1> QED BY <1>2, <1>3
-----------------------------------------------------------------------------
(* Proof files, failures and deaths *)

\* The proof in hand replaces the file of a row that is queued or pending, so it
\* backs the row's label, and no proof disappears.
LEMMA ReplaceProofInv ==
    ASSUME IInv, NEW w \in Workers, ReplaceProof(w)
    PROVE  IInv'
<1> DEFINE t == job[w].tip
           g == got[w]
<1>1. /\ pc[w] = "replace" /\ pc[w] # "idle" /\ pc[w] \in InTry
      /\ proof' = [proof EXCEPT ![t] = g] /\ (disk' = disk \/ disk' = proof')
      /\ Goto(w, "commit")
      /\ UNCHANGED <<tip, dbVars, attested, workVars, history, bounds>>
  BY DEF ReplaceProof, InTry
<1>2. /\ LocalsTyped /\ SharedTyped /\ JobsSound(w) /\ JobSound(w) /\ HandsSound(w)
      /\ AloneSound(w)
  BY TypeSplit DEF IInv, WorkerSound
<1>3. /\ t \in Tips /\ g \in {"pending", "bitcoin"} /\ Selected(job[w].row)
      /\ job[w].row.state # "retry_failed"
  BY <1>1, <1>2 DEF JobSound, HandsSound
<1>4. proof'[t] = g /\ \A x \in Tips \ {t} : proof'[x] = proof[x]
  BY <1>1, <1>2, <1>3 DEF SharedTyped
<1>5. /\ pc' \in [Workers -> Labels] /\ pc'[w] = "commit"
      /\ \A u \in Workers \ {w} : pc'[u] = pc[u]
  BY <1>1, <1>2, GotoFacts DEF Labels
<1>6. /\ job' = job /\ jobs' = jobs /\ got' = got /\ elapsed' = elapsed
      /\ row' = row /\ wait' = wait /\ lost' = lost /\ alone' = alone /\ tip' = tip
      /\ attested' = attested /\ faults' = faults /\ damage' = damage /\ losses' = losses
  BY <1>1 DEF workVars, dbVars, history, bounds
<1>7. LocalsTyped' /\ Others(w)
  BY <1>2, <1>5, <1>6 DEF LocalsTyped, Others
<1>8. proof' \in [Tips -> {"none", "pending", "bitcoin", "damaged"}]
  BY <1>1, <1>2, <1>3 DEF SharedTyped
<1>9. SharedTyped'
  BY <1>1, <1>2, <1>6, <1>8 DEF SharedTyped
<1>10. \A x \in Tips : proof[x] # "none" => proof'[x] # "none"
  BY <1>3, <1>4
<1>11. alone => row[t].state \in {"queued", "submitted_pending"}
               /\ row[t].failure_class = "none"
  BY <1>1, <1>2, <1>3 DEF AloneSound, Selected
<1> HIDE DEF t, g
<1>12. TableSound'
  <2>1. RowsSound'
    BY <1>6 DEF IInv, TableSound, RowsSound, RowSound
  <2>2. LabelsHaveProof'
    BY <1>6, <1>10 DEF IInv, TableSound, LabelsHaveProof, HasProof
  <2>3. ASSUME alone, NEW x \in Tips \ lost PROVE Backs(proof'[x], LabelOf(row[x]))
    <3>1. Backs(proof[x], LabelOf(row[x]))
      BY <2>3 DEF IInv, TableSound, ProofBacksState, Label, LabelOf
    <3>2. CASE x = t
      BY <1>3, <1>4, <1>11, <2>3, <3>2 DEF Backs, LabelOf
    <3>3. CASE x # t
      BY <1>4, <3>1, <3>3
    <3> QED BY <3>2, <3>3
  <2>4. ProofBacksState'
    <3>1. \A x \in Tips : Label(x)' = LabelOf(row[x])
      BY <1>6 DEF Label, LabelOf
    <3> QED BY <1>6, <2>3, <3>1 DEF ProofBacksState
  <2>5. IntegrityIsDamage'
    BY <1>4, <1>6, <1>11 DEF IInv, TableSound, IntegrityIsDamage
  <2> QED BY <2>1, <2>2, <2>4, <2>5 DEF TableSound
<1>13. DamageIsOnDisk'
  BY <1>1, <1>3, <1>4 DEF IInv, DamageIsOnDisk
<1>14. JobsSound(w)' /\ JobSound(w)'
  BY <1>1, <1>2, <1>5, <1>6 DEF JobsSound, JobSound, InTry
<1>15. HandsSound(w)'
  <2>1. HasProof(job[w].tip, job[w].row)'
    BY <1>1, <1>2, <1>3, <1>6, <1>10 DEF HandsSound, HasProof, t
  <2>2. \A i \in 1 .. Len(jobs[w]) : HasProof(jobs[w][i].tip, jobs[w][i].row)'
    BY <1>2, <1>6, <1>10 DEF HandsSound, JobsSound, HasProof
  <2>3. got'[w] \in {"pending", "bitcoin"} /\ proof'[job'[w].tip] # "none"
    BY <1>3, <1>4, <1>6 DEF t, g
  <2> QED BY <1>5, <1>6, <2>1, <2>2, <2>3 DEF HandsSound
<1>16. AloneSound(w)'
  <2>1. proof'[job'[w].tip] = got'[w]
    BY <1>4, <1>6 DEF t, g
  <2> QED BY <1>1, <1>2, <1>5, <1>6, <2>1 DEF AloneSound, InTry
<1> QED BY <1>1, <1>6, <1>7, <1>9, <1>10, <1>12, <1>13, <1>14, <1>15, <1>16, WorkerMove
        DEF WorkerSound

\* The steps that lead to record_failure.
LEMMA FailsInv ==
    ASSUME IInv, NEW w \in Workers, StampFails(w) \/ UpgradeFails(w) \/ ReplaceFails(w)
    PROVE  IInv'
<1>1. /\ pc[w] \in InTry /\ Goto(w, "transient") /\ UNCHANGED workVars
      /\ UNCHANGED <<tip, dbVars, files, attested, history, bounds>>
  BY DEF StampFails, UpgradeFails, ReplaceFails, InTry
<1> QED BY <1>1, QuietFrame, GivesUp

\* The steps that end a run.
LEMMA EndsInv ==
    ASSUME IInv, NEW w \in Workers, EndRun(w) \/ StampMisconfigured(w)
    PROVE  IInv'
<1>1. /\ pc[w] # "idle" /\ Exit(w)
      /\ UNCHANGED <<tip, dbVars, files, attested, history, bounds>>
  BY DEF EndRun, StampMisconfigured
<1> QED BY <1>1, QuietFrame, QuietExit

\* A fault ends the run, or is one more failure of the attempt.
LEMMA FaultInv ==
    ASSUME IInv, NEW w \in Workers, DatabaseFails(w) \/ Crash(w)
    PROVE  IInv'
<1>1. /\ UNCHANGED <<tip, dbVars, files, attested, history, damage, losses>>
      /\ faults < MaxFaults /\ faults' = faults + 1
  BY DEF DatabaseFails, Crash
<1>2. UNCHANGED shared /\ faults' \in 0 .. MaxFaults
  BY <1>1, AnchorAssumption DEF IInv, TypeOK, dbVars, files, history, shared
<1>3. \/ pc[w] \in InTry /\ Goto(w, "transient") /\ UNCHANGED workVars
      \/ pc[w] # "idle" /\ Exit(w)
  BY DEF DatabaseFails, Crash, InTry
<1> QED BY <1>2, <1>3, GivesUp, QuietExit

-----------------------------------------------------------------------------
(* The environment *)

\* What the workers know stays true when rows, labels and locals stay and a proof
\* only becomes damaged.
LEMMA WorldMove ==
    ASSUME IInv, UNCHANGED <<row, pc, jobs, job, got, lost, alone>>, LocalsTyped',
           SharedTyped', \A t \in Tips : proof'[t] = proof[t] \/ proof'[t] = "damaged",
           \A t \in Tips : proof[t] = "none" => proof'[t] = "none",
           DamageIsOnDisk'
    PROVE  IInv'
<1>1. /\ row' = row /\ pc' = pc /\ jobs' = jobs /\ job' = job /\ got' = got
      /\ lost' = lost /\ alone' = alone
  OBVIOUS
<1>2. TypeOK'
  BY DEF TypeOK, LocalsTyped, SharedTyped
<1>3. RowsSound'
  BY <1>1 DEF IInv, TableSound, RowsSound, RowSound
<1>4. LabelsHaveProof'
  BY <1>1 DEF IInv, TableSound, LabelsHaveProof, HasProof
<1>5. ProofBacksState'
  <2>1. \A t \in Tips : Label(t)' = Label(t)
    BY <1>1 DEF Label
  <2>2. ASSUME alone, NEW t \in Tips \ lost PROVE Backs(proof'[t], Label(t))
    <3>1. Backs(proof[t], Label(t))
      BY <2>2 DEF IInv, TableSound, ProofBacksState
    <3> QED BY <3>1 DEF Backs
  <2> QED BY <1>1, <2>1, <2>2 DEF ProofBacksState
<1>6. IntegrityIsDamage'
  BY <1>1 DEF IInv, TableSound, IntegrityIsDamage
<1>7. OneAtATime'
  BY <1>1 DEF IInv, OneAtATime
<1>8. ASSUME NEW w \in Workers PROVE WorkerSound(w)'
  <2>1. JobsSound(w) /\ JobSound(w) /\ HandsSound(w) /\ AloneSound(w)
    BY DEF IInv, WorkerSound
  <2>2. JobsSound(w)' /\ JobSound(w)'
    BY <1>1, <2>1 DEF JobsSound, JobSound
  <2>3. /\ pc[w] \in {"resume"} \cup InTry => job[w].tip \in Tips
        /\ \A i \in 1 .. Len(jobs[w]) : jobs[w][i].tip \in Tips
    BY <2>1 DEF JobsSound, JobSound
  <2>4. HandsSound(w)'
    <3>1. \A t \in Tips : proof[t] # "none" => proof'[t] # "none"
      OBVIOUS
    <3>2. pc[w] \in {"resume"} \cup InTry => HasProof(job[w].tip, job[w].row)'
      BY <1>1, <2>1, <2>3, <3>1 DEF HandsSound, HasProof
    <3>3. \A i \in 1 .. Len(jobs[w]) : HasProof(jobs[w][i].tip, jobs[w][i].row)'
      BY <1>1, <2>1, <2>3, <3>1 DEF HandsSound, HasProof
    <3> QED BY <1>1, <2>1, <2>3, <3>1, <3>2, <3>3 DEF HandsSound, InTry
  <2>5. AloneSound(w)'
    BY <1>1, <2>1, <2>3 DEF AloneSound, InTry
  <2> QED BY <2>2, <2>4, <2>5 DEF WorkerSound
<1> QED BY <1>2, <1>3, <1>4, <1>5, <1>6, <1>7, <1>8 DEF IInv, TableSound

\* The chain grows, a block confirms, time passes.
LEMMA PassiveInv ==
    ASSUME IInv, AppendRecord \/ Tick \/ \E t \in Tips : Attest(t)
    PROVE  IInv'
<1>1. LocalsTyped /\ SharedTyped /\ DamageIsOnDisk
  BY TypeSplit DEF IInv
<1>2. CASE AppendRecord
  <2>1. /\ tip' = tip + 1 /\ tip < MaxTip /\ UNCHANGED <<row, wait, proof, disk, attested>>
        /\ UNCHANGED <<pc, elapsed, jobs, job, got, alone, lost, faults, damage, losses>>
    BY <1>2 DEF AppendRecord, dbVars, files, workVars, history, bounds
  <2>2. tip' \in 0 .. MaxTip
    BY <1>1, <2>1, AnchorAssumption DEF SharedTyped
  <2>3. LocalsTyped' /\ SharedTyped' /\ DamageIsOnDisk'
    BY <1>1, <2>1, <2>2 DEF LocalsTyped, SharedTyped, DamageIsOnDisk
  <2> QED BY <2>1, <2>3, WorldMove
<1>3. CASE \E t \in Tips : Attest(t)
  <2>1. /\ attested' \subseteq Tips /\ UNCHANGED <<tip, row, wait, proof, disk>>
        /\ UNCHANGED <<pc, elapsed, jobs, job, got, alone, lost, faults, damage, losses>>
    BY <1>1, <1>3 DEF Attest, dbVars, files, workVars, history, bounds, SharedTyped
  <2>2. LocalsTyped' /\ SharedTyped' /\ DamageIsOnDisk'
    BY <1>1, <2>1 DEF LocalsTyped, SharedTyped, DamageIsOnDisk
  <2> QED BY <2>1, <2>2, WorldMove
<1>4. CASE Tick
  <2>1. /\ disk' = proof /\ UNCHANGED <<tip, row, proof, attested>>
        /\ UNCHANGED <<pc, jobs, job, got, alone, lost, faults, damage, losses>>
    BY <1>4 DEF Tick, history, bounds
  <2>2. wait' \in [Tips -> 0 .. MaxWait]
    <3>1. \A t \in Tips : (IF wait[t] > 0 THEN wait[t] - 1 ELSE 0) \in 0 .. MaxWait
      BY <1>1, MaxWaitFacts DEF SharedTyped
    <3> QED BY <1>4, <3>1 DEF Tick
  <2>3. elapsed' \in [Workers -> 0 .. MaxWait]
    <3>1. \A w \in Workers : (IF pc[w] # "idle" /\ elapsed[w] < MaxWait
                              THEN elapsed[w] + 1 ELSE elapsed[w]) \in 0 .. MaxWait
      BY <1>1, MaxWaitFacts DEF LocalsTyped
    <3> QED BY <1>4, <3>1 DEF Tick
  <2>4. LocalsTyped' /\ SharedTyped' /\ DamageIsOnDisk'
    BY <1>1, <2>1, <2>2, <2>3 DEF LocalsTyped, SharedTyped, DamageIsOnDisk
  <2> QED BY <2>1, <2>4, WorldMove
<1> QED BY <1>2, <1>3, <1>4

\* A proof file is damaged, on the disk too.
LEMMA DamageProofInv ==
    ASSUME IInv, NEW t \in Tips, DamageProof(t)
    PROVE  IInv'
<1>1. /\ proof' = [proof EXCEPT ![t] = "damaged"] /\ disk' = [disk EXCEPT ![t] = "damaged"]
      /\ proof[t] \in {"pending", "bitcoin"} /\ damage < MaxDamage /\ damage' = damage + 1
      /\ UNCHANGED <<tip, row, wait, attested, pc, elapsed, jobs, job, got>>
      /\ UNCHANGED <<alone, lost, faults, losses>>
  BY DEF DamageProof, dbVars, workVars, history
<1>2. LocalsTyped /\ SharedTyped /\ DamageIsOnDisk
  BY TypeSplit DEF IInv
<1>3. damage' \in 0 .. MaxDamage
  BY <1>1, <1>2, AnchorAssumption DEF SharedTyped
<1>4. LocalsTyped' /\ SharedTyped'
  BY <1>1, <1>2, <1>3 DEF LocalsTyped, SharedTyped
<1>5. /\ proof'[t] = "damaged" /\ disk'[t] = "damaged"
      /\ \A x \in Tips \ {t} : proof'[x] = proof[x] /\ disk'[x] = disk[x]
  BY <1>1, <1>2 DEF SharedTyped
<1>6. DamageIsOnDisk'
  BY <1>2, <1>5 DEF DamageIsOnDisk
<1>7. /\ \A x \in Tips : proof'[x] = proof[x] \/ proof'[x] = "damaged"
      /\ \A x \in Tips : proof[x] = "none" => proof'[x] = "none"
  BY <1>1, <1>5
<1> QED BY <1>1, <1>4, <1>6, <1>7, WorldMove

\* A power loss leaves no worker; a label without its proof is remembered as lost.
LEMMA PowerLossInv ==
    ASSUME IInv, PowerLoss
    PROVE  IInv'
<1>1. PICK kept \in SUBSET Tips :
         proof' = [t \in Tips |-> IF t \in kept THEN proof[t] ELSE disk[t]]
  BY DEF PowerLoss
<1>2. /\ losses < MaxLosses /\ losses' = losses + 1 /\ disk' = proof'
      /\ lost' = lost \cup {t \in Tips : proof'[t] # proof[t]
                                          /\ ~ Backs(proof'[t], Label(t))}
      /\ UNCHANGED <<tip, row, wait, attested, alone, faults, damage>>
  BY DEF PowerLoss, dbVars
<1>3. \A w \in Workers : pc'[w] = "idle" /\ jobs'[w] = << >>
  BY DEF PowerLoss
<1>4. LocalsTyped /\ SharedTyped
  BY TypeSplit DEF IInv
<1>5. LocalsTyped'
  <2>1. "idle" \in Labels /\ 0 \in 0 .. MaxWait /\ << >> \in Seq(Jobs) /\ NoJob \in Jobs
    BY MaxWaitFacts, NoJobType DEF Labels
  <2> QED BY <2>1 DEF PowerLoss, LocalsTyped
<1>6. \A t \in Tips : proof'[t] = proof[t] \/ proof'[t] = disk[t]
  BY <1>1
<1>7. SharedTyped'
  <2>1. proof' \in [Tips -> {"none", "pending", "bitcoin", "damaged"}]
    BY <1>1, <1>4 DEF SharedTyped
  <2>2. losses' \in 0 .. MaxLosses
    BY <1>2, <1>4, AnchorAssumption DEF SharedTyped
  <2>3. lost' \subseteq Tips
    BY <1>2, <1>4 DEF SharedTyped
  <2> QED BY <1>2, <1>4, <2>1, <2>2, <2>3 DEF SharedTyped
<1>8. TypeOK'
  BY <1>5, <1>7 DEF TypeOK, LocalsTyped, SharedTyped
<1>9. RowsSound'
  BY <1>2 DEF IInv, TableSound, RowsSound, RowSound
<1>10. /\ \A t \in Tips : Label(t)' = Label(t) /\ Label(t) = LabelOf(row[t])
       /\ \A t \in Tips : t \notin lost' =>
             t \notin lost /\ (proof'[t] = proof[t] \/ Backs(proof'[t], Label(t)))
  BY <1>2 DEF Label, LabelOf
<1>11. LabelsHaveProof'
  <2>1. ASSUME NEW t \in Tips, t \notin lost',
               LabelOf(row[t]) \in {"submitted_pending", "upgraded_unverified"}
        PROVE  proof'[t] # "none"
    <3>1. CASE proof'[t] = proof[t]
      BY <1>10, <2>1, <3>1 DEF IInv, TableSound, LabelsHaveProof, HasProof
    <3>2. CASE Backs(proof'[t], Label(t))
      BY <1>10, <2>1, <3>2 DEF Backs
    <3> QED BY <1>10, <2>1, <3>1, <3>2
  <2> QED BY <1>2, <2>1 DEF LabelsHaveProof, HasProof
<1>12. ProofBacksState'
  <2>1. ASSUME alone, NEW t \in Tips, t \notin lost' PROVE Backs(proof'[t], Label(t))
    BY <1>10, <2>1 DEF IInv, TableSound, ProofBacksState
  <2> QED BY <1>2, <1>10, <2>1 DEF ProofBacksState
<1>13. IntegrityIsDamage'
  BY <1>2, <1>6 DEF IInv, TableSound, IntegrityIsDamage, DamageIsOnDisk
<1>14. OneAtATime' /\ DamageIsOnDisk'
  BY <1>2, <1>3 DEF OneAtATime, DamageIsOnDisk
<1>15. \A w \in Workers : WorkerSound(w)'
  BY <1>3, IdleSound
<1> QED BY <1>8, <1>9, <1>11, <1>12, <1>13, <1>14, <1>15 DEF IInv, TableSound

-----------------------------------------------------------------------------
(* The invariant *)

\* The initial state satisfies the invariant.
LEMMA InitIInv == Init => IInv
<1> SUFFICES ASSUME Init PROVE IInv
  OBVIOUS
<1>1. "idle" \in Labels /\ 0 \in 0 .. MaxWait /\ << >> \in Seq(Jobs) /\ NoJob \in Jobs
  BY MaxWaitFacts, NoJobType DEF Labels
<1>2. NoRow \in Rows /\ NoRow.state = "absent" /\ NoRow.failure_class = "none"
  BY RowType, RowFacts, AnchorAssumption DEF NoRow
<1>3. LocalsTyped
  BY <1>1 DEF Init, LocalsTyped
<1>4. SharedTyped
  BY <1>1, <1>2, AnchorAssumption DEF Init, SharedTyped
<1>5. \A t \in Tips : row[t] = NoRow /\ proof[t] = "none"
  BY DEF Init
<1>6. TableSound
  BY <1>2, <1>5 DEF TableSound, RowsSound, RowSound, LabelsHaveProof, HasProof, LabelOf,
                    ProofBacksState, Backs, Label, IntegrityIsDamage
<1>7. OneAtATime /\ DamageIsOnDisk
  BY <1>5 DEF Init, OneAtATime, DamageIsOnDisk
<1>8. \A w \in Workers : WorkerSound(w)
  BY DEF Init, WorkerSound, JobsSound, JobSound, HandsSound, AloneSound, InTry
<1> QED BY <1>3, <1>4, <1>6, <1>7, <1>8, TypeSplit DEF IInv

\* A step that changes nothing keeps the invariant.
LEMMA StutterIInv == IInv /\ UNCHANGED vars => IInv'
<1> SUFFICES ASSUME IInv, UNCHANGED vars PROVE IInv'
  OBVIOUS
<1>1. /\ UNCHANGED <<tip, row, wait, proof, disk, attested, pc, elapsed, jobs, job, got>>
      /\ UNCHANGED <<alone, lost, faults, damage, losses>>
  BY DEF vars
<1>2. LocalsTyped' /\ SharedTyped'
  BY <1>1, TypeSplit DEF IInv, LocalsTyped, SharedTyped
<1>3. DamageIsOnDisk'
  BY <1>1 DEF IInv, DamageIsOnDisk
<1> QED BY <1>1, <1>2, <1>3, WorldMove

\* Every step keeps the invariant, one action after the other.
LEMMA StepIInv == IInv /\ [Next]_vars => IInv'
<1> SUFFICES ASSUME IInv, Next PROVE IInv'
  BY StutterIInv
<1>1. CASE AppendRecord \/ Tick \/ \E t \in Tips : Attest(t)
  BY <1>1, PassiveInv
<1>2. CASE PowerLoss \/ \E t \in Tips : DamageProof(t)
  BY <1>2, PowerLossInv, DamageProofInv
<1>3. ASSUME NEW w \in Workers, RunStep(w) PROVE IInv'
  <2>1. CASE TrackTip(w) \/ SelectDue(w) \/ NextJob(w) \/ ResumeRetry(w) \/ RereadRow(w)
    BY <2>1, TrackTipInv, SelectDueInv, NextJobInv, ResumeRetryInv, RereadRowInv
  <2>2. CASE EndRun(w) \/ StampMisconfigured(w)
    BY <2>2, EndsInv
  <2>3. CASE StampFails(w) \/ UpgradeFails(w) \/ ReplaceFails(w)
    BY <2>3, FailsInv
  <2>4. CASE QueuedFindsProof(w) \/ StampSucceeds(w) \/ CheckNoProof(w)
    BY <2>4, QueuedFindsProofInv, StampSucceedsInv, CheckNoProofInv
  <2>5. CASE PendingReadsProof(w) \/ UpgradeNotReady(w) \/ UpgradeSucceeds(w)
    BY <2>5, PendingReadsProofInv, UpgradeNotReadyInv, UpgradeSucceedsInv
  <2>6. CASE ReplaceProof(w) \/ Commit(w) \/ RecordFailure(w)
    BY <2>6, ReplaceProofInv, CommitInv, RecordFailureInv
  <2> QED BY <1>3, <2>1, <2>2, <2>3, <2>4, <2>5, <2>6 DEF RunStep
<1>4. ASSUME NEW w \in Workers, StartRun(w) \/ DatabaseFails(w) \/ Crash(w) PROVE IInv'
  BY <1>4, StartRunInv, FaultInv
<1> QED BY <1>1, <1>2, <1>3, <1>4 DEF Next

\* The inductive invariant holds of every behaviour.
THEOREM Invariant == Spec => []IInv
  BY InitIInv, StepIInv, PTL DEF Spec

\* Every variable keeps its type: in particular every next_attempt lies at most an
\* interval or a capped backoff ahead, whatever the attempt count
\* (retry_delay_seconds), and a worker holds only rows of the table.
THEOREM TypeCorrect == Spec => []TypeOK
  BY Invariant, PTL DEF IInv

\* Past submission a row has a proof file, also when runs overlap and workers die,
\* unless a power loss took it.
THEOREM SubmittedKeepsProof == Spec => []SubmittedHasProof
<1>1. IInv => SubmittedHasProof
  BY DEF IInv, TableSound, LabelsHaveProof, HasProof, LabelOf, SubmittedHasProof
<1> QED BY <1>1, Invariant, PTL

\* Without overlapping runs, the label of every row is backed by its proof file.
THEOREM LabelIsBacked == Spec => []ProofBacksState
  BY Invariant, PTL DEF IInv, TableSound

-----------------------------------------------------------------------------
(* What a step may do to a row and to a proof file *)

\* The four ways in which a row changes: INSERT OR IGNORE, and three UPDATEs that
\* find the state which the worker had read.
Inserted(t) == row[t] = NoRow /\ row'[t] = Row("queued", "none", "none", 0)
Holds(w, t) == job[w].tip = t /\ row[t].state = job[w].row.state
Resumed(w, t) ==
    /\ Holds(w, t) /\ pc[w] = "resume"
    /\ row'[t] = [row[t] EXCEPT !.state = job[w].row.retry_from, !.failure_class = "none"]
Committed(w, t) ==
    /\ Holds(w, t) /\ pc[w] = "commit"
    /\ row'[t] = Row(TargetState(got[w]), "none", "none", row[t].attempt_count)
Failed(w, t) ==
    /\ Holds(w, t) /\ pc[w] \in {"transient", "integrity"}
    /\ row'[t] = Row("retry_failed", job[w].row.state, pc[w],
                     Least(job[w].row.attempt_count + 1, MaxAttempts))

\* A row changes in one of these ways only.
LEMMA RowChanges ==
    ASSUME IInv, [Next]_vars, NEW t \in Tips, row'[t] # row[t]
    PROVE  \/ Inserted(t)
           \/ \E w \in Workers : Resumed(w, t) \/ Committed(w, t) \/ Failed(w, t)
<1>1. PICK w \in Workers : TrackTip(w) \/ ResumeRetry(w) \/ Commit(w) \/ RecordFailure(w)
  <2>1. ASSUME NEW w \in Workers, RunStep(w)
        PROVE  \/ TrackTip(w) \/ ResumeRetry(w) \/ Commit(w) \/ RecordFailure(w)
               \/ row' = row
    BY <2>1
    DEF RunStep, dbVars, SelectDue, EndRun, NextJob, RereadRow, QueuedFindsProof,
        StampSucceeds, StampFails, StampMisconfigured, CheckNoProof, PendingReadsProof,
        UpgradeNotReady, UpgradeSucceeds, UpgradeFails, ReplaceProof, ReplaceFails
  <2>2. ASSUME NEW w \in Workers, StartRun(w) \/ DatabaseFails(w) \/ Crash(w)
        PROVE  row' = row
    BY <2>2 DEF dbVars, StartRun, DatabaseFails, Crash
  <2>3. ASSUME \/ AppendRecord \/ Tick \/ PowerLoss \/ UNCHANGED vars
               \/ \E x \in Tips : Attest(x) \/ DamageProof(x)
        PROVE  row' = row
    BY <2>3 DEF dbVars, vars, AppendRecord, Tick, PowerLoss, Attest, DamageProof
  <2> QED BY <2>1, <2>2, <2>3 DEF Next
<1>2. row \in [Tips -> Rows]
  BY DEF IInv, TypeOK
<1>3. ASSUME NEW r, NEW d, SetRow(job[w].tip, r, d) PROVE job[w].tip = t /\ row'[t] = r
  BY <1>2, <1>3 DEF SetRow
<1>4. CASE TrackTip(w)
  <2>1. row' # row
    OBVIOUS
  <2>2. /\ row[job[w].tip] = NoRow
        /\ SetRow(job[w].tip, Row("queued", "none", "none", 0), 0)
    BY <1>4, <2>1 DEF TrackTip, dbVars
  <2>3. job[w].tip = t /\ row'[t] = Row("queued", "none", "none", 0)
    BY <1>3, <2>2
  <2> QED BY <2>2, <2>3 DEF Inserted
<1>5. CASE ResumeRetry(w)
  <2> DEFINE r == [row[job[w].tip] EXCEPT !.state = job[w].row.retry_from,
                                          !.failure_class = "none"]
  <2>1. pc[w] = "resume" /\ Unmoved(w) /\ SetRow(job[w].tip, r, 0)
    BY <1>5 DEF ResumeRetry, ResumeState, dbVars
  <2>2. job[w].tip = t /\ row'[t] = r
    BY <1>3, <2>1
  <2> QED BY <2>1, <2>2 DEF Unmoved, Holds, Resumed
<1>6. CASE Commit(w)
  <2> DEFINE r == Row(TargetState(got[w]), "none", "none", row[job[w].tip].attempt_count)
  <2>1. /\ pc[w] = "commit" /\ Unmoved(w)
        /\ SetRow(job[w].tip, r, IF TargetState(got[w]) = "submitted_pending"
                                 THEN Ahead(w, Interval) ELSE 0)
    BY <1>6 DEF Commit, AttemptsKept, dbVars
  <2>2. job[w].tip = t /\ row'[t] = r
    BY <1>3, <2>1
  <2> QED BY <2>1, <2>2 DEF Unmoved, Holds, Committed
<1>7. CASE RecordFailure(w)
  <2> DEFINE r == Row("retry_failed", job[w].row.state, pc[w],
                      Least(job[w].row.attempt_count + 1, MaxAttempts))
  <2>1. /\ pc[w] \in {"transient", "integrity"} /\ Unmoved(w)
        /\ \E d : SetRow(job[w].tip, r, d)
    BY <1>7 DEF RecordFailure, dbVars
  <2>2. job[w].tip = t /\ row'[t] = r
    BY <1>3, <2>1
  <2> QED BY <2>1, <2>2 DEF Unmoved, Holds, Failed
<1> QED BY <1>1, <1>4, <1>5, <1>6, <1>7

\* The three ways in which a proof file changes.
LEMMA ProofChanges ==
    ASSUME IInv, [Next]_vars, NEW t \in Tips, proof'[t] # proof[t]
    PROVE  \/ \E w \in Workers : pc[w] = "replace" /\ job[w].tip = t
           \/ proof[t] \in {"pending", "bitcoin"} /\ proof'[t] = "damaged"
           \/ losses' = losses + 1 /\ proof'[t] = disk[t]
<1>1. proof \in [Tips -> {"none", "pending", "bitcoin", "damaged"}]
  BY TypeSplit DEF IInv, SharedTyped
<1>2. \/ PowerLoss \/ (\E x \in Tips : DamageProof(x))
      \/ \E w \in Workers : ReplaceProof(w)
  <2>1. ASSUME NEW w \in Workers, RunStep(w) PROVE ReplaceProof(w) \/ proof' = proof
    BY <2>1
    DEF RunStep, files, TrackTip, SelectDue, EndRun, NextJob, ResumeRetry, RereadRow,
        QueuedFindsProof, StampSucceeds, StampFails, StampMisconfigured, CheckNoProof,
        PendingReadsProof, UpgradeNotReady, UpgradeSucceeds, UpgradeFails, ReplaceFails,
        Commit, RecordFailure
  <2>2. ASSUME NEW w \in Workers, StartRun(w) \/ DatabaseFails(w) \/ Crash(w)
        PROVE  proof' = proof
    BY <2>2 DEF files, StartRun, DatabaseFails, Crash
  <2>3. ASSUME AppendRecord \/ Tick \/ (\E x \in Tips : Attest(x)) \/ UNCHANGED vars
        PROVE  proof' = proof
    BY <2>3 DEF files, vars, AppendRecord, Tick, Attest
  <2> QED BY <2>1, <2>2, <2>3 DEF Next
<1>3. CASE PowerLoss
  BY <1>3 DEF PowerLoss
<1>4. CASE \E x \in Tips : DamageProof(x)
  BY <1>1, <1>4 DEF DamageProof
<1>5. CASE \E w \in Workers : ReplaceProof(w)
  BY <1>1, <1>5 DEF ReplaceProof
<1> QED BY <1>2, <1>3, <1>4, <1>5

\* What the worker that updates row t knows of the row: it is one that was due, and
\* without overlap the row in hand is the row of the table.
LEMMA UpdaterKnows ==
    ASSUME IInv, NEW w \in Workers, NEW t \in Tips, job[w].tip = t,
           pc[w] \in {"resume"} \cup InTry
    PROVE  /\ Selected(job[w].row) /\ job[w].row \in Rows /\ row[t] \in Rows
           /\ pc[w] = "resume" => job[w].row.state = "retry_failed"
           /\ pc[w] \in InTry => job[w].row.state # "retry_failed"
           /\ pc[w] \in {"replace", "commit"} => got[w] \in {"pending", "bitcoin"}
           /\ alone => row[t] = job[w].row
<1>1. JobSound(w) /\ HandsSound(w) /\ AloneSound(w)
  BY DEF IInv, WorkerSound
<1>2. job[w] \in Jobs /\ row[t] \in Rows
  BY DEF IInv, TypeOK
<1>3. job[w].row \in Rows
  BY <1>2, JobsType
<1> QED BY <1>1, <1>2, <1>3 DEF JobSound, HandsSound, AloneSound, InTry

\* A row that is in the table changes only by the hand of such a worker.
LEMMA UpdaterExists ==
    ASSUME IInv, [Next]_vars, NEW t \in Tips, row'[t] # row[t], row[t] # NoRow
    PROVE  \E w \in Workers : Holds(w, t) /\ pc[w] \in {"resume"} \cup InTry
<1>1. PICK w \in Workers : Resumed(w, t) \/ Committed(w, t) \/ Failed(w, t)
  BY RowChanges DEF Inserted
<1>2. Holds(w, t) /\ pc[w] \in {"resume", "commit", "transient", "integrity"}
  BY <1>1 DEF Resumed, Committed, Failed
<1> QED BY <1>2 DEF InTry

\* Also with overlapping runs no UPDATE touches a row that is upgraded.
THEOREM UpgradedStays == Spec => UpgradedIsFinal
<1>1. ASSUME IInv, [Next]_vars, NEW t \in Tips, row[t].state = "upgraded_unverified"
      PROVE  row'[t] = row[t]
  <2>1. SUFFICES ASSUME row'[t] # row[t] PROVE FALSE
    OBVIOUS
  <2>2. row[t] # NoRow
    BY <1>1, RowFacts DEF NoRow
  <2>3. PICK w \in Workers : Holds(w, t) /\ pc[w] \in {"resume"} \cup InTry
    BY <1>1, <2>1, <2>2, UpdaterExists
  <2>4. job[w].tip = t /\ job[w].row.state = "upgraded_unverified"
    BY <1>1, <2>3 DEF Holds
  <2>5. Selected(job[w].row)
    BY <1>1, <2>3, <2>4, UpdaterKnows
  <2> QED BY <2>4, <2>5 DEF Selected
<1>2. ASSUME IInv, [Next]_vars
      PROVE  \A t \in Tips : row[t].state = "upgraded_unverified" => row'[t] = row[t]
  BY <1>1, <1>2
<1> QED BY <1>2, Invariant, PTL DEF Spec, UpgradedIsFinal

\* Without overlap a row moves only along its life cycle.
THEOREM RowsFollowLifeCycle == Spec => LifeCycle
<1> DEFINE Moves(t) ==
         CASE row[t].state = "absent"            -> row'[t].state = "queued"
           [] row[t].state = "queued"            -> row'[t].state # "absent"
           [] row[t].state = "submitted_pending" ->
                 row'[t].state \in {"upgraded_unverified", "retry_failed"}
           [] row[t].state = "retry_failed"      ->
                 row'[t].state = row[t].retry_from /\ row[t].failure_class = "transient"
           [] row[t].state = "upgraded_unverified" -> FALSE
<1>1. ASSUME IInv, [Next]_vars, NEW t \in Tips, alone, row'[t].state # row[t].state
      PROVE  Moves(t)
  <2>1. row'[t] # row[t]
    BY <1>1
  <2>2. CASE Inserted(t)
    <3>1. row[t].state = "absent" /\ row'[t].state = "queued"
      BY <2>2, RowFacts DEF NoRow, Inserted
    <3> QED BY <3>1
  <2>3. ASSUME NEW w \in Workers, Resumed(w, t) PROVE Moves(t)
    <3>1. /\ row[t].state = "retry_failed" /\ row[t].failure_class = "transient"
          /\ row[t] = job[w].row /\ row[t] \in Rows
      BY <1>1, <2>3, UpdaterKnows DEF Selected, Resumed, Holds
    <3>2. row'[t].state = row[t].retry_from
      BY <2>3, <3>1 DEF Rows, Resumed
    <3> QED BY <3>1, <3>2
  <2>4. ASSUME NEW w \in Workers, Committed(w, t) PROVE Moves(t)
    <3>1. row[t].state \in {"queued", "submitted_pending"} /\ got[w] \in {"pending", "bitcoin"}
      BY <1>1, <2>4, UpdaterKnows DEF Selected, InTry, Committed, Holds
    <3>2. row'[t].state \in {"upgraded_unverified", "submitted_pending"}
      BY <2>4, RowFacts DEF TargetState, Committed
    <3> QED BY <1>1, <3>1, <3>2
  <2>5. ASSUME NEW w \in Workers, Failed(w, t) PROVE Moves(t)
    <3>1. row[t].state \in {"queued", "submitted_pending"}
      BY <1>1, <2>5, UpdaterKnows DEF Selected, InTry, Failed, Holds
    <3>2. row'[t].state = "retry_failed"
      BY <2>5, RowFacts DEF Failed
    <3> QED BY <3>1, <3>2
  <2> HIDE DEF Moves
  <2> QED BY <1>1, <2>1, <2>2, <2>3, <2>4, <2>5, RowChanges
<1>2. ASSUME IInv, [Next]_vars
      PROVE  \A t \in Tips : alone /\ row'[t].state # row[t].state => Moves(t)
  BY <1>1, <1>2
<1> QED BY <1>2, Invariant, PTL DEF Spec, LifeCycle

\* Without overlap no step lowers an attempt count.
THEOREM AttemptsNeverFall == Spec => AttemptsRetained
<1>1. ASSUME IInv, [Next]_vars, NEW t \in Tips, alone
      PROVE  row'[t].attempt_count >= row[t].attempt_count
  <2>1. row[t] \in Rows /\ MaxAttempts \in Nat
    BY <1>1, AnchorAssumption DEF IInv, TypeOK
  <2>2. row[t].attempt_count \in 0 .. MaxAttempts
    BY <2>1, RowsType
  <2>3. CASE row'[t] = row[t]
    BY <2>1, <2>2, <2>3
  <2>4. CASE Inserted(t)
    <3>1. row[t].attempt_count = 0 /\ row'[t].attempt_count = 0
      BY <2>4, RowFacts DEF NoRow, Inserted
    <3> QED BY <3>1
  <2>5. ASSUME NEW w \in Workers, Resumed(w, t)
        PROVE  row'[t].attempt_count >= row[t].attempt_count
    <3>1. row'[t].attempt_count = row[t].attempt_count
      BY <2>1, <2>5 DEF Rows, Resumed
    <3> QED BY <2>1, <2>2, <3>1
  <2>6. ASSUME NEW w \in Workers, Committed(w, t)
        PROVE  row'[t].attempt_count >= row[t].attempt_count
    <3>1. row'[t].attempt_count = row[t].attempt_count
      BY <2>6, RowFacts DEF Committed
    <3> QED BY <2>1, <2>2, <3>1
  <2>7. ASSUME NEW w \in Workers, Failed(w, t)
        PROVE  row'[t].attempt_count >= row[t].attempt_count
    <3>1. row[t] = job[w].row
      BY <1>1, <2>7, UpdaterKnows DEF InTry, Failed, Holds
    <3>2. row'[t].attempt_count = Least(row[t].attempt_count + 1, MaxAttempts)
      BY <2>7, <3>1, RowFacts DEF Failed
    <3> QED BY <2>1, <2>2, <3>2 DEF Least
  <2> QED BY <1>1, <2>3, <2>4, <2>5, <2>6, <2>7, RowChanges
<1>2. ASSUME IInv, [Next]_vars
      PROVE  \A t \in Tips : alone => row'[t].attempt_count >= row[t].attempt_count
  BY <1>1, <1>2
<1> QED BY <1>2, Invariant, PTL DEF Spec, AttemptsRetained

\* Without overlap an integrity failure is left to the operator: neither its row nor
\* its proof file changes any more.
THEOREM IntegrityIsLeftAlone == Spec => IntegrityFailureStands
<1>1. ASSUME IInv, [Next]_vars, NEW t \in Tips, alone, row[t].failure_class = "integrity"
      PROVE  row'[t] = row[t] /\ proof'[t] = proof[t]
  <2>1. proof[t] = "damaged" /\ disk[t] = "damaged"
    BY <1>1 DEF IInv, TableSound, IntegrityIsDamage, DamageIsOnDisk
  <2>2. row[t].state = "retry_failed"
    BY <1>1 DEF IInv, TableSound, RowsSound, RowSound
  <2>3. ASSUME NEW w \in Workers, job[w].tip = t, pc[w] \in {"resume"} \cup InTry
        PROVE  FALSE
    BY <1>1, <2>2, <2>3, UpdaterKnows DEF Selected
  <2>4. row[t] # NoRow
    BY <2>2, RowFacts DEF NoRow
  <2>5. row'[t] = row[t]
    <3>1. SUFFICES ASSUME row'[t] # row[t] PROVE FALSE
      OBVIOUS
    <3>2. \E w \in Workers : job[w].tip = t /\ pc[w] \in {"resume"} \cup InTry
      BY <1>1, <2>4, <3>1, UpdaterExists DEF Holds
    <3> QED BY <2>3, <3>2
  <2>6. proof'[t] = proof[t]
    <3>1. SUFFICES ASSUME proof'[t] # proof[t] PROVE FALSE
      OBVIOUS
    <3>2. \E w \in Workers : job[w].tip = t /\ pc[w] \in {"resume"} \cup InTry
      BY <1>1, <2>1, <3>1, ProofChanges DEF InTry
    <3> QED BY <2>3, <3>2
  <2> QED BY <2>5, <2>6
<1>2. ASSUME IInv, [Next]_vars
      PROVE  \A t \in Tips : alone /\ row[t].failure_class = "integrity" =>
                row'[t] = row[t] /\ proof'[t] = proof[t]
  BY <1>1, <1>2
<1> QED BY <1>2, Invariant, PTL DEF Spec, IntegrityFailureStands

-----------------------------------------------------------------------------
(* Damaged proofs *)

\* A worker that has read a damaged proof is on its way to record that.
DamageInHand == \A w \in Workers : got[w] = "damaged" => pc[w] = "integrity"

\* A step of worker u: the others stay where they are, and what u has in its hands
\* afterwards is damaged only if it is about to say so.
OwnStep(u) == /\ \A v \in Workers \ {u} : pc'[v] = pc[v] /\ got'[v] = got[v]
              /\ got'[u] = "damaged" => pc'[u] = "integrity"

\* Both ends of a job leave the hands empty.
LEMMA HandsEmptied ==
    ASSUME TypeOK, NEW u \in Workers, Exit(u) \/ JobDone(u)
    PROVE  OwnStep(u)
<1>1. pc \in [Workers -> Labels] /\ got \in [Workers -> {"none", "pending", "bitcoin", "damaged"}]
  BY DEF TypeOK
<1>2. CASE Exit(u)
  BY <1>1, <1>2 DEF Exit, Goto, OwnStep
<1>3. CASE JobDone(u)
  BY <1>1, <1>3 DEF JobDone, Goto, OwnStep
<1> QED BY <1>2, <1>3

\* Every step of a worker is such a step.
LEMMA WorkersOwnSteps ==
    ASSUME TypeOK, DamageInHand, NEW u \in Workers,
           StartRun(u) \/ RunStep(u) \/ DatabaseFails(u) \/ Crash(u)
    PROVE  OwnStep(u)
<1>1. pc \in [Workers -> Labels] /\ got \in [Workers -> {"none", "pending", "bitcoin", "damaged"}]
  BY DEF TypeOK
<1>2. got[u] = "damaged" => pc[u] = "integrity"
  BY DEF DamageInHand
<1>3. ASSUME NEW l, Goto(u, l), got' = got, pc[u] # "integrity" PROVE OwnStep(u)
  BY <1>1, <1>2, <1>3 DEF Goto, OwnStep
<1>4. CASE TrackTip(u) \/ SelectDue(u) \/ NextJob(u) \/ StartRun(u)
  BY <1>3, <1>4 DEF TrackTip, SelectDue, NextJob, StartRun
<1>5. CASE ResumeRetry(u) \/ RereadRow(u) \/ EndRun(u) \/ StampMisconfigured(u) \/ Crash(u)
  BY <1>3, <1>5, HandsEmptied
  DEF ResumeRetry, RereadRow, EndRun, StampMisconfigured, Crash, workVars
<1>6. CASE StampFails(u) \/ UpgradeNotReady(u) \/ UpgradeFails(u) \/ CheckNoProof(u)
  BY <1>3, <1>6 DEF StampFails, UpgradeNotReady, UpgradeFails, CheckNoProof, workVars
<1>7. CASE ReplaceProof(u) \/ ReplaceFails(u)
  BY <1>3, <1>7 DEF ReplaceProof, ReplaceFails, workVars
<1>8. CASE Commit(u) \/ RecordFailure(u) \/ DatabaseFails(u)
  BY <1>3, <1>8, HandsEmptied DEF Commit, RecordFailure, DatabaseFails, workVars
<1>9. CASE StampSucceeds(u) \/ UpgradeSucceeds(u)
  BY <1>1, <1>2, <1>9 DEF StampSucceeds, UpgradeSucceeds, Goto, OwnStep
<1>10. CASE QueuedFindsProof(u)
  BY <1>1, <1>10 DEF QueuedFindsProof, InspectRaises, Goto, OwnStep
<1>11. CASE PendingReadsProof(u)
  BY <1>1, <1>11 DEF PendingReadsProof, AfterReading, Goto, OwnStep
<1> QED BY <1>4, <1>5, <1>6, <1>7, <1>8, <1>9, <1>10, <1>11 DEF RunStep

\* No step of anything else moves a worker, but for a power loss, which ends them all.
LEMMA OthersMoveNobody ==
    ASSUME AppendRecord \/ Tick \/ (\E t \in Tips : Attest(t) \/ DamageProof(t))
           \/ UNCHANGED vars
    PROVE  pc' = pc /\ got' = got
  BY DEF AppendRecord, Tick, Attest, DamageProof, vars, workVars

\* The invariant is kept.
LEMMA DamageStep ==
    ASSUME TypeOK, DamageInHand, [Next]_vars
    PROVE  DamageInHand'
<1>1. ASSUME NEW u \in Workers, OwnStep(u) PROVE DamageInHand'
  BY <1>1 DEF OwnStep, DamageInHand
<1>2. CASE PowerLoss
  BY <1>2 DEF PowerLoss, DamageInHand
<1>3. CASE pc' = pc /\ got' = got
  BY <1>3 DEF DamageInHand
<1> QED BY <1>1, <1>2, <1>3, WorkersOwnSteps, OthersMoveNobody DEF Next

\* A damaged proof that a run has read never goes into the retry path, with any
\* number of overlapping runs, deaths, database errors and power losses.
THEOREM DamageIsNeverRetried == Spec => DamageNeverRetried
<1> DEFINE Recorded(w) ==
        got[w] = "damaged" /\ pc'[w] # pc[w] /\ row'[job[w].tip] # row[job[w].tip] =>
            row'[job[w].tip].failure_class = "integrity"
<1>1. Init => DamageInHand
  BY DEF Init, DamageInHand
<1>2. Spec => []DamageInHand
  BY <1>1, DamageStep, TypeCorrect, PTL DEF Spec
<1>3. ASSUME IInv, DamageInHand, [Next]_vars, NEW w \in Workers PROVE Recorded(w)
  <2> SUFFICES ASSUME got[w] = "damaged", pc'[w] # pc[w],
                      row'[job[w].tip] # row[job[w].tip]
               PROVE  row'[job[w].tip].failure_class = "integrity"
    OBVIOUS
  <2>1. TypeOK /\ pc[w] = "integrity"
    BY <1>3 DEF IInv, DamageInHand
  <2>2. ~ PowerLoss
    BY DEF PowerLoss, dbVars
  <2>3. StartRun(w) \/ RunStep(w) \/ DatabaseFails(w) \/ Crash(w)
    <3>1. ASSUME NEW u \in Workers,
                 StartRun(u) \/ RunStep(u) \/ DatabaseFails(u) \/ Crash(u)
          PROVE  u = w
      BY <1>3, <2>1, <3>1, WorkersOwnSteps DEF OwnStep
    <3> QED BY <1>3, <2>2, <3>1, OthersMoveNobody DEF Next
  <2>4. RecordFailure(w)
    <3>1. ~ DatabaseFails(w) /\ ~ Crash(w)
      BY DEF DatabaseFails, Crash, dbVars
    <3> QED
      BY <2>1, <2>3, <3>1
      DEF RunStep, StartRun, TrackTip, SelectDue, EndRun, NextJob, ResumeRetry, RereadRow,
          QueuedFindsProof, StampSucceeds, StampFails, StampMisconfigured, CheckNoProof,
          PendingReadsProof, UpgradeNotReady, UpgradeSucceeds, UpgradeFails, ReplaceProof,
          ReplaceFails, Commit
  <2>5. job[w].tip \in Tips
    BY <1>3, <2>1 DEF IInv, WorkerSound, JobSound, InTry
  <2>6. row \in [Tips -> Rows]
    BY <2>1 DEF TypeOK
  <2>7. \E a, d : SetRow(job[w].tip, Row("retry_failed", job[w].row.state, pc[w], a), d)
    BY <2>4 DEF RecordFailure, dbVars
  <2>8. \E a : row'[job[w].tip] = Row("retry_failed", job[w].row.state, pc[w], a)
    BY <2>5, <2>6, <2>7 DEF SetRow
  <2> QED BY <2>1, <2>8, RowFacts
<1>4. ASSUME IInv, DamageInHand, [Next]_vars PROVE \A w \in Workers : Recorded(w)
  BY <1>3, <1>4
<1> QED BY <1>2, <1>4, Invariant, PTL DEF Spec, DamageNeverRetried
=============================================================================
