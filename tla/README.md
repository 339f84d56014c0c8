# VESTRIX: TLA+ models and proofs

TLA+ modules for the parts of VESTRIX that carry its evidence guarantees: the
signed hash chain and its keys, the mTLS collector that feeds it, the
OpenTimestamps worker that anchors its tip, the Rust verifier that audits both,
and the two SOC views of an alert. TLC checks them on small instances; TLAPS proves
their safety and action properties for every instance. `PROJECT.json` lists runs, mutants, the
map from definitions to source lines, hazards, findings and theorems.

## 1. Inventory

| Component | State | Operations | Talks to |
|---|---|---|---|
| Record format, `forensics/_format.py` | none | `validate_event`, `validate_stored_record`, `hash_unsigned_record` | called by the writer and both verifiers |
| Chain writer, `forensics/logger.py`, `_store.py` | `chain.jsonl`, `chain.jsonl.lock` | `log_event`: validate, lock, re-validate the whole chain, sign, write, flush, fsync | called by collector threads; shares the lock with verifier and anchor worker |
| Python verifier, `forensics/chain_check.py` | none | `verify_chain` under the same lock | reads the store |
| Rust verifier, `verifier-cli/` | none | `verify_path`, `verify_anchor` | reads store and proofs *without* the lock; Bitcoin Core RPC |
| Security state, `collector/.../server.py:33-116`, `__main__.py` | `_enrolled_nodes`, `_tls_context`; allow-list and CRL files; the reload task | load, install, SIGHUP | files of the operator; read by every handler |
| Ingest server, `collector/.../server.py`, `models.py`, `forensics.py` | `_last_sequences`, thread pool and its queue, sockets | accept, handshake, read, validate, reserve, hand off, decide | peers over mTLS; `log_event` |
| Anchor worker, `forensics/anchor_worker.py`, `anchor.py` | SQLite table `anchors`, `.ots` files | `run_once`: snapshot tip, track it, process due rows | chain lock; calendars; a timer or cron |
| Keys, `forensics/keys.py` | two key files | create, load, save | writer, verifiers |
| SOC mapper, `soc-integration/ocsf/mapper.py` | none | canonical alert to a Wazuh event and to an OCSF finding | its Wazuh event is read by the rules |
| Wazuh rules, `soc-integration/wazuh/rules/local_rules.xml` | the engine's memory of recent matches | raise an event to a level, correlate it with SSH anomalies | Wazuh manager |

What is hard in it, and what makes each part correct:

* **Chain.** Many writers, one file, no rollback. Lines can be torn by a death or
  a full disk, and a record can be in the file without being on the disk.
  Correct: every terminated line is valid in its place; what was acknowledged is
  durable and never changed; a torn tail stops all appends; a verifier never
  takes a running append for tampering; the lock is never leaked.
* **Security state.** Two files are read one after the other while the operator
  edits them, on a pool thread shared with the connections, and the result is
  installed later. Correct: a revocation in force stays in force; no list is in
  force without the revocations published before it, and a failed load changes nothing; a reload that was
  requested takes effect.
* **Ingest.** Handlers run in parallel with a copy of the security state that may
  be outdated. The replay check and the append are in different critical sections
  and the append may fail ambiguously. Correct: only authenticated, bound events
  reach the chain, none twice in one process life; accepted means durable; every
  connection is decided.
* **Anchor worker.** A proof file and a table row change in two steps, the process
  can die in between, and nothing excludes a second run. Correct: the row's label
  is backed by the proof file; rows follow the life cycle; integrity failures wait
  for a person; in the end every tip is anchored.

* **Rust verifier.** It reads a file that others append to, without their lock, and
  asks a node whose answers belong to different moments. Correct: a report covers
  all that was acknowledged before; an alarm never looks like tampering when there
  was none; a verified anchor was really that deep; one good attestation is enough.
* **Keys.** Two files, no transaction. Correct: a returned pair stays; nobody signs
  with a key whose public half was never published; one failure cannot leave halves
  of different keys.
* **SOC.** Two decision tables and a rule tree over the same alert. Correct: both
  views raise the same alerts, and what only OCSF flags is exactly what the rules
  suppress on purpose; the composite rule sees the measured confidence.

`PROJECT.json` "hazards" lists the individual hazards with their lines.

## 2. Modules

| Module | Models | Uses |
|---|---|---|
| `RecordFormat` | `_format.py`: schemas, validation, ideal digest and signature | |
| `EventLog` | abstract: what `log_event` promises its callers | |
| `ForensicChain` | `log_event`, `chain_tip`, `verify_chain`, deaths, power loss | `RecordFormat`, instance of `EventLog` |
| `ForensicChainProofs`, `ForensicChainRefinement` | theorems about `ForensicChain` | |
| `SecurityState` | allow-list, CRL, SIGHUP reload | |
| `Collector` | accept loop, pool, handlers, hand-off, stop, restart | extends `SecurityState`, `RecordFormat`; instance of `EventLog` |
| `AnchorWorker` | `run_once`, table, proof files, calendars | |
| `VerifierCli` | `vestrix-verify chain` and `anchor`, and a Bitcoin node | extends `ForensicChain` |
| `KeyPair` | `generate_and_save_keypair`, `load_private_key` | |
| `SocAlerts` | `mapper.py` and the Wazuh rules | |
| `SecurityStateProofs`, `CollectorProofs`, `AnchorWorkerProofs`, `VerifierCliProofs`, `KeyPairProofs`, `SocAlertsProofs` | theorems about the module of that name | `CollectorProofs` rests on `SecurityStateProofs`, `VerifierCliProofs` on `ForensicChainProofs` |
| `MCForensicChain`, `MCSecurityState`, `MCCollector`, `MCAnchorWorker`, `MCVerifierCli`, `MCSocAlerts` | instances for TLC | |

`Collector` does not contain the chain's file steps again. It is composed with
`EventLog`, and `ForensicChain` is proved to implement `EventLog`, so the two
halves meet at one interface.

Operators whose comment begins with "Variant:" are not part of the specification.
Each is a plausible bug in the definition that follows it; `PROJECT.json` "mutants"
pairs it with the property that must then fail.

### ForensicChain

The store is the sequence `lines` of terminated lines plus `tail`, what follows
the last LF. `WriteBytes` and `WriteRest` are the two halves of a write, `Fsync`
is a step of its own and `synced` counts the lines known to be on the disk.
`pc` follows `log_event` through `with lock`; every exit is `Leave`. A failed call
passes through "failed", still inside the lock, before it raises. `AppendFails`
covers open, write, flush and fsync: nothing is rolled back. `PowerLoss` keeps the
synced prefix and any beginning of the rest. A digest is the list of everything it
commits to (ideal hash); a signature names its key and its digest.

The mapping to `EventLog`: the log is the events of the lines; a call is
"appended" from the moment its LF is in the file until it returns or raises.

### SecurityState and Collector

A reload task goes through queued, reading, half (allow-list read), loaded and
done. `DropReload` is the SIGHUP that `request_reload` ignores. In `Collector` a
reload waits in the same FIFO queue as the connections. A handler's steps are cut
where another thread can run in between: the snapshot under `_security_state_lock`,
the handshake, the read, the reservation under `_sequence_lock`, the call of
`log_event`, its append, its return. A certificate is its common names and whether
the project CA signed it; a payload is its members, the malformed ones, its node and
its number. The two 64-bit limits 2^63 and 2^64 are the constants
`ForensicSeqLimit < CollectorSeqLimit`. `certRevoked` and `life` in log entries
are history for the properties, and so is `published`, the pairs of allow-list and
CRL that the operator has had on the disk. `Enrolled` is the allow-list at the start,
which need not name every node.

`phase` is the life of the process. `Stop` is the `finally` of `_run` (a reload in
progress is awaited first), `CloseListener` and `Stopped` are the two halves of
`close()`. `AcceptFails` is the `OSError` that ends the accept task: from then on
nothing is accepted, while handlers, reloads and the stop go on. Accept and the
creation of the connection's task are one step: that `close()` cancels the accept task
while an accepted socket is on its way to it (`server.py:148, 165-173`), which drops
the socket undecided, is left out.

### AnchorWorker

A row has state, retry source, failure class and attempt count; a proof file is
none, pending, bitcoin or damaged. A worker selects its due rows once (`jobs`) and
works on each row as it read it (`job`); `Unmoved` is the `WHERE state = ?` of the
UPDATEs. Time is relative: `wait` to a row's next attempt, `elapsed` since the
worker read its clock. The exception paths are labels: "transient" and "integrity"
lead to `RecordFailure`, a configuration error or an exception outside the try
ends the run. So does the overflow of the retry delay (`DelayOverflows`): the jitter
multiplies the uncapped power of two by a float, which raises from the 1016th attempt
on; `MaxAttempts` stands for the 1015 before it. A fresh submission carries a new nonce
and is pending; the branch for a stamp that reaches Bitcoin at once
(`anchor_worker.py:349`) is not taken. An upgrade merges answers into the proof that
was read, so it never takes an attestation away. `independently_verified` does not occur: no code in the repository
makes that transition.

`disk` is what a power loss leaves of a proof file: `os.replace` is not followed by
an fsync of the directory, so until the next `Tick` the old file, or none, may come
back. That a tick is long enough for the directory to reach the disk is an assumption
on the machine. `lost` names the tips whose label was left without its proof in that
way: the code does nothing against it, so the properties excuse them, and `alone` says that no two runs
have overlapped so far; properties that need one or the other say so.

### VerifierCli

The Rust reader beside the writers of `ForensicChain`: `ReadLine` looks at one line
with the expected sequence number, digest and version it carries in `cli`, and
`ReadEnd` sees whatever is in the file at that moment, a half-written line included.
`before` is the set of records acknowledged when the file was opened. For an anchor
the proof is the list of the attestations it reaches. The node's active chain is a
sequence of branch numbers; each RPC is a step, and blocks and reorganisations come
in between. A reorganisation replaces n blocks by n + 1, so the height never falls;
Bitcoin selects by work, and `VerifiedWasDeep` rests on this assumption.

The value rules of the two implementations are taken to be the same, and a line that
a writer wrote whole is taken to pass the comparison with its canonical
re-serialisation (`chain.rs:158-163`). The second is not certain: `serde_json` is built
without `float_roundtrip` (`Cargo.toml:19`), so a long float that Python wrote may be
read as its neighbour and the line refused. `AlarmNamesTheTail` speaks of interleaving
and faults only.

### KeyPair

One call is one caller and one key. `Half` is a file that was created and not yet
written. Errors of the private file raise outside the `try` and leave it; errors of
the public file remove the private one and leave the public one.

### SocAlerts

A confidence is in percent, so that both thresholds and the values just below them
exist. The rule engine is external: children of a matching rule are tried by falling
level, the first match is final and only its own children are tried next. The saved
`wazuh-logtest` evidence shows this order for 100202 before 100201.

## 3. Runs

| Run | Question | Answer |
|---|---|---|
| `chain` | two writers, a verifier, two keys, two faults | holds: `ChainWellFormed`, `AckedDurable`, `NoFalseAlarm`, `DamagedStoreIsFrozen`, `SyncedPrefixKept`, `ImplementsEventLog`, `CallEnds`, `LockIsReleased` |
| `ingest` | three connections on two threads, good and bad certificates and payloads, one restart | holds: `NoReplayInLife`, `AcceptedIsDurable`, `OvertakingBounded`, `ChainedInRange` |
| `reload` | connections of a node that is not enrolled at first, edits, SIGHUPs, a failing load, a failing accept and a stop compete for the pool; peers may stall | holds: `HandOffIsAuthenticated`, `InstalledPairConsistent`, `RevokedNeverLogged`, `StoppedIsDrained`, `RevocationSticks`, `EveryConnectionDecided`, `ReloadIsServed`, `ShutdownEnds` |
| `anchor` | two workers that may overlap, a fault, a damaged file, a power loss | holds without overlap: `ProofBacksState`, `LifeCycle`, `IntegrityFailureStands`, `AttemptsRetained`; with it: `SubmittedHasProof`, `DamageNeverRetried`, `UpgradedIsFinal` |
| `anchor_live` | two tips, one fault | holds: `EventuallyAnchored` |
| `verifier_cli` | two writers, three calls, two keys, a fault; a node with up to four blocks and one reorganisation | holds: `ReportCoversAcknowledged`, `AlarmNamesTheTail`, `VerifiedWasDeep`, `GoodBranchIsEnough` |
| `keys` | three calls, three faults, leftover files | holds: `ReturnedPairStays`, `SignerHasPublicHalf`, `MixedPairNeedsTwoFaults` |
| `soc` | every combination of the members the rules read, around the timeframe | holds: `ViewsAgree`, `EscalationExact` |
| `sighup_lost` | is every SIGHUP served? | no: `SignalTakesEffect` |
| `rejected_logged` | are rejected events kept out of the chain? | no: `RejectedNotLogged` |
| `anchor_proof_lost` | does an upgraded row have a Bitcoin proof when runs overlap? | no: `UpgradedReachesBitcoin` |
| `soc_masked` | does a correlated high-confidence intrusion always escalate? | no: `CorrelatedIntrusionEscalates` |

The four "no" runs state a sentence of the repository's documentation;
`PROJECT.json` "findings" quotes it and says what the code does instead.

Three more sentences of the documentation are not quite what the code does. ADR 0002
(`docs/adr/0002-opentimestamps-lifecycle.md:207-210`) demands that a successful Rust
anchor verdict "authenticate the complete forensic chain" first. `verify_anchor` takes
no key and reads the last line as it is (`read_tip_without_authentication`,
`anchor.rs:195-230`), and `verifier-cli/README.md:79` leaves the authentication to an
earlier `chain` command. `VerifyAnchor` follows the code; no run asks the question, as
its answer is in the one definition `TipReadable`. For the other two, the properties of
`ingest` say what the code does instead. `docs/threat-model.md:124` speaks of
strictly increasing numbers: the hand-off is outside `_sequence_lock`, so two handlers
that are past the check at the same time may append in either order, and
`OvertakingBounded` says that nothing else can overtake. `forensics/CHAIN_FORMAT.md:37`
gives the counter's range as `0..2^63-1`: the collector reserves numbers up to 2^64-1,
which the chain then refuses, and `ChainedInRange` says that they stay out of it.

**Bounds.** They are constants, named where they are declared. Two writers and one
verifier give every pair of interfering callers; two faults give a failure during
the recovery from another; four calls give a chain of three records or more and a
refused one. `ForensicSeqLimit` is 1 there, and 3 below a `CollectorSeqLimit`
of 4 in `ingest`, so that a number at each side of both limits exists and a record can
be overtaken; the other collector runs do not look at the limits and have 2. `reload`
starts with an allow-list that lacks the connecting node and has two edits: one that
enrols it and one that revokes its certificate, in either order with the loads. Three connections on two threads give
two racing handlers and one that waits. Two tips give the worker a backlog.
`BackoffBase` and `BackoffMax` 4 in `anchor` make the delay with jitter (5) differ from
the one without, and the cap bind at attempt 2; `MaxAttempts` 2 brings the overflow
at the third. In `anchor_live`, which is about progress, both are 1.
Deadlock is not checked: an idle system, or one whose bounded faults and calls are
used up, may stop (in `soc` it is checked: there is always a next alert). `keys` needs
three faults, one more than the two that leave a mixed pair. `verifier_cli` has two
confirmations for the code's six and heights on both sides of them, and proofs with a
stale, a future and a good attestation in one list; it and `anchor` use symmetry among
writers or workers and check no liveness.

**Fairness.** In `chain`, the steps of a writer's or a verifier's own thread, with
the lock timeout among them; never a new call or a fault. In `reload`, the
pool threads, the two steps of `close()`, the installation of a loaded state, and the steps a handler takes
without its peer: handshake and read have socket timeouts
(`server.py:182, 228`), and `log_event` ends (`CallEnds`). No peer is assumed to
do anything. In `anchor_live`, the timer keeps starting runs
(`deploy/systemd/vestrix-anchor.timer`), a started run goes on, time passes, blocks
are found, and a calendar or a disk that is tried for the same tip again and again
succeeds at some time; without that last assumption no retry loop can be live. So
`EventuallyAnchored` says nothing of a calendar that fails for good and takes the
others' answers with it (`anchor.py:184`).

**What overlapping runs do not keep.** Without `alone` in them `ProofBacksState`, `LifeCycle`,
`IntegrityFailureStands` and `AttemptsRetained` all have
counterexamples in the run `anchor`: proof files are replaced without a guard, and `resume_retry`
checks only that the state is still `retry_failed`. So a worker that selected a
transient failure can resume a row on which another has just recorded an integrity
failure, or write back an old retry source and attempt count. The reference
systemd unit never overlaps with itself; cron, which ADR 0002 allows, may.

## 4. Proofs

Every invariant and every action property that a passing run checks is also a
theorem: for every value of the constants, so for any number of writers, pool
threads, workers, tips, nodes, certificates, calls and faults. Each was found to
hold by TLC first, and so was each inductive invariant, on a small instance.

| Module | Theorem | Statement |
|---|---|---|
| `ForensicChainProofs` | `TypeCorrect` | `Spec => []TypeOK` |
| | `ChainStaysWellFormed` | `Spec => []ChainWellFormed` |
| | `AcknowledgedIsDurable` | `Spec => []AckedDurable` |
| | `VerifierIsSound` | `Spec => []NoFalseAlarm` |
| | `SyncedPrefixIsKept` | `Spec => SyncedPrefixKept` |
| | `TornTailStopsAppends` | `Spec => DamagedStoreIsFrozen` |
| `ForensicChainRefinement` | `RefinesEventLog` | `Spec => ImplementsEventLog` |
| `SecurityStateProofs` | `RevocationsStick` | `SecSpec => RevocationSticks` |
| | `InstalledTogether` | `SecSpec => []InstalledPairConsistent` |
| `CollectorProofs` | `TypeCorrect` | `Spec => []TypeOK` |
| | `HandOffsAreAuthenticated` | `Spec => []HandOffIsAuthenticated` |
| | `RevokedIsNeverChained` | `Spec => []RevokedNeverLogged` |
| | `NoNumberTwice` | `Spec => []NoReplayInLife` |
| | `AcceptMeansRecord` | `Spec => []AcceptedIsDurable` |
| | `ChainRangeKept` | `Spec => []ChainedInRange` |
| | `CloseDrains` | `Spec => []StoppedIsDrained` |
| | `CollectorSecurityState` | `Spec => RevocationSticks /\ []InstalledPairConsistent` |
| | `OvertakingIsBounded` | `Spec => []OvertakingBounded` |
| `AnchorWorkerProofs` | `TypeCorrect` | `Spec => []TypeOK` |
| | `SubmittedKeepsProof` | `Spec => []SubmittedHasProof` |
| | `LabelIsBacked` | `Spec => []ProofBacksState` |
| | `UpgradedStays` | `Spec => UpgradedIsFinal` |
| | `RowsFollowLifeCycle` | `Spec => LifeCycle` |
| | `AttemptsNeverFall` | `Spec => AttemptsRetained` |
| | `IntegrityIsLeftAlone` | `Spec => IntegrityFailureStands` |
| | `DamageIsNeverRetried` | `Spec => DamageNeverRetried` |
| `VerifierCliProofs` | `ReportIsComplete` | `CliSpec => []ReportCoversAcknowledged` |
| | `AppendIsNoTampering` | `CliSpec => []AlarmNamesTheTail` |
| | `VerifiedIsDeep` | `CliSpec => []VerifiedWasDeep` |
| | `OneGoodBranchSuffices` | `CliSpec => []GoodBranchIsEnough` |
| `KeyPairProofs` | `ReturnedPairIsKept` | `Spec => []ReturnedPairStays` |
| | `SignerIsPublished` | `Spec => []SignerHasPublicHalf` |
| | `OneFaultLeavesNoMixedPair` | `Spec => []MixedPairNeedsTwoFaults` |
| `SocAlertsProofs` | `TheTwoViewsAgree` | `Spec => []ViewsAgree` |
| | `EscalationIsExact` | `Spec => []EscalationExact` |

**Assumptions.** The constants satisfy the named assumptions of the modules that
declare them, and nothing else: bounds are natural numbers, `NONE`, `OLD` and
`GARBLED` are not values of the sets they stand beside, `ForensicSeqLimit` is the
smaller of the two limits, `BackoffBase <= BackoffMax`, the first allow-list is not empty
(`SecAssumption`: the loader refuses an empty one), a certificate has a list
of names and is trusted or not, and the pool is finite (`CollectorAssumption`).
`PowersOfTwo` in `AnchorWorker` says that 2^n is a natural number for the attempts
that are counted; the provers have no axiom for exponentiation.

**Chain.** None of the invariants is inductive alone. `IInv` adds: `Exclusion` (who is inside
the critical section holds the lock), `EventChecked` (an event past `validate_event`
is valid), `TailOwned` (no tail when a line is begun, the writer's own beginning
while it is written, and an abandoned one only after a fault), `SignedFits` (a signed record fits the
tip it was made for, as long as its line is not written), `WrittenIsLast` (a
written record is the last line, so fsync covers it), and `LinesSigned` (each line
is a signed record). The argument: the lock makes the tip stable between
`chain_tip` and the write, validation makes the tail empty when a line is begun, so
the appended line is exactly the signed record and extends a valid chain; fsync
comes before the return, so an acknowledged record is below `synced`, which power
loss respects. The refinement follows with the same invariant, action by action.

**Security state.** `SecInv` adds `OneReload` (the guard of `request_reload`) and
`ReadIsCurrent`: what a task has read of the CRL is no older than memory and no newer
than the file. With two tasks at a time the second half fails, and with it the
theorem. It also says that the list a task has read may be used with the CRL it has read
or will read, and `FilesKnown` that the files as they are were published: together
they give `InstalledPairConsistent` when a load that read the list before an edit and
the CRL after it is installed. The lemmas say of each action that it keeps `SecInv` and takes no revocation
back, so that `CollectorProofs` can use them for the same actions on the shared pool.

**Collector.** `IInv` follows a connection: `ConnectionInOnePlace` (in the queue or
on one thread until its one decision), `PeerAdmitted` (past the handshake the peer is
one that the handler's own snapshot admits, past `_validate` the payload is bound to
it), `RevocationKnown` (what was revoked at the accept is revoked in every later
snapshot, by `RevocationSticks`), `LogTyped` and `OneRecordEach` (the open call of a
handler is for its own payload; no connection has two records), and
`NumbersReserved`: every number that is in the log of this life, or reserved and on
its way there, is at most `last_sequences` of its node, and no two are the same. The
last one carries `NoReplayInLife` through the gap between `_sequence_lock` and the
append. `UndecidedIsSomewhere` gives `StoppedIsDrained`. `SnapshotTogether` carries
`InstalledPairConsistent` over to the handlers' snapshots, which is the last part of
`HandOffIsAuthenticated`. `OvertakingInv` counts, for
each record, the smaller numbers behind it and the handlers that are still late for
it: together fewer than threads. A late handler that appends moves from one count to
the other, and no new one can come up, because a new reservation is above every
number that was reserved before.

**Anchor worker.** `IInv` says what is true with any overlap: rows are sound
(`RowsSound`), a worker holds distinct due rows (`JobsSound`, `JobSound`), and every
label past submission, in the table or stale in a worker's hands, has a proof file
unless a power loss took it (`LabelsHaveProof`, `HandsSound`); that is inductive
because no step of any worker removes a proof file. What needs `alone` is in
`AloneSound`: the rows in hand are those of the table, the file is the one the worker
saw or wrote, or damaged since. `DamageIsOnDisk` and `IntegrityIsDamage` make an
integrity failure survive a power loss. `RowChanges` and `ProofChanges` then list the
four ways in which a row and the three in which a file can change, and every action
property follows from these lists. `DueJobs` numbers the due rows by their rank; that
every rank is taken once (`RankHit`, `DueJobsFacts`) uses that a non-empty set of
naturals has a least element, from the library's theorem on well-founded relations.
`RetryDelayBounded` bounds the backoff for every attempt. `DamageInHand`, an invariant
of its own, says that a worker with damaged bytes in hand is about to record an
integrity failure; `DamageNeverRetried` follows, since only its own step moves it.

**Rust verifier.** The store keeps the chain's `IInv`, as the command changes nothing.
`ReadPosition` says that what the reader expects next is what follows the lines it has
passed, so a refused line can only be one of another key; `ReadAllBefore` that it has
passed what was acknowledged when it began. For anchors, `AnswerIsDeep` holds since the
chain never gets shorter than the height that was read, and `GoodBranchAhead` keeps a
settled attestation ahead of the one in hand as long as nothing reorganises.

**Keys.** `PrivateOwned` and `PublicOwned` tie each file to the one call that created
it with `O_EXCL`; `NothingFailed`, `KeyHasCall`, `OldStaysAlone` and `MixedIsPassing`
say what zero or one failure leaves true: halves that differ belong to a call that is
still on its way to remove the private one.

**SOC.** `FinalRuleByCases` shows that the engine's search is deterministic and which
rule it ends in; `SeverityByCases` does the same for the mapper, and the theorems
compare the two.

**Only model-checked**: liveness under fairness, which this prover does not reach
(`CallEnds`, `LockIsReleased`, `EveryConnectionDecided`, `ReloadIsServed`,
`ShutdownEnds`, `EventuallyAnchored`), and the four runs that end in a counterexample.

## 5. Not modelled

The content of JSON values, dates, digests and floats (abstracted to "breaks its
rule or not"), and with it canonical JSON (`canonical.rs`), the float formatting
checks, and the byte parser of OTS proofs (abstracted to the attestations it finds);
TLS and Wazuh themselves; the SQLite engine (a statement commits or raises);
argument parsing, configuration, log formatting; `anchor_chain_tip`, a one-shot
helper whose parts (tip under the lock, stamp, write without replace) are those of
the worker. The directory entry of a new store is taken to be durable with its first
fsync, and a successful fsync to cover also pages whose own fsync failed before.
`firmware`, `pipeline`, `ml` and `dataset` hold no code.

## 6. Plan

The safety of every module is proved. What is left: that the handlers' calls of
`log_event` in `Collector` are steps of `EventLog` (they are its actions by
construction; the theorem would say so of whole behaviours), what overlapping runs of
the anchor worker keep beyond `SubmittedHasProof` and `UpgradedIsFinal`, and facts
about `RecordFormat` that the chain proofs now only use.
