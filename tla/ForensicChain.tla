---------------------------- MODULE ForensicChain ----------------------------
(***************************************************************************)
(* The signed, hash-linked JSONL store: log_event (forensics/logger.py),    *)
(* the validation that precedes every append (forensics/_store.py) and      *)
(* verify_chain (forensics/chain_check.py).                                 *)
(*                                                                         *)
(* Writers are the threads and processes that call log_event; Verifiers run *)
(* verify_chain.  Both serialise on the sidecar file lock.  A line reaches  *)
(* the file in two steps, so a failure or a death in between leaves an      *)
(* unterminated tail; fsync is a step of its own, so a record may be in the *)
(* file and not yet on the disk.                                            *)
(***************************************************************************)
EXTENDS RecordFormat, SequencesExt

CONSTANTS
    Writers,      \* callers of log_event
    Verifiers,    \* callers of verify_chain
    Events,       \* what a caller may hand to log_event
    SigningKeys,  \* the keys a caller's signer may hold
    PublicKey,    \* the key the verifiers were given
    GARBLED,      \* a terminated line that no writer wrote whole
    NONE,         \* no holder, no event, no record
    MaxCalls,     \* bound: calls of log_event
    MaxFaults     \* bound: I/O errors, deaths and power losses

ASSUME ChainAssumption ==
    /\ NONE \notin Writers \cup Verifiers \cup Events
    /\ Writers \cap Verifiers = {}
    /\ PublicKey \in SigningKeys
    /\ MaxCalls \in Nat /\ MaxFaults \in Nat

VARIABLES
    lines,    \* the LF-terminated lines of the store
    tail,     \* what follows the last LF: nothing, the beginning of one
              \* record, or bytes of more than one
    synced,   \* how many lines are known to be on the disk
    lock,     \* holder of chain.jsonl.lock
    pc,       \* per writer and verifier: where it is in its call
    event,    \* per writer: the validated event of its call
    rec,      \* per writer: the record it signed
    acked,    \* records whose log_event returned
    verdict,  \* per verifier: the outcome of its last verify_chain
    calls, faults

fileVars == <<lines, tail, synced>>
vars == <<lines, tail, synced, lock, pc, event, rec, acked, verdict, calls, faults>>

Digests == Seq([event : Events, seq : Nat])
Signatures == [key : SigningKeys, over : Digests]
Records == [event : Events, seq : Nat, prev_hash : Digests,
            record_hash : Digests, signature : Signatures]

ASSUME GarbledAssumption == GARBLED \notin Records /\ NONE \notin Records

Critical == {"locked", "signed", "writing", "written", "synced", "failed"}
WriterPC == {"idle", "waiting"} \cup Critical
VerifierPC == {"idle", "waiting", "locked", "done"}

Init == /\ lines = << >> /\ tail = "empty" /\ synced = 0
        /\ lock = NONE
        /\ pc = [p \in Writers \cup Verifiers |-> "idle"]
        /\ event = [w \in Writers |-> NONE]
        /\ rec = [w \in Writers |-> NONE]
        /\ acked = {}
        /\ verdict = [v \in Verifiers |-> "none"]
        /\ calls = 0 /\ faults = 0

-----------------------------------------------------------------------------
(* iter_validated_records and chain_tip *)

TipHash == IF lines = << >> THEN GENESIS_PREV_HASH
           ELSE lines[Len(lines)].record_hash

\* One line as the strict reader sees it: it parses as a valid record in the
\* format version of the first line, and its sequence number, link and digest
\* are the expected ones.  Signatures are not looked at.
GoodLine(i) ==
    /\ lines[i] # GARBLED
    /\ validate_event(lines[i].event)
    /\ record_format_version(lines[i].event) = record_format_version(lines[1].event)
    /\ lines[i].seq = i - 1
    /\ lines[i].prev_hash = (IF i = 1 THEN GENESIS_PREV_HASH
                             ELSE lines[i-1].record_hash)
    /\ lines[i].record_hash = hash_unsigned_record(lines[i])

\* Variant: the last line is not required to end in LF.
IterTornTailAllowed == \A i \in 1 .. Len(lines) : GoodLine(i)

iter_validated_records == /\ \A i \in 1 .. Len(lines) : GoodLine(i)
                          /\ tail = "empty"

\* chain_tip succeeds only on a valid store of the version about to be written.
ChainTipFor(version) ==
    /\ iter_validated_records
    /\ \A i \in 1 .. Len(lines) : record_format_version(lines[i].event) = version

\* Variant: chain_tip starts from -1 and returns the last sequence number, not the next.
NewRecordLastSeq(e, key) ==
    LET u == [event |-> e, seq |-> Len(lines) - 1, prev_hash |-> TipHash]
    IN  [event |-> e, seq |-> u.seq, prev_hash |-> u.prev_hash,
         record_hash |-> hash_unsigned_record(u), signature |-> Sign(key, u)]

\* The record for event e after the present tip, signed with key.
NewRecord(e, key) ==
    LET u == [event |-> e, seq |-> Len(lines), prev_hash |-> TipHash]
    IN  [event |-> e, seq |-> u.seq, prev_hash |-> u.prev_hash,
         record_hash |-> hash_unsigned_record(u), signature |-> Sign(key, u)]

-----------------------------------------------------------------------------
(* log_event *)

Goto(p, label) == pc' = [pc EXCEPT ![p] = label]

\* Variant: an exit path that forgets the lock.
LeaveLocked(w) == /\ pc' = [pc EXCEPT ![w] = "idle"]
                  /\ event' = [event EXCEPT ![w] = NONE]
                  /\ rec' = [rec EXCEPT ![w] = NONE]
                  /\ UNCHANGED lock

\* The call ends, normally or not: `with lock` releases the lock if it is held.
Leave(w) == /\ pc' = [pc EXCEPT ![w] = "idle"]
            /\ event' = [event EXCEPT ![w] = NONE]
            /\ rec' = [rec EXCEPT ![w] = NONE]
            /\ lock' = IF lock = w THEN NONE ELSE lock

\* validate_event raises on a bad event before anything is touched.
LogEvent(w, e) ==
    /\ pc[w] = "idle" /\ calls < MaxCalls
    /\ calls' = calls + 1
    /\ IF validate_event(e)
       THEN /\ Goto(w, "waiting")
            /\ event' = [event EXCEPT ![w] = e]
       ELSE UNCHANGED <<pc, event>>
    /\ UNCHANGED <<fileVars, lock, rec, acked, verdict, faults>>

\* Variant: the lock is not exclusive.
AcquireLockShared(w) ==
    /\ pc[w] = "waiting"
    /\ lock' = w
    /\ Goto(w, "locked")
    /\ UNCHANGED <<fileVars, event, rec, acked, verdict, calls, faults>>

AcquireLock(w) ==
    /\ pc[w] = "waiting" /\ lock = NONE
    /\ lock' = w
    /\ Goto(w, "locked")
    /\ UNCHANGED <<fileVars, event, rec, acked, verdict, calls, faults>>

\* Variant: FileLock without a timeout.
LockTimeoutNever(w) == FALSE

\* filelock.Timeout after LOCK_TIMEOUT_SECONDS of waiting for another holder.
LockTimeout(w) ==
    /\ pc[w] = "waiting" /\ lock # NONE
    /\ Leave(w)
    /\ UNCHANGED <<fileVars, acked, verdict, calls, faults>>

\* chain_tip, hash_unsigned_record and signer.sign.
ChainTip(w, key) ==
    /\ pc[w] = "locked"
    /\ ChainTipFor(record_format_version(event[w]))
    /\ rec' = [rec EXCEPT ![w] = NewRecord(event[w], key)]
    /\ Goto(w, "signed")
    /\ UNCHANGED <<fileVars, lock, event, acked, verdict, calls, faults>>

\* StoreError becomes AppendError: refusing to append to an invalid chain.
RefuseInvalidChain(w) ==
    /\ pc[w] = "locked"
    /\ ~ ChainTipFor(record_format_version(event[w]))
    /\ Goto(w, "failed")
    /\ UNCHANGED <<fileVars, lock, event, rec, acked, verdict, calls, faults>>

\* The signer raises, or returns something that is not 64 bytes.
SignerFails(w) ==
    /\ pc[w] = "locked" /\ faults < MaxFaults
    /\ ChainTipFor(record_format_version(event[w]))
    /\ Goto(w, "failed")
    /\ faults' = faults + 1
    /\ UNCHANGED <<fileVars, lock, event, rec, acked, verdict, calls>>

\* store.write and store.flush: first some bytes of the line reach the file ...
WriteBytes(w) ==
    /\ pc[w] = "signed"
    /\ tail' = IF tail = "empty" THEN "prefix" ELSE "mixed"
    /\ Goto(w, "writing")
    /\ UNCHANGED <<lines, synced, lock, event, rec, acked, verdict, calls, faults>>

\* Variant: the store is opened with "wb".
WriteRestTruncating(w) ==
    /\ pc[w] = "writing"
    /\ lines' = <<rec[w]>>
    /\ synced' = 0
    /\ tail' = "empty"
    /\ Goto(w, "written")
    /\ UNCHANGED <<lock, event, rec, acked, verdict, calls, faults>>

\* ... then the rest of them, the LF included.
WriteRest(w) ==
    /\ pc[w] = "writing"
    /\ lines' = Append(lines, IF tail = "prefix" THEN rec[w] ELSE GARBLED)
    /\ tail' = "empty"
    /\ Goto(w, "written")
    /\ UNCHANGED <<synced, lock, event, rec, acked, verdict, calls, faults>>

\* Variant: flush without fsync.
FsyncSkipped(w) ==
    /\ pc[w] = "written"
    /\ Goto(w, "synced")
    /\ UNCHANGED <<fileVars, lock, event, rec, acked, verdict, calls, faults>>

\* Everything before the file's end is on the disk now.  That this includes pages
\* whose own fsync failed earlier is an assumption: a kernel may drop such pages.
Fsync(w) ==
    /\ pc[w] = "written"
    /\ synced' = Len(lines)
    /\ Goto(w, "synced")
    /\ UNCHANGED <<lines, tail, lock, event, rec, acked, verdict, calls, faults>>

\* Variant: an OSError makes the writer try the same line again.
AppendFailsRetried(w) ==
    /\ pc[w] \in {"signed", "writing", "written"} /\ faults < MaxFaults
    /\ Goto(w, "signed")
    /\ faults' = faults + 1
    /\ UNCHANGED <<fileVars, lock, event, rec, acked, verdict, calls>>

\* open, write, flush or fsync raises OSError.  What is in the file stays there:
\* nothing, a part of the line, or all of it.  (A close that fails after the fsync is
\* like a failed fsync to the caller, with a record that is on the disk.)
AppendFails(w) ==
    /\ pc[w] \in {"signed", "writing", "written"} /\ faults < MaxFaults
    /\ Goto(w, "failed")
    /\ faults' = faults + 1
    /\ UNCHANGED <<fileVars, lock, event, rec, acked, verdict, calls>>

ReturnRecord(w) ==
    /\ pc[w] = "synced"
    /\ acked' = acked \cup {rec[w]}
    /\ Leave(w)
    /\ UNCHANGED <<fileVars, verdict, calls, faults>>

RaiseAppendError(w) ==
    /\ pc[w] = "failed"
    /\ Leave(w)
    /\ UNCHANGED <<fileVars, acked, verdict, calls, faults>>

\* The writer's process dies; the kernel drops its lock, the file stays as it is.
Die(w) ==
    /\ pc[w] # "idle" /\ faults < MaxFaults
    /\ Leave(w)
    /\ faults' = faults + 1
    /\ UNCHANGED <<fileVars, acked, verdict, calls>>

\* Everything stops.  Of what was not fsynced any beginning survives, and the
\* cut may fall inside a line.
PowerLoss ==
    /\ faults < MaxFaults
    /\ faults' = faults + 1
    /\ \E n \in synced .. Len(lines) :
          /\ lines' = SubSeq(lines, 1, n)
          /\ synced' = n
          /\ tail' \in {"empty", IF n < Len(lines) THEN "prefix" ELSE tail}
    /\ lock' = NONE
    /\ pc' = [p \in Writers \cup Verifiers |-> "idle"]
    /\ event' = [w \in Writers |-> NONE]
    /\ rec' = [w \in Writers |-> NONE]
    /\ verdict' = [v \in Verifiers |-> "none"]
    /\ UNCHANGED <<acked, calls>>

-----------------------------------------------------------------------------
(* verify_chain *)

\* A file that an append created and left empty is not told from no file: it is a
\* valid chain of no records, and its verification would say nothing.
StoreExists == lines # << >> \/ tail # "empty"

VerifyChain(v) ==
    /\ pc[v] = "idle" /\ StoreExists
    /\ Goto(v, "waiting")
    /\ verdict' = [verdict EXCEPT ![v] = "none"]
    /\ UNCHANGED <<fileVars, lock, event, rec, acked, calls, faults>>

\* Variant: the verifier reads without the writers' lock.
VerifierReadsUnlocked(v) ==
    /\ pc[v] = "waiting"
    /\ Goto(v, "locked")
    /\ UNCHANGED <<fileVars, lock, event, rec, acked, verdict, calls, faults>>

VerifierAcquires(v) ==
    /\ pc[v] = "waiting" /\ lock = NONE
    /\ lock' = v
    /\ Goto(v, "locked")
    /\ UNCHANGED <<fileVars, event, rec, acked, verdict, calls, faults>>

VerifierTimeout(v) ==
    /\ pc[v] = "waiting" /\ lock # NONE
    /\ Goto(v, "idle")
    /\ UNCHANGED <<fileVars, lock, event, rec, acked, verdict, calls, faults>>

SignaturesVerify == \A i \in 1 .. Len(lines) : lines[i].signature = Sign(PublicKey, lines[i])

CheckRecords(v) ==
    /\ pc[v] = "locked"
    /\ verdict' = [verdict EXCEPT ![v] =
                     IF iter_validated_records /\ SignaturesVerify THEN "valid" ELSE "invalid"]
    /\ Goto(v, "done")
    /\ UNCHANGED <<fileVars, lock, event, rec, acked, calls, faults>>

VerifierReturns(v) ==
    /\ pc[v] = "done"
    /\ lock' = NONE
    /\ Goto(v, "idle")
    /\ UNCHANGED <<fileVars, event, rec, acked, verdict, calls, faults>>

-----------------------------------------------------------------------------
WriterStep(w) ==
    \/ \E e \in Events : LogEvent(w, e)
    \/ AcquireLock(w) \/ LockTimeout(w)
    \/ \E key \in SigningKeys : ChainTip(w, key)
    \/ RefuseInvalidChain(w) \/ SignerFails(w)
    \/ WriteBytes(w) \/ WriteRest(w) \/ Fsync(w) \/ AppendFails(w)
    \/ ReturnRecord(w) \/ RaiseAppendError(w)
    \/ Die(w)

VerifierStep(v) ==
    \/ VerifyChain(v) \/ VerifierAcquires(v) \/ VerifierTimeout(v)
    \/ CheckRecords(v) \/ VerifierReturns(v)

Next == \/ \E w \in Writers : WriterStep(w)
        \/ \E v \in Verifiers : VerifierStep(v)
        \/ PowerLoss

Spec == Init /\ [][Next]_vars

\* What a writer's own thread does once it is called.  The environment's choices
\* (a new call, an I/O error, a death) are not among them.
WriterProgress(w) ==
    \/ AcquireLock(w) \/ LockTimeout(w)
    \/ \E key \in SigningKeys : ChainTip(w, key)
    \/ RefuseInvalidChain(w)
    \/ WriteBytes(w) \/ WriteRest(w) \/ Fsync(w)
    \/ ReturnRecord(w) \/ RaiseAppendError(w)

VerifierProgress(v) ==
    VerifierAcquires(v) \/ VerifierTimeout(v) \/ CheckRecords(v) \/ VerifierReturns(v)

\* Threads are scheduled, and the lock wait is bounded by its timeout.
Fairness == /\ \A w \in Writers : WF_vars(WriterProgress(w))
            /\ \A v \in Verifiers : WF_vars(VerifierProgress(v))

FairSpec == Spec /\ Fairness

-----------------------------------------------------------------------------
(* Properties *)

\* Every variable has its type.
TypeOK ==
    /\ lines \in Seq(Records \cup {GARBLED})
    /\ tail \in {"empty", "prefix", "mixed"}
    /\ synced \in 0 .. Len(lines)
    /\ lock \in Writers \cup Verifiers \cup {NONE}
    /\ pc \in [Writers \cup Verifiers -> WriterPC \cup VerifierPC]
    /\ \A w \in Writers : pc[w] \in WriterPC
    /\ \A v \in Verifiers : pc[v] \in VerifierPC
    /\ event \in [Writers -> Events \cup {NONE}]
    /\ rec \in [Writers -> Records \cup {NONE}]
    /\ acked \subseteq Records
    /\ verdict \in [Verifiers -> {"none", "valid", "invalid"}]
    /\ calls \in 0 .. MaxCalls
    /\ faults \in 0 .. MaxFaults

\* Whatever the interleaving of writers, I/O errors, deaths and power losses,
\* every terminated line of the store passes the strict reader: log_event's lock
\* and its validation before each append (logger.py:57-73) leave no duplicate
\* sequence number, broken link, foreign format version or garbled line behind.
ChainWellFormed == \A i \in 1 .. Len(lines) : GoodLine(i)

\* A record that log_event returned is in the chain, at its own position, within
\* the part that survives a power loss (logger.py:84-87: fsync before return).
AckedDurable == \A r \in acked : r.seq < synced /\ lines[r.seq + 1] = r

\* verify_chain, which reads under the writers' lock, never takes an append in
\* progress for tampering: it fails only after a real fault, or on a record that
\* was signed with another key (chain_check.py:46-60).
NoFalseAlarm ==
    \A v \in Verifiers : verdict[v] = "invalid" =>
        faults > 0 \/ \E i \in 1 .. Len(lines) : lines[i].signature.key # PublicKey

\* An unterminated tail that no writer is about to complete.
Damaged == tail # "empty" /\ \A w \in Writers : pc[w] # "writing"

\* Once an append has died or failed in the middle of a line the store is frozen:
\* chain_tip refuses it, so no writer starts another line, and nothing repairs it
\* (_store.py:43-44, logger.py:64-65).  Only a power loss that drops the tail ends
\* this state.
DamagedStoreIsFrozen ==
    [][Damaged /\ ~ PowerLoss => Damaged' /\ lines' = lines]_vars

\* No step of any caller, nor a power loss, changes the part of the chain that
\* was fsynced (logger.py opens the store with "ab" and never rewrites it).
SyncedPrefixKept == [][IsPrefix(SubSeq(lines, 1, synced), lines')]_vars

\* Every call ends: it returns, raises or dies, also when the store is damaged
\* or another caller holds the lock for ever (LOCK_TIMEOUT_SECONDS).
CallEnds == \A w \in Writers : pc[w] # "idle" ~> pc[w] = "idle"

\* The lock is never leaked, on any path out of log_event or verify_chain.
LockIsReleased == []<>(lock = NONE)

\* The abstract log: its content is the events of the lines, and a call is
\* appended from the moment its LF is in the file.
LoggedCall(w) ==
    IF pc[w] \in {"waiting", "locked", "signed", "writing"}
    THEN [status |-> "open", event |-> event[w]]
    ELSE IF pc[w] \in {"written", "synced"}
    THEN [status |-> "appended", pos |-> rec[w].seq + 1]
    ELSE [status |-> "idle"]

Log == INSTANCE EventLog WITH
    log   <- [i \in 1 .. Len(lines) |-> lines[i].event],
    acked <- {r.seq + 1 : r \in acked},
    call  <- [w \in Writers |-> LoggedCall(w)]

\* log_event implements the promise of EventLog: appended once before it returns,
\* at most once when it raises, and never lost after it returned.
ImplementsEventLog == Log!LogSpec
=============================================================================
