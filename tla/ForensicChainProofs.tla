------------------------- MODULE ForensicChainProofs -------------------------
(* Theorems about ForensicChain, for every set of writers, verifiers, events *)
(* and keys and for every bound.                                            *)
EXTENDS ForensicChain, TLAPS

-----------------------------------------------------------------------------
(* The inductive invariant *)

\* Only the holder of the file lock is inside log_event's or verify_chain's
\* critical section.
Exclusion ==
    /\ \A w \in Writers : pc[w] \in Critical => lock = w
    /\ \A v \in Verifiers : pc[v] \in {"locked", "done"} => lock = v

\* A call past validate_event carries a valid event of its own.
EventChecked ==
    \A w \in Writers : pc[w] \in (Critical \ {"failed"}) \cup {"waiting"} =>
        event[w] \in Events /\ validate_event(event[w])

\* The tail belongs to the writer that is writing, or to one that died there.
TailOwned ==
    /\ tail \in {"empty", "prefix"}
    /\ \A w \in Writers : pc[w] = "signed" => tail = "empty"
    /\ \A w \in Writers : pc[w] = "writing" => tail = "prefix"
    /\ tail # "empty" => faults > 0 \/ \E w \in Writers : pc[w] = "writing"

\* A signed record continues the chain as it still is.
SignedFits ==
    \A w \in Writers : pc[w] \in {"signed", "writing"} =>
        /\ rec[w] \in Records
        /\ rec[w].event = event[w]
        /\ rec[w].seq = Len(lines)
        /\ rec[w].prev_hash = TipHash
        /\ rec[w].record_hash = hash_unsigned_record(rec[w])
        /\ rec[w].signature = Sign(rec[w].signature.key, rec[w])
        /\ \A i \in 1 .. Len(lines) :
              record_format_version(lines[i].event) = record_format_version(event[w])

\* A written record is the last line, and after fsync it is on the disk.
WrittenIsLast ==
    \A w \in Writers : pc[w] \in {"written", "synced"} =>
        /\ rec[w] \in Records
        /\ Len(lines) = rec[w].seq + 1
        /\ lines[Len(lines)] = rec[w]
        /\ pc[w] = "synced" => synced = Len(lines)

\* Every line carries a signature over its own content.
LinesSigned == \A i \in 1 .. Len(lines) :
                  lines[i].signature = Sign(lines[i].signature.key, lines[i])

IInv == /\ TypeOK /\ Exclusion /\ EventChecked /\ TailOwned /\ SignedFits
        /\ WrittenIsLast /\ ChainWellFormed /\ LinesSigned /\ AckedDurable
        /\ NoFalseAlarm

-----------------------------------------------------------------------------
(* Lemmas *)

\* hash_unsigned_record of a well-typed unsigned record is a digest.
LEMMA DigestType ==
    ASSUME NEW u, u.prev_hash \in Digests, u.event \in Events, u.seq \in Nat
    PROVE  hash_unsigned_record(u) \in Digests
  BY DEF hash_unsigned_record, Digests

\* On a store that the strict reader accepts the tip is a digest.
LEMMA TipType ==
    ASSUME TypeOK, ChainWellFormed
    PROVE  TipHash \in Digests
<1>1. CASE lines = << >>
  BY <1>1 DEF TipHash, GENESIS_PREV_HASH, Digests
<1>2. CASE lines # << >>
  <2>1. Len(lines) \in 1 .. Len(lines)
    BY <1>2 DEF TypeOK
  <2>2. lines[Len(lines)] \in Records
    BY <2>1 DEF TypeOK, ChainWellFormed, GoodLine
  <2> QED BY <1>2, <2>2 DEF TipHash, Records
<1> QED BY <1>1, <1>2

\* What log_event builds (logger.py:67-82) is a record that continues the chain.
LEMMA NewRecordFits ==
    ASSUME TypeOK, ChainWellFormed, NEW e \in Events, NEW key \in SigningKeys,
           NEW r, r = NewRecord(e, key)
    PROVE  /\ r \in Records
           /\ r.event = e /\ r.seq = Len(lines) /\ r.prev_hash = TipHash
           /\ r.record_hash = hash_unsigned_record(r)
           /\ r.signature = Sign(r.signature.key, r)
<1> DEFINE u == [event |-> e, seq |-> Len(lines), prev_hash |-> TipHash]
<1>1. Len(lines) \in Nat /\ TipHash \in Digests
  BY TipType DEF TypeOK
<1>2. hash_unsigned_record(u) \in Digests
  BY <1>1, DigestType
<1>3. r = [event |-> e, seq |-> Len(lines), prev_hash |-> TipHash,
           record_hash |-> hash_unsigned_record(u), signature |-> Sign(key, u)]
  BY DEF NewRecord
<1>4. hash_unsigned_record(r) = hash_unsigned_record(u)
  BY <1>3 DEF hash_unsigned_record
<1>5. Sign(key, u) = [key |-> key, over |-> hash_unsigned_record(u)]
  BY DEF Sign
<1>6. r.signature.key = key
  BY <1>3, <1>5
<1>7. Sign(key, r) = Sign(key, u)
  BY <1>4 DEF Sign
<1>8. r \in Records
  BY <1>1, <1>2, <1>3, <1>5 DEF Records, Signatures
<1> QED BY <1>3, <1>4, <1>6, <1>7, <1>8

-----------------------------------------------------------------------------
(* The invariant is inductive: one lemma per action that touches the store,  *)
(* its records or its verdicts, one step for each of the others.             *)

\* The empty store satisfies every part of the invariant.
LEMMA InitIInv == Init => IInv
  BY ChainAssumption, GarbledAssumption
  DEF Init, IInv, TypeOK, Exclusion, EventChecked, TailOwned, SignedFits, WrittenIsLast,
      ChainWellFormed, LinesSigned, AckedDurable, NoFalseAlarm, GoodLine, TipHash,
      WriterPC, VerifierPC, Critical

\* A new call changes nothing but its own event.
LEMMA LogEventInv ==
    ASSUME IInv, NEW w \in Writers, NEW e \in Events, LogEvent(w, e)
    PROVE  IInv'
<1> USE ChainAssumption, GarbledAssumption DEF IInv
<1>1. TypeOK'
  BY DEF LogEvent, TypeOK, Exclusion, EventChecked, TailOwned, SignedFits, WrittenIsLast,
      ChainWellFormed, LinesSigned, AckedDurable, NoFalseAlarm, GoodLine, TipHash,
      WriterPC, VerifierPC, Critical, fileVars, Goto, Leave
<1>2. Exclusion'
  BY DEF LogEvent, TypeOK, Exclusion, EventChecked, TailOwned, SignedFits, WrittenIsLast,
      ChainWellFormed, LinesSigned, AckedDurable, NoFalseAlarm, GoodLine, TipHash,
      WriterPC, VerifierPC, Critical, fileVars, Goto, Leave
<1>3. EventChecked'
  BY DEF LogEvent, TypeOK, Exclusion, EventChecked, TailOwned, SignedFits, WrittenIsLast,
      ChainWellFormed, LinesSigned, AckedDurable, NoFalseAlarm, GoodLine, TipHash,
      WriterPC, VerifierPC, Critical, fileVars, Goto, Leave
<1>4. TailOwned'
  BY DEF LogEvent, TypeOK, Exclusion, EventChecked, TailOwned, SignedFits, WrittenIsLast,
      ChainWellFormed, LinesSigned, AckedDurable, NoFalseAlarm, GoodLine, TipHash,
      WriterPC, VerifierPC, Critical, fileVars, Goto, Leave
<1>5. SignedFits'
  BY DEF LogEvent, TypeOK, Exclusion, EventChecked, TailOwned, SignedFits, WrittenIsLast,
      ChainWellFormed, LinesSigned, AckedDurable, NoFalseAlarm, GoodLine, TipHash,
      WriterPC, VerifierPC, Critical, fileVars, Goto, Leave
<1>6. WrittenIsLast'
  BY DEF LogEvent, TypeOK, Exclusion, EventChecked, TailOwned, SignedFits, WrittenIsLast,
      ChainWellFormed, LinesSigned, AckedDurable, NoFalseAlarm, GoodLine, TipHash,
      WriterPC, VerifierPC, Critical, fileVars, Goto, Leave
<1>7. ChainWellFormed'
  BY DEF LogEvent, TypeOK, Exclusion, EventChecked, TailOwned, SignedFits, WrittenIsLast,
      ChainWellFormed, LinesSigned, AckedDurable, NoFalseAlarm, GoodLine, TipHash,
      WriterPC, VerifierPC, Critical, fileVars, Goto, Leave
<1>8. LinesSigned'
  BY DEF LogEvent, TypeOK, Exclusion, EventChecked, TailOwned, SignedFits, WrittenIsLast,
      ChainWellFormed, LinesSigned, AckedDurable, NoFalseAlarm, GoodLine, TipHash,
      WriterPC, VerifierPC, Critical, fileVars, Goto, Leave
<1>9. AckedDurable'
  BY DEF LogEvent, TypeOK, Exclusion, EventChecked, TailOwned, SignedFits, WrittenIsLast,
      ChainWellFormed, LinesSigned, AckedDurable, NoFalseAlarm, GoodLine, TipHash,
      WriterPC, VerifierPC, Critical, fileVars, Goto, Leave
<1>10. NoFalseAlarm'
  BY DEF LogEvent, TypeOK, Exclusion, EventChecked, TailOwned, SignedFits, WrittenIsLast,
      ChainWellFormed, LinesSigned, AckedDurable, NoFalseAlarm, GoodLine, TipHash,
      WriterPC, VerifierPC, Critical, fileVars, Goto, Leave
<1> QED BY <1>1, <1>2, <1>3, <1>4, <1>5, <1>6, <1>7, <1>8, <1>9, <1>10

\* Reading the tip and signing: the record fits because the store is valid.
LEMMA ChainTipInv ==
    ASSUME IInv, NEW w \in Writers, NEW key \in SigningKeys, ChainTip(w, key)
    PROVE  IInv'
<1> USE ChainAssumption, GarbledAssumption DEF IInv
<1>a. event[w] \in Events /\ rec' = [rec EXCEPT ![w] = NewRecord(event[w], key)]
  BY DEF ChainTip, EventChecked, Critical
<1>b. /\ rec'[w] \in Records
      /\ rec'[w].event = event[w] /\ rec'[w].seq = Len(lines)
      /\ rec'[w].prev_hash = TipHash
      /\ rec'[w].record_hash = hash_unsigned_record(rec'[w])
      /\ rec'[w].signature = Sign(rec'[w].signature.key, rec'[w])
  BY <1>a, NewRecordFits DEF TypeOK
<1>c. /\ tail = "empty"
      /\ \A i \in 1 .. Len(lines) :
            record_format_version(lines[i].event) = record_format_version(event[w])
  BY DEF ChainTip, ChainTipFor, iter_validated_records
<1>1. TypeOK'
  BY <1>b DEF ChainTip, TypeOK, WriterPC, VerifierPC, Critical, fileVars, Goto
<1>2. Exclusion'
  BY DEF ChainTip, TypeOK, Exclusion, EventChecked, TailOwned, SignedFits, WrittenIsLast,
      ChainWellFormed, LinesSigned, AckedDurable, NoFalseAlarm, GoodLine, TipHash,
      WriterPC, VerifierPC, Critical, fileVars, Goto, Leave
<1>3. EventChecked'
  BY DEF ChainTip, TypeOK, Exclusion, EventChecked, TailOwned, SignedFits, WrittenIsLast,
      ChainWellFormed, LinesSigned, AckedDurable, NoFalseAlarm, GoodLine, TipHash,
      WriterPC, VerifierPC, Critical, fileVars, Goto, Leave
<1>4. TailOwned'
  BY <1>c DEF ChainTip, TypeOK, TailOwned, fileVars, Goto
<1>5. SignedFits'
  BY <1>b, <1>c DEF ChainTip, TypeOK, SignedFits, TipHash, Exclusion, Critical,
      fileVars, Goto
<1>6. WrittenIsLast'
  BY DEF ChainTip, TypeOK, Exclusion, EventChecked, TailOwned, SignedFits, WrittenIsLast,
      ChainWellFormed, LinesSigned, AckedDurable, NoFalseAlarm, GoodLine, TipHash,
      WriterPC, VerifierPC, Critical, fileVars, Goto, Leave
<1>7. ChainWellFormed'
  BY DEF ChainTip, TypeOK, Exclusion, EventChecked, TailOwned, SignedFits, WrittenIsLast,
      ChainWellFormed, LinesSigned, AckedDurable, NoFalseAlarm, GoodLine, TipHash,
      WriterPC, VerifierPC, Critical, fileVars, Goto, Leave
<1>8. LinesSigned'
  BY DEF ChainTip, TypeOK, Exclusion, EventChecked, TailOwned, SignedFits, WrittenIsLast,
      ChainWellFormed, LinesSigned, AckedDurable, NoFalseAlarm, GoodLine, TipHash,
      WriterPC, VerifierPC, Critical, fileVars, Goto, Leave
<1>9. AckedDurable'
  BY DEF ChainTip, TypeOK, Exclusion, EventChecked, TailOwned, SignedFits, WrittenIsLast,
      ChainWellFormed, LinesSigned, AckedDurable, NoFalseAlarm, GoodLine, TipHash,
      WriterPC, VerifierPC, Critical, fileVars, Goto, Leave
<1>10. NoFalseAlarm'
  BY DEF ChainTip, TypeOK, Exclusion, EventChecked, TailOwned, SignedFits, WrittenIsLast,
      ChainWellFormed, LinesSigned, AckedDurable, NoFalseAlarm, GoodLine, TipHash,
      WriterPC, VerifierPC, Critical, fileVars, Goto, Leave
<1> QED BY <1>1, <1>2, <1>3, <1>4, <1>5, <1>6, <1>7, <1>8, <1>9, <1>10

\* The line that becomes whole is the signed record, since no one else wrote.
LEMMA WriteRestInv ==
    ASSUME IInv, NEW w \in Writers, WriteRest(w)
    PROVE  IInv'
<1> USE ChainAssumption, GarbledAssumption DEF IInv
<1>1. TypeOK'
  BY DEF WriteRest, TypeOK, Exclusion, EventChecked, TailOwned, SignedFits, WrittenIsLast,
      ChainWellFormed, LinesSigned, AckedDurable, NoFalseAlarm, GoodLine, TipHash,
      WriterPC, VerifierPC, Critical, fileVars, Goto, Leave
<1>2. Exclusion'
  BY DEF WriteRest, TypeOK, Exclusion, EventChecked, TailOwned, SignedFits, WrittenIsLast,
      ChainWellFormed, LinesSigned, AckedDurable, NoFalseAlarm, GoodLine, TipHash,
      WriterPC, VerifierPC, Critical, fileVars, Goto, Leave
<1>3. EventChecked'
  BY DEF WriteRest, TypeOK, Exclusion, EventChecked, TailOwned, SignedFits, WrittenIsLast,
      ChainWellFormed, LinesSigned, AckedDurable, NoFalseAlarm, GoodLine, TipHash,
      WriterPC, VerifierPC, Critical, fileVars, Goto, Leave
<1>4. TailOwned'
  BY DEF WriteRest, TypeOK, Exclusion, EventChecked, TailOwned, SignedFits, WrittenIsLast,
      ChainWellFormed, LinesSigned, AckedDurable, NoFalseAlarm, GoodLine, TipHash,
      WriterPC, VerifierPC, Critical, fileVars, Goto, Leave
<1>5. SignedFits'
  BY DEF WriteRest, TypeOK, Exclusion, EventChecked, TailOwned, SignedFits, WrittenIsLast,
      ChainWellFormed, LinesSigned, AckedDurable, NoFalseAlarm, GoodLine, TipHash,
      WriterPC, VerifierPC, Critical, fileVars, Goto, Leave
<1>6. WrittenIsLast'
  BY DEF WriteRest, TypeOK, Exclusion, EventChecked, TailOwned, SignedFits, WrittenIsLast,
      ChainWellFormed, LinesSigned, AckedDurable, NoFalseAlarm, GoodLine, TipHash,
      WriterPC, VerifierPC, Critical, fileVars, Goto, Leave
<1>7. ChainWellFormed'
  BY DEF WriteRest, TypeOK, Exclusion, EventChecked, TailOwned, SignedFits, WrittenIsLast,
      ChainWellFormed, LinesSigned, AckedDurable, NoFalseAlarm, GoodLine, TipHash,
      WriterPC, VerifierPC, Critical, fileVars, Goto, Leave
<1>8. LinesSigned'
  BY DEF WriteRest, TypeOK, Exclusion, EventChecked, TailOwned, SignedFits, WrittenIsLast,
      ChainWellFormed, LinesSigned, AckedDurable, NoFalseAlarm, GoodLine, TipHash,
      WriterPC, VerifierPC, Critical, fileVars, Goto, Leave
<1>9. AckedDurable'
  BY DEF WriteRest, TypeOK, AckedDurable, WrittenIsLast, Records, fileVars, Leave
<1>10. NoFalseAlarm'
  BY DEF WriteRest, TypeOK, Exclusion, EventChecked, TailOwned, SignedFits, WrittenIsLast,
      ChainWellFormed, LinesSigned, AckedDurable, NoFalseAlarm, GoodLine, TipHash,
      WriterPC, VerifierPC, Critical, fileVars, Goto, Leave
<1> QED BY <1>1, <1>2, <1>3, <1>4, <1>5, <1>6, <1>7, <1>8, <1>9, <1>10

\* fsync covers every line of the file.
LEMMA FsyncInv ==
    ASSUME IInv, NEW w \in Writers, Fsync(w)
    PROVE  IInv'
<1> USE ChainAssumption, GarbledAssumption DEF IInv
<1>1. TypeOK'
  BY DEF Fsync, TypeOK, Exclusion, EventChecked, TailOwned, SignedFits, WrittenIsLast,
      ChainWellFormed, LinesSigned, AckedDurable, NoFalseAlarm, GoodLine, TipHash,
      WriterPC, VerifierPC, Critical, fileVars, Goto, Leave
<1>2. Exclusion'
  BY DEF Fsync, TypeOK, Exclusion, EventChecked, TailOwned, SignedFits, WrittenIsLast,
      ChainWellFormed, LinesSigned, AckedDurable, NoFalseAlarm, GoodLine, TipHash,
      WriterPC, VerifierPC, Critical, fileVars, Goto, Leave
<1>3. EventChecked'
  BY DEF Fsync, TypeOK, Exclusion, EventChecked, TailOwned, SignedFits, WrittenIsLast,
      ChainWellFormed, LinesSigned, AckedDurable, NoFalseAlarm, GoodLine, TipHash,
      WriterPC, VerifierPC, Critical, fileVars, Goto, Leave
<1>4. TailOwned'
  BY DEF Fsync, TypeOK, Exclusion, EventChecked, TailOwned, SignedFits, WrittenIsLast,
      ChainWellFormed, LinesSigned, AckedDurable, NoFalseAlarm, GoodLine, TipHash,
      WriterPC, VerifierPC, Critical, fileVars, Goto, Leave
<1>5. SignedFits'
  BY DEF Fsync, TypeOK, Exclusion, EventChecked, TailOwned, SignedFits, WrittenIsLast,
      ChainWellFormed, LinesSigned, AckedDurable, NoFalseAlarm, GoodLine, TipHash,
      WriterPC, VerifierPC, Critical, fileVars, Goto, Leave
<1>6. WrittenIsLast'
  BY DEF Fsync, TypeOK, Exclusion, EventChecked, TailOwned, SignedFits, WrittenIsLast,
      ChainWellFormed, LinesSigned, AckedDurable, NoFalseAlarm, GoodLine, TipHash,
      WriterPC, VerifierPC, Critical, fileVars, Goto, Leave
<1>7. ChainWellFormed'
  BY DEF Fsync, TypeOK, Exclusion, EventChecked, TailOwned, SignedFits, WrittenIsLast,
      ChainWellFormed, LinesSigned, AckedDurable, NoFalseAlarm, GoodLine, TipHash,
      WriterPC, VerifierPC, Critical, fileVars, Goto, Leave
<1>8. LinesSigned'
  BY DEF Fsync, TypeOK, Exclusion, EventChecked, TailOwned, SignedFits, WrittenIsLast,
      ChainWellFormed, LinesSigned, AckedDurable, NoFalseAlarm, GoodLine, TipHash,
      WriterPC, VerifierPC, Critical, fileVars, Goto, Leave
<1>9. AckedDurable'
  BY DEF Fsync, TypeOK, AckedDurable, WrittenIsLast, Records, fileVars, Leave
<1>10. NoFalseAlarm'
  BY DEF Fsync, TypeOK, Exclusion, EventChecked, TailOwned, SignedFits, WrittenIsLast,
      ChainWellFormed, LinesSigned, AckedDurable, NoFalseAlarm, GoodLine, TipHash,
      WriterPC, VerifierPC, Critical, fileVars, Goto, Leave
<1> QED BY <1>1, <1>2, <1>3, <1>4, <1>5, <1>6, <1>7, <1>8, <1>9, <1>10

\* Only a record that is on the disk is acknowledged.
LEMMA ReturnRecordInv ==
    ASSUME IInv, NEW w \in Writers, ReturnRecord(w)
    PROVE  IInv'
<1> USE ChainAssumption, GarbledAssumption DEF IInv
<1>1. TypeOK'
  BY DEF ReturnRecord, TypeOK, Exclusion, EventChecked, TailOwned, SignedFits, WrittenIsLast,
      ChainWellFormed, LinesSigned, AckedDurable, NoFalseAlarm, GoodLine, TipHash,
      WriterPC, VerifierPC, Critical, fileVars, Goto, Leave
<1>2. Exclusion'
  BY DEF ReturnRecord, TypeOK, Exclusion, EventChecked, TailOwned, SignedFits, WrittenIsLast,
      ChainWellFormed, LinesSigned, AckedDurable, NoFalseAlarm, GoodLine, TipHash,
      WriterPC, VerifierPC, Critical, fileVars, Goto, Leave
<1>3. EventChecked'
  BY DEF ReturnRecord, TypeOK, Exclusion, EventChecked, TailOwned, SignedFits, WrittenIsLast,
      ChainWellFormed, LinesSigned, AckedDurable, NoFalseAlarm, GoodLine, TipHash,
      WriterPC, VerifierPC, Critical, fileVars, Goto, Leave
<1>4. TailOwned'
  BY DEF ReturnRecord, TypeOK, Exclusion, EventChecked, TailOwned, SignedFits, WrittenIsLast,
      ChainWellFormed, LinesSigned, AckedDurable, NoFalseAlarm, GoodLine, TipHash,
      WriterPC, VerifierPC, Critical, fileVars, Goto, Leave
<1>5. SignedFits'
  BY DEF ReturnRecord, TypeOK, Exclusion, EventChecked, TailOwned, SignedFits, WrittenIsLast,
      ChainWellFormed, LinesSigned, AckedDurable, NoFalseAlarm, GoodLine, TipHash,
      WriterPC, VerifierPC, Critical, fileVars, Goto, Leave
<1>6. WrittenIsLast'
  BY DEF ReturnRecord, TypeOK, Exclusion, EventChecked, TailOwned, SignedFits, WrittenIsLast,
      ChainWellFormed, LinesSigned, AckedDurable, NoFalseAlarm, GoodLine, TipHash,
      WriterPC, VerifierPC, Critical, fileVars, Goto, Leave
<1>7. ChainWellFormed'
  BY DEF ReturnRecord, TypeOK, Exclusion, EventChecked, TailOwned, SignedFits, WrittenIsLast,
      ChainWellFormed, LinesSigned, AckedDurable, NoFalseAlarm, GoodLine, TipHash,
      WriterPC, VerifierPC, Critical, fileVars, Goto, Leave
<1>8. LinesSigned'
  BY DEF ReturnRecord, TypeOK, Exclusion, EventChecked, TailOwned, SignedFits, WrittenIsLast,
      ChainWellFormed, LinesSigned, AckedDurable, NoFalseAlarm, GoodLine, TipHash,
      WriterPC, VerifierPC, Critical, fileVars, Goto, Leave
<1>9. AckedDurable'
  BY DEF ReturnRecord, TypeOK, AckedDurable, WrittenIsLast, Records, fileVars, Leave
<1>10. NoFalseAlarm'
  BY DEF ReturnRecord, TypeOK, Exclusion, EventChecked, TailOwned, SignedFits, WrittenIsLast,
      ChainWellFormed, LinesSigned, AckedDurable, NoFalseAlarm, GoodLine, TipHash,
      WriterPC, VerifierPC, Critical, fileVars, Goto, Leave
<1> QED BY <1>1, <1>2, <1>3, <1>4, <1>5, <1>6, <1>7, <1>8, <1>9, <1>10

\* The verifier holds the lock, so the tail it meets was left by a fault.
LEMMA CheckRecordsInv ==
    ASSUME IInv, NEW v \in Verifiers, CheckRecords(v)
    PROVE  IInv'
<1> USE ChainAssumption, GarbledAssumption DEF IInv
<1>1. TypeOK'
  BY DEF CheckRecords, TypeOK, Exclusion, EventChecked, TailOwned, SignedFits, WrittenIsLast,
      ChainWellFormed, LinesSigned, AckedDurable, NoFalseAlarm, GoodLine, TipHash,
      WriterPC, VerifierPC, Critical, fileVars, Goto, Leave
<1>2. Exclusion'
  BY DEF CheckRecords, TypeOK, Exclusion, EventChecked, TailOwned, SignedFits, WrittenIsLast,
      ChainWellFormed, LinesSigned, AckedDurable, NoFalseAlarm, GoodLine, TipHash,
      WriterPC, VerifierPC, Critical, fileVars, Goto, Leave
<1>3. EventChecked'
  BY DEF CheckRecords, TypeOK, Exclusion, EventChecked, TailOwned, SignedFits, WrittenIsLast,
      ChainWellFormed, LinesSigned, AckedDurable, NoFalseAlarm, GoodLine, TipHash,
      WriterPC, VerifierPC, Critical, fileVars, Goto, Leave
<1>4. TailOwned'
  BY DEF CheckRecords, TypeOK, Exclusion, EventChecked, TailOwned, SignedFits, WrittenIsLast,
      ChainWellFormed, LinesSigned, AckedDurable, NoFalseAlarm, GoodLine, TipHash,
      WriterPC, VerifierPC, Critical, fileVars, Goto, Leave
<1>5. SignedFits'
  BY DEF CheckRecords, TypeOK, Exclusion, EventChecked, TailOwned, SignedFits, WrittenIsLast,
      ChainWellFormed, LinesSigned, AckedDurable, NoFalseAlarm, GoodLine, TipHash,
      WriterPC, VerifierPC, Critical, fileVars, Goto, Leave
<1>6. WrittenIsLast'
  BY DEF CheckRecords, TypeOK, Exclusion, EventChecked, TailOwned, SignedFits, WrittenIsLast,
      ChainWellFormed, LinesSigned, AckedDurable, NoFalseAlarm, GoodLine, TipHash,
      WriterPC, VerifierPC, Critical, fileVars, Goto, Leave
<1>7. ChainWellFormed'
  BY DEF CheckRecords, TypeOK, Exclusion, EventChecked, TailOwned, SignedFits, WrittenIsLast,
      ChainWellFormed, LinesSigned, AckedDurable, NoFalseAlarm, GoodLine, TipHash,
      WriterPC, VerifierPC, Critical, fileVars, Goto, Leave
<1>8. LinesSigned'
  BY DEF CheckRecords, TypeOK, Exclusion, EventChecked, TailOwned, SignedFits, WrittenIsLast,
      ChainWellFormed, LinesSigned, AckedDurable, NoFalseAlarm, GoodLine, TipHash,
      WriterPC, VerifierPC, Critical, fileVars, Goto, Leave
<1>9. AckedDurable'
  BY DEF CheckRecords, TypeOK, Exclusion, EventChecked, TailOwned, SignedFits, WrittenIsLast,
      ChainWellFormed, LinesSigned, AckedDurable, NoFalseAlarm, GoodLine, TipHash,
      WriterPC, VerifierPC, Critical, fileVars, Goto, Leave
<1>10. NoFalseAlarm'
  <2>1. CASE iter_validated_records /\ SignaturesVerify
    BY <2>1 DEF CheckRecords, NoFalseAlarm, TypeOK, fileVars
  <2>2. CASE ~ iter_validated_records
    <3>1. tail # "empty"
      BY <2>2 DEF iter_validated_records, ChainWellFormed
    <3>2. \A w \in Writers : pc[w] # "writing"
      BY DEF CheckRecords, Exclusion, Critical
    <3>3. faults > 0
      BY <3>1, <3>2 DEF TailOwned
    <3> QED BY <3>3 DEF CheckRecords, NoFalseAlarm, fileVars
  <2>3. CASE ~ SignaturesVerify
    <3>1. \E i \in 1 .. Len(lines) : lines[i].signature.key # PublicKey
      BY <2>3 DEF SignaturesVerify, LinesSigned
    <3> QED BY <3>1 DEF CheckRecords, NoFalseAlarm, fileVars
  <2> QED BY <2>1, <2>2, <2>3
<1> QED BY <1>1, <1>2, <1>3, <1>4, <1>5, <1>6, <1>7, <1>8, <1>9, <1>10

\* What was fsynced survives, so no acknowledged record is lost.
LEMMA PowerLossInv ==
    ASSUME IInv, PowerLoss
    PROVE  IInv'
<1> USE ChainAssumption, GarbledAssumption DEF IInv
<1>1. TypeOK'
  BY DEF PowerLoss, TypeOK, Exclusion, EventChecked, TailOwned, SignedFits, WrittenIsLast,
      ChainWellFormed, LinesSigned, AckedDurable, NoFalseAlarm, GoodLine, TipHash,
      WriterPC, VerifierPC, Critical, fileVars, Goto, Leave
<1>2. Exclusion'
  BY DEF PowerLoss, TypeOK, Exclusion, EventChecked, TailOwned, SignedFits, WrittenIsLast,
      ChainWellFormed, LinesSigned, AckedDurable, NoFalseAlarm, GoodLine, TipHash,
      WriterPC, VerifierPC, Critical, fileVars, Goto, Leave
<1>3. EventChecked'
  BY DEF PowerLoss, TypeOK, Exclusion, EventChecked, TailOwned, SignedFits, WrittenIsLast,
      ChainWellFormed, LinesSigned, AckedDurable, NoFalseAlarm, GoodLine, TipHash,
      WriterPC, VerifierPC, Critical, fileVars, Goto, Leave
<1>4. TailOwned'
  BY DEF PowerLoss, TypeOK, Exclusion, EventChecked, TailOwned, SignedFits, WrittenIsLast,
      ChainWellFormed, LinesSigned, AckedDurable, NoFalseAlarm, GoodLine, TipHash,
      WriterPC, VerifierPC, Critical, fileVars, Goto, Leave
<1>5. SignedFits'
  BY DEF PowerLoss, TypeOK, Exclusion, EventChecked, TailOwned, SignedFits, WrittenIsLast,
      ChainWellFormed, LinesSigned, AckedDurable, NoFalseAlarm, GoodLine, TipHash,
      WriterPC, VerifierPC, Critical, fileVars, Goto, Leave
<1>6. WrittenIsLast'
  BY DEF PowerLoss, TypeOK, Exclusion, EventChecked, TailOwned, SignedFits, WrittenIsLast,
      ChainWellFormed, LinesSigned, AckedDurable, NoFalseAlarm, GoodLine, TipHash,
      WriterPC, VerifierPC, Critical, fileVars, Goto, Leave
<1>7. ChainWellFormed'
  BY DEF PowerLoss, TypeOK, Exclusion, EventChecked, TailOwned, SignedFits, WrittenIsLast,
      ChainWellFormed, LinesSigned, AckedDurable, NoFalseAlarm, GoodLine, TipHash,
      WriterPC, VerifierPC, Critical, fileVars, Goto, Leave
<1>8. LinesSigned'
  BY DEF PowerLoss, TypeOK, Exclusion, EventChecked, TailOwned, SignedFits, WrittenIsLast,
      ChainWellFormed, LinesSigned, AckedDurable, NoFalseAlarm, GoodLine, TipHash,
      WriterPC, VerifierPC, Critical, fileVars, Goto, Leave
<1>9. AckedDurable'
  BY DEF PowerLoss, TypeOK, AckedDurable, Records
<1>10. NoFalseAlarm'
  BY DEF PowerLoss, TypeOK, Exclusion, EventChecked, TailOwned, SignedFits, WrittenIsLast,
      ChainWellFormed, LinesSigned, AckedDurable, NoFalseAlarm, GoodLine, TipHash,
      WriterPC, VerifierPC, Critical, fileVars, Goto, Leave
<1> QED BY <1>1, <1>2, <1>3, <1>4, <1>5, <1>6, <1>7, <1>8, <1>9, <1>10

\* Every step of the specification preserves the invariant.
LEMMA StepIInv == IInv /\ [Next]_vars => IInv'
<1> SUFFICES ASSUME IInv, [Next]_vars PROVE IInv'
  OBVIOUS
<1> USE ChainAssumption, GarbledAssumption
<1>1. ASSUME NEW w \in Writers, AcquireLock(w) PROVE IInv'
  BY <1>1 DEF AcquireLock, IInv, TypeOK, Exclusion, EventChecked, TailOwned, SignedFits, WrittenIsLast,
      ChainWellFormed, LinesSigned, AckedDurable, NoFalseAlarm, GoodLine, TipHash,
      WriterPC, VerifierPC, Critical, fileVars, Goto, Leave
<1>2. ASSUME NEW w \in Writers, LockTimeout(w) PROVE IInv'
  BY <1>2 DEF LockTimeout, IInv, TypeOK, Exclusion, EventChecked, TailOwned, SignedFits, WrittenIsLast,
      ChainWellFormed, LinesSigned, AckedDurable, NoFalseAlarm, GoodLine, TipHash,
      WriterPC, VerifierPC, Critical, fileVars, Goto, Leave
<1>3. ASSUME NEW w \in Writers, RefuseInvalidChain(w) PROVE IInv'
  BY <1>3 DEF RefuseInvalidChain, IInv, TypeOK, Exclusion, EventChecked, TailOwned, SignedFits, WrittenIsLast,
      ChainWellFormed, LinesSigned, AckedDurable, NoFalseAlarm, GoodLine, TipHash,
      WriterPC, VerifierPC, Critical, fileVars, Goto, Leave
<1>4. ASSUME NEW w \in Writers, SignerFails(w) PROVE IInv'
  BY <1>4 DEF SignerFails, IInv, TypeOK, Exclusion, EventChecked, TailOwned, SignedFits, WrittenIsLast,
      ChainWellFormed, LinesSigned, AckedDurable, NoFalseAlarm, GoodLine, TipHash,
      WriterPC, VerifierPC, Critical, fileVars, Goto, Leave
<1>5. ASSUME NEW w \in Writers, WriteBytes(w) PROVE IInv'
  BY <1>5 DEF WriteBytes, IInv, TypeOK, Exclusion, EventChecked, TailOwned, SignedFits, WrittenIsLast,
      ChainWellFormed, LinesSigned, AckedDurable, NoFalseAlarm, GoodLine, TipHash,
      WriterPC, VerifierPC, Critical, fileVars, Goto, Leave
<1>6. ASSUME NEW w \in Writers, AppendFails(w) PROVE IInv'
  BY <1>6 DEF AppendFails, IInv, TypeOK, Exclusion, EventChecked, TailOwned, SignedFits, WrittenIsLast,
      ChainWellFormed, LinesSigned, AckedDurable, NoFalseAlarm, GoodLine, TipHash,
      WriterPC, VerifierPC, Critical, fileVars, Goto, Leave
<1>7. ASSUME NEW w \in Writers, RaiseAppendError(w) PROVE IInv'
  BY <1>7 DEF RaiseAppendError, IInv, TypeOK, Exclusion, EventChecked, TailOwned, SignedFits, WrittenIsLast,
      ChainWellFormed, LinesSigned, AckedDurable, NoFalseAlarm, GoodLine, TipHash,
      WriterPC, VerifierPC, Critical, fileVars, Goto, Leave
<1>8. ASSUME NEW w \in Writers, Die(w) PROVE IInv'
  BY <1>8 DEF Die, IInv, TypeOK, Exclusion, EventChecked, TailOwned, SignedFits, WrittenIsLast,
      ChainWellFormed, LinesSigned, AckedDurable, NoFalseAlarm, GoodLine, TipHash,
      WriterPC, VerifierPC, Critical, fileVars, Goto, Leave
<1>9. ASSUME NEW v \in Verifiers, VerifyChain(v) PROVE IInv'
  BY <1>9 DEF VerifyChain, IInv, TypeOK, Exclusion, EventChecked, TailOwned, SignedFits, WrittenIsLast,
      ChainWellFormed, LinesSigned, AckedDurable, NoFalseAlarm, GoodLine, TipHash,
      WriterPC, VerifierPC, Critical, fileVars, Goto, Leave
<1>10. ASSUME NEW v \in Verifiers, VerifierAcquires(v) PROVE IInv'
  BY <1>10 DEF VerifierAcquires, IInv, TypeOK, Exclusion, EventChecked, TailOwned, SignedFits, WrittenIsLast,
      ChainWellFormed, LinesSigned, AckedDurable, NoFalseAlarm, GoodLine, TipHash,
      WriterPC, VerifierPC, Critical, fileVars, Goto, Leave
<1>11. ASSUME NEW v \in Verifiers, VerifierTimeout(v) PROVE IInv'
  BY <1>11 DEF VerifierTimeout, IInv, TypeOK, Exclusion, EventChecked, TailOwned, SignedFits, WrittenIsLast,
      ChainWellFormed, LinesSigned, AckedDurable, NoFalseAlarm, GoodLine, TipHash,
      WriterPC, VerifierPC, Critical, fileVars, Goto, Leave
<1>12. ASSUME NEW v \in Verifiers, VerifierReturns(v) PROVE IInv'
  BY <1>12 DEF VerifierReturns, IInv, TypeOK, Exclusion, EventChecked, TailOwned, SignedFits, WrittenIsLast,
      ChainWellFormed, LinesSigned, AckedDurable, NoFalseAlarm, GoodLine, TipHash,
      WriterPC, VerifierPC, Critical, fileVars, Goto, Leave
<1>13. CASE UNCHANGED vars
  BY <1>13 DEF vars, IInv, TypeOK, Exclusion, EventChecked, TailOwned, SignedFits, WrittenIsLast,
      ChainWellFormed, LinesSigned, AckedDurable, NoFalseAlarm, GoodLine, TipHash,
      WriterPC, VerifierPC, Critical, fileVars
<1> QED
  BY <1>1, <1>2, <1>3, <1>4, <1>5, <1>6, <1>7, <1>8, <1>9, <1>10, <1>11, <1>12, <1>13,
     LogEventInv, ChainTipInv, WriteRestInv, FsyncInv, ReturnRecordInv,
     CheckRecordsInv, PowerLossInv
  DEF Next, WriterStep, VerifierStep

-----------------------------------------------------------------------------
(* Theorems *)

\* The invariant holds in every reachable state.
THEOREM Invariant == Spec => []IInv
<1>1. Init => IInv
  BY InitIInv
<1>2. IInv /\ [Next]_vars => IInv'
  BY StepIInv
<1> QED BY <1>1, <1>2, PTL DEF Spec

\* Every variable keeps its type; in particular the fsynced part never outgrows
\* the file.
THEOREM TypeCorrect == Spec => []TypeOK
<1>1. IInv => TypeOK
  BY DEF IInv
<1> QED BY <1>1, Invariant, PTL

\* For any number of writers and verifiers and any pattern of failures, every
\* terminated line in the store is valid, linked and in sequence.
THEOREM ChainStaysWellFormed == Spec => []ChainWellFormed
<1>1. IInv => ChainWellFormed
  BY DEF IInv
<1> QED BY <1>1, Invariant, PTL

\* No record for which log_event returned is ever lost or altered.
THEOREM AcknowledgedIsDurable == Spec => []AckedDurable
<1>1. IInv => AckedDurable
  BY DEF IInv
<1> QED BY <1>1, Invariant, PTL

\* verify_chain under the lock raises no alarm about an append in progress.
THEOREM VerifierIsSound == Spec => []NoFalseAlarm
<1>1. IInv => NoFalseAlarm
  BY DEF IInv
<1> QED BY <1>1, Invariant, PTL

\* No step, a power loss included, alters the fsynced part of the chain.
THEOREM SyncedPrefixIsKept == Spec => SyncedPrefixKept
<1>1. ASSUME IInv, [Next]_vars
      PROVE  IsPrefix(SubSeq(lines, 1, synced), lines')
  <2> DEFINE s == SubSeq(lines, 1, synced)
  <2>1. /\ lines \in Seq(Records \cup {GARBLED}) /\ synced \in 0 .. Len(lines)
        /\ s \in Seq(Records \cup {GARBLED}) /\ Len(s) = synced
        /\ \A i \in 1 .. synced : s[i] = lines[i]
    BY <1>1 DEF IInv, TypeOK
  <2>2. /\ lines' \in Seq(Records \cup {GARBLED})
        /\ synced <= Len(lines')
        /\ \A i \in 1 .. synced : lines'[i] = lines[i]
    <3>1. CASE lines' = lines
      BY <2>1, <3>1
    <3>2. ASSUME NEW w \in Writers, WriteRest(w)
          PROVE  <2>2!1 /\ <2>2!2 /\ <2>2!3
      <4>1. \E x \in Records \cup {GARBLED} : lines' = Append(lines, x)
        BY <1>1, <3>2 DEF WriteRest, IInv, SignedFits
      <4> QED BY <2>1, <4>1
    <3>3. CASE PowerLoss
      BY <2>1, <3>3 DEF PowerLoss
    <3> QED
      BY <1>1, <3>1, <3>2, <3>3
      DEF Next, WriterStep, VerifierStep, vars, fileVars, LogEvent, AcquireLock,
          LockTimeout, ChainTip, RefuseInvalidChain, SignerFails, WriteBytes,
          Fsync, AppendFails, ReturnRecord, RaiseAppendError, Die, VerifyChain,
          VerifierAcquires, VerifierTimeout, CheckRecords, VerifierReturns
  <2>3. s = SubSeq(lines', 1, Len(s))
    BY <2>1, <2>2
  <2> QED BY <2>1, <2>2, <2>3 DEF IsPrefix
<1> QED BY <1>1, Invariant, PTL DEF Spec, SyncedPrefixKept

\* A torn tail that no writer is still completing stops every later append.
THEOREM TornTailStopsAppends == Spec => DamagedStoreIsFrozen
<1>1. ASSUME IInv, [Next]_vars, Damaged, ~ PowerLoss
      PROVE  Damaged' /\ lines' = lines
  <2>1. \A w \in Writers : pc[w] # "signed" /\ pc[w] # "writing"
    BY <1>1 DEF IInv, TailOwned, Damaged
  <2>2. Writers \cap Verifiers = {} /\ pc \in [Writers \cup Verifiers -> WriterPC \cup VerifierPC]
    BY <1>1, ChainAssumption DEF IInv, TypeOK
  <2> QED
    BY <1>1, <2>1, <2>2
    DEF Damaged, Next, WriterStep, VerifierStep, vars, fileVars, Goto, Leave,
        LogEvent, AcquireLock, LockTimeout, ChainTip, RefuseInvalidChain,
        SignerFails, WriteBytes, WriteRest, Fsync, AppendFails, ReturnRecord,
        RaiseAppendError, Die, VerifyChain, VerifierAcquires, VerifierTimeout,
        CheckRecords, VerifierReturns
<1> QED BY <1>1, Invariant, PTL DEF Spec, DamagedStoreIsFrozen
=============================================================================
