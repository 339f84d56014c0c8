----------------------- MODULE ForensicChainRefinement -----------------------
(* log_event implements the abstract log: ForensicChain refines EventLog for  *)
(* every set of writers, verifiers, events and keys.                          *)
EXTENDS ForensicChainProofs

\* The three abstract variables, as ForensicChain maps them.
ALog == [i \in 1 .. Len(lines) |-> lines[i].event]
AAcked == {r.seq + 1 : r \in acked}
ACall == [w \in Writers |-> LoggedCall(w)]

\* All writers but w keep their place.
OthersKeep(w) == \A x \in Writers \ {w} :
                    pc'[x] = pc[x] /\ event'[x] = event[x] /\ rec'[x] = rec[x]

-----------------------------------------------------------------------------
(* Lemmas about the refinement mapping *)

\* A step of one writer changes one entry of the abstract calls.
LEMMA OneCall ==
    ASSUME NEW w \in Writers, NEW c, OthersKeep(w), LoggedCall(w)' = c
    PROVE  ACall' = [ACall EXCEPT ![w] = c]
<1>1. ASSUME NEW x \in Writers \ {w} PROVE LoggedCall(x)' = LoggedCall(x)
  BY <1>1 DEF LoggedCall, OthersKeep
<1> QED BY <1>1 DEF ACall

\* A step that keeps the status of its writer is invisible in the calls.
LEMMA SameCall ==
    ASSUME NEW w \in Writers, OthersKeep(w), LoggedCall(w)' = LoggedCall(w)
    PROVE  ACall' = ACall
<1>1. ASSUME NEW x \in Writers PROVE LoggedCall(x)' = LoggedCall(x)
  BY <1>1 DEF LoggedCall, OthersKeep
<1> QED BY <1>1 DEF ACall

\* A step that touches neither the lines nor the acknowledged records, and none
\* of the calls, is a stuttering step of the abstract log.
LEMMA Stutter ==
    ASSUME lines' = lines, acked' = acked, ACall' = ACall
    PROVE  UNCHANGED Log!logVars
  BY DEF Log!logVars, ACall

\* A call that ends without an acknowledgement.
LEMMA CallFails ==
    ASSUME NEW w \in Writers, OthersKeep(w), lines' = lines, acked' = acked,
           pc[w] \notin {"idle", "failed"}, pc[w] \in WriterPC,
           pc'[w] \in {"idle", "failed"}
    PROVE  Log!LogFail(w)
<1>1. LoggedCall(w)' = [status |-> "idle"]
  BY DEF LoggedCall
<1>2. ACall' = [ACall EXCEPT ![w] = [status |-> "idle"]]
  BY <1>1, OneCall
<1>3. LoggedCall(w).status # "idle"
  BY DEF LoggedCall, WriterPC, Critical
<1> QED BY <1>2, <1>3 DEF Log!LogFail, Log!NoCall, ACall

-----------------------------------------------------------------------------
(* One lemma per kind of step *)

LEMMA InitRefines == Init => Log!LogInit
  BY ChainAssumption DEF Init, Log!LogInit, Log!NoCall, LoggedCall

\* A valid event opens an abstract call; an invalid one leaves no trace.
LEMMA LogEventRefines ==
    ASSUME IInv, NEW w \in Writers, NEW e \in Events, LogEvent(w, e)
    PROVE  Log!LogCall(w, e) \/ UNCHANGED Log!logVars
<1>1. CASE validate_event(e)
  <2>1. LoggedCall(w) = [status |-> "idle"]
    BY DEF LogEvent, LoggedCall
  <2>2. LoggedCall(w)' = [status |-> "open", event |-> e]
    BY <1>1 DEF LogEvent, LoggedCall, Goto, IInv, TypeOK
  <2>3. ACall' = [ACall EXCEPT ![w] = [status |-> "open", event |-> e]]
    BY <1>1, <2>2, OneCall DEF LogEvent, Goto, IInv, TypeOK, OthersKeep
  <2> QED BY <2>1, <2>3 DEF Log!LogCall, Log!NoCall, LogEvent, fileVars, ACall
<1>2. CASE ~ validate_event(e)
  <2>1. ACall' = ACall
    BY <1>2 DEF LogEvent, ACall, LoggedCall
  <2> QED BY <2>1, Stutter DEF LogEvent, fileVars
<1> QED BY <1>1, <1>2

\* The line becomes whole: the abstract log grows by the event of the call.
LEMMA WriteRestRefines ==
    ASSUME IInv, NEW w \in Writers, WriteRest(w)
    PROVE  Log!LogAppend(w)
<1>1. /\ rec[w] \in Records /\ rec[w].event = event[w] /\ rec[w].seq = Len(lines)
      /\ lines' = Append(lines, rec[w])
  BY DEF IInv, SignedFits, TailOwned, WriteRest
<1>2. lines \in Seq(Records \cup {GARBLED}) /\ Len(lines) \in Nat
  BY DEF IInv, TypeOK
<1>3. /\ Len(lines') = Len(lines) + 1
      /\ lines'[Len(lines) + 1] = rec[w]
      /\ \A i \in 1 .. Len(lines) : lines'[i] = lines[i]
  BY <1>1, <1>2
<1>4. ALog \in Seq({ALog[i] : i \in 1 .. Len(lines)}) /\ Len(ALog) = Len(lines)
  BY <1>2 DEF ALog
<1>5. ALog' = Append(ALog, event[w])
  <2>1. Len(ALog') = Len(ALog) + 1 /\ ALog' = [i \in 1 .. Len(ALog) + 1 |-> lines'[i].event]
    BY <1>2, <1>3, <1>4 DEF ALog
  <2>2. \A i \in 1 .. Len(ALog) + 1 :
           lines'[i].event = IF i = Len(ALog) + 1 THEN event[w] ELSE ALog[i]
    BY <1>1, <1>2, <1>3, <1>4 DEF ALog
  <2> QED BY <1>4, <2>1, <2>2
<1>6. Len(ALog') = Len(lines) + 1
  BY <1>4, <1>5
<1>7. LoggedCall(w) = [status |-> "open", event |-> event[w]]
  BY DEF LoggedCall, WriteRest
<1>8. LoggedCall(w)' = [status |-> "appended", pos |-> Len(lines) + 1]
  BY <1>1 DEF LoggedCall, WriteRest, Goto, IInv, TypeOK
<1>9. ACall' = [ACall EXCEPT ![w] = [status |-> "appended", pos |-> Len(ALog')]]
  BY <1>6, <1>8, OneCall DEF WriteRest, Goto, IInv, TypeOK, OthersKeep
<1>10. ACall[w] = [status |-> "open", event |-> event[w]]
  BY <1>7 DEF ACall
<1>11. AAcked' = AAcked
  BY DEF AAcked, WriteRest
<1>12. Log!LogAppend(w) =
          /\ ACall[w].status = "open"
          /\ ALog' = Append(ALog, ACall[w].event)
          /\ ACall' = [ACall EXCEPT ![w] = [status |-> "appended", pos |-> Len(ALog')]]
          /\ UNCHANGED AAcked
  BY Zenon DEF Log!LogAppend, ACall, ALog, AAcked
<1> QED BY <1>5, <1>9, <1>10, <1>11, <1>12

\* log_event returns: the abstract call is acknowledged at its own position.
LEMMA ReturnRecordRefines ==
    ASSUME IInv, NEW w \in Writers, ReturnRecord(w)
    PROVE  Log!LogReturn(w)
<1>1. LoggedCall(w) = [status |-> "appended", pos |-> rec[w].seq + 1]
  BY DEF LoggedCall, ReturnRecord
<1>2. LoggedCall(w)' = [status |-> "idle"]
  BY DEF LoggedCall, ReturnRecord, Leave, IInv, TypeOK
<1>3. ACall' = [ACall EXCEPT ![w] = [status |-> "idle"]]
  BY <1>2, OneCall DEF ReturnRecord, Leave, IInv, TypeOK, OthersKeep
<1>4. AAcked' = AAcked \cup {rec[w].seq + 1}
  BY DEF AAcked, ReturnRecord
<1> QED
  BY <1>1, <1>3, <1>4 DEF Log!LogReturn, Log!NoCall, ACall, AAcked, ReturnRecord, fileVars

\* Power loss drops only unacknowledged events, and only from the end.
LEMMA PowerLossRefines ==
    ASSUME IInv, PowerLoss
    PROVE  Log!LogLose
<1>1. PICK n \in synced .. Len(lines) : lines' = SubSeq(lines, 1, n)
  BY DEF PowerLoss
<1>2. /\ lines \in Seq(Records \cup {GARBLED}) /\ synced \in 0 .. Len(lines)
      /\ acked \subseteq Records
  BY DEF IInv, TypeOK
<1>3. n \in 0 .. Len(lines) /\ Len(lines') = n /\ \A i \in 1 .. n : lines'[i] = lines[i]
  BY <1>1, <1>2
<1>4. ALog \in Seq({ALog[i] : i \in 1 .. Len(lines)}) /\ Len(ALog) = Len(lines)
  BY <1>2 DEF ALog
<1>5. ALog' = SubSeq(ALog, 1, n)
  BY <1>2, <1>3, <1>4 DEF ALog
<1>6. \A p \in AAcked : p <= n
  BY <1>1, <1>2 DEF IInv, AckedDurable, AAcked, Records
<1>7. ACall' = [w \in Writers |-> [status |-> "idle"]]
  BY DEF PowerLoss, ACall, LoggedCall
<1>8. AAcked' = AAcked
  BY DEF PowerLoss, AAcked
<1> QED
  BY <1>3, <1>4, <1>5, <1>6, <1>7, <1>8
  DEF Log!LogLose, Log!NoCall, ALog, AAcked, ACall

\* Steps inside the critical section that the abstract log does not see.
LEMMA InternalStepRefines ==
    ASSUME IInv, NEW w \in Writers,
           \/ AcquireLock(w) \/ \E key \in SigningKeys : ChainTip(w, key)
           \/ WriteBytes(w) \/ Fsync(w) \/ RaiseAppendError(w)
    PROVE  UNCHANGED Log!logVars
<1> USE DEF IInv, TypeOK
<1>1. lines' = lines /\ acked' = acked /\ OthersKeep(w)
  BY DEF AcquireLock, ChainTip, WriteBytes, Fsync, RaiseAppendError, fileVars,
         Goto, Leave, OthersKeep
<1>2. LoggedCall(w)' = LoggedCall(w)
  BY DEF AcquireLock, ChainTip, WriteBytes, Fsync, RaiseAppendError, Goto, Leave,
         LoggedCall
<1> QED BY <1>1, <1>2, SameCall, Stutter

\* Steps that end a call without an acknowledgement; for a writer that already
\* failed they are invisible.
LEMMA FailingStepRefines ==
    ASSUME IInv, NEW w \in Writers,
           LockTimeout(w) \/ RefuseInvalidChain(w) \/ SignerFails(w)
              \/ AppendFails(w) \/ Die(w)
    PROVE  Log!LogFail(w) \/ UNCHANGED Log!logVars
<1> USE DEF IInv, TypeOK
<1>1. lines' = lines /\ acked' = acked /\ OthersKeep(w) /\ pc[w] \in WriterPC
  BY DEF LockTimeout, RefuseInvalidChain, SignerFails, AppendFails, Die, fileVars,
         Goto, Leave, OthersKeep
<1>2. pc'[w] \in {"idle", "failed"} /\ pc[w] # "idle"
  BY DEF LockTimeout, RefuseInvalidChain, SignerFails, AppendFails, Die, Goto, Leave
<1>3. CASE pc[w] # "failed"
  BY <1>1, <1>2, <1>3, CallFails
<1>4. CASE pc[w] = "failed"
  <2>1. LoggedCall(w)' = LoggedCall(w)
    BY <1>2, <1>4 DEF LoggedCall
  <2> QED BY <1>1, <2>1, SameCall, Stutter
<1> QED BY <1>3, <1>4

\* verify_chain only reads.
LEMMA VerifierStepRefines ==
    ASSUME IInv, NEW v \in Verifiers, VerifierStep(v)
    PROVE  UNCHANGED Log!logVars
<1>1. /\ lines' = lines /\ acked' = acked
      /\ \A w \in Writers : pc'[w] = pc[w] /\ event'[w] = event[w] /\ rec'[w] = rec[w]
  BY ChainAssumption
  DEF IInv, TypeOK, VerifierStep, VerifyChain, VerifierAcquires, VerifierTimeout,
      CheckRecords, VerifierReturns, Goto, fileVars
<1>2. ACall' = ACall
  BY <1>1 DEF ACall, LoggedCall
<1> QED BY <1>1, <1>2, Stutter

-----------------------------------------------------------------------------
\* Every behaviour of log_event and verify_chain, with any failures, is a
\* behaviour of the abstract log: appended once before the call returns, at most
\* once when it raises, and never lost after it returned.
THEOREM RefinesEventLog == Spec => ImplementsEventLog
<1>1. Init => Log!LogInit
  BY InitRefines
<1>2. IInv /\ [Next]_vars => [Log!LogNext]_(Log!logVars)
  <2> SUFFICES ASSUME IInv, [Next]_vars PROVE Log!LogNext \/ UNCHANGED Log!logVars
    OBVIOUS
  <2>1. ASSUME NEW w \in Writers, WriterStep(w)
        PROVE  Log!LogNext \/ UNCHANGED Log!logVars
    BY <2>1, LogEventRefines, WriteRestRefines, ReturnRecordRefines,
       InternalStepRefines, FailingStepRefines
    DEF WriterStep, Log!LogNext
  <2>2. CASE PowerLoss
    BY <2>2, PowerLossRefines DEF Log!LogNext
  <2>3. CASE UNCHANGED vars
    <3>1. ACall' = ACall
      BY <2>3 DEF vars, ACall, LoggedCall
    <3> QED BY <2>3, <3>1, Stutter DEF vars
  <2> QED BY <2>1, <2>2, <2>3, VerifierStepRefines DEF Next
<1> QED BY <1>1, <1>2, Invariant, PTL DEF Spec, ImplementsEventLog, Log!LogSpec
=============================================================================
