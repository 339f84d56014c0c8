-------------------------- MODULE VerifierCliProofs --------------------------
(* Theorems about VerifierCli, for every set of writers, events, keys and    *)
(* attestations, for every depth demanded and for every bound.  The store    *)
(* keeps the invariant of ForensicChainProofs, since a step of the command   *)
(* leaves it alone and the other steps are steps of ForensicChain.           *)
EXTENDS VerifierCli, ForensicChainProofs

-----------------------------------------------------------------------------
(* The inductive invariant *)

Attestations == [height : Nat \ {0}, branch : 0 .. MaxReorgs]

\* What verify_reader carries from line to line.
Reads == [st : {"reading", "valid"}, expected_seq : Nat, expected_prev : Digests,
          format_version : 0 .. 2, before : SUBSET Records]

\* verify_anchor before it knows the height, between two attestations (with or
\* without the last answer of the node), and while it checks one.
Counts == [st : {"count"}, atts : Seq(Attestations), k : Nat, calm : BOOLEAN]
Picks == [st : {"next"}, atts : Seq(Attestations), k : Nat, calm : BOOLEAN,
          tip_height : Nat, enough : BOOLEAN]
Checks == [st : {"next", "header", "verified"}, atts : Seq(Attestations), k : Nat,
           calm : BOOLEAN, tip_height : Nat, enough : BOOLEAN, active_hash : Nat,
           depth : Int]

\* The command has the locals of the place where it is.
CliTyped ==
    /\ cli.st \in {"idle", "reading", "valid", "invalid", "count", "next", "header",
                   "verified", "failed"}
    /\ cli.st \in {"reading", "valid"} => cli \in Reads
    /\ cli.st = "count" => cli \in Counts
    /\ cli.st = "next" => cli \in Picks \cup Checks
    /\ cli.st = "header" => cli \in Checks

\* The blocks of the node's chain are known by their branch.
NodeTyped == active \in Seq(Nat) /\ branch \in Nat

\* What the reader expects next is what follows the lines that it has read, and
\* what was acknowledged when it began still is.
ReadPosition ==
    cli.st \in {"reading", "valid"} =>
        /\ cli.expected_seq \in 0 .. Len(lines)
        /\ cli.expected_prev = (IF cli.expected_seq = 0 THEN GENESIS_PREV_HASH
                                ELSE lines[cli.expected_seq].record_hash)
        /\ cli.format_version = (IF cli.expected_seq = 0 THEN 0
                                 ELSE record_format_version(lines[1].event))
        /\ cli.before \subseteq acked

\* A finished reader has passed every record that was acknowledged before it.
ReadAllBefore == cli.st = "valid" => \A r \in cli.before : r.seq < cli.expected_seq

\* The attestation in hand is one of the proof, and the chain has not become
\* shorter than it was when the height was read.
AttestationInHand ==
    /\ cli.st \in {"count", "next", "header"} => cli.k \in 1 .. Len(cli.atts)
    /\ cli.st \in {"next", "header"} => cli.tip_height <= Len(active)

\* The block that the node named is under at least as many blocks as the height
\* read before accounts for, and without a reorganisation it is still active.
AnswerIsDeep ==
    cli.st = "header" =>
        /\ Attestation.height <= cli.tip_height
        /\ cli.depth >= ConfirmationsOf(Attestation)
        /\ cli.calm => cli.active_hash = active[Attestation.height]

\* The attested block is settled in the chain up to height h.
SettledUpTo(a, h) == /\ a.height <= h
                     /\ active[a.height] = a.branch
                     /\ h - a.height + 1 >= Confirmations

\* As long as the node answers and its chain does not reorganise, a settled
\* attestation that the command has not passed yet is left.
GoodBranchAhead ==
    cli.st \in {"next", "header"} /\ cli.calm /\ cli.enough =>
        \E i \in cli.k .. Len(cli.atts) : SettledUpTo(cli.atts[i], cli.tip_height)

ChainInv == CliTyped /\ ReadPosition /\ ReadAllBefore /\ AlarmNamesTheTail
AnchorInv == CliTyped /\ NodeTyped /\ AttestationInHand /\ AnswerIsDeep
             /\ GoodBranchAhead /\ VerifiedWasDeep /\ GoodBranchIsEnough
CliInv == IInv /\ ChainInv /\ AnchorInv

-----------------------------------------------------------------------------
(* Lemmas *)

\* An event that forensics/_format.py accepts passes the schema of chain.rs.
LEMMA SameSchema ==
    ASSUME NEW e, validate_event(e)
    PROVE  validate_schema(e)
  BY DEF validate_event, HasSchema, validate_schema

\* The format version is one of the two.
LEMMA VersionType ==
    ASSUME NEW e
    PROVE  record_format_version(e) \in {1, 2}
  BY DEF record_format_version

\* A line that the reader refuses is signed with another key.
LEMMA OnlyForeignIsRefused ==
    ASSUME IInv, ReadPosition, cli.st = "reading", cli.expected_seq < Len(lines),
           ~ RecordAccepted(lines[cli.expected_seq + 1])
    PROVE  lines[cli.expected_seq + 1].signature.key # PublicKey
<1> DEFINE i == cli.expected_seq + 1
<1>1. i \in 1 .. Len(lines) /\ 1 \in 1 .. Len(lines) /\ i - 1 = cli.expected_seq
  BY DEF ReadPosition, IInv, TypeOK
<1>2. GoodLine(i) /\ lines[i].signature = Sign(lines[i].signature.key, lines[i])
  BY <1>1 DEF IInv, ChainWellFormed, LinesSigned
<1>3. validate_schema(lines[i].event) /\ lines[i] # GARBLED
  BY <1>2, SameSchema DEF GoodLine
<1>4. cli.format_version \in {0, record_format_version(lines[i].event)}
  BY <1>2 DEF GoodLine, ReadPosition
<1>5. Continues(lines[i])
  BY <1>1, <1>2 DEF GoodLine, ReadPosition, Continues
<1>6. lines[i].record_hash = hash_unsigned_record(lines[i])
  BY <1>2 DEF GoodLine
<1> HIDE DEF i
<1>7. lines[i].signature # Sign(PublicKey, lines[i])
  BY <1>3, <1>4, <1>5, <1>6 DEF RecordAccepted, i
<1> QED BY <1>2, <1>7 DEF i

\* Writers only append to the store, and nothing acknowledged is taken back.
LEMMA WritersAppend ==
    ASSUME IInv, NEW w \in Writers, WriterStep(w)
    PROVE  /\ lines' = lines \/ \E x \in Records : lines' = Append(lines, x)
           /\ acked \subseteq acked'
<1>1. CASE WriteRest(w)
  BY <1>1 DEF WriteRest, IInv, TailOwned, SignedFits
<1>2. CASE ReturnRecord(w)
  BY <1>2 DEF ReturnRecord, fileVars
<1>3. CASE lines' = lines /\ acked' = acked
  BY <1>3
<1> QED BY <1>1, <1>2, <1>3
  DEF WriterStep, fileVars, LogEvent, AcquireLock, LockTimeout, ChainTip,
      RefuseInvalidChain, SignerFails, WriteBytes, Fsync, AppendFails,
      RaiseAppendError, Die

\* What holds of the reader when the command is not reading the chain.
LEMMA NotReading ==
    ASSUME CliTyped', cli'.st \notin {"reading", "valid", "invalid"}
    PROVE  ChainInv'
  BY DEF ChainInv, ReadPosition, ReadAllBefore, AlarmNamesTheTail

\* What holds of the anchor when the command is not about one.
LEMMA NotAnchoring ==
    ASSUME CliTyped', NodeTyped',
           cli'.st \notin {"count", "next", "header", "verified", "failed"}
    PROVE  AnchorInv'
  BY DEF AnchorInv, AttestationInHand, AnswerIsDeep, GoodBranchAhead, VerifiedWasDeep,
         GoodBranchIsEnough

-----------------------------------------------------------------------------
(* The command `chain` *)

\* The reader starts at the genesis digest with what is acknowledged by then.
LEMMA VerifyPathInv ==
    ASSUME CliInv, UNCHANGED vars, VerifyPath
    PROVE  ChainInv' /\ AnchorInv'
<1>1. /\ cli' = [st |-> "reading", expected_seq |-> 0, expected_prev |-> GENESIS_PREV_HASH,
                 format_version |-> 0, before |-> acked]
      /\ acked' = acked /\ lines' = lines /\ active' = active /\ branch' = branch
  BY DEF VerifyPath, vars
<1>2. /\ acked \subseteq Records /\ GENESIS_PREV_HASH \in Digests /\ Len(lines) \in Nat
      /\ NodeTyped
  BY DEF CliInv, IInv, TypeOK, GENESIS_PREV_HASH, Digests, AnchorInv
<1>3. /\ cli'.st = "reading" /\ cli' \in Reads /\ cli'.expected_seq = 0
      /\ cli'.expected_prev = GENESIS_PREV_HASH /\ cli'.format_version = 0
      /\ cli'.before = acked
  BY <1>1, <1>2 DEF Reads
<1>4. CliTyped'
  BY <1>3 DEF CliTyped
<1>5. ReadPosition' /\ ReadAllBefore' /\ AlarmNamesTheTail'
  BY <1>1, <1>2, <1>3 DEF ReadPosition, ReadAllBefore, AlarmNamesTheTail
<1>6. NodeTyped'
  BY <1>1, <1>2 DEF NodeTyped
<1> QED BY <1>3, <1>4, <1>5, <1>6, NotAnchoring DEF ChainInv

\* A store that is not there is reported as such.
LEMMA OpenFailsInv ==
    ASSUME CliInv, UNCHANGED vars, OpenFails
    PROVE  ChainInv' /\ AnchorInv'
<1>1. /\ cli' = [st |-> "invalid", reason |-> "cannot open"]
      /\ active' = active /\ branch' = branch
  BY DEF OpenFails
<1>2. cli'.st = "invalid" /\ cli'.reason = "cannot open"
  BY <1>1
<1>3. CliTyped' /\ NodeTyped'
  BY <1>1, <1>2 DEF CliTyped, NodeTyped, CliInv, AnchorInv
<1> QED BY <1>2, <1>3, NotAnchoring
        DEF ChainInv, ReadPosition, ReadAllBefore, AlarmNamesTheTail

\* An accepted line moves the reader on by one; a refused one is foreign.
LEMMA ReadLineInv ==
    ASSUME CliInv, UNCHANGED vars, ReadLine
    PROVE  ChainInv' /\ AnchorInv'
<1> DEFINE i == cli.expected_seq + 1
           r == lines[i]
<1>1. /\ cli.st = "reading" /\ cli \in Reads /\ cli.expected_seq < Len(lines)
      /\ acked' = acked /\ lines' = lines /\ active' = active /\ branch' = branch
      /\ IInv /\ ReadPosition /\ NodeTyped
  BY DEF ReadLine, vars, CliInv, ChainInv, CliTyped, AnchorInv
<1>2. /\ i \in 1 .. Len(lines) /\ 1 \in 1 .. Len(lines) /\ i # 0
      /\ cli.before \subseteq acked
  BY <1>1 DEF ReadPosition, IInv, TypeOK
<1>3. CASE RecordAccepted(r)
  <2>1. r \in Records /\ record_format_version(r.event) = record_format_version(lines[1].event)
    BY <1>1, <1>2 DEF IInv, TypeOK, ChainWellFormed, GoodLine
  <2>2. r.record_hash \in Digests /\ record_format_version(r.event) \in 0 .. 2
    BY <2>1, VersionType DEF Records
  <2>3. cli' = [cli EXCEPT !.expected_seq = @ + 1, !.expected_prev = r.record_hash,
                           !.format_version = record_format_version(r.event)]
    BY <1>3 DEF ReadLine
  <2>4. /\ cli' \in Reads /\ cli'.st = "reading" /\ cli'.expected_seq = i
        /\ cli'.expected_prev = r.record_hash
        /\ cli'.format_version = record_format_version(r.event)
        /\ cli'.before = cli.before
    <3>1. cli.expected_seq + 1 \in Nat
      BY <1>1 DEF Reads
    <3> DEFINE v == record_format_version(r.event)
               d == r.record_hash
    <3>2. v \in 0 .. 2 /\ d \in Digests
      BY <2>2
    <3>3. cli' = [cli EXCEPT !.expected_seq = @ + 1, !.expected_prev = d,
                             !.format_version = v]
      BY <2>3
    <3> HIDE DEF v, d
    <3>4. cli' \in Reads
      BY <1>1, <3>1, <3>2, <3>3 DEF Reads
    <3>5. /\ cli'.st = "reading" /\ cli'.expected_seq = cli.expected_seq + 1
          /\ cli'.expected_prev = d /\ cli'.format_version = v /\ cli'.before = cli.before
      BY <1>1, <3>3 DEF Reads
    <3> QED BY <3>4, <3>5 DEF v, d
  <2>5. CliTyped' /\ NodeTyped'
    BY <1>1, <2>4 DEF CliTyped, NodeTyped
  <2>6. ReadPosition'
    BY <1>1, <1>2, <2>1, <2>4 DEF ReadPosition
  <2> QED BY <2>4, <2>5, <2>6, NotAnchoring DEF ChainInv, ReadAllBefore, AlarmNamesTheTail
<1>4. CASE ~ RecordAccepted(r)
  <2>1. cli' = [st |-> "invalid", reason |-> "record"]
    BY <1>4 DEF ReadLine
  <2>2. lines'[i].signature.key # PublicKey /\ i \in 1 .. Len(lines')
    BY <1>1, <1>2, <1>4, OnlyForeignIsRefused
  <2>3. CliTyped' /\ NodeTyped' /\ cli'.st = "invalid"
    BY <1>1, <2>1 DEF CliTyped, NodeTyped
  <2> HIDE DEF i
  <2> QED BY <2>2, <2>3, NotAnchoring
          DEF ChainInv, ReadPosition, ReadAllBefore, AlarmNamesTheTail
<1> QED BY <1>3, <1>4

\* At the end of the file every record that was acknowledged before is behind
\* the reader, since it is on the disk.
LEMMA ReadEndInv ==
    ASSUME CliInv, UNCHANGED vars, ReadEnd
    PROVE  ChainInv' /\ AnchorInv'
<1>1. /\ cli.st = "reading" /\ cli \in Reads /\ cli.expected_seq = Len(lines)
      /\ acked' = acked /\ lines' = lines /\ active' = active /\ branch' = branch
      /\ IInv /\ ReadPosition /\ NodeTyped
  BY DEF ReadEnd, AtEnd, vars, CliInv, ChainInv, CliTyped, AnchorInv
<1>2. CASE tail = "empty"
  <2>1. cli' = [cli EXCEPT !.st = "valid"]
    BY <1>2 DEF ReadEnd
  <2>2. /\ cli' \in Reads /\ cli'.st = "valid" /\ cli'.expected_seq = cli.expected_seq
        /\ cli'.expected_prev = cli.expected_prev
        /\ cli'.format_version = cli.format_version /\ cli'.before = cli.before
    BY <1>1, <2>1 DEF Reads
  <2>3. CliTyped' /\ NodeTyped'
    BY <1>1, <2>2 DEF CliTyped, NodeTyped
  <2>4. ReadPosition'
    BY <1>1, <2>2 DEF ReadPosition
  <2>5. \A r \in cli.before : r.seq < cli.expected_seq
    BY <1>1 DEF ReadPosition, IInv, AckedDurable, TypeOK, Records
  <2> QED BY <2>2, <2>3, <2>4, <2>5, NotAnchoring
          DEF ChainInv, ReadAllBefore, AlarmNamesTheTail
<1>3. CASE tail # "empty"
  <2>1. cli' = [st |-> "invalid", reason |-> "unterminated"]
    BY <1>3 DEF ReadEnd
  <2>2. CliTyped' /\ NodeTyped' /\ cli'.st = "invalid" /\ cli'.reason = "unterminated"
    BY <1>1, <2>1 DEF CliTyped, NodeTyped
  <2> QED BY <2>2, NotAnchoring
          DEF ChainInv, ReadPosition, ReadAllBefore, AlarmNamesTheTail
<1> QED BY <1>2, <1>3

-----------------------------------------------------------------------------
(* The command `anchor` *)

\* The command begins with the proof's attestations, or fails at once.
LEMMA VerifyAnchorInv ==
    ASSUME CliInv, UNCHANGED vars, NEW digest, NEW atts \in AttestationLists,
           VerifyAnchor(digest, atts)
    PROVE  ChainInv' /\ AnchorInv'
<1>1. active' = active /\ branch' = branch /\ NodeTyped
  BY DEF VerifyAnchor, CliInv, AnchorInv
<1>2. atts \in Seq(Attestations)
  BY CliAssumption DEF Attestations
<1>3. NodeTyped'
  BY <1>1 DEF NodeTyped
<1>4. CASE cli' = [st |-> "count", atts |-> atts, k |-> 1, calm |-> TRUE]
  <2>1. cli'.st = "count" /\ cli' \in Counts /\ cli'.k = 1 /\ cli'.atts = atts
    BY <1>2, <1>4 DEF Counts
  <2>2. CliTyped'
    BY <2>1 DEF CliTyped
  <2>3. atts # << >>
    BY <1>4 DEF VerifyAnchor, InspectProof
  <2>4. 1 \in 1 .. Len(atts)
    BY <1>2, <2>3
  <2> QED BY <1>3, <2>1, <2>2, <2>4, NotReading
          DEF AnchorInv, AttestationInHand, AnswerIsDeep, GoodBranchAhead,
              VerifiedWasDeep, GoodBranchIsEnough
<1>5. CASE cli' = [st |-> "failed", calm |-> FALSE]
  <2>1. cli'.st = "failed" /\ ~ cli'.calm
    BY <1>5
  <2>2. CliTyped'
    BY <2>1 DEF CliTyped
  <2> QED BY <1>3, <2>1, <2>2, NotReading
          DEF AnchorInv, AttestationInHand, AnswerIsDeep, GoodBranchAhead,
              VerifiedWasDeep, GoodBranchIsEnough
<1> QED BY <1>4, <1>5 DEF VerifyAnchor

\* The height is that of the chain, and `enough` looks at all the attestations.
LEMMA GetBlockCountInv ==
    ASSUME CliInv, UNCHANGED vars, GetBlockCount
    PROVE  ChainInv' /\ AnchorInv'
<1> DEFINE e == \E i \in DOMAIN cli.atts : Settled(cli.atts[i])
<1>1. /\ cli \in Counts /\ cli.k \in 1 .. Len(cli.atts) /\ NodeTyped
      /\ active' = active /\ branch' = branch
      /\ cli' = [st |-> "next", atts |-> cli.atts, k |-> 1, calm |-> TRUE,
                 tip_height |-> Len(active), enough |-> e]
  BY DEF GetBlockCount, CliInv, AnchorInv, CliTyped, AttestationInHand
<1>2. e \in BOOLEAN /\ Len(active) \in Nat /\ cli.atts \in Seq(Attestations)
  BY <1>1 DEF NodeTyped, Counts
<1>3. e => \E i \in 1 .. Len(cli.atts) : SettledUpTo(cli.atts[i], Len(active))
  BY <1>2 DEF Settled, SettledUpTo, Depth
<1> HIDE DEF e
<1>4. /\ cli' \in Picks /\ cli'.st = "next" /\ cli'.atts = cli.atts /\ cli'.k = 1
      /\ cli'.tip_height = Len(active)
  BY <1>1, <1>2 DEF Picks
<1>4a. cli'.enough = e
  BY <1>1
<1>5. CliTyped' /\ NodeTyped'
  BY <1>1, <1>4 DEF CliTyped, NodeTyped
<1>6. AttestationInHand'
  BY <1>1, <1>2, <1>4 DEF AttestationInHand
<1>7. GoodBranchAhead'
  BY <1>1, <1>3, <1>4, <1>4a DEF GoodBranchAhead, SettledUpTo
<1> QED BY <1>4, <1>5, <1>6, <1>7, NotReading
        DEF AnchorInv, AnswerIsDeep, VerifiedWasDeep, GoodBranchIsEnough

\* Passing an attestation keeps the invariant when a settled one is left behind
\* it, and so does giving up after the last.
LEMMA LastFailureInv ==
    ASSUME CliInv, UNCHANGED vars, cli.st \in {"next", "header"},
           active' = active, branch' = branch,
           \/ /\ cli' = LastFailure
              /\ cli.calm /\ cli.enough =>
                    \E i \in cli.k + 1 .. Len(cli.atts) :
                       SettledUpTo(cli.atts[i], cli.tip_height)
           \/ cli' = [LastFailure EXCEPT !.calm = FALSE]
    PROVE  ChainInv' /\ AnchorInv'
<1>1. /\ cli \in Picks \cup Checks /\ cli.k \in 1 .. Len(cli.atts)
      /\ cli.tip_height <= Len(active) /\ NodeTyped
  BY DEF CliInv, AnchorInv, CliTyped, AttestationInHand
<1>2. NodeTyped' /\ Len(cli.atts) \in Nat
  BY <1>1 DEF NodeTyped, Picks, Checks
<1>3. CASE cli.k = Len(cli.atts)
  <2>1. LastFailure = [cli EXCEPT !.st = "failed"]
    BY <1>3 DEF LastFailure
  <2>2. cli'.st = "failed"
    BY <1>1, <2>1 DEF Picks, Checks
  <2>3. cli'.enough = cli.enough
    BY <1>1, <2>1 DEF Picks, Checks
  <2>4. \/ cli'.calm = FALSE
        \/ cli'.calm = cli.calm /\ ~ (cli.calm /\ cli.enough)
    <3>1. CASE cli' = [LastFailure EXCEPT !.calm = FALSE]
      BY <1>1, <2>1, <3>1 DEF Picks, Checks
    <3>2. CASE cli' = LastFailure
      <4>1. cli'.calm = cli.calm
        BY <1>1, <2>1, <3>2 DEF Picks, Checks
      <4>2. cli.k + 1 .. Len(cli.atts) = {}
        BY <1>1, <1>2, <1>3
      <4> QED BY <3>1, <4>1, <4>2
    <3> QED BY <3>1, <3>2
  <2>6. GoodBranchIsEnough'
    BY <2>3, <2>4 DEF GoodBranchIsEnough
  <2>7. CliTyped'
    BY <2>2 DEF CliTyped
  <2> QED BY <1>2, <2>2, <2>6, <2>7, NotReading
          DEF AnchorInv, AttestationInHand, AnswerIsDeep, GoodBranchAhead, VerifiedWasDeep
<1>4. CASE cli.k # Len(cli.atts)
  <2>1. LastFailure = [cli EXCEPT !.st = "next", !.k = @ + 1]
    BY <1>4 DEF LastFailure
  <2>2. /\ cli'.st = "next" /\ cli'.k = cli.k + 1 /\ cli'.atts = cli.atts
        /\ cli'.tip_height = cli.tip_height
    BY <1>1, <2>1 DEF Picks, Checks
  <2>3. cli'.enough = cli.enough
    BY <1>1, <2>1 DEF Picks, Checks
  <2>4. \/ cli'.calm = FALSE
        \/ /\ cli'.calm = cli.calm
           /\ cli.calm /\ cli.enough =>
                 \E i \in cli.k + 1 .. Len(cli.atts) :
                    SettledUpTo(cli.atts[i], cli.tip_height)
    <3>1. CASE cli' = [LastFailure EXCEPT !.calm = FALSE]
      BY <1>1, <2>1, <3>1 DEF Picks, Checks
    <3>2. CASE cli' = LastFailure
      <4>1. cli'.calm = cli.calm
        BY <1>1, <2>1, <3>2 DEF Picks, Checks
      <4> QED BY <3>1, <4>1
    <3> QED BY <3>1, <3>2
  <2>5. cli' \in Picks \cup Checks
    <3>1. LastFailure \in Picks \cup Checks
      <4>1. cli.k + 1 \in Nat
        BY <1>1
      <4>2. CASE cli \in Picks
        BY <2>1, <4>1, <4>2, Zenon DEF Picks
      <4>3. CASE cli \in Checks
        BY <2>1, <4>1, <4>3, Zenon DEF Checks
      <4> QED BY <1>1, <4>2, <4>3
    <3>2. [LastFailure EXCEPT !.calm = FALSE] \in Picks \cup Checks
      BY <3>1 DEF Picks, Checks
    <3> QED BY <3>1, <3>2
  <2>6. CliTyped'
    BY <2>2, <2>5 DEF CliTyped
  <2>7. AttestationInHand'
    BY <1>1, <1>2, <1>4, <2>2 DEF AttestationInHand
  <2>8. GoodBranchAhead'
    BY <2>2, <2>3, <2>4 DEF GoodBranchAhead, SettledUpTo
  <2> QED BY <1>2, <2>2, <2>6, <2>7, <2>8, NotReading
          DEF AnchorInv, AnswerIsDeep, VerifiedWasDeep, GoodBranchIsEnough
<1> QED BY <1>3, <1>4

\* An attestation above the height is not a settled one.
LEMMA AboveTipInv ==
    ASSUME CliInv, UNCHANGED vars, AboveTip
    PROVE  ChainInv' /\ AnchorInv'
<1>1. /\ cli.st = "next" /\ cli \in Picks \cup Checks /\ cli.k \in 1 .. Len(cli.atts)
      /\ cli.atts[cli.k].height > cli.tip_height /\ cli' = LastFailure
      /\ active' = active /\ branch' = branch
  BY DEF AboveTip, Attestation, CliInv, AnchorInv, CliTyped, AttestationInHand
<1>2. cli.atts \in Seq(Attestations) /\ cli.tip_height \in Nat
  BY <1>1 DEF Picks, Checks
<1>2a. cli.atts[cli.k] \in Attestations
  BY <1>1, <1>2
<1>3. ~ SettledUpTo(cli.atts[cli.k], cli.tip_height)
  BY <1>1, <1>2, <1>2a DEF SettledUpTo, Attestations
<1>4. cli.calm /\ cli.enough =>
         \E i \in cli.k .. Len(cli.atts) : SettledUpTo(cli.atts[i], cli.tip_height)
  BY <1>1 DEF CliInv, AnchorInv, GoodBranchAhead
<1>5. cli.calm /\ cli.enough =>
         \E i \in cli.k + 1 .. Len(cli.atts) : SettledUpTo(cli.atts[i], cli.tip_height)
  BY <1>1, <1>2, <1>3, <1>4
<1> QED BY <1>1, <1>5, LastFailureInv

\* The node names a block that is at least as deep as the height accounts for.
LEMMA GetBlockHashInv ==
    ASSUME CliInv, UNCHANGED vars, GetBlockHash
    PROVE  ChainInv' /\ AnchorInv'
<1> DEFINE h == cli.atts[cli.k].height
<1>1. /\ cli.st = "next" /\ cli \in Picks \cup Checks /\ cli.k \in 1 .. Len(cli.atts)
      /\ cli.tip_height <= Len(active) /\ h <= cli.tip_height /\ NodeTyped
      /\ active' = active /\ branch' = branch
  BY DEF GetBlockHash, Attestation, CliInv, AnchorInv, CliTyped, AttestationInHand
<1>1a. cli' = [st |-> "header", atts |-> cli.atts, k |-> cli.k, calm |-> cli.calm,
               tip_height |-> cli.tip_height, enough |-> cli.enough,
               active_hash |-> active[h], depth |-> Len(active) - h + 1]
  BY DEF GetBlockHash, Attestation, Depth
<1>2. /\ cli.atts \in Seq(Attestations) /\ cli.tip_height \in Nat /\ cli.k \in Nat
      /\ cli.calm \in BOOLEAN /\ cli.enough \in BOOLEAN
  BY <1>1 DEF Picks, Checks
<1>3. h \in Nat \ {0} /\ Len(active) \in Nat
  <2>1. cli.atts[cli.k] \in Attestations
    BY <1>1, <1>2
  <2> QED BY <1>1, <2>1 DEF Attestations, NodeTyped
<1> DEFINE b == active[h]
           n == Len(active)
           d == n - h + 1
<1> HIDE DEF h, n
<1>4. h <= cli.tip_height /\ cli.tip_height <= n /\ n \in Nat
  BY <1>1, <1>3 DEF n
<1>5. d \in Int /\ d >= cli.tip_height - h + 1
  BY <1>2, <1>3, <1>4
<1>5a. b \in Nat
  <2>1. h \in 1 .. n
    BY <1>2, <1>3, <1>4
  <2> QED BY <1>1, <2>1 DEF NodeTyped, n
<1> HIDE DEF d, b
<1>6. cli' = [st |-> "header", atts |-> cli.atts, k |-> cli.k, calm |-> cli.calm,
              tip_height |-> cli.tip_height, enough |-> cli.enough,
              active_hash |-> b, depth |-> d]
  BY <1>1a DEF b, d, n
<1>7. cli' \in Checks
  BY <1>2, <1>5, <1>5a, <1>6 DEF Checks
<1>8. /\ cli'.st = "header" /\ cli'.atts = cli.atts /\ cli'.k = cli.k
      /\ cli'.tip_height = cli.tip_height /\ cli'.active_hash = b /\ cli'.depth = d
  BY <1>6
<1>9. cli'.calm = cli.calm
  BY <1>6
<1>10. cli'.enough = cli.enough
  BY <1>6
<1>11. CliTyped' /\ NodeTyped'
  BY <1>1, <1>7, <1>8 DEF CliTyped, NodeTyped
<1>12. AttestationInHand'
  BY <1>1, <1>8 DEF AttestationInHand
<1>13. AnswerIsDeep'
  BY <1>1, <1>5, <1>8 DEF AnswerIsDeep, Attestation, ConfirmationsOf, h, b
<1>14. GoodBranchAhead
  BY DEF CliInv, AnchorInv
<1>15. GoodBranchAhead'
  BY <1>1, <1>8, <1>9, <1>10, <1>14 DEF GoodBranchAhead, SettledUpTo
<1> QED BY <1>8, <1>11, <1>12, <1>13, <1>15, NotReading
        DEF AnchorInv, VerifiedWasDeep, GoodBranchIsEnough

\* A block that the height accounts for and that is the attested one is deep
\* enough; when it is not, this attestation was not a settled one.
LEMMA GetBlockHeaderInv ==
    ASSUME CliInv, UNCHANGED vars, GetBlockHeader
    PROVE  ChainInv' /\ AnchorInv'
<1> DEFINE a == cli.atts[cli.k]
           good == cli.active_hash = a.branch /\ ConfirmationsOf(a) >= Confirmations
<1>1. /\ cli.st = "header" /\ cli \in Checks /\ cli.k \in 1 .. Len(cli.atts)
      /\ cli.tip_height <= Len(active) /\ NodeTyped
      /\ active' = active /\ branch' = branch
      /\ a.height <= cli.tip_height /\ cli.depth >= ConfirmationsOf(a)
      /\ cli.calm => cli.active_hash = active[a.height]
  BY DEF GetBlockHeader, Attestation, CliInv, AnchorInv, CliTyped, AttestationInHand,
         AnswerIsDeep
<1>2. /\ cli.atts \in Seq(Attestations) /\ a \in Attestations /\ cli.tip_height \in Nat
      /\ cli.depth \in Int
  BY <1>1 DEF Checks
<1>3. ConfirmationsOf(a) \in Int /\ Confirmations \in Nat
  <2>1. a.height \in Nat
    BY <1>2 DEF Attestations
  <2> HIDE DEF a
  <2> QED BY <1>2, <2>1, CliAssumption DEF ConfirmationsOf
<1>4. CASE good
  <2>1. cli' = [cli EXCEPT !.st = "verified"]
    BY <1>4 DEF GetBlockHeader, Attestation
  <2>2. /\ cli'.st = "verified" /\ cli'.atts = cli.atts /\ cli'.k = cli.k
        /\ cli'.active_hash = cli.active_hash /\ cli'.depth = cli.depth
    BY <1>1, <2>1 DEF Checks
  <2>3. cli.depth >= Confirmations
    BY <1>1, <1>2, <1>3, <1>4
  <2>4. VerifiedWasDeep'
    BY <1>4, <2>2, <2>3 DEF VerifiedWasDeep, Attestation
  <2>5. CliTyped' /\ NodeTyped'
    BY <1>1, <2>2 DEF CliTyped, NodeTyped
  <2> QED BY <2>2, <2>4, <2>5, NotReading
          DEF AnchorInv, AttestationInHand, AnswerIsDeep, GoodBranchAhead,
              GoodBranchIsEnough
<1>5. CASE ~ good
  <2>1. cli' = LastFailure
    BY <1>5 DEF GetBlockHeader, Attestation
  <2>2. cli.calm => ~ SettledUpTo(a, cli.tip_height)
    BY <1>1, <1>5 DEF SettledUpTo, ConfirmationsOf
  <2>3. cli.calm /\ cli.enough =>
           \E i \in cli.k .. Len(cli.atts) : SettledUpTo(cli.atts[i], cli.tip_height)
    BY <1>1 DEF CliInv, AnchorInv, GoodBranchAhead
  <2>4. cli.calm /\ cli.enough =>
           \E i \in cli.k + 1 .. Len(cli.atts) : SettledUpTo(cli.atts[i], cli.tip_height)
    BY <1>1, <1>2, <2>2, <2>3
  <2> QED BY <1>1, <2>1, <2>4, LastFailureInv
<1> QED BY <1>4, <1>5
\* A wrong header passes the attestation, and the node did not answer properly.
LEMMA WrongHeaderInv ==
    ASSUME CliInv, UNCHANGED vars, WrongHeader
    PROVE  ChainInv' /\ AnchorInv'
  BY LastFailureInv DEF WrongHeader

\* An RPC error ends the command in a state that promises nothing.
LEMMA RpcFailsInv ==
    ASSUME CliInv, UNCHANGED vars, RpcFails
    PROVE  ChainInv' /\ AnchorInv'
<1>1. /\ cli \in Counts \cup Picks \cup Checks
      /\ cli' = [cli EXCEPT !.st = "failed", !.calm = FALSE]
      /\ active' = active /\ branch' = branch /\ NodeTyped
  BY DEF RpcFails, CliInv, AnchorInv, CliTyped
<1>2. cli'.st = "failed"
  BY <1>1 DEF Counts, Picks, Checks
<1>3. cli'.calm = FALSE
  BY <1>1 DEF Counts, Picks, Checks
<1>4. CliTyped' /\ NodeTyped'
  BY <1>1, <1>2 DEF CliTyped, NodeTyped
<1> QED BY <1>2, <1>3, <1>4, NotReading
        DEF AnchorInv, AttestationInHand, AnswerIsDeep, GoodBranchAhead,
            VerifiedWasDeep, GoodBranchIsEnough

-----------------------------------------------------------------------------
(* The Bitcoin network and the writers *)

\* A step that leaves the command and the store alone leaves the reader's part.
LEMMA ReaderUntouched ==
    ASSUME ChainInv, UNCHANGED vars, cli' = cli
    PROVE  ChainInv'
  BY DEF ChainInv, vars, CliTyped, ReadPosition, ReadAllBefore, AlarmNamesTheTail

\* A block on top keeps every block below the height that was read.
LEMMA MineBlockInv ==
    ASSUME CliInv, UNCHANGED vars, MineBlock
    PROVE  ChainInv' /\ AnchorInv'
<1>1. /\ cli' = cli /\ active' = Append(active, branch) /\ branch' = branch
      /\ active \in Seq(Nat) /\ branch \in Nat
  BY DEF MineBlock, CliInv, AnchorInv, NodeTyped
<1>2. /\ NodeTyped' /\ Len(active) <= Len(active')
      /\ \A h \in 1 .. Len(active) : active'[h] = active[h]
  BY <1>1 DEF NodeTyped
<1>3. ChainInv'
  BY <1>1, ReaderUntouched DEF CliInv
<1>4. CliTyped' /\ VerifiedWasDeep' /\ GoodBranchIsEnough'
  BY <1>1 DEF CliInv, AnchorInv, CliTyped, VerifiedWasDeep, GoodBranchIsEnough, Attestation
<1>5. ASSUME cli.st \in {"next", "header"}
      PROVE  /\ cli.k \in 1 .. Len(cli.atts) /\ cli.tip_height \in Nat
             /\ cli.tip_height <= Len(active) /\ Len(active) \in Nat
             /\ cli.atts \in Seq(Attestations)
             /\ \A i \in 1 .. Len(cli.atts) : cli.atts[i].height \in Nat \ {0}
  <2>1. cli \in Picks \cup Checks /\ cli.tip_height <= Len(active) /\ Len(active) \in Nat
        /\ cli.k \in 1 .. Len(cli.atts)
    BY <1>1, <1>5 DEF CliInv, AnchorInv, CliTyped, AttestationInHand
  <2>2. cli.atts \in Seq(Attestations) /\ cli.tip_height \in Nat
    BY <2>1 DEF Picks, Checks
  <2>3. ASSUME NEW i \in 1 .. Len(cli.atts) PROVE cli.atts[i].height \in Nat \ {0}
    <3>1. cli.atts[i] \in Attestations
      BY <2>2
    <3> QED BY <3>1 DEF Attestations
  <2> QED BY <2>1, <2>2, <2>3
<1>6. AttestationInHand'
  <2>1. Len(active) \in Nat /\ Len(active') \in Nat
    BY <1>1, <1>2 DEF NodeTyped
  <2>2. cli.st \in {"count", "next", "header"} => cli.k \in 1 .. Len(cli.atts)
    BY DEF CliInv, AnchorInv, AttestationInHand
  <2> QED BY <1>1, <1>2, <1>5, <2>1, <2>2 DEF AttestationInHand
<1>7. AnswerIsDeep'
  <2>1. AnswerIsDeep
    BY DEF CliInv, AnchorInv
  <2>2. ASSUME cli.st = "header" PROVE active'[Attestation.height] = active[Attestation.height]
    <3>1. Attestation.height <= cli.tip_height /\ Attestation.height \in Nat \ {0}
      BY <1>5, <2>1, <2>2 DEF AnswerIsDeep, Attestation
    <3>2. Attestation.height \in 1 .. Len(active)
      BY <1>5, <2>2, <3>1
    <3> QED BY <1>2, <3>2
  <2> QED BY <1>1, <2>1, <2>2 DEF AnswerIsDeep, Attestation, ConfirmationsOf
<1>8. GoodBranchAhead'
  <2>1. GoodBranchAhead
    BY DEF CliInv, AnchorInv
  <2>2. ASSUME cli.st \in {"next", "header"}, NEW i \in cli.k .. Len(cli.atts),
               SettledUpTo(cli.atts[i], cli.tip_height)
        PROVE  (SettledUpTo(cli.atts[i], cli.tip_height))'
    <3>1. i \in 1 .. Len(cli.atts)
      BY <1>5, <2>2
    <3>2. cli.atts[i].height <= cli.tip_height /\ cli.atts[i].height \in Nat \ {0}
      BY <1>5, <2>2, <3>1 DEF SettledUpTo
    <3>3. cli.atts[i].height \in 1 .. Len(active)
      BY <1>5, <2>2, <3>2
    <3> QED BY <1>1, <1>2, <2>2, <3>3 DEF SettledUpTo
  <2> QED BY <1>1, <2>1, <2>2 DEF GoodBranchAhead
<1> QED BY <1>2, <1>3, <1>4, <1>6, <1>7, <1>8 DEF AnchorInv

\* A reorganisation never shortens the chain and ends what was calm.
LEMMA ReorganiseInv ==
    ASSUME CliInv, UNCHANGED vars, NEW n \in 1 .. Len(active), Reorganise(n)
    PROVE  ChainInv' /\ AnchorInv'
<1>1. /\ NodeTyped' /\ Len(active) <= Len(active') /\ Len(active) \in Nat
      /\ Len(active') \in Nat
  <2>1. active \in Seq(Nat) /\ branch \in Nat /\ branch' = branch + 1
    BY DEF Reorganise, CliInv, AnchorInv, NodeTyped
  <2>2. active' = [h \in 1 .. Len(active) + 1 |->
                     IF h <= Len(active) - n THEN active[h] ELSE branch + 1]
    BY DEF Reorganise
  <2>3. \A h \in 1 .. Len(active) + 1 :
           (IF h <= Len(active) - n THEN active[h] ELSE branch + 1) \in Nat
    BY <2>1
  <2>4. active' \in Seq(Nat) /\ Len(active') = Len(active) + 1 /\ Len(active) \in Nat
    BY <2>1, <2>2, <2>3
  <2> QED BY <2>1, <2>4 DEF NodeTyped
<1>2. CASE cli' = cli /\ cli.st \notin {"count", "next", "header"}
  <2>1. ChainInv'
    BY <1>2, ReaderUntouched DEF CliInv
  <2>2. CliTyped' /\ VerifiedWasDeep' /\ GoodBranchIsEnough'
    BY <1>2 DEF CliInv, AnchorInv, CliTyped, VerifiedWasDeep, GoodBranchIsEnough, Attestation
  <2> QED BY <1>1, <1>2, <2>1, <2>2
          DEF AnchorInv, AttestationInHand, AnswerIsDeep, GoodBranchAhead
<1>3. CASE cli' = [cli EXCEPT !.calm = FALSE] /\ cli.st \in {"count", "next", "header"}
  <2>1. /\ CliTyped /\ AttestationInHand /\ AnswerIsDeep
        /\ cli \in Counts \cup Picks \cup Checks
        /\ cli.st = "header" => cli \in Checks
        /\ cli.st \in {"next", "header"} => cli \in Picks \cup Checks
    BY <1>3 DEF CliInv, AnchorInv, CliTyped
  <2>2. cli'.st = cli.st /\ cli'.k = cli.k /\ cli'.atts = cli.atts
    BY <1>3, <2>1 DEF Counts, Picks, Checks
  <2>3. cli'.calm = FALSE
    BY <1>3, <2>1 DEF Counts, Picks, Checks
  <2>4. cli.st \in {"next", "header"} =>
           cli'.tip_height = cli.tip_height /\ cli.tip_height \in Nat
    BY <1>3, <2>1 DEF Picks, Checks
  <2>5. cli.st = "header" => cli'.depth = cli.depth
    BY <1>3, <2>1 DEF Checks
  <2>6. /\ cli \in Counts => cli' \in Counts
        /\ cli \in Picks => cli' \in Picks
        /\ cli \in Checks => cli' \in Checks
    BY <1>3, <2>1 DEF Counts, Picks, Checks
  <2>7. CliTyped'
    BY <1>3, <2>1, <2>2, <2>6 DEF CliTyped
  <2>8. AttestationInHand'
    BY <1>1, <2>1, <2>2, <2>4 DEF AttestationInHand
  <2>9. AnswerIsDeep'
    BY <2>1, <2>2, <2>3, <2>4, <2>5 DEF AnswerIsDeep, Attestation, ConfirmationsOf
  <2> QED BY <1>1, <1>3, <2>2, <2>3, <2>7, <2>8, <2>9, NotReading
          DEF AnchorInv, GoodBranchAhead, VerifiedWasDeep, GoodBranchIsEnough
<1> QED BY <1>2, <1>3 DEF Reorganise, Finished, CliInv, AnchorInv, CliTyped

\* The lines that the reader has passed stay where they are while writers append.
LEMMA WriterInv ==
    ASSUME CliInv, NEW w \in Writers, WriterStep(w), UNCHANGED cliVars
    PROVE  ChainInv' /\ AnchorInv'
<1>1. /\ cli' = cli /\ active' = active /\ branch' = branch
      /\ lines \in Seq(Records \cup {GARBLED}) /\ acked \subseteq acked'
      /\ lines' = lines \/ \E x \in Records : lines' = Append(lines, x)
  BY WritersAppend DEF cliVars, CliInv, IInv, TypeOK
<1>2. /\ Len(lines) \in Nat /\ Len(lines') \in Nat /\ Len(lines) <= Len(lines')
      /\ \A i \in 1 .. Len(lines) : lines'[i] = lines[i]
  BY <1>1
<1>3. AnchorInv'
  BY <1>1
  DEF CliInv, AnchorInv, CliTyped, NodeTyped, AttestationInHand, AnswerIsDeep,
      GoodBranchAhead, SettledUpTo, VerifiedWasDeep, GoodBranchIsEnough, Attestation,
      ConfirmationsOf
<1>4. CliTyped' /\ ReadAllBefore'
  BY <1>1 DEF CliInv, ChainInv, CliTyped, ReadAllBefore
<1>5. ReadPosition'
  <2>1. SUFFICES ASSUME cli.st \in {"reading", "valid"} PROVE ReadPosition'
    BY <1>1 DEF ReadPosition
  <2>2. ReadPosition /\ cli.expected_seq \in 0 .. Len(lines)
    BY <2>1 DEF CliInv, ChainInv, ReadPosition
  <2>3. cli.expected_seq # 0 => /\ lines'[cli.expected_seq] = lines[cli.expected_seq]
                                /\ lines'[1] = lines[1]
    BY <1>2, <2>2
  <2>4. cli.expected_seq \in 0 .. Len(lines')
    BY <1>2, <2>2
  <2> QED BY <1>1, <2>1, <2>2, <2>3, <2>4 DEF ReadPosition
<1>6. AlarmNamesTheTail'
  <2>1. AlarmNamesTheTail
    BY DEF CliInv, ChainInv
  <2>2. ASSUME NEW i \in 1 .. Len(lines) PROVE lines'[i] = lines[i] /\ i \in 1 .. Len(lines')
    BY <1>2
  <2> QED BY <1>1, <2>1, <2>2 DEF AlarmNamesTheTail
<1> QED BY <1>3, <1>4, <1>5, <1>6 DEF ChainInv

-----------------------------------------------------------------------------
(* The invariant is inductive *)

\* No command has run yet.
LEMMA CliInitInv == CliInit => CliInv
<1> SUFFICES ASSUME CliInit PROVE CliInv
  OBVIOUS
<1>1. IInv /\ cli.st = "idle"
  BY InitIInv DEF CliInit
<1>2. NodeTyped
  BY CliAssumption DEF CliInit, NodeTyped
<1> QED BY <1>1, <1>2
  DEF CliInv, ChainInv, AnchorInv, CliTyped, ReadPosition, ReadAllBefore,
      AlarmNamesTheTail, AttestationInHand, AnswerIsDeep, GoodBranchAhead,
      VerifiedWasDeep, GoodBranchIsEnough

\* Every step of the command, the network, the writers and the power.
LEMMA CliStepInv == CliInv /\ [CliNext]_<<vars, cliVars>> => CliInv'
<1> SUFFICES ASSUME CliInv, [CliNext]_<<vars, cliVars>> PROVE CliInv'
  OBVIOUS
<1>1. IInv'
  BY StepIInv DEF CliInv, CliNext, Next
<1>2. CASE CliStep /\ UNCHANGED vars
  <2>1. ASSUME NEW digest \in ProofDigests, NEW atts \in AttestationLists,
               VerifyAnchor(digest, atts)
        PROVE  ChainInv' /\ AnchorInv'
    BY <1>2, <2>1, VerifyAnchorInv
  <2> QED
    BY <1>1, <1>2, <2>1, VerifyPathInv, OpenFailsInv, ReadLineInv, ReadEndInv,
       GetBlockCountInv, AboveTipInv, GetBlockHashInv, GetBlockHeaderInv, WrongHeaderInv,
       RpcFailsInv, MineBlockInv, ReorganiseInv
    DEF CliStep, CliInv
<1>3. ASSUME NEW w \in Writers, WriterStep(w), UNCHANGED cliVars PROVE CliInv'
  BY <1>1, <1>3, WriterInv DEF CliInv
<1>4. CASE PowerLoss /\ cli' = [st |-> "idle"] /\ UNCHANGED <<active, branch>>
  <2>1. CliTyped' /\ NodeTyped' /\ cli'.st = "idle"
    BY <1>4 DEF CliTyped, CliInv, AnchorInv, NodeTyped
  <2> QED BY <1>1, <2>1, NotReading, NotAnchoring DEF CliInv
<1>5. CASE UNCHANGED <<vars, cliVars>>
  <2>1. UNCHANGED vars /\ cli' = cli /\ active' = active /\ branch' = branch
    BY <1>5 DEF cliVars
  <2>2. ChainInv'
    BY <2>1, ReaderUntouched DEF CliInv
  <2>3. AnchorInv'
    BY <2>1
    DEF CliInv, AnchorInv, CliTyped, NodeTyped, AttestationInHand, AnswerIsDeep,
        GoodBranchAhead, SettledUpTo, VerifiedWasDeep, GoodBranchIsEnough, Attestation,
        ConfirmationsOf
  <2> QED BY <1>1, <2>2, <2>3 DEF CliInv
<1> QED BY <1>2, <1>3, <1>4, <1>5 DEF CliNext

-----------------------------------------------------------------------------
(* Theorems *)

\* The invariant holds in every reachable state.
THEOREM CliInvariant == CliSpec => []CliInv
<1> QED BY CliInitInv, CliStepInv, PTL DEF CliSpec

\* However many writers append and fail while `vestrix-verify chain` reads
\* without their lock, its report of a valid chain covers every record that was
\* acknowledged before the command began, and its tip is that of the last line it
\* counted.
THEOREM ReportIsComplete == CliSpec => []ReportCoversAcknowledged
<1>1. CliInv => ReportCoversAcknowledged
  BY DEF CliInv, ChainInv, ReadAllBefore, ReadPosition, ReportCoversAcknowledged, IInv, TypeOK
<1> QED BY <1>1, CliInvariant, PTL

\* No interleaving of the lock-free reader with writers, their faults and power
\* losses makes it report a bad record in a chain that is signed with its key.
THEOREM AppendIsNoTampering == CliSpec => []AlarmNamesTheTail
<1>1. CliInv => AlarmNamesTheTail
  BY DEF CliInv, ChainInv
<1> QED BY <1>1, CliInvariant, PTL

\* Whatever the Bitcoin chain does between the calls, a verified anchor was in
\* the active chain at the demanded depth when the node named its block.
THEOREM VerifiedIsDeep == CliSpec => []VerifiedWasDeep
<1>1. CliInv => VerifiedWasDeep
  BY DEF CliInv, AnchorInv
<1> QED BY <1>1, CliInvariant, PTL

\* For every list of attestations, the ones that do not verify never hide one
\* that is settled, as long as the node answers and does not reorganise.
THEOREM OneGoodBranchSuffices == CliSpec => []GoodBranchIsEnough
<1>1. CliInv => GoodBranchIsEnough
  BY DEF CliInv, AnchorInv
<1> QED BY <1>1, CliInvariant, PTL
=============================================================================
