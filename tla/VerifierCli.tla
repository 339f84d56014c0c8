----------------------------- MODULE VerifierCli -----------------------------
(***************************************************************************)
(* vestrix-verify (verifier-cli/src), the Rust verifier, beside the writers *)
(* of ForensicChain and a Bitcoin node whose active chain grows and         *)
(* reorganises.  `chain` streams the store line by line, `anchor` binds a   *)
(* proof to the last line and asks the node for one block per attestation.  *)
(* Neither takes the writers' lock.                                         *)
(*                                                                         *)
(* The active chain is a sequence: the block at height h is known by the    *)
(* branch that active[h] names.  An attestation commits to one such block.  *)
(***************************************************************************)
EXTENDS ForensicChain

CONSTANTS
    AttestationLists, \* the Bitcoin attestations that a proof may hold, in order
    Confirmations,    \* stands for the 6 confirmations that are required
    MaxHeight,        \* bound: height of the active chain
    MaxReorgs         \* bound: reorganisations

ASSUME CliAssumption ==
    /\ Confirmations \in Nat \ {0} /\ MaxHeight \in Nat /\ MaxReorgs \in Nat
    /\ \A s \in AttestationLists :
          s \in Seq([height : Nat \ {0}, branch : 0 .. MaxReorgs])

VARIABLES
    cli,     \* the command that runs, or the outcome of the last one
    active,  \* the active chain of the Bitcoin node
    branch   \* its newest branch

cliVars == <<cli, active, branch>>

CliInit == /\ Init
           /\ cli = [st |-> "idle"]
           /\ active \in {[h \in 1 .. n |-> 0] : n \in 1 .. MaxHeight}
           /\ branch = 0

Finished == cli.st \in {"idle", "valid", "invalid", "verified", "failed"}

-----------------------------------------------------------------------------
(* chain.rs: verify_path and verify_reader *)

\* validate_schema: the members of the schema that format_version and event_type
\* select, each value by its own rule.  That the two implementations' value rules agree
\* is taken as given (ValidEventValues is Python's): dates, digests, nesting depth.
validate_schema(e) ==
    /\ "format_version" \in e.keys => /\ e.format_version = 2
                                      /\ e.event_type \in {"ingestion_accepted",
                                                           "classification_decision"}
    /\ e.keys = EventFields(e)
    /\ ValidEventValues(e)

\* Variant: the digest of the line before is not carried over.
ContinuesGenesis(r) == r.seq = cli.expected_seq /\ r.prev_hash = GENESIS_PREV_HASH

Continues(r) == r.seq = cli.expected_seq /\ r.prev_hash = cli.expected_prev

\* What verify_reader demands of the next line, given what it has read so far.  Its
\* comparison with the canonical re-serialisation (chain.rs:158-163) is left out: a
\* line that a writer wrote whole is taken to survive it.
RecordAccepted(r) ==
    /\ r # GARBLED
    /\ validate_schema(r.event)
    /\ cli.format_version \in {0, record_format_version(r.event)}
    /\ Continues(r)
    /\ r.record_hash = hash_unsigned_record(r)
    /\ r.signature = Sign(PublicKey, r)

\* File::open.  A store without a byte may not exist yet, or be an empty file.
VerifyPath ==
    /\ Finished
    /\ cli' = [st |-> "reading", expected_seq |-> 0, expected_prev |-> GENESIS_PREV_HASH,
               format_version |-> 0, before |-> acked]
    /\ UNCHANGED <<active, branch>>

OpenFails ==
    /\ Finished /\ ~ StoreExists
    /\ cli' = [st |-> "invalid", reason |-> "cannot open"]
    /\ UNCHANGED <<active, branch>>

ReadLine ==
    /\ cli.st = "reading" /\ cli.expected_seq < Len(lines)
    /\ LET r == lines[cli.expected_seq + 1]
       IN  cli' = IF RecordAccepted(r)
                  THEN [cli EXCEPT !.expected_seq = @ + 1,
                                   !.expected_prev = r.record_hash,
                                   !.format_version = record_format_version(r.event)]
                  ELSE [st |-> "invalid", reason |-> "record"]
    /\ UNCHANGED <<active, branch>>

\* Variant: the reader stops one line early.
AtEndEarly == cli.expected_seq + 1 >= Len(lines)

\* read_until finds no further LF.
AtEnd == cli.expected_seq = Len(lines)

ReadEnd ==
    /\ cli.st = "reading" /\ AtEnd
    /\ cli' = IF tail = "empty" THEN [cli EXCEPT !.st = "valid"]
              ELSE [st |-> "invalid", reason |-> "unterminated"]
    /\ UNCHANGED <<active, branch>>

-----------------------------------------------------------------------------
(* anchor.rs: verify_anchor *)

\* read_tip_without_authentication: there is a last line and it is terminated.
TipReadable == lines # << >> /\ tail = "empty"

\* inspect_proof: the proof is for the digest of the last line and reaches at
\* least one Bitcoin attestation.
InspectProof(digest, atts) == digest = TipHash /\ atts # << >>

\* What a proof file may be for: a line that is or was the tip, or another chain.
ProofDigests == {lines[i].record_hash : i \in 1 .. Len(lines)} \cup {GENESIS_PREV_HASH}

VerifyAnchor(digest, atts) ==
    /\ Finished
    /\ cli' = IF TipReadable /\ InspectProof(digest, atts)
              THEN [st |-> "count", atts |-> atts, k |-> 1, calm |-> TRUE]
              ELSE [st |-> "failed", calm |-> FALSE]
    /\ UNCHANGED <<active, branch>>

Depth(h) == Len(active) - h + 1

\* The attested block is in the active chain under enough blocks.
Settled(a) == /\ a.height <= Len(active)
              /\ active[a.height] = a.branch
              /\ Depth(a.height) >= Confirmations

GetBlockCount ==
    /\ cli.st = "count"
    /\ cli' = [st |-> "next", atts |-> cli.atts, k |-> 1, calm |-> TRUE,
               tip_height |-> Len(active),
               enough |-> \E i \in DOMAIN cli.atts : Settled(cli.atts[i])]
    /\ UNCHANGED <<active, branch>>

Attestation == cli.atts[cli.k]

\* Variant: the first branch that does not verify decides.
LastFailureFinal == [cli EXCEPT !.st = "failed"]

\* last_failure and continue; after the last attestation it is returned.
LastFailure == IF cli.k = Len(cli.atts) THEN [cli EXCEPT !.st = "failed"]
               ELSE [cli EXCEPT !.st = "next", !.k = @ + 1]

AboveTip ==
    /\ cli.st = "next" /\ Attestation.height > cli.tip_height
    /\ cli' = LastFailure
    /\ UNCHANGED <<active, branch>>

\* The node answers with the block that is active at that height by now.
GetBlockHash ==
    /\ cli.st = "next" /\ Attestation.height <= cli.tip_height
    /\ cli' = [st |-> "header", atts |-> cli.atts, k |-> cli.k, calm |-> cli.calm,
               tip_height |-> cli.tip_height, enough |-> cli.enough,
               active_hash |-> active[Attestation.height],
               depth |-> Depth(Attestation.height)]
    /\ UNCHANGED <<active, branch>>

\* Variant: the height is asked for when it is needed.
ConfirmationsNow(a) == Depth(a.height)

ConfirmationsOf(a) == cli.tip_height - a.height + 1

\* The header of a block that is no longer active is still served by its hash.
GetBlockHeader ==
    /\ cli.st = "header"
    /\ cli' = IF /\ cli.active_hash = Attestation.branch
                 /\ ConfirmationsOf(Attestation) >= Confirmations
              THEN [cli EXCEPT !.st = "verified"]
              ELSE LastFailure
    /\ UNCHANGED <<active, branch>>

\* The node returns a header that does not hash to the block asked for.
WrongHeader ==
    /\ cli.st = "header"
    /\ cli' = [LastFailure EXCEPT !.calm = FALSE]
    /\ UNCHANGED <<active, branch>>

\* An RPC error or a malformed answer ends the command at once.
RpcFails ==
    /\ cli.st \in {"count", "next", "header"}
    /\ cli.st = "next" => Attestation.height <= cli.tip_height
    /\ cli' = [cli EXCEPT !.st = "failed", !.calm = FALSE]
    /\ UNCHANGED <<active, branch>>

-----------------------------------------------------------------------------
(* The Bitcoin network *)

MineBlock ==
    /\ Len(active) < MaxHeight
    /\ active' = Append(active, branch)
    /\ UNCHANGED <<cli, branch>>

\* The last n blocks give way to n + 1 of a new branch: the height never falls.
Reorganise(n) ==
    /\ branch < MaxReorgs /\ Len(active) < MaxHeight
    /\ branch' = branch + 1
    /\ active' = [h \in 1 .. Len(active) + 1 |->
                    IF h <= Len(active) - n THEN active[h] ELSE branch + 1]
    /\ cli' = IF Finished THEN cli ELSE IF cli.st = "reading" THEN cli
              ELSE [cli EXCEPT !.calm = FALSE]

CliStep ==
    \/ VerifyPath \/ OpenFails \/ ReadLine \/ ReadEnd
    \/ \E digest \in ProofDigests, atts \in AttestationLists : VerifyAnchor(digest, atts)
    \/ GetBlockCount \/ AboveTip \/ GetBlockHash \/ GetBlockHeader
    \/ WrongHeader \/ RpcFails
    \/ MineBlock \/ \E n \in 1 .. Len(active) : Reorganise(n)

\* A power loss ends the command, whoever started it.
CliNext ==
    \/ CliStep /\ UNCHANGED vars
    \/ (\E w \in Writers : WriterStep(w)) /\ UNCHANGED cliVars
    \/ PowerLoss /\ cli' = [st |-> "idle"] /\ UNCHANGED <<active, branch>>

CliSpec == CliInit /\ [][CliNext]_<<vars, cliVars>>

-----------------------------------------------------------------------------
(* Properties *)

\* A report of a valid chain leaves nothing out that was acknowledged before the
\* command began, although the store grows under the reader: every such record
\* is among the lines it counted, and its tip is the digest of the last of them
\* (chain.rs:125-218 against logger.py:84-92).
ReportCoversAcknowledged ==
    cli.st = "valid" =>
        /\ \A r \in cli.before : r.seq < cli.expected_seq
        /\ cli.expected_seq > 0 =>
              lines[cli.expected_seq].record_hash = cli.expected_prev

\* The reader takes no lock (chain.rs:110), so an append in progress can make it
\* fail, but never in a way that looks like tampering: whatever the interleaving
\* and the faults of the writers, a chain that was signed with the given key is
\* only ever reported as not terminated or not there.  (This is about interleaving
\* and faults: whether serde_json reads back every float that Python wrote,
\* Cargo.toml:19, is outside the model.)
AlarmNamesTheTail ==
    cli.st = "invalid" =>
        \/ cli.reason \in {"unterminated", "cannot open"}
        \/ \E i \in 1 .. Len(lines) : lines[i].signature.key # PublicKey

\* An anchor is reported as valid only if the attested block was in the active
\* chain with all the confirmations when the node named it, although the height
\* was read before and the chain may have reorganised since (anchor.rs:72-140).
VerifiedWasDeep ==
    cli.st = "verified" => /\ cli.active_hash = Attestation.branch
                           /\ cli.depth >= Confirmations

\* Any one good branch of the proof is enough: when the node answers and its chain
\* does not reorganise, attestations of stale, shallow or future blocks before it
\* do not hide an attestation that is settled (anchor.rs:57-58 and 76-149).
GoodBranchIsEnough == cli.st = "failed" /\ cli.calm => ~ cli.enough
=============================================================================
