----------------------------- MODULE RecordFormat -----------------------------
(***************************************************************************)
(* The rules that forensics/_format.py applies to an event before it may    *)
(* enter the chain, and the ideal digest and signature the chain is built   *)
(* from.                                                                    *)
(*                                                                         *)
(* An event is a record with                                               *)
(*   keys            the names of the JSON members it has;                 *)
(*   format_version  the value of that member, when it is present;         *)
(*   event_type      the value of that member, when it is present;         *)
(*   malformed       the members whose value breaks its own rule (empty    *)
(*                   string, not a digest, surrogate, NaN, bad date ...);  *)
(*   collector_sequence_number   that member's value, when it is present.  *)
(***************************************************************************)
EXTENDS Naturals, Sequences

CONSTANTS
    ForensicSeqLimit,  \* stands for 2^63: what the chain stores is below it
    CollectorSeqLimit  \* stands for 2^64: what the collector admits is below it

ASSUME SeqLimits == /\ ForensicSeqLimit \in Nat \ {0}
                    /\ CollectorSeqLimit \in Nat
                    /\ ForensicSeqLimit < CollectorSeqLimit

ML_FIELDS == {"features_hash", "model_id", "model_config_hash", "class",
              "confidence", "top_shap"}
V1_EVENT_FIELDS == {"ts_utc", "node_id", "raw_csi_hash"} \cup ML_FIELDS
V2_COMMON_EVENT_FIELDS == {"format_version", "event_type", "ts_utc", "node_id",
                           "raw_csi_hash"}
V2_INGESTION_EVENT_FIELDS == V2_COMMON_EVENT_FIELDS \cup
                             {"collector_schema_version",
                              "collector_sequence_number"}
V2_CLASSIFICATION_EVENT_FIELDS == V2_COMMON_EVENT_FIELDS \cup ML_FIELDS

\* Whether _event_fields finds a schema at all, and which one: a member
\* format_version must be the integer 2, and an event_type without it is refused.
HasSchema(e) ==
    IF "format_version" \notin e.keys
    THEN "event_type" \notin e.keys
    ELSE /\ e.format_version = 2
         /\ e.event_type \in {"ingestion_accepted", "classification_decision"}

EventFields(e) ==
    IF "format_version" \notin e.keys THEN V1_EVENT_FIELDS
    ELSE IF e.event_type = "ingestion_accepted" THEN V2_INGESTION_EVENT_FIELDS
    ELSE V2_CLASSIFICATION_EVENT_FIELDS

record_format_version(e) ==
    IF "format_version" \in e.keys /\ e.format_version = 2 THEN 2 ELSE 1

\* Variant: the sequence number may have any value.
ValidEventValuesUnranged(e) == e.malformed = {}

\* _validate_event_values: every member obeys its own rule, and the sequence
\* number of an ingestion record fits the chain's signed 64-bit range.
ValidEventValues(e) ==
    /\ e.malformed = {}
    /\ "collector_sequence_number" \in e.keys
          => e.collector_sequence_number \in 0 .. ForensicSeqLimit - 1

\* Exactly the members of its schema, no more and no fewer, all of them valid.
validate_event(e) == /\ HasSchema(e)
                     /\ e.keys = EventFields(e)
                     /\ ValidEventValues(e)

-----------------------------------------------------------------------------
\* The ideal digest of an unsigned record: SHA-256 over its canonical bytes,
\* which include the previous digest.  A digest is the list of everything it
\* commits to, so two digests are equal only when the records behind them and
\* all their predecessors are.  The genesis sentinel commits to nothing.
GENESIS_PREV_HASH == << >>

hash_unsigned_record(u) ==
    Append(u.prev_hash, [event |-> u.event, seq |-> u.seq])

\* An Ed25519 signature names the key and the bytes it was made over.
Sign(key, u) == [key |-> key, over |-> hash_unsigned_record(u)]
=============================================================================
