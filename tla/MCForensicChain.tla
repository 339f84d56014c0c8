--------------------------- MODULE MCForensicChain ---------------------------
(* Instances of ForensicChain for TLC. *)
EXTENDS ForensicChain

CONSTANTS w1, w2, v1, k1, k2

Ingestion(n) == [keys |-> V2_INGESTION_EVENT_FIELDS, format_version |-> 2,
                 event_type |-> "ingestion_accepted", malformed |-> {},
                 collector_sequence_number |-> n]
Legacy == [keys |-> V1_EVENT_FIELDS, format_version |-> 0, event_type |-> "none",
           malformed |-> {}, collector_sequence_number |-> 0]

\* Two events the chain takes, one of the other format version, and two it
\* refuses: a sequence number outside the signed range and a managed member.
MCEvents == {Ingestion(0), Legacy, Ingestion(ForensicSeqLimit),
             [Ingestion(0) EXCEPT !.keys = @ \cup {"prev_hash"}]}

MCWriters == {w1, w2}
MCVerifiers == {v1}
=============================================================================
