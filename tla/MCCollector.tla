----------------------------- MODULE MCCollector -----------------------------
(* Instances of Collector for TLC. *)
EXTENDS Collector

CONSTANTS n1, n2, t1, t2

Cert(names, trusted) == [names |-> names, trusted |-> trusted]
Payload(n, s) == [keys |-> PAYLOAD_FIELDS, malformed |-> {}, node_id |-> n,
                  sequence_number |-> s]

\* A good certificate, one with two common names, one of another CA.
IngestCerts == {Cert(<<n1>>, TRUE), Cert(<<n1, n2>>, TRUE), Cert(<<n1>>, FALSE)}

\* All numbers of the node that the chain can store, one that it cannot, one of
\* another node, one that the collector refuses and one with a malformed member.
IngestPayloads == {Payload(n1, s) : s \in 0 .. ForensicSeqLimit} \cup {
                   Payload(n2, 0), Payload(n1, CollectorSeqLimit),
                   [Payload(n1, 0) EXCEPT !.malformed = {"timestamp_utc"}]}

\* For the runs about reloads: one good certificate, its payload and another node's.
OneCert == {Cert(<<n1>>, TRUE)}
OnePayload == {Payload(n1, 0)}
OneOfEach == {Payload(n1, 0), Payload(n2, 0)}
=============================================================================
