---------------------------- MODULE MCVerifierCli ----------------------------
(* Instance of VerifierCli for TLC. *)
EXTENDS VerifierCli

Ingestion == [keys |-> V2_INGESTION_EVENT_FIELDS, format_version |-> 2,
              event_type |-> "ingestion_accepted", malformed |-> {},
              collector_sequence_number |-> 0]

At(h, b) == [height |-> h, branch |-> b]

\* No attestation; one; a future or a stale block before a good one, and after it.
MCAttestationLists == {<< >>, <<At(2, 0)>>, <<At(2, 1), At(1, 0)>>,
                       <<At(4, 0), At(2, 0), At(3, 1)>>}

MCEvents == {Ingestion}
WriterSymmetry == Permutations(Writers)
=============================================================================
