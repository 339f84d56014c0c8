------------------------------ MODULE Collector ------------------------------
(***************************************************************************)
(* The mTLS ingest server (collector/vestrix_collector/server.py, models.py, *)
(* forensics.py): the accept loop, the thread pool that its connections and  *)
(* the security reload share, the handler of one connection, and the hand-off *)
(* to the forensic log.  The log is the abstract EventLog, which log_event    *)
(* implements; the security state is the module SecurityState.               *)
(*                                                                         *)
(* Threads are the workers of asyncio's default executor.  Work waits for    *)
(* them in one FIFO queue.                                                  *)
(***************************************************************************)
EXTENDS SecurityState, RecordFormat

CONSTANTS
    Threads,      \* the workers of the default thread pool
    Payloads,     \* what a peer may send: [keys, malformed, node_id, sequence_number]
    MaxConns,     \* bound: connections
    MaxRestarts,  \* bound: restarts of the collector
    MaxAcceptErrors,  \* bound: errors of sock_accept
    MaxStops          \* bound: requests to stop

ASSUME CollectorAssumption ==
    /\ \A c \in Certs : c.names \in Seq(Nodes) /\ c.trusted \in BOOLEAN
    /\ IsFiniteSet(Threads)
    /\ MaxConns \in Nat /\ MaxRestarts \in Nat
    /\ MaxAcceptErrors \in Nat /\ MaxStops \in Nat

VARIABLES
    log, acked, call,  \* the forensic log
    queue,             \* work submitted with to_thread and not yet taken
    pc,                \* per thread: where it is in _handle_socket
    conn,              \* per thread: its connection
    snap,              \* per thread: its copy of the security state
    payload,           \* per thread: its validated payload
    last_sequences,    \* self._last_sequences: -1 where there is no entry
    decision,          \* per connection: the logged ingest decision
    phase,             \* "running", "stopping", "closing" or "stopped"
    accepting,         \* whether the accept task is alive
    conns, restarts, acceptErrors, stops

logState == <<log, acked, call>>
lifeVars == <<phase, accepting, restarts, acceptErrors, stops>>
handlerVars == <<queue, pc, conn, snap, payload, last_sequences, decision, conns>>
vars == <<secVars, logState, handlerVars, lifeVars>>

Conns == 1 .. MaxConns
NoData == [kind |-> "none"]

\* A record of the log: what the adapter stores of the payload, and, for the
\* properties only, the connection, the life of the process it came in, and
\* whether its certificate was already revoked in memory when it was accepted.
LogEvents == [node_id : Nodes, sequence_number : Nat, conn : Conns,
              life : 0 .. MaxRestarts, certRevoked : BOOLEAN]

INSTANCE EventLog WITH Writers <- Threads, Events <- LogEvents

Init ==
    /\ SecInit /\ LogInit
    /\ queue = << >>
    /\ pc = [t \in Threads |-> "free"]
    /\ conn = [t \in Threads |-> NoData]
    /\ snap = [t \in Threads |-> NoData]
    /\ payload = [t \in Threads |-> NoData]
    /\ last_sequences = [n \in Nodes |-> -1]
    /\ decision = [c \in Conns |-> "none"]
    /\ phase = "running" /\ accepting = TRUE
    /\ conns = 0 /\ restarts = 0 /\ acceptErrors = 0 /\ stops = 0

-----------------------------------------------------------------------------
(* models.py and the forensics adapter *)

PAYLOAD_FIELDS == {"schema_version", "node_id", "timestamp_utc",
                   "csi_window_sha256", "sequence_number"}

\* Variant: the upper bound of the sequence number is off by one.
validate_payload_inclusive(p) ==
    /\ p.keys = PAYLOAD_FIELDS
    /\ p.malformed = {}
    /\ p.sequence_number \in 0 .. CollectorSeqLimit

validate_payload(p) ==
    /\ p.keys = PAYLOAD_FIELDS
    /\ p.malformed = {}
    /\ p.sequence_number \in 0 .. CollectorSeqLimit - 1

\* The version-2 event that forensics.log_event hands to the chain.
IngestionEvent(p) ==
    [keys |-> V2_INGESTION_EVENT_FIELDS, format_version |-> 2,
     event_type |-> "ingestion_accepted", malformed |-> {},
     collector_sequence_number |-> p.sequence_number]

-----------------------------------------------------------------------------
(* Accepting and queueing *)

Idle(t) == pc[t] = "free"

\* _accept_loop: a new socket becomes a task that waits for a pool thread.  Accept and
\* task are one step: a close() that cancels the loop between the two, while the
\* accepted socket is on its way to it, is left out.
AcceptSocket(c) ==
    /\ accepting /\ conns < MaxConns
    /\ conns' = conns + 1
    /\ queue' = Append(queue, [kind |-> "conn", id |-> conns + 1, cert |-> c,
                               certRevoked |-> c \in tls_revoked])
    /\ UNCHANGED <<secVars, logState, pc, conn, snap, payload, last_sequences,
                   decision, lifeVars>>

\* sock_accept raises OSError while the listener is open: the accept task ends with
\* it and nobody looks at the task before close().
AcceptFails ==
    /\ accepting /\ acceptErrors < MaxAcceptErrors
    /\ accepting' = FALSE
    /\ acceptErrors' = acceptErrors + 1
    /\ UNCHANGED <<secVars, logState, handlerVars, phase, restarts, stops>>

\* SIGHUP: the load is queued behind the connections that came before it.
Sighup(r) ==
    /\ phase = "running"
    /\ RequestReload(r)
    /\ queue' = Append(queue, [kind |-> "reload", task |-> r])
    /\ UNCHANGED <<logState, pc, conn, snap, payload, last_sequences, decision,
                   conns, lifeVars>>

SighupDropped ==
    phase = "running" /\ DropReload /\ UNCHANGED <<logState, handlerVars, lifeVars>>

TakeConnection(t) ==
    /\ Idle(t) /\ queue # << >> /\ Head(queue).kind = "conn"
    /\ queue' = Tail(queue)
    /\ conn' = [conn EXCEPT ![t] = Head(queue)]
    /\ pc' = [pc EXCEPT ![t] = "accepted"]
    /\ UNCHANGED <<secVars, logState, snap, payload, last_sequences, decision,
                   conns, lifeVars>>

TakeReload(t) ==
    /\ Idle(t) /\ queue # << >> /\ Head(queue).kind = "reload"
    /\ BeginLoad(Head(queue).task)
    /\ queue' = Tail(queue)
    /\ conn' = [conn EXCEPT ![t] = Head(queue)]
    /\ pc' = [pc EXCEPT ![t] = "loading"]
    /\ UNCHANGED <<logState, snap, payload, last_sequences, decision, conns, lifeVars>>

\* _load_security_state on the thread; it is free again when the load is over.
LoadOnThread(t) ==
    /\ pc[t] = "loading"
    /\ ReloadStep(conn[t].task)
    /\ IF task'[conn[t].task].phase = "half"
       THEN UNCHANGED <<pc, conn>>
       ELSE /\ pc' = [pc EXCEPT ![t] = "free"]
            /\ conn' = [conn EXCEPT ![t] = NoData]
    /\ UNCHANGED <<logState, queue, snap, payload, last_sequences, decision, conns, lifeVars>>

Install(r) == InstallSecurityState(r) /\ UNCHANGED <<logState, handlerVars, lifeVars>>

OperatorEdits == Operator /\ UNCHANGED <<logState, handlerVars, lifeVars>>

-----------------------------------------------------------------------------
(* _handle_socket and _handle_tls_socket *)

\* The handler logs its one decision, answers if it can, and the thread is free.
Decide(t, outcome) ==
    /\ decision' = [decision EXCEPT ![conn[t].id] = outcome]
    /\ pc' = [pc EXCEPT ![t] = "free"]
    /\ conn' = [conn EXCEPT ![t] = NoData]
    /\ snap' = [snap EXCEPT ![t] = NoData]
    /\ payload' = [payload EXCEPT ![t] = NoData]
    /\ UNCHANGED <<queue, conns, lifeVars>>

\* The context and the allow-list are read together under _security_state_lock.
SnapshotSecurityState(t) ==
    /\ pc[t] = "accepted"
    /\ snap' = [snap EXCEPT ![t] = [kind |-> "snap", enrolled |-> enrolled_nodes,
                                    revoked |-> tls_revoked]]
    /\ pc' = [pc EXCEPT ![t] = "handshake"]
    /\ UNCHANGED <<secVars, logState, queue, conn, payload, last_sequences,
                   decision, conns, lifeVars>>

\* wrap_socket raises: untrusted or revoked certificate, timeout, peer gone.
HandshakeFails(t) ==
    /\ pc[t] = "handshake"
    /\ Decide(t, "tls_handshake_failed")
    /\ UNCHANGED <<secVars, logState, last_sequences>>

\* Variant: the context is built without VERIFY_CRL_CHECK_LEAF.
HandshakeSkipsCrl(t) == conn[t].cert.trusted

HandshakeVerifies(t) == /\ conn[t].cert.trusted
                        /\ conn[t].cert \notin snap[t].revoked

\* Variant: the name is looked up in the allow-list of the moment.
HandshakeSucceedsUnsnapped(t) ==
    /\ pc[t] = "handshake" /\ HandshakeVerifies(t)
    /\ LET names == conn[t].cert.names IN
       IF Len(names) # 1
       THEN Decide(t, "invalid_certificate_cn")
       ELSE IF names[1] \notin enrolled_nodes
       THEN Decide(t, "unenrolled_certificate_cn")
       ELSE /\ pc' = [pc EXCEPT ![t] = "reading"]
            /\ UNCHANGED <<queue, conn, snap, payload, decision, conns, lifeVars>>
    /\ UNCHANGED <<secVars, logState, last_sequences>>

\* The peer certificate must carry one common name, of an enrolled node.
HandshakeSucceeds(t) ==
    /\ pc[t] = "handshake" /\ HandshakeVerifies(t)
    /\ LET names == conn[t].cert.names IN
       IF Len(names) # 1
       THEN Decide(t, "invalid_certificate_cn")
       ELSE IF names[1] \notin snap[t].enrolled
       THEN Decide(t, "unenrolled_certificate_cn")
       ELSE /\ pc' = [pc EXCEPT ![t] = "reading"]
            /\ UNCHANGED <<queue, conn, snap, payload, decision, conns, lifeVars>>
    /\ UNCHANGED <<secVars, logState, last_sequences>>

\* Variant: the socket has no timeout, and the handler waits for its peer.
ReadFailsNever(t) == FALSE

\* No payload comes of the connection: timeout, bad frame, bad JSON, or an
\* exception that only _handle_socket catches.
ReadFails(t) ==
    /\ pc[t] = "reading"
    /\ \E reason \in {"payload_read_timeout", "payload_read_error",
                      "invalid_json_payload", "internal_server_error"} :
          Decide(t, reason)
    /\ UNCHANGED <<secVars, logState, last_sequences>>

\* compare_digest of the payload's node_id and the certificate's one common name.
BoundToCertificate(p, cert) == p.node_id = cert.names[1]

\* A whole line arrives: it is validated and bound to the certificate's name.
ReadPayload(t, p) ==
    /\ pc[t] = "reading"
    /\ IF ~ validate_payload(p) THEN Decide(t, "invalid_payload")
       ELSE IF ~ BoundToCertificate(p, conn[t].cert)
       THEN Decide(t, "node_id_certificate_cn_mismatch")
       ELSE /\ payload' = [payload EXCEPT ![t] = p]
            /\ pc' = [pc EXCEPT ![t] = "bound"]
            /\ UNCHANGED <<queue, conn, snap, decision, conns, lifeVars>>
    /\ UNCHANGED <<secVars, logState, last_sequences>>

\* Variant: a number equal to the last one is let through.
ReplayedUnlessEqual(n, s) == s < last_sequences[n]

\* Variant: no number is refused.
NeverReplayed(n, s) == FALSE

Replayed(n, s) == s <= last_sequences[n]

\* Check and reservation in one critical section of _sequence_lock.
ReserveSequence(t) ==
    /\ pc[t] = "bound"
    /\ LET n == payload[t].node_id  s == payload[t].sequence_number IN
       IF Replayed(n, s)
       THEN /\ Decide(t, "replayed_or_out_of_order_sequence")
            /\ UNCHANGED last_sequences
       ELSE /\ last_sequences' = [last_sequences EXCEPT ![n] = s]
            /\ pc' = [pc EXCEPT ![t] = "reserved"]
            /\ UNCHANGED <<queue, conn, snap, payload, decision, conns, lifeVars>>
    /\ UNCHANGED <<secVars, logState>>

\* The adapter calls log_event, outside the lock.
HandOff(t) ==
    /\ pc[t] = "reserved"
    /\ validate_event(IngestionEvent(payload[t]))
    /\ LogCall(t, [node_id |-> payload[t].node_id,
                   sequence_number |-> payload[t].sequence_number,
                   conn |-> conn[t].id, life |-> restarts,
                   certRevoked |-> conn[t].certRevoked])
    /\ pc' = [pc EXCEPT ![t] = "logging"]
    /\ UNCHANGED <<secVars, queue, conn, snap, payload, last_sequences, decision,
                   conns, lifeVars>>

\* The signing key is missing or unreadable, or validate_event raises.
HandOffRefused(t) ==
    /\ pc[t] = "reserved"
    /\ Decide(t, "forensics_handoff_failed")
    /\ UNCHANGED <<secVars, logState, last_sequences>>

\* log_event makes progress on the handler's thread.
LogProgress(t) ==
    /\ pc[t] = "logging"
    /\ LogAppend(t)
    /\ UNCHANGED <<secVars, handlerVars, lifeVars>>

\* Variant: the event is reported accepted when it is handed over.
HandOffReturnsEarly(t) ==
    /\ pc[t] = "logging"
    /\ LogFail(t)
    /\ Decide(t, "accepted")
    /\ UNCHANGED <<secVars, last_sequences>>

HandOffReturns(t) ==
    /\ pc[t] = "logging"
    /\ LogReturn(t)
    /\ Decide(t, "accepted")
    /\ UNCHANGED <<secVars, last_sequences>>

HandOffFails(t) ==
    /\ pc[t] = "logging"
    /\ LogFail(t)
    /\ Decide(t, "forensics_handoff_failed")
    /\ UNCHANGED <<secVars, last_sequences>>

-----------------------------------------------------------------------------
(* _run: the end of the process, orderly or not *)

\* SIGINT cancels the wait of _run; its finally clause removes the SIGHUP handler
\* and waits for the reload task, while sockets are still accepted.
Stop ==
    /\ phase = "running" /\ stops < MaxStops
    /\ phase' = "stopping"
    /\ stops' = stops + 1
    /\ UNCHANGED <<secVars, logState, handlerVars, accepting, restarts, acceptErrors>>

\* close(): the listener is closed and the accept task, alive or not, is gathered.
CloseListener ==
    /\ phase = "stopping" /\ ~ ReloadRunning
    /\ phase' = "closing" /\ accepting' = FALSE
    /\ UNCHANGED <<secVars, logState, handlerVars, restarts, acceptErrors, stops>>

\* Variant: close() does not wait for the handlers.
NothingToWaitFor == TRUE

ConnectionTasksDone == queue = << >> /\ \A t \in Threads : Idle(t)

\* close() has gathered the connection tasks.
Stopped ==
    /\ phase = "closing" /\ ConnectionTasksDone
    /\ phase' = "stopped"
    /\ UNCHANGED <<secVars, logState, handlerVars, accepting, restarts, acceptErrors, stops>>

\* The process dies and comes back, alone or with its machine, or is started again:
\* connections and counters are gone, unacknowledged records may be, and both files
\* are loaded.
Restart ==
    /\ restarts < MaxRestarts
    /\ restarts' = restarts + 1
    /\ LoadAtStart
    /\ LogLose
    /\ queue' = << >>
    /\ pc' = [t \in Threads |-> "free"]
    /\ conn' = [t \in Threads |-> NoData]
    /\ snap' = [t \in Threads |-> NoData]
    /\ payload' = [t \in Threads |-> NoData]
    /\ last_sequences' = [n \in Nodes |-> -1]
    /\ phase' = "running" /\ accepting' = TRUE
    /\ UNCHANGED <<decision, conns, acceptErrors, stops>>

-----------------------------------------------------------------------------
HandlerStep(t) ==
    \/ SnapshotSecurityState(t)
    \/ HandshakeFails(t) \/ HandshakeSucceeds(t)
    \/ ReadFails(t) \/ \E p \in Payloads : ReadPayload(t, p)
    \/ ReserveSequence(t)
    \/ HandOff(t) \/ HandOffRefused(t)
    \/ LogProgress(t) \/ HandOffReturns(t) \/ HandOffFails(t)

PoolStep(t) == TakeConnection(t) \/ TakeReload(t) \/ LoadOnThread(t)

Next == \/ \E c \in Certs : AcceptSocket(c)
        \/ \E r \in ReloadTasks : Sighup(r) \/ Install(r)
        \/ SighupDropped
        \/ OperatorEdits
        \/ \E t \in Threads : PoolStep(t) \/ HandlerStep(t)
        \/ AcceptFails \/ Stop \/ CloseListener \/ Stopped
        \/ Restart

Spec == Init /\ [][Next]_vars

\* What a handler does without its peer: sockets have timeouts, and log_event ends
\* (CallEnds of ForensicChain).  A peer that completes a handshake or sends a
\* payload is not assumed.
HandlerProgress(t) ==
    \/ SnapshotSecurityState(t) \/ HandshakeFails(t) \/ ReadFails(t)
    \/ ReserveSequence(t) \/ HandOff(t) \/ HandOffRefused(t)
    \/ LogProgress(t) \/ HandOffReturns(t) \/ HandOffFails(t)

Fairness == /\ \A t \in Threads : WF_vars(PoolStep(t)) /\ WF_vars(HandlerProgress(t))
            /\ \A r \in ReloadTasks : WF_vars(Install(r))
            /\ WF_vars(CloseListener) /\ WF_vars(Stopped)

FairSpec == Spec /\ Fairness

-----------------------------------------------------------------------------
(* Properties *)

Rejections == {"tls_handshake_failed", "invalid_certificate_cn",
               "unenrolled_certificate_cn", "payload_read_timeout",
               "payload_read_error", "invalid_json_payload",
               "internal_server_error", "invalid_payload",
               "node_id_certificate_cn_mismatch",
               "replayed_or_out_of_order_sequence", "forensics_handoff_failed"}

\* Every variable has its type.
TypeOK ==
    /\ SecTypeOK
    /\ log \in Seq(LogEvents) /\ acked \subseteq 1 .. Len(log)
    /\ \A t \in Threads : call[t] = NoCall \/ pc[t] = "logging"
    /\ pc \in [Threads -> {"free", "loading", "accepted", "handshake", "reading",
                           "bound", "reserved", "logging"}]
    /\ last_sequences \in [Nodes -> -1 .. CollectorSeqLimit - 1]
    /\ decision \in [Conns -> Rejections \cup {"none", "accepted"}]
    /\ phase \in {"running", "stopping", "closing", "stopped"}
    /\ accepting \in BOOLEAN /\ (accepting => phase \in {"running", "stopping"})
    /\ conns \in 0 .. MaxConns /\ restarts \in 0 .. MaxRestarts
    /\ acceptErrors \in 0 .. MaxAcceptErrors /\ stops \in 0 .. MaxStops

\* An event is handed to the chain only for a trusted certificate with one common
\* name, which the payload repeats, and only if there was a moment at which the
\* operator's files enrolled that node and did not revoke that certificate.  Stale
\* snapshots are allowed; a mixture of an old context and a new allow-list, by a
\* reload between the two checks or a load that failed half way, is not
\* (server.py:93-116, 183-185, 213-269).
HandOffIsAuthenticated ==
    \A t \in Threads : pc[t] \in {"reserved", "logging"} =>
        /\ conn[t].cert.trusted
        /\ conn[t].cert.names = <<payload[t].node_id>>
        /\ \E f \in published : payload[t].node_id \in f.nodes /\ conn[t].cert \notin f.revoked

\* A connection that is accepted after a revocation is in force never gets a
\* record into the chain, whatever reloads, edits and restarts happen between the
\* accept, the handler's snapshot and the append.
RevokedNeverLogged == \A p \in 1 .. Len(log) : ~ log[p].certRevoked

\* Within one life of the process no (node, sequence number) is chained twice:
\* handlers that race on the same event are decided by _sequence_lock, and a
\* failed hand-off does not reopen the number (server.py:271-277).
NoReplayInLife ==
    \A p, q \in 1 .. Len(log) :
        (/\ log[p].node_id = log[q].node_id
         /\ log[p].sequence_number = log[q].sequence_number
         /\ log[p].life = log[q].life) => p = q

\* An accept decision means one durable record of that connection, for ever,
\* also after power loss (server.py:289-309: append before accept).
AcceptedIsDurable ==
    \A c \in Conns : decision[c] = "accepted" =>
        /\ \E p \in acked : log[p].conn = c
        /\ \A p, q \in 1 .. Len(log) : log[p].conn = c /\ log[q].conn = c => p = q

\* No connection is left undecided: unless the process restarts, every accepted
\* socket is served by the pool and its handler logs a decision, although the
\* peer may stall at any point and the chain may refuse.
EveryConnectionDecided ==
    \A c \in Conns : (conns >= c /\ restarts = 0) ~> (decision[c] # "none" \/ restarts > 0)

\* A reload waits behind the connections in the pool's queue, but not for ever:
\* a revocation whose SIGHUP started a reload comes into force (unless the load
\* fails) although every thread may be busy with a stalled peer.
ReloadIsServed == HeardSignalTakesEffect

\* collector/README.md:18-19, "Rejected ingest attempts ... are not appended to
\* the signed chain".
RejectedNotLogged ==
    \A c \in Conns : decision[c] \in Rejections => \A p \in 1 .. Len(log) : log[p].conn # c

\* docs/threat-model.md:124, "A per-node, strictly increasing sequence_number is
\* enforced in collector memory".  The hand-off is outside _sequence_lock, so the
\* chain need not have a node's numbers in order; but a record is followed by
\* smaller numbers of its node and process life only as long as handlers that
\* reserved before it are still on their threads: at most one for every other
\* thread, whatever the traffic (server.py:271-289).
OvertakingBounded ==
    \A p \in 1 .. Len(log) :
        Cardinality({q \in p + 1 .. Len(log) :
                        /\ log[q].node_id = log[p].node_id /\ log[q].life = log[p].life
                        /\ log[q].sequence_number < log[p].sequence_number})
            < Cardinality(Threads)

\* forensics/CHAIN_FORMAT.md:37, "Collector anti-replay sequence in 0..2^63-1": the
\* collector admits and reserves numbers up to 2^64-1 (models.py:34), but what is
\* chained is in the chain's range (_format.py:174-182).
ChainedInRange == \A p \in 1 .. Len(log) : log[p].sequence_number < ForensicSeqLimit

\* When close() has returned, every accepted connection has its decision and no
\* handler is inside log_event; a process that is stopped in order loses nothing.
StoppedIsDrained ==
    phase = "stopped" /\ restarts = 0 =>
        /\ \A c \in 1 .. conns : decision[c] # "none"
        /\ \A t \in Threads : call[t] = NoCall

\* A request to stop is granted in the end: stalled peers, a reload that waits
\* behind them for a thread, a dead accept task or a refusing chain delay it only
\* (__main__.py:63-69, server.py:142-159).
ShutdownEnds == phase = "stopping" ~> (phase = "stopped" \/ restarts > 0)
=============================================================================
