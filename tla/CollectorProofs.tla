--------------------------- MODULE CollectorProofs ---------------------------
(* Theorems about Collector, for every set of nodes, certificates, payloads,   *)
(* pool threads and reload tasks, and for every bound.                        *)
EXTENDS Collector, SecurityStateProofs, FiniteSetTheorems

-----------------------------------------------------------------------------
(* The inductive invariant *)

ConnItems == [kind : {"conn"}, id : Conns, cert : Certs, certRevoked : BOOLEAN]
ReloadItems == [kind : {"reload"}, task : ReloadTasks]
Snaps == [kind : {"snap"}, enrolled : SUBSET Nodes, revoked : SUBSET Certs]

\* Where a handler has a connection, a snapshot, an admitted peer, a payload, and
\* a reserved number.
Serving == {"accepted", "handshake", "reading", "bound", "reserved", "logging"}
Snapped == {"handshake", "reading", "bound", "reserved", "logging"}
Admitted == {"reading", "bound", "reserved", "logging"}
Bound == {"bound", "reserved", "logging"}
Reserved == {"reserved", "logging"}

\* The pool's queue, and what each thread holds according to where it is.
ThreadsTyped ==
    /\ queue \in Seq(ConnItems \cup ReloadItems)
    /\ pc \in [Threads -> Serving \cup {"free", "loading"}]
    /\ conn \in [Threads -> ConnItems \cup ReloadItems \cup {NoData}]
    /\ snap \in [Threads -> Snaps \cup {NoData}]
    /\ payload \in [Threads -> Payloads \cup {NoData}]
    /\ \A t \in Threads : /\ pc[t] \in Serving <=> conn[t] \in ConnItems
                          /\ pc[t] = "loading" <=> conn[t] \in ReloadItems
                          /\ pc[t] \in Snapped => snap[t] \in Snaps

\* The life of the process and the bounded counters.
LifeTyped ==
    /\ phase \in {"running", "stopping", "closing", "stopped"}
    /\ accepting \in BOOLEAN /\ (accepting => phase \in {"running", "stopping"})
    /\ conns \in 0 .. MaxConns /\ restarts \in 0 .. MaxRestarts
    /\ acceptErrors \in 0 .. MaxAcceptErrors /\ stops \in 0 .. MaxStops

\* A handler past the handshake serves a peer that its own snapshot admits, and
\* past _validate and the name check a payload of that peer.
PeerAdmitted ==
    /\ \A t \in Threads : pc[t] \in Admitted =>
          /\ HandshakeVerifies(t)
          /\ Len(conn[t].cert.names) = 1
          /\ conn[t].cert.names[1] \in snap[t].enrolled
    /\ \A t \in Threads : pc[t] \in Bound =>
          /\ validate_payload(payload[t])
          /\ payload[t].node_id = conn[t].cert.names[1]

\* A certificate that was revoked in memory when its socket was accepted is still
\* revoked there, and in the handler's snapshot.
RevocationKnown ==
    /\ \A i \in 1 .. Len(queue) : queue[i] \in ConnItems /\ queue[i].certRevoked =>
          queue[i].cert \in tls_revoked
    /\ \A t \in Threads : pc[t] \in Serving /\ conn[t].certRevoked =>
          /\ conn[t].cert \in tls_revoked
          /\ pc[t] \in Snapped => conn[t].cert \in snap[t].revoked

\* An accepted connection is in one place, the queue or a thread, until its one
\* decision is logged.
ConnectionInOnePlace ==
    /\ decision \in [Conns -> Rejections \cup {"none", "accepted"}]
    /\ \A c \in Conns : c > conns => decision[c] = "none"
    /\ \A i \in 1 .. Len(queue) : queue[i] \in ConnItems =>
          /\ queue[i].id <= conns /\ decision[queue[i].id] = "none"
          /\ \A j \in 1 .. Len(queue) :
                queue[j] \in ConnItems /\ queue[j].id = queue[i].id => i = j
          /\ \A t \in Threads : pc[t] \in Serving => conn[t].id # queue[i].id
    /\ \A t \in Threads : pc[t] \in Serving =>
          /\ conn[t].id <= conns /\ decision[conn[t].id] = "none"
          /\ \A u \in Threads : pc[u] \in Serving /\ conn[u].id = conn[t].id => t = u

Calls == {NoCall} \cup [status : {"open"}, event : LogEvents]
                  \cup [status : {"appended"}, pos : Nat]

\* The event that a handler hands to log_event.
HandedOff(t) == [node_id |-> payload[t].node_id,
                 sequence_number |-> payload[t].sequence_number,
                 conn |-> conn[t].id, life |-> restarts,
                 certRevoked |-> conn[t].certRevoked]

\* The log, and the calls of log_event that run on the handlers' threads.
LogTyped ==
    /\ log \in Seq(LogEvents) /\ acked \subseteq 1 .. Len(log)
    /\ call \in [Threads -> Calls]
    /\ \A t \in Threads : pc[t] = "logging" <=> call[t] # NoCall
    /\ \A t \in Threads : call[t].status = "appended" =>
          call[t].pos \in 1 .. Len(log) /\ log[call[t].pos].conn = conn[t].id
    /\ \A t \in Threads : call[t].status = "open" =>
          call[t].event = HandedOff(t) /\ call[t].event.sequence_number < ForensicSeqLimit
    /\ \A p \in 1 .. Len(log) : log[p].conn <= conns /\ log[p].life <= restarts

\* A handler that has reserved its number and not yet appended its record.
Pending(t) == pc[t] = "reserved" \/ (pc[t] = "logging" /\ call[t].status = "open")

\* No connection has two records, and none before its handler appends it.
OneRecordEach ==
    /\ \A p, q \in 1 .. Len(log) : log[p].conn = log[q].conn => p = q
    /\ \A i \in 1 .. Len(queue), p \in 1 .. Len(log) :
          queue[i] \in ConnItems => log[p].conn # queue[i].id
    /\ \A t \in Threads, p \in 1 .. Len(log) :
          pc[t] \in Serving /\ call[t].status # "appended" => log[p].conn # conn[t].id

\* An accept decision has its acknowledged record.
AcceptHasRecord == \A c \in Conns : decision[c] = "accepted" => \E p \in acked : log[p].conn = c

\* A number is reserved once: what is in the log of this life or on its way there
\* is covered by last_sequences, and no two of them are the same.
NumbersReserved ==
    /\ last_sequences \in [Nodes -> -1 .. CollectorSeqLimit - 1]
    /\ \A p \in 1 .. Len(log) : log[p].life = restarts =>
          log[p].sequence_number <= last_sequences[log[p].node_id]
    /\ \A t \in Threads : pc[t] \in Reserved =>
          payload[t].sequence_number <= last_sequences[payload[t].node_id]
    /\ \A t \in Threads, p \in 1 .. Len(log) :
          Pending(t) /\ log[p].life = restarts /\ log[p].node_id = payload[t].node_id =>
              log[p].sequence_number # payload[t].sequence_number
    /\ \A t, u \in Threads :
          /\ Pending(t) /\ Pending(u) /\ payload[t].node_id = payload[u].node_id
          /\ payload[t].sequence_number = payload[u].sequence_number
          => t = u

\* An undecided connection of a process that never restarted is somewhere, and
\* after close() it is nowhere.
UndecidedIsSomewhere ==
    /\ restarts = 0 => \A c \in 1 .. conns :
          \/ decision[c] # "none"
          \/ \E i \in 1 .. Len(queue) : queue[i] \in ConnItems /\ queue[i].id = c
          \/ \E t \in Threads : pc[t] \in Serving /\ conn[t].id = c
    /\ phase = "stopped" => queue = << >> /\ \A t \in Threads : pc[t] = "free"

IInv == /\ SecInv /\ ThreadsTyped /\ LifeTyped /\ PeerAdmitted /\ RevocationKnown
        /\ ConnectionInOnePlace /\ LogTyped /\ OneRecordEach /\ AcceptHasRecord
        /\ NumbersReserved /\ NoReplayInLife /\ ChainedInRange /\ RevokedNeverLogged
        /\ UndecidedIsSomewhere

-----------------------------------------------------------------------------
(* Lemmas about the operators *)

\* What waits in the queue is a connection or a reload, and never both.
LEMMA ItemFacts ==
    /\ \A x \in ConnItems : /\ x.kind = "conn" /\ x.id \in Conns /\ x.id \in Nat
                            /\ x.cert \in Certs /\ x.certRevoked \in BOOLEAN
                            /\ x \notin ReloadItems /\ x # NoData
    /\ \A x \in ReloadItems : /\ x.kind = "reload" /\ x.task \in ReloadTasks
                              /\ x \notin ConnItems /\ x # NoData
    /\ NoData \notin ConnItems /\ NoData \notin ReloadItems
  BY CollectorAssumption DEF ConnItems, ReloadItems, NoData, Conns

\* A sequence that grows at its end.
LEMMA AppendFacts ==
    ASSUME NEW S, NEW q \in Seq(S), NEW e \in S
    PROVE  /\ Append(q, e) \in Seq(S) /\ Len(q) \in Nat
           /\ Len(Append(q, e)) = Len(q) + 1
           /\ \A i \in 1 .. Len(q) : Append(q, e)[i] = q[i]
           /\ Append(q, e)[Len(q) + 1] = e
           /\ \A i \in 1 .. Len(q) + 1 : i \in 1 .. Len(q) \/ i = Len(q) + 1
  OBVIOUS

\* A sequence whose first element is taken.
LEMMA TailFacts ==
    ASSUME NEW S, NEW q \in Seq(S), q # << >>
    PROVE  /\ Tail(q) \in Seq(S) /\ Len(q) \in Nat
           /\ Len(Tail(q)) = Len(q) - 1
           /\ \A i \in 1 .. Len(q) - 1 : Tail(q)[i] = q[i + 1] /\ i + 1 \in 1 .. Len(q)
           /\ 1 \in 1 .. Len(q) /\ Head(q) = q[1] /\ Head(q) \in S
  OBVIOUS

\* A sequence that is cut off after n elements.
LEMMA CutFacts ==
    ASSUME NEW S, NEW q \in Seq(S), NEW n \in 0 .. Len(q)
    PROVE  /\ SubSeq(q, 1, n) \in Seq(S)
           /\ Len(SubSeq(q, 1, n)) = n
           /\ \A i \in 1 .. n : SubSeq(q, 1, n)[i] = q[i] /\ i \in 1 .. Len(q)
  OBVIOUS

\* A new entry goes to the end of the pool's queue, the others stay in place.
LEMMA QueueGrows ==
    ASSUME ThreadsTyped, NEW e \in ConnItems \cup ReloadItems, queue' = Append(queue, e)
    PROVE  /\ queue' \in Seq(ConnItems \cup ReloadItems)
           /\ Len(queue) \in Nat /\ Len(queue') = Len(queue) + 1
           /\ \A i \in 1 .. Len(queue) : i \in 1 .. Len(queue') /\ queue'[i] = queue[i]
           /\ Len(queue') \in 1 .. Len(queue') /\ queue'[Len(queue')] = e
           /\ \A i \in 1 .. Len(queue') : i \in 1 .. Len(queue) \/ i = Len(queue')
           /\ \A i \in 1 .. Len(queue) : i # Len(queue')
  BY AppendFacts DEF ThreadsTyped

\* A thread takes the first entry, the others move up by one.
LEMMA QueueShrinks ==
    ASSUME ThreadsTyped, queue # << >>, queue' = Tail(queue)
    PROVE  /\ queue' \in Seq(ConnItems \cup ReloadItems)
           /\ 1 \in 1 .. Len(queue) /\ Head(queue) = queue[1]
           /\ Head(queue) \in ConnItems \cup ReloadItems
           /\ \A i \in 1 .. Len(queue') :
                 i + 1 \in 1 .. Len(queue) /\ i + 1 # 1 /\ queue'[i] = queue[i + 1]
           /\ \A i, j \in 1 .. Len(queue') : i + 1 = j + 1 => i = j
<1>1. queue \in Seq(ConnItems \cup ReloadItems)
  BY DEF ThreadsTyped
<1>2. Len(queue') = Len(queue) - 1 /\ Len(queue) \in Nat
  BY <1>1, TailFacts
<1> QED BY <1>1, <1>2, TailFacts

\* Only the first entry has left the queue.
LEMMA QueueKeeps ==
    ASSUME ThreadsTyped, queue # << >>, queue' = Tail(queue), NEW x, x # queue[1],
           \E i \in 1 .. Len(queue) : queue[i] = x
    PROVE  \E j \in 1 .. Len(queue') : queue'[j] = x
<1>1. PICK i \in 1 .. Len(queue) : queue[i] = x
  OBVIOUS
<1>2. i # 1 /\ Len(queue) \in Nat /\ Len(queue') = Len(queue) - 1
  BY <1>1, TailFacts DEF ThreadsTyped
<1>3. i - 1 \in 1 .. Len(queue') /\ (i - 1) + 1 = i
  BY <1>2
<1>4. queue'[i - 1] = queue[(i - 1) + 1]
  BY <1>2, <1>3, TailFacts DEF ThreadsTyped
<1> QED BY <1>1, <1>3, <1>4

\* A record of the log carries numbers.
LEMMA EventFacts ==
    ASSUME NEW e \in LogEvents
    PROVE  /\ e.conn \in Conns /\ e.conn \in Nat /\ e.life \in Nat
           /\ e.node_id \in Nodes /\ e.sequence_number \in Nat
           /\ e.certRevoked \in BOOLEAN
  BY CollectorAssumption DEF LogEvents, Conns

\* So does every position of the log.
LEMMA LogFacts ==
    ASSUME log \in Seq(LogEvents)
    PROVE  /\ Len(log) \in Nat
           /\ \A p \in 1 .. Len(log) :
                 /\ p \in Nat /\ log[p] \in LogEvents
                 /\ log[p].conn \in Nat /\ log[p].life \in Nat
                 /\ log[p].node_id \in Nodes /\ log[p].sequence_number \in Nat
  BY EventFacts

\* What a call of log_event is known by follows from its status.
LEMMA CallFacts ==
    /\ \A x \in Calls : /\ x.status \in {"idle", "open", "appended"}
                        /\ x.status = "idle" <=> x = NoCall
                        /\ x.status = "open" => x.event \in LogEvents
                        /\ x.status = "appended" => x.pos \in Nat
    /\ NoCall \in Calls /\ NoCall.status = "idle"
    /\ \A e \in LogEvents : /\ [status |-> "open", event |-> e] \in Calls
                            /\ [status |-> "open", event |-> e] # NoCall
    /\ \A i \in Nat : /\ [status |-> "appended", pos |-> i] \in Calls
                      /\ [status |-> "appended", pos |-> i] # NoCall
  BY DEF Calls, NoCall

-----------------------------------------------------------------------------
(* The branches of the handler *)

\* The handler logs one of its rejections: nothing is acknowledged, and a record
\* that was appended stays.
Rejects(t) ==
    /\ pc[t] \in Snapped
    /\ \E reason \in Rejections : Decide(t, reason)
    /\ \/ pc[t] # "logging" /\ UNCHANGED logState
       \/ pc[t] = "logging" /\ LogFail(t)
    /\ UNCHANGED <<secVars, last_sequences>>

\* The handshake is done and the peer's name is enrolled.
Admits(t) ==
    /\ pc[t] = "handshake" /\ HandshakeVerifies(t)
    /\ Len(conn[t].cert.names) = 1 /\ conn[t].cert.names[1] \in snap[t].enrolled
    /\ pc' = [pc EXCEPT ![t] = "reading"]
    /\ UNCHANGED <<secVars, logState, queue, conn, snap, payload, last_sequences,
                   decision, conns, lifeVars>>

\* The payload is valid and names its peer.
Binds(t, p) ==
    /\ pc[t] = "reading" /\ validate_payload(p) /\ BoundToCertificate(p, conn[t].cert)
    /\ payload' = [payload EXCEPT ![t] = p]
    /\ pc' = [pc EXCEPT ![t] = "bound"]
    /\ UNCHANGED <<secVars, logState, queue, conn, snap, last_sequences, decision,
                   conns, lifeVars>>

\* The number is new and is reserved.
Reserves(t) ==
    /\ pc[t] = "bound"
    /\ ~ Replayed(payload[t].node_id, payload[t].sequence_number)
    /\ last_sequences' = [last_sequences EXCEPT ![payload[t].node_id] =
                                                 payload[t].sequence_number]
    /\ pc' = [pc EXCEPT ![t] = "reserved"]
    /\ UNCHANGED <<secVars, logState, queue, conn, snap, payload, decision, conns, lifeVars>>

\* Every step of a handler is one of its branches.
LEMMA HandlerBranches ==
    ASSUME NEW t \in Threads, HandlerStep(t)
    PROVE  \/ SnapshotSecurityState(t) \/ Admits(t) \/ \E p \in Payloads : Binds(t, p)
           \/ Reserves(t) \/ HandOff(t) \/ LogProgress(t) \/ HandOffReturns(t)
           \/ Rejects(t)
<1>1. HandshakeSucceeds(t) => Admits(t) \/ Rejects(t)
  BY DEF HandshakeSucceeds, Admits, Rejects, Snapped, Rejections
<1>2. ASSUME NEW p \in Payloads, ReadPayload(t, p)
      PROVE  Binds(t, p) \/ Rejects(t)
  BY <1>2 DEF ReadPayload, Binds, Rejects, Snapped, Rejections
<1>3. ReserveSequence(t) => Reserves(t) \/ Rejects(t)
  BY DEF ReserveSequence, Reserves, Rejects, Snapped, Rejections
<1>4. HandshakeFails(t) \/ ReadFails(t) \/ HandOffRefused(t) \/ HandOffFails(t) => Rejects(t)
  BY DEF HandshakeFails, ReadFails, HandOffRefused, HandOffFails, Rejects, Snapped, Rejections
<1> QED BY <1>1, <1>2, <1>3, <1>4 DEF HandlerStep

-----------------------------------------------------------------------------
(* The invariant is inductive: one lemma per action, or per branch of a handler *)

\* A step that leaves the handlers and the log alone.
LEMMA QuietInv ==
    ASSUME IInv, SecInv', Sticks, LifeTyped', UNCHANGED <<logState, handlerVars, restarts>>,
           phase' = "stopped" => phase = "stopped" \/ ConnectionTasksDone
    PROVE  IInv'
<1> USE DEF logState, handlerVars
<1>1. ThreadsTyped' /\ PeerAdmitted' /\ RevocationKnown' /\ ConnectionInOnePlace'
  BY DEF IInv, ThreadsTyped, PeerAdmitted, HandshakeVerifies, RevocationKnown, Sticks,
       ConnectionInOnePlace
<1>2. LogTyped' /\ OneRecordEach' /\ AcceptHasRecord' /\ NumbersReserved'
  BY DEF IInv, LogTyped, OneRecordEach, AcceptHasRecord, NumbersReserved, Pending, HandedOff
<1>3. NoReplayInLife' /\ ChainedInRange' /\ RevokedNeverLogged'
  BY DEF IInv, NoReplayInLife, ChainedInRange, RevokedNeverLogged
<1>4. UndecidedIsSomewhere'
  BY DEF IInv, UndecidedIsSomewhere, ConnectionTasksDone, Idle
<1> QED BY <1>1, <1>2, <1>3, <1>4 DEF IInv

\* A socket is accepted and its handler is queued (server.py:161-176).
LEMMA AcceptSocketInv ==
    ASSUME IInv, NEW c \in Certs, AcceptSocket(c)
    PROVE  IInv'
<1> DEFINE new == [kind |-> "conn", id |-> conns + 1, cert |-> c,
                   certRevoked |-> c \in tls_revoked]
<1> USE DEF AcceptSocket
<1>1. new \in ConnItems /\ new.id = conns + 1 /\ new.cert = c
  <2>1. conns + 1 \in Conns
    BY CollectorAssumption DEF IInv, LifeTyped, Conns
  <2>2. (c \in tls_revoked) \in BOOLEAN
    OBVIOUS
  <2> QED
    BY <2>1, <2>2 DEF ConnItems
<1>a. new.certRevoked = (c \in tls_revoked)
  OBVIOUS
<1>2. queue' = Append(queue, new)
  OBVIOUS
<1> HIDE DEF new
<1>3. SecInv' /\ Sticks
  BY SecStutterInv DEF IInv
<1>4. LifeTyped' /\ conns' = conns + 1 /\ conns \in Nat
  BY CollectorAssumption DEF IInv, LifeTyped, lifeVars
<1>5. ThreadsTyped'
  BY <1>1, <1>2, QueueGrows DEF IInv, ThreadsTyped
<1>6. PeerAdmitted' /\ NumbersReserved' /\ AcceptHasRecord'
  BY DEF IInv, PeerAdmitted, HandshakeVerifies, NumbersReserved, AcceptHasRecord, Pending,
       logState, lifeVars
<1>7. RevocationKnown'
  BY <1>1, <1>a, <1>2, <1>3, QueueGrows DEF IInv, RevocationKnown, Sticks, secVars,
       memoryState
<1>8. ConnectionInOnePlace'
  <2>1. conns + 1 \in Conns /\ decision[conns + 1] = "none"
    BY <1>1, <1>4, ItemFacts DEF IInv, ConnectionInOnePlace
  <2> QED
    BY <1>1, <1>2, <1>4, <2>1, QueueGrows, ItemFacts DEF IInv, ConnectionInOnePlace,
         ThreadsTyped, Conns
<1>9. LogTyped'
  <2>1. \A p \in 1 .. Len(log) : log[p].conn <= conns + 1
    BY <1>4, LogFacts DEF IInv, LogTyped
  <2> QED
    BY <1>4, <2>1 DEF IInv, LogTyped, HandedOff, logState, lifeVars
<1>10. OneRecordEach'
  BY <1>1, <1>2, <1>4, QueueGrows, ItemFacts, LogFacts, SMTT(30) DEF IInv, OneRecordEach, LogTyped,
       logState
<1>11. NoReplayInLife' /\ ChainedInRange' /\ RevokedNeverLogged'
  BY DEF IInv, NoReplayInLife, ChainedInRange, RevokedNeverLogged, logState
<1>12. UndecidedIsSomewhere'
  BY <1>1, <1>2, <1>4, QueueGrows, SMTT(30) DEF IInv, UndecidedIsSomewhere, LifeTyped, lifeVars
<1> QED
  BY <1>3, <1>4, <1>5, <1>6, <1>7, <1>8, <1>9, <1>10, <1>11, <1>12 DEF IInv

\* SIGHUP queues a load behind the connections (server.py:93-97).
LEMMA SighupInv ==
    ASSUME IInv, NEW r \in ReloadTasks, Sighup(r)
    PROVE  IInv'
<1> USE DEF Sighup
<1>1. SecInv' /\ Sticks
  BY RequestReloadInv DEF IInv, Sticks
<1>2. [kind |-> "reload", task |-> r] \in ReloadItems
  BY DEF IInv, ReloadItems
<1>3. ThreadsTyped'
  BY <1>2, QueueGrows DEF IInv, ThreadsTyped
<1>4. LifeTyped' /\ PeerAdmitted' /\ NumbersReserved'
  BY DEF IInv, LifeTyped, PeerAdmitted, NumbersReserved, HandshakeVerifies, Pending,
       logState, lifeVars
<1>5. RevocationKnown'
  BY <1>1, <1>2, QueueGrows, ItemFacts DEF IInv, RevocationKnown, Sticks
<1>6. ConnectionInOnePlace'
  BY <1>2, QueueGrows, ItemFacts DEF IInv, ConnectionInOnePlace, lifeVars
<1>7. OneRecordEach'
  BY <1>2, QueueGrows, ItemFacts DEF IInv, OneRecordEach, logState
<1>8. LogTyped' /\ AcceptHasRecord' /\ NoReplayInLife' /\ ChainedInRange' /\ RevokedNeverLogged'
  BY DEF IInv, LogTyped, AcceptHasRecord, NoReplayInLife, ChainedInRange,
       RevokedNeverLogged, HandedOff, logState, lifeVars
<1>9. UndecidedIsSomewhere'
  BY <1>2, QueueGrows DEF IInv, UndecidedIsSomewhere, lifeVars
<1> QED
  BY <1>1, <1>3, <1>4, <1>5, <1>6, <1>7, <1>8, <1>9 DEF IInv

\* A free thread takes up a connection.
LEMMA TakeConnectionInv ==
    ASSUME IInv, NEW t \in Threads, TakeConnection(t)
    PROVE  IInv'
<1> USE DEF TakeConnection, Idle
<1>1. SecInv' /\ Sticks
  BY SecStutterInv DEF IInv, Sticks
<1>2. Head(queue) \in ConnItems
  BY QueueShrinks, ItemFacts DEF IInv
<1>3. call[t].status = "idle"
  BY CallFacts DEF IInv, LogTyped
<1>4. ThreadsTyped'
  BY <1>2, QueueShrinks, ItemFacts DEF IInv, ThreadsTyped, Serving, Snapped
<1>5. LifeTyped' /\ NumbersReserved'
  BY DEF IInv, LifeTyped, NumbersReserved, ThreadsTyped, Pending, Reserved, logState,
       lifeVars
<1>6. PeerAdmitted'
  BY DEF IInv, PeerAdmitted, ThreadsTyped, HandshakeVerifies, Admitted, Bound
<1>7. RevocationKnown'
  BY <1>1, <1>2, QueueShrinks DEF IInv, RevocationKnown, ThreadsTyped, Sticks, Serving,
       Snapped
<1>8. ConnectionInOnePlace'
  BY <1>2, QueueShrinks DEF IInv, ConnectionInOnePlace, ThreadsTyped, Serving
<1>9. LogTyped'
  BY <1>3 DEF IInv, LogTyped, ThreadsTyped, HandedOff, logState, lifeVars
<1>10. OneRecordEach'
  BY <1>2, <1>3, QueueShrinks DEF IInv, OneRecordEach, ThreadsTyped, Serving, logState
<1>11. AcceptHasRecord' /\ NoReplayInLife' /\ ChainedInRange' /\ RevokedNeverLogged'
  BY DEF IInv, AcceptHasRecord, NoReplayInLife, ChainedInRange, RevokedNeverLogged, logState
<1>12. \A u \in Threads : u # t => pc'[u] = pc[u] /\ conn'[u] = conn[u]
  BY DEF IInv, ThreadsTyped
<1>13. pc'[t] \in Serving /\ conn'[t] = queue[1]
  BY QueueShrinks DEF IInv, ThreadsTyped, Serving
<1>14. phase' # "stopped" /\ pc[t] \notin Serving
  BY DEF IInv, UndecidedIsSomewhere, Serving, lifeVars
<1>15. \A x \in ConnItems : (\E i \in 1 .. Len(queue) : queue[i] = x) =>
          x = queue[1] \/ \E j \in 1 .. Len(queue') : queue'[j] = x
  BY QueueKeeps DEF IInv
<1>16. UndecidedIsSomewhere'
  BY <1>12, <1>13, <1>14, <1>15, SMTT(30) DEF IInv, UndecidedIsSomewhere, lifeVars
<1> QED
  BY <1>1, <1>4, <1>5, <1>6, <1>7, <1>8, <1>9, <1>10, <1>11, <1>16 DEF IInv

\* A free thread takes up a load.
LEMMA TakeReloadInv ==
    ASSUME IInv, NEW t \in Threads, TakeReload(t)
    PROVE  IInv'
<1> USE DEF TakeReload, Idle
<1>1. Head(queue) \in ReloadItems /\ Head(queue).task \in ReloadTasks
  BY QueueShrinks, ItemFacts DEF IInv
<1>2. SecInv' /\ Sticks
  BY <1>1, BeginLoadInv DEF IInv, Sticks
<1>3. call[t].status = "idle"
  BY CallFacts DEF IInv, LogTyped
<1>4. ThreadsTyped'
  BY <1>1, QueueShrinks, ItemFacts DEF IInv, ThreadsTyped, Serving, Snapped
<1>5. LifeTyped' /\ NumbersReserved'
  BY DEF IInv, LifeTyped, NumbersReserved, ThreadsTyped, Pending, Reserved, logState,
       lifeVars
<1>6. PeerAdmitted'
  BY DEF IInv, PeerAdmitted, ThreadsTyped, HandshakeVerifies, Admitted, Bound
<1>7. LogTyped'
  BY <1>3 DEF IInv, LogTyped, ThreadsTyped, HandedOff, logState, lifeVars
<1>8. AcceptHasRecord' /\ NoReplayInLife' /\ ChainedInRange' /\ RevokedNeverLogged'
  BY DEF IInv, AcceptHasRecord, NoReplayInLife, ChainedInRange, RevokedNeverLogged, logState
<1>9. \A u \in Threads : u # t => pc'[u] = pc[u] /\ conn'[u] = conn[u]
  BY DEF IInv, ThreadsTyped
<1>10. /\ phase' # "stopped" /\ queue[1] \notin ConnItems
       /\ pc[t] \notin Serving /\ pc'[t] \notin Serving
  BY <1>1, QueueShrinks, ItemFacts DEF IInv, ThreadsTyped, UndecidedIsSomewhere, Serving,
       lifeVars
<1>11. RevocationKnown'
  BY <1>2, <1>9, <1>10, QueueShrinks DEF IInv, RevocationKnown, Sticks
<1>12. ConnectionInOnePlace'
  BY <1>9, <1>10, QueueShrinks DEF IInv, ConnectionInOnePlace
<1>13. OneRecordEach'
  <2>1. OneRecordEach /\ UNCHANGED logState
    BY DEF IInv
  <2>2. \A i \in 1 .. Len(queue') : i + 1 \in 1 .. Len(queue) /\ queue'[i] = queue[i + 1]
    BY QueueShrinks DEF IInv
  <2> HIDE DEF TakeReload
  <2> QED BY <1>9, <1>10, <2>1, <2>2 DEF OneRecordEach, logState
<1>14. \A x \in ConnItems : (\E i \in 1 .. Len(queue) : queue[i] = x) =>
          \E j \in 1 .. Len(queue') : queue'[j] = x
  BY <1>10, QueueKeeps DEF IInv
<1>15. UndecidedIsSomewhere'
  BY <1>9, <1>10, <1>14 DEF IInv, UndecidedIsSomewhere, lifeVars
<1> QED
  BY <1>2, <1>4, <1>5, <1>6, <1>7, <1>8, <1>11, <1>12, <1>13, <1>15 DEF IInv

\* The load on a pool thread goes on, ends or fails (server.py:112-116).
LEMMA LoadOnThreadInv ==
    ASSUME IInv, NEW t \in Threads, LoadOnThread(t)
    PROVE  IInv'
<1>1. SecInv' /\ Sticks
  BY ItemFacts, ReloadStepInv DEF IInv, Sticks, ThreadsTyped, LoadOnThread
<1>2. /\ pc[t] = "loading" /\ pc'[t] \in {"free", "loading"}
      /\ \A u \in Threads : u # t => pc'[u] = pc[u] /\ conn'[u] = conn[u]
  BY DEF IInv, ThreadsTyped, LoadOnThread
<1>3. UNCHANGED <<logState, queue, snap, payload, last_sequences, decision, conns, lifeVars>>
  BY DEF IInv, LoadOnThread
<1>4. call[t].status = "idle"
  BY <1>2, CallFacts DEF IInv, LogTyped
<1>5. ThreadsTyped'
  BY ItemFacts DEF IInv, ThreadsTyped, Serving, Snapped, LoadOnThread
<1>6. LifeTyped'
  BY <1>3 DEF IInv, LifeTyped, lifeVars
<1>7. PeerAdmitted'
  BY <1>2, <1>3 DEF IInv, PeerAdmitted, HandshakeVerifies, Admitted, Bound
<1>8. RevocationKnown'
  BY <1>1, <1>2, <1>3 DEF IInv, RevocationKnown, Sticks, Serving, Snapped
<1>9. ConnectionInOnePlace'
  BY <1>2, <1>3 DEF IInv, ConnectionInOnePlace, Serving
<1>10. LogTyped'
  BY <1>2, <1>3, <1>4 DEF IInv, LogTyped, HandedOff, logState, lifeVars
<1>11. OneRecordEach'
  BY <1>2, <1>3, <1>4 DEF IInv, OneRecordEach, Serving, logState
<1>12. NumbersReserved'
  BY <1>2, <1>3, <1>4 DEF IInv, NumbersReserved, Pending, Reserved, logState, lifeVars
<1>13. AcceptHasRecord' /\ NoReplayInLife' /\ ChainedInRange' /\ RevokedNeverLogged'
  BY <1>3 DEF IInv, AcceptHasRecord, NoReplayInLife, ChainedInRange, RevokedNeverLogged,
       logState
<1>14. UndecidedIsSomewhere'
  BY <1>2, <1>3 DEF IInv, UndecidedIsSomewhere, Serving, lifeVars
<1> QED
  BY <1>1, <1>5, <1>6, <1>7, <1>8, <1>9, <1>10, <1>11, <1>12, <1>13, <1>14 DEF IInv

\* The handler copies the security state under its lock (server.py:183-185).
LEMMA SnapshotInv ==
    ASSUME IInv, NEW t \in Threads, SnapshotSecurityState(t)
    PROVE  IInv'
<1> USE DEF SnapshotSecurityState
<1>1. SecInv' /\ Sticks
  BY SecStutterInv DEF IInv, Sticks
<1>2. [kind |-> "snap", enrolled |-> enrolled_nodes, revoked |-> tls_revoked] \in Snaps
  BY DEF IInv, SecInv, SecTypeOK, Snaps
<1>3. ThreadsTyped'
  BY <1>2 DEF IInv, ThreadsTyped, Serving, Snapped
<1>4. LifeTyped' /\ NumbersReserved'
  BY DEF IInv, LifeTyped, NumbersReserved, ThreadsTyped, Pending, Reserved, logState,
       lifeVars
<1>5. PeerAdmitted'
  BY DEF IInv, PeerAdmitted, ThreadsTyped, HandshakeVerifies, Admitted, Bound
<1>6. RevocationKnown'
  BY <1>1 DEF IInv, RevocationKnown, ThreadsTyped, Sticks, Serving, Snapped
<1>7. ConnectionInOnePlace'
  BY DEF IInv, ConnectionInOnePlace, ThreadsTyped, Serving
<1>8. LogTyped'
  BY DEF IInv, LogTyped, ThreadsTyped, HandedOff, logState, lifeVars
<1>9. OneRecordEach'
  BY DEF IInv, OneRecordEach, ThreadsTyped, Serving, logState
<1>10. AcceptHasRecord' /\ NoReplayInLife' /\ ChainedInRange' /\ RevokedNeverLogged'
  BY DEF IInv, AcceptHasRecord, NoReplayInLife, ChainedInRange, RevokedNeverLogged, logState
<1>11. UndecidedIsSomewhere'
  BY DEF IInv, UndecidedIsSomewhere, ThreadsTyped, Serving, lifeVars
<1> QED
  BY <1>1, <1>3, <1>4, <1>5, <1>6, <1>7, <1>8, <1>9, <1>10, <1>11 DEF IInv

\* The handshake succeeds for an enrolled name (server.py:207-238).
LEMMA AdmitsInv ==
    ASSUME IInv, NEW t \in Threads, Admits(t)
    PROVE  IInv'
<1> USE DEF Admits
<1>1. SecInv' /\ Sticks
  BY SecStutterInv DEF IInv, Sticks
<1>2. ThreadsTyped'
  BY DEF IInv, ThreadsTyped, Serving, Snapped
<1>3. LifeTyped' /\ NumbersReserved'
  BY DEF IInv, LifeTyped, NumbersReserved, ThreadsTyped, Pending, Reserved, logState,
       lifeVars
<1>4. PeerAdmitted'
  BY DEF IInv, PeerAdmitted, ThreadsTyped, HandshakeVerifies, Admitted, Bound
<1>5. RevocationKnown'
  BY <1>1 DEF IInv, RevocationKnown, ThreadsTyped, Sticks, Serving, Snapped
<1>6. ConnectionInOnePlace'
  BY DEF IInv, ConnectionInOnePlace, ThreadsTyped, Serving
<1>7. LogTyped'
  BY DEF IInv, LogTyped, ThreadsTyped, HandedOff, logState, lifeVars
<1>8. OneRecordEach'
  BY DEF IInv, OneRecordEach, ThreadsTyped, Serving, logState
<1>9. AcceptHasRecord' /\ NoReplayInLife' /\ ChainedInRange' /\ RevokedNeverLogged'
  BY DEF IInv, AcceptHasRecord, NoReplayInLife, ChainedInRange, RevokedNeverLogged, logState
<1>10. UndecidedIsSomewhere'
  BY DEF IInv, UndecidedIsSomewhere, ThreadsTyped, Serving, lifeVars
<1> QED
  BY <1>1, <1>2, <1>3, <1>4, <1>5, <1>6, <1>7, <1>8, <1>9, <1>10 DEF IInv

\* A payload is validated and bound to the certificate's name (server.py:240-269).
LEMMA BindsInv ==
    ASSUME IInv, NEW t \in Threads, NEW p \in Payloads, Binds(t, p)
    PROVE  IInv'
<1> USE DEF Binds
<1>1. SecInv' /\ Sticks
  BY SecStutterInv DEF IInv, Sticks
<1>2. ThreadsTyped'
  BY DEF IInv, ThreadsTyped, Serving, Snapped
<1>3. payload'[t] = p /\ \A u \in Threads : u # t => payload'[u] = payload[u]
  BY DEF IInv, ThreadsTyped
<1>4. LifeTyped' /\ NumbersReserved'
  BY <1>3 DEF IInv, LifeTyped, NumbersReserved, ThreadsTyped, Pending, Reserved, logState,
       lifeVars
<1>5. PeerAdmitted'
  BY <1>3 DEF IInv, PeerAdmitted, ThreadsTyped, HandshakeVerifies, BoundToCertificate,
       Admitted, Bound
<1>6. RevocationKnown'
  BY <1>1 DEF IInv, RevocationKnown, ThreadsTyped, Sticks, Serving, Snapped
<1>7. ConnectionInOnePlace'
  BY DEF IInv, ConnectionInOnePlace, ThreadsTyped, Serving
<1>8. call[t].status = "idle"
  BY CallFacts DEF IInv, LogTyped
<1>9. LogTyped'
  BY <1>3, <1>8 DEF IInv, LogTyped, ThreadsTyped, HandedOff, logState, lifeVars
<1>10. OneRecordEach'
  BY DEF IInv, OneRecordEach, ThreadsTyped, Serving, logState
<1>11. AcceptHasRecord' /\ NoReplayInLife' /\ ChainedInRange' /\ RevokedNeverLogged'
  BY DEF IInv, AcceptHasRecord, NoReplayInLife, ChainedInRange, RevokedNeverLogged, logState
<1>12. UndecidedIsSomewhere'
  BY DEF IInv, UndecidedIsSomewhere, ThreadsTyped, Serving, lifeVars
<1> QED
  BY <1>1, <1>2, <1>4, <1>5, <1>6, <1>7, <1>9, <1>10, <1>11, <1>12 DEF IInv

\* A new number is reserved under _sequence_lock (server.py:271-277).
LEMMA ReservesInv ==
    ASSUME IInv, NEW t \in Threads, Reserves(t)
    PROVE  IInv'
<1> USE DEF Reserves
<1>1. SecInv' /\ Sticks
  BY SecStutterInv DEF IInv, Sticks
<1>2. ThreadsTyped'
  BY DEF IInv, ThreadsTyped, Serving, Snapped
<1>3. /\ payload[t].node_id \in Nodes /\ payload[t].sequence_number \in 0 .. CollectorSeqLimit - 1
  BY SeqLimits DEF IInv, ThreadsTyped, PeerAdmitted, Admitted, Bound, Snapped, Snaps,
       validate_payload
<1>4. LifeTyped'
  BY DEF IInv, LifeTyped, lifeVars
<1>5. PeerAdmitted'
  BY DEF IInv, PeerAdmitted, ThreadsTyped, HandshakeVerifies, Admitted, Bound
<1>6. RevocationKnown'
  BY <1>1 DEF IInv, RevocationKnown, ThreadsTyped, Sticks, Serving, Snapped
<1>7. ConnectionInOnePlace'
  BY DEF IInv, ConnectionInOnePlace, ThreadsTyped, Serving
<1>8. LogTyped'
  BY DEF IInv, LogTyped, ThreadsTyped, HandedOff, logState, lifeVars
<1>9. OneRecordEach'
  BY DEF IInv, OneRecordEach, ThreadsTyped, Serving, logState
<1>10. AcceptHasRecord' /\ NoReplayInLife' /\ ChainedInRange' /\ RevokedNeverLogged'
  BY DEF IInv, AcceptHasRecord, NoReplayInLife, ChainedInRange, RevokedNeverLogged, logState
<1>11. UndecidedIsSomewhere'
  BY DEF IInv, UndecidedIsSomewhere, ThreadsTyped, Serving, lifeVars
<1>12. /\ last_sequences' \in [Nodes -> -1 .. CollectorSeqLimit - 1]
       /\ \A n \in Nodes : last_sequences[n] <= last_sequences'[n]
       /\ \A n \in Nodes : last_sequences[n] \in Int /\ last_sequences'[n] \in Int
  BY <1>3, SeqLimits DEF IInv, NumbersReserved, Replayed
<1>13. /\ last_sequences'[payload[t].node_id] = payload[t].sequence_number
       /\ last_sequences[payload[t].node_id] < payload[t].sequence_number
  BY <1>3, SeqLimits DEF IInv, NumbersReserved, Replayed
<1>14. \A u \in Threads : pc[u] \in Reserved => payload[u].node_id \in Nodes /\ payload[u].sequence_number \in Int
  BY DEF IInv, ThreadsTyped, PeerAdmitted, Admitted, Reserved, Bound, Snapped, Snaps,
       validate_payload
<1>15. \A u \in Threads : u # t => pc'[u] = pc[u] /\ (Pending(u)' <=> Pending(u))
  BY DEF IInv, ThreadsTyped, Pending, logState
<1>16. NumbersReserved'
  <2>1. (\A p \in 1 .. Len(log) : log[p].life = restarts =>
             log[p].sequence_number <= last_sequences[log[p].node_id])'
    BY <1>12, LogFacts DEF IInv, LogTyped, NumbersReserved, logState, lifeVars
  <2>2. (\A u \in Threads : pc[u] \in Reserved =>
             payload[u].sequence_number <= last_sequences[payload[u].node_id])'
    BY <1>3, <1>12, <1>13, <1>14, <1>15 DEF IInv, NumbersReserved, Reserved
  <2>3. \A p \in 1 .. Len(log) : log[p].life = restarts /\ log[p].node_id = payload[t].node_id =>
             log[p].sequence_number # payload[t].sequence_number
    BY <1>3, <1>12, <1>13, LogFacts DEF IInv, LogTyped, NumbersReserved
  <2>4. \A u \in Threads : Pending(u) /\ payload[u].node_id = payload[t].node_id =>
             payload[u].sequence_number # payload[t].sequence_number
    BY <1>3, <1>12, <1>13, <1>14 DEF IInv, NumbersReserved, Pending, Reserved
  <2> QED
    BY <1>12, <1>15, <2>1, <2>2, <2>3, <2>4 DEF IInv, NumbersReserved, logState, lifeVars
<1> QED
  BY <1>1, <1>2, <1>4, <1>5, <1>6, <1>7, <1>8, <1>9, <1>10, <1>11, <1>16 DEF IInv

\* The adapter hands the event to log_event (server.py:279-289, forensics.py).
LEMMA HandOffInv ==
    ASSUME IInv, NEW t \in Threads, HandOff(t)
    PROVE  IInv'
<1>1. SecInv' /\ Sticks
  BY SecStutterInv DEF IInv, Sticks, HandOff
<1>2. /\ pc[t] = "reserved" /\ call[t].status = "idle"
      /\ UNCHANGED <<log, acked, queue, conn, snap, payload, last_sequences, decision,
                    conns, lifeVars>>
      /\ pc' = [pc EXCEPT ![t] = "logging"]
  BY CallFacts DEF IInv, HandOff, LogCall, LogTyped
<1>3. /\ payload[t].node_id \in Nodes /\ conn[t] \in ConnItems
      /\ payload[t].sequence_number \in 0 .. CollectorSeqLimit - 1
  BY <1>2, SeqLimits DEF IInv, ThreadsTyped, PeerAdmitted, Admitted, Bound, Serving,
       Snapped, Snaps, validate_payload
<1>4. payload[t].sequence_number < ForensicSeqLimit
  BY <1>3, SeqLimits DEF IInv, HandOff, validate_event, IngestionEvent, ValidEventValues,
       V2_INGESTION_EVENT_FIELDS
<1>5. HandedOff(t) \in LogEvents /\ HandedOff(t).sequence_number = payload[t].sequence_number
  BY <1>3, ItemFacts, SeqLimits DEF IInv, HandedOff, LifeTyped, LogEvents
<1>6. /\ call' = [call EXCEPT ![t] = [status |-> "open", event |-> HandedOff(t)]]
      /\ pc'[t] = "logging" /\ call'[t].status = "open" /\ call'[t].event = HandedOff(t)
      /\ \A u \in Threads : u # t => pc'[u] = pc[u] /\ call'[u] = call[u]
  BY <1>2 DEF IInv, HandOff, LogCall, HandedOff, LogTyped, ThreadsTyped
<1>7. ThreadsTyped'
  BY <1>2 DEF IInv, ThreadsTyped, Serving, Snapped
<1>8. LifeTyped'
  BY <1>2 DEF IInv, LifeTyped, lifeVars
<1>9. PeerAdmitted'
  BY <1>2, <1>6 DEF IInv, PeerAdmitted, HandshakeVerifies, Admitted, Bound
<1>10. RevocationKnown'
  BY <1>1, <1>2, <1>6 DEF IInv, RevocationKnown, Sticks, Serving, Snapped
<1>11. ConnectionInOnePlace'
  BY <1>2, <1>6 DEF IInv, ConnectionInOnePlace, Serving
<1>12. LogTyped'
  <2>1. call' \in [Threads -> Calls] /\ call'[t] # NoCall
    BY <1>5, <1>6, CallFacts DEF IInv, LogTyped
  <2> QED
    BY <1>2, <1>4, <1>5, <1>6, <2>1 DEF IInv, LogTyped, HandedOff, lifeVars
<1>13. OneRecordEach'
  BY <1>2, <1>6 DEF IInv, OneRecordEach, Serving
<1>14. NumbersReserved'
  BY <1>2, <1>6 DEF IInv, NumbersReserved, Pending, Reserved, lifeVars
<1>15. AcceptHasRecord' /\ NoReplayInLife' /\ ChainedInRange' /\ RevokedNeverLogged'
  BY <1>2 DEF IInv, AcceptHasRecord, NoReplayInLife, ChainedInRange, RevokedNeverLogged
<1>16. UndecidedIsSomewhere'
  BY <1>2, <1>6 DEF IInv, UndecidedIsSomewhere, Serving, lifeVars
<1> QED
  BY <1>1, <1>7, <1>8, <1>9, <1>10, <1>11, <1>12, <1>13, <1>14, <1>15, <1>16 DEF IInv

\* log_event appends the record of its call.
LEMMA LogProgressInv ==
    ASSUME IInv, NEW t \in Threads, LogProgress(t)
    PROVE  IInv'
<1>1. SecInv' /\ Sticks
  BY SecStutterInv DEF IInv, Sticks, LogProgress
<1>2. /\ pc[t] = "logging" /\ call[t].status = "open"
      /\ UNCHANGED <<acked, handlerVars, lifeVars>>
      /\ log' = Append(log, call[t].event)
      /\ call' = [call EXCEPT ![t] = [status |-> "appended", pos |-> Len(log')]]
  BY DEF IInv, LogProgress, LogAppend
<1>3. /\ call[t].event \in LogEvents /\ call[t].event = HandedOff(t)
      /\ call[t].event.sequence_number < ForensicSeqLimit
  <2>1. call[t] \in Calls
    BY DEF IInv, LogTyped
  <2>2. call[t].event \in LogEvents
    BY <1>2, <2>1 DEF Calls, NoCall
  <2> QED
    BY <1>2, <2>2 DEF IInv, LogTyped
<1>4. /\ call[t].event.node_id = payload[t].node_id
      /\ call[t].event.sequence_number = payload[t].sequence_number
      /\ call[t].event.conn = conn[t].id /\ call[t].event.life = restarts
  BY <1>3 DEF IInv, HandedOff
<1>5. /\ log' \in Seq(LogEvents) /\ Len(log) \in Nat /\ Len(log') = Len(log) + 1
      /\ \A p \in 1 .. Len(log) : p \in 1 .. Len(log') /\ log'[p] = log[p] /\ p # Len(log')
      /\ \A p \in 1 .. Len(log') : p \in 1 .. Len(log) \/ p = Len(log')
      /\ Len(log') \in 1 .. Len(log') /\ log'[Len(log')] = call[t].event
  BY <1>2, <1>3, AppendFacts DEF IInv, LogTyped
<1>6. /\ call'[t].status = "appended" /\ call'[t].pos = Len(log') /\ call'[t] # NoCall
      /\ call'[t] \in Calls /\ call' \in [Threads -> Calls]
      /\ \A u \in Threads : u # t => call'[u] = call[u]
  BY <1>2, <1>5, CallFacts DEF IInv, LogTyped
<1>7. ThreadsTyped' /\ LifeTyped' /\ PeerAdmitted'
  BY <1>2 DEF IInv, ThreadsTyped, LifeTyped, PeerAdmitted, HandshakeVerifies, handlerVars,
       lifeVars
<1>8. RevocationKnown' /\ ConnectionInOnePlace'
  BY <1>1, <1>2 DEF IInv, RevocationKnown, ConnectionInOnePlace, Sticks, handlerVars
<1>9. LogTyped'
  <2>1. \A p \in 1 .. Len(log') : log'[p].conn <= conns /\ log'[p].life <= restarts
    BY <1>2, <1>4, <1>5 DEF IInv, LogTyped, LifeTyped, ConnectionInOnePlace, Serving
  <2>2. acked' \subseteq 1 .. Len(log')
    BY <1>2, <1>5 DEF IInv, LogTyped
  <2>3. (\A u \in Threads : call[u].status = "appended" =>
             call[u].pos \in 1 .. Len(log) /\ log[call[u].pos].conn = conn[u].id)'
    BY <1>2, <1>4, <1>5, <1>6 DEF IInv, LogTyped, handlerVars
  <2>4. (\A u \in Threads : call[u].status = "open" =>
             call[u].event = HandedOff(u) /\ call[u].event.sequence_number < ForensicSeqLimit)'
    BY <1>2, <1>6 DEF IInv, LogTyped, HandedOff, handlerVars, lifeVars
  <2> QED
    BY <1>2, <1>5, <1>6, <2>1, <2>2, <2>3, <2>4 DEF IInv, LogTyped, handlerVars, lifeVars
<1>10. OneRecordEach'
  <2>1. \A p \in 1 .. Len(log) : log[p].conn # conn[t].id
    BY <1>2 DEF IInv, OneRecordEach, Serving
  <2> QED
    BY <1>2, <1>4, <1>5, <1>6, <2>1, SMTT(30)
    DEF IInv, OneRecordEach, ConnectionInOnePlace, Serving, handlerVars
<1>11. AcceptHasRecord'
  BY <1>2, <1>5 DEF IInv, AcceptHasRecord, LogTyped, handlerVars
<1>12. Pending(t) /\ ~ Pending(t)' /\ \A u \in Threads : u # t => (Pending(u)' <=> Pending(u))
  BY <1>2, <1>6 DEF IInv, Pending, handlerVars
<1>13. NumbersReserved'
  BY <1>2, <1>4, <1>5, <1>12, SMTT(30) DEF IInv, NumbersReserved, Reserved, handlerVars, lifeVars
<1>14. NoReplayInLife'
  BY <1>2, <1>4, <1>5, <1>12, SMTT(30) DEF IInv, NoReplayInLife, NumbersReserved
<1>15. ChainedInRange'
  BY <1>3, <1>5 DEF IInv, ChainedInRange
<1>16. call[t].event.certRevoked = conn[t].certRevoked
  BY <1>3 DEF IInv, HandedOff
<1>17. RevokedNeverLogged'
  BY <1>2, <1>5, <1>16, ItemFacts DEF IInv, RevokedNeverLogged, RevocationKnown,
       PeerAdmitted, HandshakeVerifies, Admitted, Serving, Snapped, ThreadsTyped
<1>18. UndecidedIsSomewhere'
  BY <1>2 DEF IInv, UndecidedIsSomewhere, handlerVars, lifeVars
<1> QED
  BY <1>1, <1>7, <1>8, <1>9, <1>10, <1>11, <1>13, <1>14, <1>15, <1>17, <1>18 DEF IInv

\* A handler that logs its decision gives back its thread and its connection.
LEMMA DecideParts ==
    ASSUME IInv, NEW t \in Threads, NEW o \in Rejections \cup {"accepted"},
           pc[t] \in Snapped, Decide(t, o), UNCHANGED secVars
    PROVE  /\ SecInv' /\ ThreadsTyped' /\ LifeTyped' /\ PeerAdmitted' /\ RevocationKnown'
           /\ ConnectionInOnePlace' /\ UndecidedIsSomewhere'
           /\ pc'[t] = "free" /\ conn[t].id \in Conns
           /\ \A u \in Threads : u # t => /\ pc'[u] = pc[u] /\ conn'[u] = conn[u]
                                          /\ snap'[u] = snap[u] /\ payload'[u] = payload[u]
           /\ UNCHANGED <<queue, conns, lifeVars>>
           /\ decision' = [decision EXCEPT ![conn[t].id] = o]
<1>1. conn[t] \in ConnItems /\ conn[t].id \in Conns
  BY ItemFacts DEF IInv, ThreadsTyped, Serving, Snapped
<1>2. /\ pc'[t] = "free" /\ conn'[t] = NoData
      /\ \A u \in Threads : u # t => /\ pc'[u] = pc[u] /\ conn'[u] = conn[u]
                                     /\ snap'[u] = snap[u] /\ payload'[u] = payload[u]
  BY DEF IInv, ThreadsTyped, Decide
<1>3. /\ UNCHANGED <<queue, conns, lifeVars>>
      /\ decision' = [decision EXCEPT ![conn[t].id] = o]
  BY DEF Decide
<1>4. /\ decision'[conn[t].id] = o /\ o # "none"
      /\ \A c \in Conns : c # conn[t].id => decision'[c] = decision[c]
      /\ decision' \in [Conns -> Rejections \cup {"none", "accepted"}]
  BY <1>1, <1>3 DEF IInv, ConnectionInOnePlace, Rejections
<1>5. SecInv' /\ Sticks
  BY SecStutterInv DEF IInv
<1>6. ThreadsTyped'
  BY ItemFacts DEF IInv, ThreadsTyped, Serving, Snapped, Decide
<1>7. LifeTyped'
  BY <1>3 DEF IInv, LifeTyped, lifeVars
<1>8. PeerAdmitted'
  BY <1>2 DEF IInv, PeerAdmitted, HandshakeVerifies, Admitted, Bound
<1>9. RevocationKnown'
  BY <1>2, <1>3, <1>5 DEF IInv, RevocationKnown, Sticks, Serving
<1>10. /\ \A i \in 1 .. Len(queue) : queue[i] \in ConnItems =>
            queue[i].id # conn[t].id /\ queue[i].id \in Conns
       /\ \A u \in Threads : u # t /\ pc[u] \in Serving =>
            conn[u].id # conn[t].id /\ conn[u].id \in Conns
       /\ conn[t].id <= conns
  BY ItemFacts DEF IInv, ConnectionInOnePlace, ThreadsTyped, Serving, Snapped
<1>11. ConnectionInOnePlace'
  BY <1>1, <1>2, <1>3, <1>4, <1>10, CollectorAssumption, SMTT(30) DEF IInv, ConnectionInOnePlace,
       LifeTyped, Conns, Serving
<1>12. UndecidedIsSomewhere'
  BY <1>1, <1>2, <1>3, <1>4, CollectorAssumption DEF IInv, UndecidedIsSomewhere, LifeTyped,
       Conns, Serving, Snapped, lifeVars
<1> QED
  BY <1>1, <1>2, <1>3, <1>4, <1>5, <1>6, <1>7, <1>8, <1>9, <1>10, <1>11, <1>12

\* A rejection leaves the log as it is (server.py:312-330): a hand-off that failed after
\* the append leaves its record behind.
LEMMA RejectsInv ==
    ASSUME IInv, NEW t \in Threads, Rejects(t)
    PROVE  IInv'
<1>1. PICK reason \in Rejections : Decide(t, reason)
  BY DEF IInv, Rejects
<1>2. /\ SecInv' /\ ThreadsTyped' /\ LifeTyped' /\ PeerAdmitted' /\ RevocationKnown'
      /\ ConnectionInOnePlace' /\ UndecidedIsSomewhere'
      /\ pc'[t] = "free" /\ conn[t].id \in Conns
      /\ \A u \in Threads : u # t => /\ pc'[u] = pc[u] /\ conn'[u] = conn[u]
                                     /\ payload'[u] = payload[u]
      /\ UNCHANGED <<queue, conns, lifeVars>>
      /\ decision' = [decision EXCEPT ![conn[t].id] = reason]
  BY <1>1, DecideParts DEF IInv, Rejects
<1>3. /\ call'[t] = NoCall /\ call' \in [Threads -> Calls] /\ UNCHANGED <<log, acked, last_sequences>>
      /\ \A u \in Threads : u # t => call'[u] = call[u]
  BY CallFacts DEF IInv, LogTyped, Rejects, LogFail, logState
<1>4. LogTyped'
  BY <1>2, <1>3, CallFacts, SMTT(30) DEF IInv, LogTyped, HandedOff, lifeVars
<1>5. OneRecordEach'
  BY <1>2, <1>3, SMTT(30) DEF IInv, OneRecordEach, Serving
<1>6. AcceptHasRecord'
  BY <1>2, <1>3 DEF IInv, AcceptHasRecord, ConnectionInOnePlace, Rejections
<1>7. NumbersReserved'
  BY <1>2, <1>3 DEF IInv, NumbersReserved, Pending, Reserved, lifeVars
<1>8. NoReplayInLife' /\ ChainedInRange' /\ RevokedNeverLogged'
  BY <1>3 DEF IInv, NoReplayInLife, ChainedInRange, RevokedNeverLogged
<1> QED
  BY <1>2, <1>4, <1>5, <1>6, <1>7, <1>8 DEF IInv

\* The accept decision is logged after log_event has returned (server.py:289-310).
LEMMA HandOffReturnsInv ==
    ASSUME IInv, NEW t \in Threads, HandOffReturns(t)
    PROVE  IInv'
<1>1. pc[t] = "logging" /\ call[t].status = "appended"
  BY DEF IInv, HandOffReturns, LogReturn
<1>2. /\ SecInv' /\ ThreadsTyped' /\ LifeTyped' /\ PeerAdmitted' /\ RevocationKnown'
      /\ ConnectionInOnePlace' /\ UndecidedIsSomewhere'
      /\ pc'[t] = "free" /\ conn[t].id \in Conns
      /\ \A u \in Threads : u # t => /\ pc'[u] = pc[u] /\ conn'[u] = conn[u]
                                     /\ payload'[u] = payload[u]
      /\ UNCHANGED <<queue, conns, lifeVars>>
      /\ decision' = [decision EXCEPT ![conn[t].id] = "accepted"]
  BY <1>1, DecideParts DEF IInv, HandOffReturns, Snapped
<1>3. /\ call'[t] = NoCall /\ call' \in [Threads -> Calls] /\ UNCHANGED <<log, last_sequences>>
      /\ \A u \in Threads : u # t => call'[u] = call[u]
  BY CallFacts DEF IInv, LogTyped, HandOffReturns, LogReturn
<1>4. acked' = acked \cup {call[t].pos}
  BY DEF IInv, HandOffReturns, LogReturn
<1>5. call[t].pos \in 1 .. Len(log) /\ log[call[t].pos].conn = conn[t].id
  BY <1>1 DEF IInv, LogTyped
<1>6. LogTyped'
  <2>1. acked' \subseteq 1 .. Len(log')
    BY <1>3, <1>4, <1>5 DEF IInv, LogTyped
  <2> QED
    BY <1>2, <1>3, <2>1, CallFacts DEF IInv, LogTyped, HandedOff, lifeVars
<1>7. OneRecordEach'
  BY <1>2, <1>3 DEF IInv, OneRecordEach, Serving
<1>8. AcceptHasRecord'
  BY <1>2, <1>3, <1>4, <1>5 DEF IInv, AcceptHasRecord, ConnectionInOnePlace
<1>9. NumbersReserved'
  BY <1>2, <1>3, SMTT(30) DEF IInv, NumbersReserved, Pending, Reserved, lifeVars
<1>10. NoReplayInLife' /\ ChainedInRange' /\ RevokedNeverLogged'
  BY <1>3 DEF IInv, NoReplayInLife, ChainedInRange, RevokedNeverLogged
<1> QED
  BY <1>2, <1>6, <1>7, <1>8, <1>9, <1>10 DEF IInv

\* The process dies, with or without its machine, and is started again.
LEMMA RestartInv ==
    ASSUME IInv, Restart
    PROVE  IInv'
<1>1. SecInv' /\ Sticks
  BY LoadAtStartInv DEF IInv, Sticks, Restart
<1>2. PICK n \in 0 .. Len(log) : (\A p \in acked : p <= n) /\ log' = SubSeq(log, 1, n)
  BY DEF IInv, Restart, LogLose
<1>3. /\ log' \in Seq(LogEvents) /\ n \in Nat /\ Len(log') = n
      /\ \A p \in 1 .. Len(log') : p \in 1 .. Len(log) /\ log'[p] = log[p]
  BY <1>2, CutFacts DEF IInv, LogTyped
<1>4. /\ UNCHANGED <<acked, decision, conns, acceptErrors, stops>> /\ restarts' = restarts + 1
      /\ restarts < MaxRestarts /\ phase' = "running" /\ accepting' = TRUE
      /\ queue' = << >> /\ last_sequences' = [m \in Nodes |-> -1]
      /\ \A t \in Threads : pc'[t] = "free" /\ call'[t] = NoCall
  BY DEF IInv, Restart, LogLose
<1>5. restarts \in Nat /\ restarts' \in Nat /\ restarts' # 0
  BY <1>4, CollectorAssumption DEF IInv, LifeTyped
<1>6. ThreadsTyped'
  BY <1>4, ItemFacts DEF IInv, ThreadsTyped, Restart, Serving, Snapped
<1>7. LifeTyped'
  BY <1>4, CollectorAssumption DEF IInv, LifeTyped
<1>8. PeerAdmitted'
  BY <1>4 DEF IInv, PeerAdmitted, Admitted, Bound
<1>9. RevocationKnown'
  BY <1>4 DEF IInv, RevocationKnown, Serving
<1>10. ConnectionInOnePlace'
  BY <1>4 DEF IInv, ConnectionInOnePlace, Serving
<1>11. LogTyped'
  <2>1. acked' \subseteq 1 .. Len(log')
    BY <1>2, <1>3, <1>4 DEF IInv, LogTyped
  <2>2. \A p \in 1 .. Len(log) : /\ log[p].conn <= conns /\ log[p].life <= restarts
                                /\ log[p].life \in Nat
    BY LogFacts DEF IInv, LogTyped
  <2>3. \A p \in 1 .. Len(log') : log'[p].conn <= conns' /\ log'[p].life <= restarts'
    BY <1>3, <1>4, <1>5, <2>2, SMTT(30) DEF IInv
  <2>4. call' \in [Threads -> Calls]
    BY CallFacts DEF Restart, LogLose
  <2> QED
    BY <1>3, <1>4, <2>1, <2>3, <2>4, CallFacts DEF LogTyped
<1>12. OneRecordEach'
  BY <1>3, <1>4 DEF IInv, OneRecordEach, Serving
<1>13. AcceptHasRecord'
  BY <1>2, <1>3, <1>4 DEF IInv, AcceptHasRecord, LogTyped
<1>14. \A p \in 1 .. Len(log') : log'[p].life # restarts'
  BY <1>3, <1>4, <1>5, LogFacts DEF IInv, LogTyped
<1>15. NumbersReserved'
  BY <1>4, <1>14, SeqLimits DEF IInv, NumbersReserved, Pending, Reserved
<1>16. NoReplayInLife' /\ ChainedInRange' /\ RevokedNeverLogged'
  BY <1>3 DEF IInv, NoReplayInLife, ChainedInRange, RevokedNeverLogged
<1>17. UndecidedIsSomewhere'
  BY <1>4, <1>5 DEF IInv, UndecidedIsSomewhere
<1> QED
  BY <1>1, <1>6, <1>7, <1>8, <1>9, <1>10, <1>11, <1>12, <1>13, <1>15, <1>16, <1>17 DEF IInv

\* The empty collector satisfies every part of the invariant.
LEMMA InitIInv == Init => IInv
<1> SUFFICES ASSUME Init PROVE IInv
  OBVIOUS
<1> USE DEF Init, LogInit
<1>1. SecInv
  BY SecInitInv
<1>2. ThreadsTyped /\ PeerAdmitted /\ RevocationKnown
  BY ItemFacts DEF ThreadsTyped, PeerAdmitted, RevocationKnown, Serving, Snapped, Admitted,
       Bound
<1>3. LifeTyped /\ ConnectionInOnePlace /\ UndecidedIsSomewhere
  BY CollectorAssumption DEF LifeTyped, ConnectionInOnePlace, UndecidedIsSomewhere, Serving
<1>4. LogTyped /\ OneRecordEach /\ AcceptHasRecord
  BY CallFacts DEF LogTyped, OneRecordEach, AcceptHasRecord
<1>5. NumbersReserved /\ NoReplayInLife /\ ChainedInRange /\ RevokedNeverLogged
  BY SeqLimits DEF NumbersReserved, NoReplayInLife, ChainedInRange, RevokedNeverLogged,
       Pending, Reserved
<1> QED BY <1>1, <1>2, <1>3, <1>4, <1>5 DEF IInv

\* Every step of the collector keeps the invariant and the revocations in force.
LEMMA NextIInv ==
    ASSUME IInv, [Next]_vars
    PROVE  IInv' /\ Sticks
<1> USE DEF IInv
<1>1. CASE UNCHANGED vars
  <2>1. SecInv' /\ Sticks
    BY <1>1, SecStutterInv DEF vars
  <2>2. LifeTyped'
    BY <1>1 DEF LifeTyped, vars, handlerVars, lifeVars
  <2> QED BY <1>1, <2>1, <2>2, QuietInv DEF vars, lifeVars
<1>2. ASSUME NEW r \in ReloadTasks, Install(r)
      PROVE  IInv' /\ Sticks
  <2>1. SecInv' /\ Sticks
    BY <1>2, InstallInv DEF Install
  <2>2. LifeTyped'
    BY <1>2 DEF LifeTyped, Install, handlerVars, lifeVars
  <2> QED BY <1>2, <2>1, <2>2, QuietInv DEF Install, lifeVars
<1>3. CASE SighupDropped
  <2>1. SecInv' /\ Sticks
    BY <1>3, DropReloadInv DEF SighupDropped
  <2>2. LifeTyped'
    BY <1>3 DEF LifeTyped, SighupDropped, handlerVars, lifeVars
  <2> QED BY <1>3, <2>1, <2>2, QuietInv DEF SighupDropped, lifeVars
<1>4. CASE OperatorEdits
  <2>1. SecInv' /\ Sticks
    BY <1>4, OperatorInv DEF OperatorEdits
  <2>2. LifeTyped'
    BY <1>4 DEF LifeTyped, OperatorEdits, handlerVars, lifeVars
  <2> QED BY <1>4, <2>1, <2>2, QuietInv DEF OperatorEdits, lifeVars
<1>5. CASE AcceptFails \/ Stop \/ CloseListener \/ Stopped
  <2> USE DEF AcceptFails, Stop, CloseListener, Stopped
  <2>1. SecInv' /\ Sticks
    BY <1>5, SecStutterInv
  <2>2. LifeTyped'
    <3>1. conns' = conns /\ acceptErrors' \in 0 .. MaxAcceptErrors /\ stops' \in 0 .. MaxStops
      BY <1>5, CollectorAssumption DEF LifeTyped, handlerVars
    <3>2. /\ restarts' = restarts /\ phase' \in {"running", "stopping", "closing", "stopped"}
          /\ accepting' \in BOOLEAN /\ (accepting' => phase' \in {"running", "stopping"})
      <4>1. CASE AcceptFails
        BY <4>1 DEF LifeTyped
      <4>2. CASE Stop
        BY <4>2 DEF LifeTyped
      <4>3. CASE CloseListener
        BY <4>3 DEF LifeTyped
      <4>4. CASE Stopped
        BY <4>4 DEF LifeTyped
      <4> QED BY <1>5, <4>1, <4>2, <4>3, <4>4
    <3> QED BY <3>1, <3>2 DEF LifeTyped
  <2>3. /\ UNCHANGED <<logState, handlerVars, restarts>>
        /\ phase' = "stopped" => phase = "stopped" \/ ConnectionTasksDone
    BY <1>5
  <2> QED BY <2>1, <2>2, <2>3, QuietInv
<1>6. CASE Restart
  BY <1>6, RestartInv, LoadAtStartInv DEF Restart
<1>7. ASSUME NEW c \in Certs, AcceptSocket(c)
      PROVE  IInv' /\ Sticks
  BY <1>7, AcceptSocketInv, SecStutterInv DEF AcceptSocket
<1>8. ASSUME NEW r \in ReloadTasks, Sighup(r)
      PROVE  IInv' /\ Sticks
  BY <1>8, SighupInv, RequestReloadInv DEF Sighup
<1>9. ASSUME NEW t \in Threads, PoolStep(t)
      PROVE  IInv' /\ Sticks
  <2>1. IInv'
    BY <1>9, TakeConnectionInv, TakeReloadInv, LoadOnThreadInv DEF PoolStep
  <2>2. CASE TakeConnection(t)
    BY <2>1, <2>2, SecStutterInv DEF TakeConnection
  <2>3. CASE TakeReload(t)
    BY <2>1, <2>3, BeginLoadInv, QueueShrinks, ItemFacts DEF TakeReload
  <2>4. CASE LoadOnThread(t)
    BY <2>1, <2>4, ReloadStepInv, ItemFacts DEF LoadOnThread, ThreadsTyped
  <2> QED BY <1>9, <2>2, <2>3, <2>4 DEF PoolStep
<1>10. ASSUME NEW t \in Threads, HandlerStep(t)
       PROVE  IInv' /\ Sticks
  <2>1. IInv'
    BY <1>10, HandlerBranches, SnapshotInv, AdmitsInv, BindsInv, ReservesInv, HandOffInv,
       LogProgressInv, HandOffReturnsInv, RejectsInv
  <2>2. UNCHANGED secVars
    BY <1>10, HandlerBranches DEF SnapshotSecurityState, Admits, Binds, Reserves, HandOff,
       LogProgress, HandOffReturns, Rejects
  <2> QED BY <2>1, <2>2, SecStutterInv
<1> QED BY <1>1, <1>2, <1>3, <1>4, <1>5, <1>6, <1>7, <1>8, <1>9, <1>10 DEF Next

\* The invariant holds in every reachable state.
LEMMA AlwaysIInv == Spec => []IInv
<1>1. IInv /\ [Next]_vars => IInv'
  BY NextIInv
<1> QED BY <1>1, InitIInv, PTL DEF Spec

-----------------------------------------------------------------------------
(* What a handler copied belongs together *)

\* The allow-list and the revocations in a handler's snapshot may be used together.
SnapshotTogether == \A t \in Threads : pc[t] \in Snapped =>
                        Together(snap[t].enrolled, snap[t].revoked)

\* A step leaves a handler's snapshot alone, or takes it from memory.
SnapshotStep ==
    \A t \in Threads : pc'[t] \in Snapped =>
        \/ pc[t] \in Snapped /\ snap'[t] = snap[t]
        \/ snap'[t].enrolled = enrolled_nodes /\ snap'[t].revoked = tls_revoked

\* Only SnapshotSecurityState copies (server.py:183-185); every exit of a handler
\* drops the copy.
LEMMA SnapshotSteps ==
    ASSUME IInv, [Next]_vars
    PROVE  SnapshotStep
<1> USE DEF IInv, SnapshotStep
<1>1. CASE UNCHANGED handlerVars
  BY <1>1 DEF handlerVars
<1>2. CASE Restart
  BY <1>2 DEF Restart, Snapped
<1>3. ASSUME NEW c \in Certs, AcceptSocket(c)
      PROVE  SnapshotStep
  BY <1>3 DEF AcceptSocket
<1>4. ASSUME NEW r \in ReloadTasks, Sighup(r)
      PROVE  SnapshotStep
  BY <1>4 DEF Sighup
<1>5. ASSUME NEW t \in Threads, PoolStep(t)
      PROVE  SnapshotStep
  BY <1>5 DEF PoolStep, TakeConnection, TakeReload, LoadOnThread, ThreadsTyped, Snapped
<1>6. ASSUME NEW t \in Threads, HandlerStep(t)
      PROVE  SnapshotStep
  <2>1. CASE SnapshotSecurityState(t)
    BY <2>1 DEF SnapshotSecurityState, ThreadsTyped, Snapped
  <2>2. CASE Rejects(t) \/ HandOffReturns(t)
    BY <2>2 DEF Rejects, HandOffReturns, Decide, ThreadsTyped, Snapped
  <2>3. CASE Admits(t) \/ (\E p \in Payloads : Binds(t, p)) \/ Reserves(t) \/ HandOff(t)
    BY <2>3 DEF Admits, Binds, Reserves, HandOff, ThreadsTyped, Snapped
  <2>4. CASE LogProgress(t)
    BY <2>4 DEF LogProgress, handlerVars
  <2> QED BY <1>6, <2>1, <2>2, <2>3, <2>4, HandlerBranches
<1>7. AcceptFails \/ Stop \/ CloseListener \/ Stopped \/ SighupDropped \/ OperatorEdits
        \/ (\E r \in ReloadTasks : Install(r)) \/ UNCHANGED vars => UNCHANGED handlerVars
  BY DEF AcceptFails, Stop, CloseListener, Stopped, SighupDropped, OperatorEdits, Install, vars
<1> QED BY <1>1, <1>2, <1>3, <1>4, <1>5, <1>6, <1>7 DEF Next

\* What belongs together in memory belongs together in every copy of it, for ever.
LEMMA AlwaysTogether == Spec => []SnapshotTogether
<1>1. Init => SnapshotTogether
  BY DEF Init, SnapshotTogether, Snapped
<1>2. ASSUME IInv, SnapshotTogether, [Next]_vars
      PROVE  SnapshotTogether'
  <2>1. SnapshotStep /\ published \subseteq published'
    BY <1>2, SnapshotSteps, NextIInv DEF Sticks
  <2>2. Together(enrolled_nodes, tls_revoked)
    BY <1>2 DEF IInv, SecInv, InstalledPairConsistent, Together
  <2> QED BY <1>2, <2>1, <2>2 DEF SnapshotTogether, SnapshotStep, Together
<1> QED BY <1>1, <1>2, AlwaysIInv, PTL DEF Spec

-----------------------------------------------------------------------------
(* Theorems *)

\* Every variable of the collector has its type.
THEOREM TypeCorrect == Spec => []TypeOK
<1>1. IInv => TypeOK
  BY DEF IInv, SecInv, ThreadsTyped, LifeTyped, ConnectionInOnePlace, LogTyped,
         NumbersReserved, Serving, TypeOK
<1> QED BY <1>1, AlwaysIInv, PTL

\* An event reaches the chain only for a peer whose node the operator's files
\* enrolled at a moment when they did not revoke its certificate, however old the
\* handler's snapshot is (server.py:93-116, 183-269).
THEOREM HandOffsAreAuthenticated == Spec => []HandOffIsAuthenticated
<1>1. IInv /\ SnapshotTogether => HandOffIsAuthenticated
  <2> SUFFICES ASSUME IInv, SnapshotTogether, NEW t \in Threads, pc[t] \in Reserved
               PROVE  /\ conn[t].cert.trusted
                      /\ conn[t].cert.names = <<payload[t].node_id>>
                      /\ \E f \in published : /\ payload[t].node_id \in f.nodes
                                              /\ conn[t].cert \notin f.revoked
    BY DEF HandOffIsAuthenticated, Reserved
  <2>1. /\ HandshakeVerifies(t) /\ Len(conn[t].cert.names) = 1
        /\ conn[t].cert.names[1] \in snap[t].enrolled
        /\ payload[t].node_id = conn[t].cert.names[1]
    BY DEF IInv, PeerAdmitted, Reserved, Bound, Admitted
  <2>2. conn[t].cert.names \in Seq(Nodes)
    BY ItemFacts, CollectorAssumption DEF IInv, ThreadsTyped, Reserved, Serving
  <2>3. conn[t].cert.names = <<conn[t].cert.names[1]>>
    BY <2>1, <2>2
  <2>4. PICK f \in published : f.nodes = snap[t].enrolled /\ f.revoked \subseteq snap[t].revoked
    BY DEF SnapshotTogether, Together, Snapped, Reserved
  <2> QED BY <2>1, <2>3, <2>4 DEF HandshakeVerifies
<1> QED BY <1>1, AlwaysIInv, AlwaysTogether, PTL

\* A connection accepted when its certificate was already revoked in memory never
\* gets a record into the chain.
THEOREM RevokedIsNeverChained == Spec => []RevokedNeverLogged
<1>1. IInv => RevokedNeverLogged
  BY DEF IInv
<1> QED BY <1>1, AlwaysIInv, PTL

\* No (node, sequence number) is chained twice in one life of the process, for any
\* number of racing handlers and failed hand-offs (server.py:271-277).
THEOREM NoNumberTwice == Spec => []NoReplayInLife
<1>1. IInv => NoReplayInLife
  BY DEF IInv
<1> QED BY <1>1, AlwaysIInv, PTL

\* An accept decision has exactly one record, and that one is acknowledged, in
\* every later state, power losses included (server.py:289-310).
THEOREM AcceptMeansRecord == Spec => []AcceptedIsDurable
<1>1. IInv => AcceptedIsDurable
  BY DEF IInv, AcceptHasRecord, OneRecordEach, AcceptedIsDurable
<1> QED BY <1>1, AlwaysIInv, PTL

\* What is chained is in the chain's own range (_format.py:174-182), although the
\* collector reserves larger numbers (models.py:34).
THEOREM ChainRangeKept == Spec => []ChainedInRange
<1>1. IInv => ChainedInRange
  BY DEF IInv
<1> QED BY <1>1, AlwaysIInv, PTL

\* When close() has returned, every accepted connection has its decision
\* (server.py:142-159).
THEOREM CloseDrains == Spec => []StoppedIsDrained
<1>1. IInv => StoppedIsDrained
  BY DEF IInv, UndecidedIsSomewhere, LogTyped, Serving, StoppedIsDrained
<1> QED BY <1>1, AlwaysIInv, PTL

\* The guarantees of the security state hold in the whole collector, where the
\* load shares its threads with the connections.
THEOREM CollectorSecurityState == Spec => RevocationSticks /\ []InstalledPairConsistent
<1>1. IInv => InstalledPairConsistent
  BY DEF IInv, SecInv
<1>2. IInv /\ [Next]_vars => [Sticks]_secVars
  BY NextIInv
<1>3. Sticks => tls_revoked \subseteq tls_revoked'
  BY DEF Sticks
<1> QED BY <1>1, <1>2, <1>3, AlwaysIInv, PTL DEF Spec, RevocationSticks

-----------------------------------------------------------------------------
(* How far a record can be overtaken *)

\* The records behind p that should have come before it, and the handlers that
\* still may append one.
Overtakers(p) == {q \in p + 1 .. Len(log) :
                     /\ log[q].node_id = log[p].node_id /\ log[q].life = log[p].life
                     /\ log[q].sequence_number < log[p].sequence_number}

Late(p) == {t \in Threads : /\ log[p].life = restarts /\ Pending(t)
                            /\ payload[t].node_id = log[p].node_id
                            /\ payload[t].sequence_number < log[p].sequence_number}

\* A handler that is late for p had reserved its number before p's handler did,
\* so no new one comes up: each is on a thread of its own, and never on p's.
OvertakingInv ==
    \A p \in 1 .. Len(log) :
        Cardinality(Overtakers(p)) + Cardinality(Late(p)) < Cardinality(Threads)

\* A set of log positions is finite.
LEMMA PositionsFinite ==
    ASSUME NEW a \in Int, NEW b \in Int, NEW S \in SUBSET (a .. b)
    PROVE  IsFiniteSet(S) /\ Cardinality(S) \in Nat
  BY FS_Interval, FS_Subset, FS_CardinalityType

\* A set of pool threads is finite and no larger than the pool.
LEMMA ThreadsFinite ==
    ASSUME NEW S \in SUBSET Threads
    PROVE  /\ IsFiniteSet(S) /\ Cardinality(S) \in Nat
           /\ Cardinality(Threads) \in Nat /\ Cardinality(S) <= Cardinality(Threads)
  BY CollectorAssumption, FS_Subset, FS_CardinalityType

\* A smaller set of threads has a smaller count.
LEMMA FewerThreads ==
    ASSUME NEW S \in SUBSET Threads, NEW R \in SUBSET S
    PROVE  Cardinality(R) <= Cardinality(S)
  BY ThreadsFinite, FS_Subset

\* The two counts of the bound are numbers.
LEMMA OvertakersFinite ==
    ASSUME IInv, NEW p \in 1 .. Len(log)
    PROVE  /\ IsFiniteSet(Overtakers(p)) /\ Cardinality(Overtakers(p)) \in Nat
           /\ IsFiniteSet(Late(p)) /\ Cardinality(Late(p)) \in Nat
           /\ Late(p) \subseteq Threads /\ Cardinality(Threads) \in Nat
<1>1. Len(log) \in Int /\ p + 1 \in Int
  BY LogFacts DEF IInv, LogTyped
<1>2. Overtakers(p) \in SUBSET (p + 1 .. Len(log)) /\ Late(p) \in SUBSET Threads
  BY DEF Overtakers, Late
<1> QED BY <1>1, <1>2, PositionsFinite, ThreadsFinite

\* A step that neither appends nor restarts adds no late handler: the only new
\* pending one has reserved a number above every record of its node and life.
LEMMA NoNewLate ==
    ASSUME IInv, [Next]_vars, ~ Restart, \A t \in Threads : ~ LogProgress(t)
    PROVE  /\ log' = log
           /\ \A p \in 1 .. Len(log) : Late(p)' \subseteq Late(p)
<1> DEFINE Kept == /\ UNCHANGED <<log, restarts>>
                   /\ \A u \in Threads : Pending(u)' => Pending(u) /\ payload'[u] = payload[u]
<1>1. ASSUME Kept
      PROVE  /\ log' = log
             /\ \A p \in 1 .. Len(log) : Late(p)' \subseteq Late(p)
  BY <1>1 DEF Late
<1> HIDE DEF Kept
<1>2. CASE UNCHANGED <<logState, handlerVars, restarts>>
  BY <1>1, <1>2 DEF Kept, Pending, logState, handlerVars
<1>3. ASSUME NEW c \in Certs, AcceptSocket(c)
      PROVE  Kept
  BY <1>3 DEF Kept, Pending, AcceptSocket, logState, lifeVars
<1>4. ASSUME NEW r \in ReloadTasks, Sighup(r)
      PROVE  Kept
  BY <1>4 DEF Kept, Pending, Sighup, logState, lifeVars
<1>5. ASSUME NEW t \in Threads, PoolStep(t)
      PROVE  Kept
  <2>1. /\ UNCHANGED <<log, call, payload, restarts>>
        /\ \A u \in Threads : pc'[u] \in Reserved => pc'[u] = pc[u]
    BY <1>5 DEF IInv, ThreadsTyped, PoolStep, TakeConnection, TakeReload, LoadOnThread,
                Reserved, logState, lifeVars
  <2> QED BY <2>1 DEF Kept, Pending, Reserved
<1>6. ASSUME NEW t \in Threads,
             \/ SnapshotSecurityState(t) \/ Admits(t) \/ \E p \in Payloads : Binds(t, p)
      PROVE  Kept
  <2>1. /\ UNCHANGED <<log, call, restarts>>
        /\ \A u \in Threads : pc'[u] \in Reserved => pc'[u] = pc[u] /\ payload'[u] = payload[u]
    BY <1>6 DEF IInv, ThreadsTyped, SnapshotSecurityState, Admits, Binds, Reserved,
                logState, lifeVars
  <2> QED BY <2>1 DEF Kept, Pending, Reserved
<1>7. ASSUME NEW t \in Threads, HandOff(t)
      PROVE  Kept
  <2>1. /\ UNCHANGED <<log, payload, restarts>> /\ pc[t] = "reserved"
        /\ \A u \in Threads : u # t => pc'[u] = pc[u] /\ call'[u] = call[u]
    BY <1>7 DEF IInv, ThreadsTyped, LogTyped, HandOff, LogCall, lifeVars
  <2> QED BY <2>1 DEF Kept, Pending
<1>8. ASSUME NEW t \in Threads, Rejects(t) \/ HandOffReturns(t)
      PROVE  Kept
  <2>1. /\ UNCHANGED <<log, restarts>> /\ pc'[t] = "free"
        /\ \A u \in Threads : u # t => /\ pc'[u] = pc[u] /\ call'[u] = call[u]
                                       /\ payload'[u] = payload[u]
    BY <1>8 DEF IInv, ThreadsTyped, LogTyped, Rejects, HandOffReturns, LogFail, LogReturn,
                Decide, logState, lifeVars
  <2> QED BY <2>1 DEF Kept, Pending
<1>9. ASSUME NEW t \in Threads, Reserves(t)
      PROVE  /\ log' = log
             /\ \A p \in 1 .. Len(log) : Late(p)' \subseteq Late(p)
  <2>1. /\ UNCHANGED <<log, call, payload, restarts>>
        /\ \A u \in Threads : u # t => pc'[u] = pc[u]
    BY <1>9 DEF IInv, ThreadsTyped, Reserves, logState, lifeVars
  <2>2. /\ payload[t].node_id \in Nodes /\ payload[t].sequence_number \in Int
        /\ last_sequences[payload[t].node_id] < payload[t].sequence_number
    <3>1. payload[t].node_id \in Nodes /\ payload[t].sequence_number \in Int
      BY <1>9 DEF IInv, ThreadsTyped, PeerAdmitted, Admitted, Bound, Snapped, Snaps,
                  validate_payload, Reserves
    <3> QED BY <1>9, <3>1, SeqLimits DEF IInv, NumbersReserved, Replayed, Reserves
  <2>3. ASSUME NEW p \in 1 .. Len(log)
        PROVE  t \notin Late(p)'
    <3>1. log[p].life = restarts /\ log[p].node_id = payload[t].node_id =>
             log[p].sequence_number <= last_sequences[payload[t].node_id]
      BY DEF IInv, NumbersReserved
    <3>2. log[p].sequence_number \in Int /\ last_sequences[payload[t].node_id] \in Int
      BY <2>2, LogFacts, SeqLimits DEF IInv, LogTyped, NumbersReserved
    <3> QED BY <2>1, <2>2, <3>1, <3>2 DEF Late
  <2> QED BY <2>1, <2>3 DEF Late, Pending
<1> QED
  <2>1. ASSUME NEW t \in Threads, HandlerStep(t)
        PROVE  /\ log' = log
               /\ \A p \in 1 .. Len(log) : Late(p)' \subseteq Late(p)
    BY <2>1, HandlerBranches, <1>1, <1>6, <1>7, <1>8, <1>9
  <2>2. \/ UNCHANGED vars \/ SighupDropped \/ OperatorEdits \/ AcceptFails \/ Stop
        \/ CloseListener \/ Stopped \/ (\E r \in ReloadTasks : Install(r))
        => UNCHANGED <<logState, handlerVars, restarts>>
    BY DEF vars, SighupDropped, OperatorEdits, AcceptFails, Stop, CloseListener, Stopped,
           Install, lifeVars
  <2> QED BY <2>1, <2>2, <1>1, <1>2, <1>3, <1>4, <1>5 DEF Next

\* The append of one handler: it stops being late and becomes an overtaker of the
\* records it was late for, and its own record has at most the other threads behind.
LEMMA AppendOvertakes ==
    ASSUME IInv, IInv', OvertakingInv, NEW t \in Threads, LogProgress(t)
    PROVE  OvertakingInv'
<1>1. /\ pc[t] = "logging" /\ call[t].status = "open"
      /\ UNCHANGED <<handlerVars, lifeVars>>
      /\ log' = Append(log, call[t].event)
      /\ call' = [call EXCEPT ![t] = [status |-> "appended", pos |-> Len(log')]]
  BY DEF LogProgress, LogAppend
<1>2. call[t] \in Calls /\ call[t].event = HandedOff(t)
  BY <1>1 DEF IInv, LogTyped
<1>3. call[t].event \in LogEvents
  BY <1>1, <1>2 DEF Calls, NoCall
<1>4. /\ call[t].event.node_id = payload[t].node_id
      /\ call[t].event.sequence_number = payload[t].sequence_number
      /\ call[t].event.life = restarts
  BY <1>2 DEF HandedOff
<1>5. /\ Len(log) \in Nat /\ Len(log') = Len(log) + 1
      /\ \A p \in 1 .. Len(log) : p \in Nat /\ log'[p] = log[p]
      /\ log'[Len(log) + 1] = call[t].event
      /\ \A p \in 1 .. Len(log') : p \in 1 .. Len(log) \/ p = Len(log) + 1
  BY <1>1, <1>3, AppendFacts DEF IInv, LogTyped
<1>6. Pending(t) /\ ~ Pending(t)' /\ \A u \in Threads : u # t => (Pending(u)' <=> Pending(u))
  BY <1>1 DEF IInv, LogTyped, Pending, handlerVars
<1>7. ASSUME NEW p \in 1 .. Len(log)
      PROVE  Cardinality(Overtakers(p)') + Cardinality(Late(p)') < Cardinality(Threads)
  <2> DEFINE O == Overtakers(p)
             L == Late(p)
  <2>1. /\ IsFiniteSet(O) /\ Cardinality(O) \in Nat
        /\ IsFiniteSet(L) /\ Cardinality(L) \in Nat
        /\ Cardinality(O) + Cardinality(L) < Cardinality(Threads)
    BY OvertakersFinite DEF OvertakingInv
  <2>2. \A u \in Threads : u # t => (u \in Late(p)' <=> u \in L)
    BY <1>1, <1>5, <1>6 DEF Late, handlerVars, lifeVars
  <2>3. t \notin Late(p)' /\ Late(p)' \subseteq Threads /\ L \subseteq Threads
    BY <1>6 DEF Late
  <2>4. Late(p)' = L \ {t}
    BY <2>2, <2>3
  <2>5. O \subseteq p + 1 .. Len(log) /\ Len(log) + 1 \notin O
    BY <1>5 DEF Overtakers
  <2>6. CASE t \in L
    <3>1. Overtakers(p)' = O \cup {Len(log) + 1}
      BY <1>4, <1>5, <2>6 DEF Overtakers, Late
    <3>2. Cardinality(O \cup {Len(log) + 1}) = Cardinality(O) + 1
      BY <2>1, <2>5, FS_AddElement
    <3>3. Cardinality(L \ {t}) = Cardinality(L) - 1
      BY <2>1, <2>6, FS_RemoveElement
    <3> HIDE DEF O, L
    <3> QED BY <2>1, <2>4, <3>1, <3>2, <3>3
  <2>7. CASE t \notin L
    <3>1. Overtakers(p)' = O
      BY <1>4, <1>5, <1>6, <2>7 DEF Overtakers, Late
    <3>2. Late(p)' = L
      BY <2>4, <2>7
    <3> QED BY <2>1, <3>1, <3>2
  <2> QED BY <2>6, <2>7
<1>8. ASSUME NEW p, p = Len(log) + 1
      PROVE  Cardinality(Overtakers(p)') + Cardinality(Late(p)') < Cardinality(Threads)
  <2>1. Overtakers(p)' = {}
    BY <1>5, <1>8 DEF Overtakers
  <2>2. Late(p)' \in SUBSET (Threads \ {t})
    BY <1>6 DEF Late
  <2>3. IsFiniteSet(Threads) /\ Cardinality(Threads) \in Nat
    BY CollectorAssumption, ThreadsFinite
  <2>4. IsFiniteSet(Threads \ {t}) /\ Cardinality(Threads \ {t}) = Cardinality(Threads) - 1
    BY <2>3, FS_RemoveElement
  <2>5. Cardinality(Late(p)') <= Cardinality(Threads) - 1 /\ Cardinality(Late(p)') \in Nat
    BY <2>2, <2>4, FS_Subset, FS_CardinalityType
  <2> QED BY <2>1, <2>3, <2>5, FS_EmptySet
<1> QED BY <1>5, <1>7, <1>8 DEF OvertakingInv

\* A restart keeps a part of the log and has no handlers.
LEMMA RestartOvertakes ==
    ASSUME IInv, OvertakingInv, Restart
    PROVE  OvertakingInv'
<1>1. PICK n \in 0 .. Len(log) : log' = SubSeq(log, 1, n)
  BY DEF Restart, LogLose
<1>2. /\ Len(log) \in Nat /\ n \in Nat /\ Len(log') = n
      /\ \A p \in 1 .. n : p \in 1 .. Len(log) /\ log'[p] = log[p]
  BY <1>1, CutFacts DEF IInv, LogTyped
<1> SUFFICES ASSUME NEW p \in 1 .. n
             PROVE  Cardinality(Overtakers(p)') + Cardinality(Late(p)') < Cardinality(Threads)
  BY <1>2 DEF OvertakingInv
<1>3. Overtakers(p)' \in SUBSET Overtakers(p)
  BY <1>2 DEF Overtakers
<1>4. Late(p)' = {}
  BY DEF Restart, Late, Pending
<1>5. /\ IsFiniteSet(Overtakers(p)) /\ Cardinality(Overtakers(p)) \in Nat
      /\ Cardinality(Late(p)) \in Nat /\ Cardinality(Threads) \in Nat
      /\ Cardinality(Overtakers(p)) + Cardinality(Late(p)) < Cardinality(Threads)
  BY <1>2, OvertakersFinite DEF OvertakingInv
<1>6. /\ Cardinality(Overtakers(p)') \in Nat
      /\ Cardinality(Overtakers(p)') <= Cardinality(Overtakers(p))
  BY <1>3, <1>5, FS_Subset, FS_CardinalityType
<1> QED BY <1>4, <1>5, <1>6, FS_EmptySet

\* Every step keeps the bound.
LEMMA OvertakingStep ==
    ASSUME IInv, IInv', OvertakingInv, [Next]_vars
    PROVE  OvertakingInv'
<1>1. CASE Restart
  BY <1>1, RestartOvertakes
<1>2. CASE \E t \in Threads : LogProgress(t)
  BY <1>2, AppendOvertakes
<1>3. CASE ~ Restart /\ \A t \in Threads : ~ LogProgress(t)
  <2>1. log' = log /\ \A p \in 1 .. Len(log) : Late(p)' \subseteq Late(p)
    BY <1>3, NoNewLate
  <2> SUFFICES ASSUME NEW p \in 1 .. Len(log)
               PROVE  Cardinality(Overtakers(p)') + Cardinality(Late(p)') < Cardinality(Threads)
    BY <2>1 DEF OvertakingInv
  <2>2. Overtakers(p)' = Overtakers(p)
    BY <2>1 DEF Overtakers
  <2>3. Late(p)' \in SUBSET Late(p) /\ Late(p) \in SUBSET Threads
    BY <2>1 DEF Late
  <2>4. /\ Cardinality(Late(p)') \in Nat /\ Cardinality(Late(p)) \in Nat
        /\ Cardinality(Threads) \in Nat
        /\ Cardinality(Late(p)') <= Cardinality(Late(p))
    BY <2>3, ThreadsFinite, FewerThreads
  <2>5. /\ Cardinality(Overtakers(p)) \in Nat
        /\ Cardinality(Overtakers(p)) + Cardinality(Late(p)) < Cardinality(Threads)
    BY OvertakersFinite DEF OvertakingInv
  <2> QED BY <2>2, <2>4, <2>5
<1> QED BY <1>1, <1>2, <1>3

\* A record is followed by fewer smaller numbers of its node and life than there
\* are pool threads, for every size of the pool and every traffic
\* (server.py:271-289).
THEOREM OvertakingIsBounded == Spec => []OvertakingBounded
<1>1. Init => OvertakingInv
  BY DEF Init, LogInit, OvertakingInv
<1>2. IInv /\ IInv' /\ OvertakingInv /\ [Next]_vars => OvertakingInv'
  BY OvertakingStep
<1>3. IInv /\ OvertakingInv => OvertakingBounded
  <2> SUFFICES ASSUME IInv, OvertakingInv, NEW p \in 1 .. Len(log)
               PROVE  Cardinality(Overtakers(p)) < Cardinality(Threads)
    BY DEF OvertakingBounded, Overtakers
  <2> QED BY OvertakersFinite DEF OvertakingInv
<1> QED BY <1>1, <1>2, <1>3, AlwaysIInv, PTL DEF Spec
=============================================================================
