---------------------------- MODULE SecurityState ----------------------------
(***************************************************************************)
(* The collector's security state: the node allow-list and the CRL-backed   *)
(* TLS context it holds in memory, the two files they come from, and the     *)
(* reload that SIGHUP requests (collector/vestrix_collector/server.py:33-116 *)
(* and __main__.py:32-52).                                                  *)
(*                                                                         *)
(* A reload task reads the allow-list, then the CRL, on a pool thread, and   *)
(* installs both under _security_state_lock.  The operator edits the files   *)
(* at any moment, also between the two reads.                                *)
(***************************************************************************)
EXTENDS Integers, Sequences, FiniteSets

CONSTANTS
    Nodes,        \* node identities
    Enrolled,     \* the nodes that the allow-list holds at first
    Certs,        \* client certificates: [names: Seq(Nodes), trusted: BOOLEAN, ...]
    ReloadTasks,  \* identities for asyncio reload tasks
    MaxEdits,     \* bound: operator edits of the two files
    MaxSignals,   \* bound: SIGHUPs
    MaxBadLoads   \* bound: loads that meet an unreadable file

\* The collector starts only with a node to serve: its constructor raises on an
\* empty allow-list.
ASSUME SecAssumption == Enrolled \subseteq Nodes /\ Enrolled # {}

VARIABLES
    allowlist,       \* tls.allowlist file: a set of nodes
    crl,             \* tls.crl_path file: the certificates it revokes
    enrolled_nodes,  \* self._enrolled_nodes
    tls_revoked,     \* the revocations self._tls_context was built with
    task,            \* per reload task: its phase and what it has read
    published,       \* history: the contents the two files have had together
    signalled,       \* history: revocations a SIGHUP was sent for
    heard,           \* history: of those, the ones whose SIGHUP started a reload
    edits, signals, badLoads

fileState == <<allowlist, crl, published, edits>>
memoryState == <<enrolled_nodes, tls_revoked>>
signalState == <<signalled, heard, signals>>
secVars == <<fileState, memoryState, task, signalState, badLoads>>

NoTask == [phase |-> "done"]

\* The files as they are, one beside the other.
Files == [nodes |-> allowlist, revoked |-> crl]

SecInit ==
    /\ allowlist = Enrolled /\ crl = {}
    /\ published = {Files}
    /\ enrolled_nodes = allowlist /\ tls_revoked = crl
    /\ task = [t \in ReloadTasks |-> NoTask]
    /\ signalled = {} /\ heard = {}
    /\ edits = 0 /\ signals = 0 /\ badLoads = 0

\* The operator enrols or removes a node by editing the allow-list.
EditAllowlist(n) ==
    /\ edits < MaxEdits
    /\ edits' = edits + 1
    /\ allowlist' = IF n \in allowlist THEN allowlist \ {n} ELSE allowlist \cup {n}
    /\ published' = published \cup {[Files EXCEPT !.nodes = allowlist']}
    /\ UNCHANGED <<crl, memoryState, task, signalState, badLoads>>

\* revoke_node.sh, and its CRL copied to tls.crl_path: never undone.
RevokeNode(c) ==
    /\ edits < MaxEdits /\ c \notin crl
    /\ edits' = edits + 1
    /\ crl' = crl \cup {c}
    /\ published' = published \cup {[Files EXCEPT !.revoked = crl']}
    /\ UNCHANGED <<allowlist, memoryState, task, signalState, badLoads>>

\* Variant: a reload under way is not noticed.
ReloadNeverRunning == FALSE

\* The task of request_reload is not done.
ReloadRunning == \E t \in ReloadTasks : task[t] # NoTask

\* SIGHUP with no reload under way creates a task; reload_security_state calls
\* to_thread, so the load is queued for a pool thread.
RequestReload(t) ==
    /\ signals < MaxSignals
    /\ signals' = signals + 1
    /\ ~ ReloadRunning /\ task[t] = NoTask
    /\ task' = [task EXCEPT ![t] = [phase |-> "queued"]]
    /\ signalled' = signalled \cup crl
    /\ heard' = heard \cup crl
    /\ UNCHANGED <<fileState, memoryState, badLoads>>

\* SIGHUP while a reload is under way: request_reload returns without a trace.
DropReload ==
    /\ signals < MaxSignals
    /\ signals' = signals + 1
    /\ ReloadRunning
    /\ signalled' = signalled \cup crl
    /\ UNCHANGED <<fileState, memoryState, task, heard, badLoads>>

\* A pool thread begins _load_security_state.
BeginLoad(t) ==
    /\ task[t].phase = "queued"
    /\ task' = [task EXCEPT ![t] = [phase |-> "reading"]]
    /\ UNCHANGED <<fileState, memoryState, signalState, badLoads>>

AllowlistUsable == allowlist # {}

\* Variant: the context is built from the CRL that is in memory.
CrlKept == tls_revoked

CrlRead == crl

\* Variant: the list is put in force as soon as it is read.
LoadEnrolledNodesInPlace(t) ==
    /\ task[t].phase = "reading" /\ AllowlistUsable
    /\ task' = [task EXCEPT ![t] = [phase |-> "half", nodes |-> allowlist]]
    /\ enrolled_nodes' = allowlist
    /\ UNCHANGED <<fileState, tls_revoked, signalState, badLoads>>

\* load_enrolled_nodes; an empty allow-list is an AllowlistError.
LoadEnrolledNodes(t) ==
    /\ task[t].phase = "reading" /\ AllowlistUsable
    /\ task' = [task EXCEPT ![t] = [phase |-> "half", nodes |-> allowlist]]
    /\ UNCHANGED <<fileState, memoryState, signalState, badLoads>>

BuildTlsContext(t) ==
    /\ task[t].phase = "half"
    /\ task' = [task EXCEPT ![t] = [phase |-> "loaded", nodes |-> task[t].nodes,
                                    revoked |-> CrlRead]]
    /\ UNCHANGED <<fileState, memoryState, signalState, badLoads>>

\* Either file is unreadable or invalid: the error is logged and the state that
\* is installed stays.
LoadFails(t) ==
    /\ \/ task[t].phase = "reading" /\ ~ AllowlistUsable /\ UNCHANGED badLoads
       \/ /\ task[t].phase \in {"reading", "half"} /\ badLoads < MaxBadLoads
          /\ badLoads' = badLoads + 1
    /\ task' = [task EXCEPT ![t] = NoTask]
    /\ UNCHANGED <<fileState, memoryState, signalState>>

\* Both values are replaced in one critical section, and the task is done.
InstallSecurityState(t) ==
    /\ task[t].phase = "loaded"
    /\ enrolled_nodes' = task[t].nodes
    /\ tls_revoked' = task[t].revoked
    /\ task' = [task EXCEPT ![t] = NoTask]
    /\ UNCHANGED <<fileState, signalState, badLoads>>

\* A restarted collector loads both files before it listens; its constructor
\* raises on an empty allow-list.
LoadAtStart ==
    /\ AllowlistUsable
    /\ enrolled_nodes' = allowlist /\ tls_revoked' = crl
    /\ task' = [t \in ReloadTasks |-> NoTask]
    /\ UNCHANGED <<fileState, signalState, badLoads>>

Operator == \/ \E n \in Nodes : EditAllowlist(n)
            \/ \E c \in Certs : RevokeNode(c)

ReloadStep(t) == LoadEnrolledNodes(t) \/ BuildTlsContext(t) \/ LoadFails(t)

SecNext == \/ Operator
           \/ \E t \in ReloadTasks : RequestReload(t)
           \/ DropReload
           \/ \E t \in ReloadTasks : BeginLoad(t) \/ ReloadStep(t) \/ InstallSecurityState(t)
           \/ LoadAtStart

\* The event loop and the pool threads run; a queued load is taken up because
\* every connection before it ends within its timeouts.
SecFairness == \A t \in ReloadTasks :
    WF_secVars(BeginLoad(t) \/ LoadEnrolledNodes(t) \/ BuildTlsContext(t)
                  \/ InstallSecurityState(t))

SecSpec == SecInit /\ [][SecNext]_secVars
SecFairSpec == SecSpec /\ SecFairness

-----------------------------------------------------------------------------
(* Properties *)

Loaded == [phase : {"loaded"}, nodes : SUBSET Nodes, revoked : SUBSET Certs]

\* Every variable has its type.
SecTypeOK ==
    /\ allowlist \subseteq Nodes /\ enrolled_nodes \subseteq Nodes
    /\ crl \subseteq Certs /\ tls_revoked \subseteq Certs
    /\ task \in [ReloadTasks -> [phase : {"done", "queued", "reading"}]
                    \cup [phase : {"half"}, nodes : SUBSET Nodes] \cup Loaded]
    /\ published \subseteq [nodes : SUBSET Nodes, revoked : SUBSET Certs]
    /\ signalled \subseteq Certs /\ heard \subseteq Certs

\* A revocation that is in force stays in force: no reload that finishes late,
\* fails half way or races an edit brings back an older CRL.  This is what the
\* one-task guard of request_reload (__main__.py:51) protects.
RevocationSticks == [][tls_revoked \subseteq tls_revoked']_secVars

\* The allow-list and the revocations in force belong together: no list is used
\* without the revocations that were published before that list was.  An operator
\* who revokes a certificate and then enrols its node again never has the node
\* admitted by the revoked certificate, although the two files are read one after
\* the other, are edited between the reads, and the second read may fail
\* (server.py:93-116: the list before the CRL, and both installed in one step).
InstalledPairConsistent ==
    \E f \in published : f.nodes = enrolled_nodes /\ f.revoked \subseteq tls_revoked

\* A SIGHUP that starts a reload takes effect: unless a load fails, every
\* revocation published before it is in force some time later.
HeardSignalTakesEffect ==
    \A c \in Certs : (c \in heard /\ badLoads = 0 /\ allowlist # {}) ~>
                        (c \in tls_revoked \/ badLoads > 0 \/ allowlist = {})

\* collector/README.md:8-10, "SIGHUP reloads the allow-list and CRL-backed TLS
\* context for new connections": every revocation published before any SIGHUP is
\* in force some time later.
SignalTakesEffect ==
    \A c \in Certs : (c \in signalled /\ badLoads = 0 /\ allowlist # {}) ~>
                        (c \in tls_revoked \/ badLoads > 0 \/ allowlist = {})
=============================================================================
