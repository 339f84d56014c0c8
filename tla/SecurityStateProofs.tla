------------------------- MODULE SecurityStateProofs -------------------------
(* Theorems about SecurityState, for every set of nodes, certificates and      *)
(* reload tasks and every number of edits, signals and failed loads.  The      *)
(* lemmas about its actions are also what CollectorProofs rests on.            *)
EXTENDS SecurityState, TLAPS

-----------------------------------------------------------------------------
(* The inductive invariant *)

\* request_reload keeps at most one reload task that is not done.
OneReload == \A s, t \in ReloadTasks : task[s] # NoTask /\ task[t] # NoTask => s = t

\* The files as they are have been published, and the CRL in memory is not newer.
FilesKnown == Files \in published /\ tls_revoked \subseteq crl

\* A list and a set of revocations that may be used together.
Together(nodes, revoked) == \E f \in published : f.nodes = nodes /\ f.revoked \subseteq revoked

\* What a task has read is no older than what is in memory and no newer than the
\* file, and its list may be used with the CRL that it has read or will read.
ReadIsCurrent ==
    \A t \in ReloadTasks :
        /\ task[t].phase = "half" => Together(task[t].nodes, crl)
        /\ task[t].phase = "loaded" =>
              /\ tls_revoked \subseteq task[t].revoked /\ task[t].revoked \subseteq crl
              /\ Together(task[t].nodes, task[t].revoked)

SecInv == SecTypeOK /\ OneReload /\ ReadIsCurrent /\ FilesKnown /\ InstalledPairConsistent

\* What one step may not do to the revocations in force, nor to the history.
Sticks == tls_revoked \subseteq tls_revoked' /\ published \subseteq published'

-----------------------------------------------------------------------------
(* Lemmas *)

\* What a task record is made of follows from its phase.
LEMMA TaskShape ==
    ASSUME SecTypeOK, NEW t \in ReloadTasks
    PROVE  /\ task[t].phase \in {"done", "queued", "reading", "half", "loaded"}
           /\ task[t].phase = "half" => task[t] \in [phase : {"half"}, nodes : SUBSET Nodes]
           /\ task[t].phase = "loaded" => task[t] \in Loaded
           /\ task[t] # NoTask => task[t].phase # "done"
           /\ task[t].phase # "done" => task[t] # NoTask
  BY DEF SecTypeOK, Loaded, NoTask

\* The collector starts with both files loaded.
LEMMA SecInitInv == SecInit => SecInv
  BY SecAssumption
  DEF SecInit, SecInv, SecTypeOK, OneReload, ReadIsCurrent, Together,
      FilesKnown, Files, InstalledPairConsistent, NoTask

\* The operator edits the files while a reload may be reading them.
LEMMA OperatorInv ==
    ASSUME SecInv, Operator
    PROVE  SecInv' /\ Sticks
  BY DEF Operator, EditAllowlist, RevokeNode, memoryState, signalState, Sticks,
         SecInv, SecTypeOK, OneReload, ReadIsCurrent, Together, FilesKnown,
         Files, InstalledPairConsistent

\* SIGHUP starts a reload only when none is under way (__main__.py:49-52).
LEMMA RequestReloadInv ==
    ASSUME SecInv, NEW t \in ReloadTasks, RequestReload(t)
    PROVE  SecInv' /\ Sticks
<1> USE DEF RequestReload, ReloadRunning, fileState, memoryState
<1>1. SecTypeOK'
  BY DEF SecInv, SecTypeOK, Loaded
<1>2. OneReload' /\ ReadIsCurrent'
  BY DEF SecInv, SecTypeOK, OneReload, ReadIsCurrent, NoTask
<1> QED BY <1>1, <1>2 DEF SecInv, FilesKnown, Files, InstalledPairConsistent, Sticks

\* SIGHUP while a reload is under way leaves no trace.
LEMMA DropReloadInv ==
    ASSUME SecInv, DropReload
    PROVE  SecInv' /\ Sticks
  BY DEF DropReload, fileState, memoryState, Sticks,
         SecInv, SecTypeOK, OneReload, ReadIsCurrent, Together, FilesKnown,
         Files, InstalledPairConsistent

\* The load starts on a pool thread.
LEMMA BeginLoadInv ==
    ASSUME SecInv, NEW t \in ReloadTasks, BeginLoad(t)
    PROVE  SecInv' /\ Sticks
<1> USE DEF BeginLoad, fileState, memoryState, signalState
<1>1. SecTypeOK'
  BY DEF SecInv, SecTypeOK, Loaded
<1>2. OneReload' /\ ReadIsCurrent'
  BY TaskShape DEF SecInv, SecTypeOK, OneReload, ReadIsCurrent
<1> QED BY <1>1, <1>2 DEF SecInv, FilesKnown, Files, InstalledPairConsistent, Sticks

\* The two reads, and the errors they may end in (server.py:112-116).
LEMMA ReloadStepInv ==
    ASSUME SecInv, NEW t \in ReloadTasks, ReloadStep(t)
    PROVE  SecInv' /\ Sticks
<1>1. CASE LoadEnrolledNodes(t)
  <2> USE <1>1 DEF LoadEnrolledNodes, AllowlistUsable, fileState, memoryState, signalState
  <2>1. SecTypeOK'
    BY DEF SecInv, SecTypeOK, Loaded
  <2>2. OneReload' /\ ReadIsCurrent'
    BY TaskShape
    DEF SecInv, SecTypeOK, OneReload, ReadIsCurrent, Together, FilesKnown, Files
  <2> QED BY <2>1, <2>2 DEF SecInv, FilesKnown, Files, InstalledPairConsistent, Sticks
<1>2. CASE BuildTlsContext(t)
  <2> USE <1>2 DEF BuildTlsContext, CrlRead, fileState, memoryState, signalState
  <2>1. SecTypeOK'
    BY TaskShape DEF SecInv, SecTypeOK, Loaded
  <2>2. OneReload' /\ ReadIsCurrent'
    BY TaskShape DEF SecInv, SecTypeOK, OneReload, ReadIsCurrent, Together, FilesKnown,
         Files, InstalledPairConsistent
  <2> QED BY <2>1, <2>2 DEF SecInv, FilesKnown, Files, InstalledPairConsistent, Sticks
<1>3. CASE LoadFails(t)
  <2> USE <1>3 DEF LoadFails, fileState, memoryState, signalState
  <2>1. SecTypeOK'
    BY DEF SecInv, SecTypeOK, NoTask
  <2>2. OneReload' /\ ReadIsCurrent'
    BY DEF SecInv, SecTypeOK, OneReload, ReadIsCurrent, NoTask
  <2> QED BY <2>1, <2>2 DEF SecInv, FilesKnown, Files, InstalledPairConsistent, Sticks
<1> QED BY <1>1, <1>2, <1>3 DEF ReloadStep

\* The install replaces both values by what its own task has read
\* (server.py:98-100); no other task holds an older pair.
LEMMA InstallInv ==
    ASSUME SecInv, NEW t \in ReloadTasks, InstallSecurityState(t)
    PROVE  SecInv' /\ Sticks
<1> USE DEF InstallSecurityState, fileState, signalState
<1>1. task[t] \in Loaded
  BY TaskShape DEF SecInv
<1>2. SecTypeOK'
  BY <1>1 DEF SecInv, SecTypeOK, NoTask, Loaded
<1>3. \A s \in ReloadTasks : task'[s] = NoTask
  BY TaskShape DEF SecInv, SecTypeOK, OneReload
<1>4. OneReload' /\ ReadIsCurrent'
  BY <1>3 DEF OneReload, ReadIsCurrent, NoTask
<1>5. FilesKnown' /\ InstalledPairConsistent' /\ Sticks
  BY DEF SecInv, ReadIsCurrent, Together, FilesKnown, Files, InstalledPairConsistent, Sticks
<1> QED BY <1>2, <1>4, <1>5 DEF SecInv

\* A start of the process loads both files.
LEMMA LoadAtStartInv ==
    ASSUME SecInv, LoadAtStart
    PROVE  SecInv' /\ Sticks
<1> USE DEF LoadAtStart, AllowlistUsable, fileState, signalState
<1>1. SecTypeOK'
  BY DEF SecInv, SecTypeOK, NoTask
<1>2. OneReload' /\ ReadIsCurrent'
  BY DEF OneReload, ReadIsCurrent, NoTask
<1> QED BY <1>1, <1>2 DEF SecInv, FilesKnown, Files, InstalledPairConsistent, Sticks

\* A step that leaves the security state alone.
LEMMA SecStutterInv ==
    ASSUME SecInv, UNCHANGED secVars
    PROVE  SecInv' /\ Sticks
  BY DEF secVars, fileState, memoryState, signalState, Sticks,
         SecInv, SecTypeOK, OneReload, ReadIsCurrent, Together, FilesKnown,
         Files, InstalledPairConsistent

\* Every step of the operator, the signals and the reload keeps the invariant.
LEMMA SecNextInv == SecInv /\ [SecNext]_secVars => SecInv' /\ Sticks
  BY OperatorInv, RequestReloadInv, DropReloadInv, BeginLoadInv, ReloadStepInv,
     InstallInv, LoadAtStartInv, SecStutterInv DEF SecNext

\* The invariant holds in every reachable state.
LEMMA AlwaysSecInv == SecSpec => []SecInv
  BY SecInitInv, SecNextInv, PTL DEF SecSpec

-----------------------------------------------------------------------------
(* Theorems *)

\* No reload that finishes late, fails half way or races an edit takes a
\* revocation out of force (__main__.py:49-52, server.py:93-116).
THEOREM RevocationsStick == SecSpec => RevocationSticks
<1>1. SecInv /\ [SecNext]_secVars => [Sticks]_secVars
  BY SecNextInv
<1>2. Sticks => tls_revoked \subseteq tls_revoked'
  BY DEF Sticks
<1> QED BY <1>1, <1>2, AlwaysSecInv, PTL DEF SecSpec, RevocationSticks

\* No allow-list is in force without the revocations that were published before it
\* was, whatever is edited between the two reads and whichever of them fails
\* (server.py:93-116).
THEOREM InstalledTogether == SecSpec => []InstalledPairConsistent
<1>1. SecInv => InstalledPairConsistent
  BY DEF SecInv
<1> QED BY <1>1, AlwaysSecInv, PTL
=============================================================================
