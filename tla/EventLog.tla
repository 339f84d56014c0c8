------------------------------- MODULE EventLog -------------------------------
(***************************************************************************)
(* What the forensic log promises to its callers.  A call of log_event      *)
(* either appends its event, once, and then returns; or it raises, and then *)
(* the event is in the log at most once.  An event whose call returned is   *)
(* acknowledged and is never lost; events of calls that raised or died may  *)
(* be lost when the machine loses power, but only from the end of the log.  *)
(***************************************************************************)
EXTENDS Naturals, Sequences

CONSTANTS Writers, Events

VARIABLES
    log,    \* the events in the log, oldest first
    acked,  \* the positions of the log whose call returned
    call    \* per writer: what is known of its running call

logVars == <<log, acked, call>>

NoCall == [status |-> "idle"]

LogInit == /\ log = << >>
           /\ acked = {}
           /\ call = [w \in Writers |-> NoCall]

LogCall(w, e) ==
    /\ call[w] = NoCall
    /\ call' = [call EXCEPT ![w] = [status |-> "open", event |-> e]]
    /\ UNCHANGED <<log, acked>>

LogAppend(w) ==
    /\ call[w].status = "open"
    /\ log' = Append(log, call[w].event)
    /\ call' = [call EXCEPT ![w] = [status |-> "appended", pos |-> Len(log')]]
    /\ UNCHANGED acked

LogReturn(w) ==
    /\ call[w].status = "appended"
    /\ acked' = acked \cup {call[w].pos}
    /\ call' = [call EXCEPT ![w] = NoCall]
    /\ UNCHANGED log

\* The call raises, or its process dies: nothing is acknowledged, and the event
\* stays in the log if it was appended.
LogFail(w) ==
    /\ call[w] # NoCall
    /\ call' = [call EXCEPT ![w] = NoCall]
    /\ UNCHANGED <<log, acked>>

\* Power loss: every call dies, and unacknowledged events at the end of the log
\* may disappear.
LogLose ==
    \E n \in 0 .. Len(log) :
        /\ \A p \in acked : p <= n
        /\ log' = SubSeq(log, 1, n)
        /\ call' = [w \in Writers |-> NoCall]
        /\ UNCHANGED acked

LogNext == \/ \E w \in Writers, e \in Events : LogCall(w, e)
           \/ \E w \in Writers : LogAppend(w) \/ LogReturn(w) \/ LogFail(w)
           \/ LogLose

LogSpec == LogInit /\ [][LogNext]_logVars
=============================================================================
