------------------------------ MODULE SocAlerts ------------------------------
(***************************************************************************)
(* The two SOC views of one alert: ocsf/mapper.py derives the flat Wazuh    *)
(* event and the OCSF finding from the canonical dictionary, and the rules  *)
(* of wazuh/rules/local_rules.xml raise the event to an alert level, alone  *)
(* or correlated with an earlier SSH authentication anomaly.                *)
(*                                                                         *)
(* A canonical alert is a record with                                      *)
(*   keys        the names of the members it has;                          *)
(*   malformed   the members whose value breaks its own rule (empty id,    *)
(*               bad calendar date, top_shap entry without a feature ...); *)
(*   class, confidence (in percent), confidence_level, pacs_event_status;  *)
(*   reader_id, event_id   whether those PACS identifiers are non-null.    *)
(***************************************************************************)
EXTENDS Naturals

CONSTANTS
    Alerts,    \* what a producer may hand to the mapper
    Timeframe, \* ticks of rule 100211's timeframe (120 s)
    NONE       \* no alert mapped yet

ASSUME TimeframeAssumption == Timeframe \in Nat

VARIABLES
    since,  \* ticks since rule 100210 last matched, Timeframe + 1 if longer ago
    last    \* the last alert that was mapped, with both views of it

vars == <<since, last>>

_REQUIRED_FIELDS == {"schema_version", "source", "event_id", "ts_utc", "node_id",
                     "site_id", "zone_id", "class", "confidence", "confidence_level",
                     "model_id", "top_shap", "pacs_event_status", "pacs_reader_id",
                     "pacs_event_id"}
_OPTIONAL_FIELDS == {"csi_window_sha256", "sequence_number", "seq", "record_hash"}
_CLASSES == {"intrusion", "normal", "sensor_tamper"}
_PACS_STATUSES == {"matched", "missing", "unknown", "not_applicable"}

-----------------------------------------------------------------------------
(* mapper.py *)

confidence_level(confidence) == IF confidence >= 90 THEN "high"
                                ELSE IF confidence >= 60 THEN "borderline"
                                ELSE "low"

\* The status and the identifiers of the badge event agree.
_validate_pacs(a) ==
    /\ a.pacs_event_status \in _PACS_STATUSES
    /\ a.pacs_event_status = "matched" => a.reader_id /\ a.event_id
    /\ a.pacs_event_status = "missing" => ~ a.event_id
    /\ a.pacs_event_status = "not_applicable" => ~ a.reader_id /\ ~ a.event_id

\* Timestamp, identifiers, digests, counters and top_shap, each by its own rule.
MembersValid(a) == a.malformed = {}

WellFormed(a) == /\ _REQUIRED_FIELDS \subseteq a.keys
                 /\ a.keys \subseteq _REQUIRED_FIELDS \cup _OPTIONAL_FIELDS
                 /\ MembersValid(a)
                 /\ a.class \in _CLASSES
                 /\ a.confidence \in 0 .. 100

\* Variant: the producer's confidence level is taken as it is.
validate_alert_trusting(a) == /\ WellFormed(a)
                              /\ a.confidence_level \in {"low", "borderline", "high"}
                              /\ _validate_pacs(a)

validate_alert(a) == /\ WellFormed(a)
                     /\ a.confidence_level = confidence_level(a.confidence)
                     /\ _validate_pacs(a)

\* The members that the rules look at; nulls and top_shap are not among them.
to_wazuh(a) == [class |-> a.class, confidence_level |-> a.confidence_level,
                pacs_event_status |-> a.pacs_event_status]

\* Variant: the badge is looked at before the class.
_severity_badge_first(a) ==
    CASE a.pacs_event_status = "missing" -> 5
      [] a.class = "normal" -> 1
      [] a.class = "sensor_tamper" -> 4
      [] OTHER -> [high |-> 4, borderline |-> 3, low |-> 2][a.confidence_level]

_severity(a) ==
    CASE a.class = "normal" -> 1
      [] a.class = "sensor_tamper" -> 4
      [] a.class = "intrusion" /\ a.pacs_event_status = "missing" -> 5
      [] OTHER -> [high |-> 4, borderline |-> 3, low |-> 2][a.confidence_level]

to_ocsf(a) ==
    [severity_id |-> _severity(a),
     confidence_id |-> [low |-> 1, borderline |-> 2, high |-> 3][a.confidence_level],
     is_alert |-> a.class # "normal"]

-----------------------------------------------------------------------------
(* local_rules.xml: the children of the grouping rule 100200 *)

Level == [r \in {100200, 100201, 100202, 100203, 100211} |->
            CASE r = 100200 -> 0
              [] r = 100201 -> 10
              [] r = 100202 -> 12
              [] r = 100203 -> 12
              [] r = 100211 -> 14]

Matching(e) ==
    {r \in {100201, 100202, 100203} :
        \/ /\ r = 100201
           /\ e.class = "intrusion" /\ e.confidence_level = "high"
        \/ /\ r = 100202
           /\ e.class = "intrusion" /\ e.pacs_event_status = "missing"
        \/ r = 100203 /\ e.class = "sensor_tamper"}

\* Rule 100211 is a child of 100201 and needs a match of 100210 in its timeframe.
Correlated(r) == r = 100201 /\ since <= Timeframe

\* The engine tries the children of a matching rule in the order of falling
\* level, takes the first one that matches and goes on with the children of that
\* one only.
FinalRule(e) ==
    IF Matching(e) = {} THEN 100200
    ELSE LET r == CHOOSE s \in Matching(e) :
                        \A t \in Matching(e) : Level[t] <= Level[s]
         IN  IF Correlated(r) THEN 100211 ELSE r

-----------------------------------------------------------------------------
Init == since = Timeframe + 1 /\ last = NONE

\* Rule 100210: sshd reports a brute-force attempt (rules 5712 and 5763).
AuthAnomaly == since' = 0 /\ UNCHANGED last

Tick == /\ since <= Timeframe
        /\ since' = since + 1
        /\ UNCHANGED last

\* Both views of one alert, and the rule its Wazuh event ends in.
MapAlert(a) ==
    /\ validate_alert(a)
    /\ last' = [alert |-> a, rule |-> FinalRule(to_wazuh(a)),
                finding |-> to_ocsf(a), recent |-> since <= Timeframe]
    /\ UNCHANGED since

\* AlertValidationError: nothing is emitted.
RejectAlert(a) == ~ validate_alert(a) /\ last' = NONE /\ UNCHANGED since

Next == AuthAnomaly \/ Tick \/ \E a \in Alerts : MapAlert(a) \/ RejectAlert(a)

Spec == Init /\ [][Next]_vars

-----------------------------------------------------------------------------
(* Properties *)

\* OCSF calls it an alert and Wazuh keeps it at level 0.
Suppressed == last.finding.is_alert /\ Level[last.rule] = 0

\* The two decision tables agree on what they raise and differ only where it is meant.
\* Wazuh raises an alert exactly for the findings that OCSF rates high or critical,
\* and a critical one to level 12 at least.  OCSF's is_alert is wider (mapper.py:203):
\* what it flags and Wazuh keeps at level 0, "deliberately suppressed"
\* (wazuh/README.md:57-58), is an intrusion measured below 90 percent whose badge event
\* is not missing, and nothing else; OCSF rates it medium exactly from 60 percent on
\* (mapper.py:87-93, 245-257 against local_rules.xml:11-37).
ViewsAgree ==
    last # NONE =>
        /\ Level[last.rule] > 0 <=> last.finding.severity_id >= 4
        /\ last.finding.severity_id = 5 => Level[last.rule] >= 12
        /\ Suppressed <=> /\ last.alert.class = "intrusion"
                          /\ last.alert.confidence < 90
                          /\ last.alert.pacs_event_status # "missing"
        /\ last.finding.severity_id = 3 <=> Suppressed /\ last.alert.confidence >= 60

\* The composite incident of level 14 is raised for the measured confidence, not
\* for a claimed one: exactly for intrusions of at least 90 percent that arrive in
\* the timeframe of an authentication anomaly and whose badge event is not
\* reported missing (mapper.py:134-141, local_rules.xml:58-60).
EscalationExact ==
    last # NONE =>
        (last.rule = 100211 <=> /\ last.recent
                                /\ last.alert.class = "intrusion"
                                /\ last.alert.confidence >= 90
                                /\ last.alert.pacs_event_status # "missing")

\* What the comment on rule 100211 says: a high-confidence intrusion that arrives
\* in the timeframe after an authentication anomaly ends in that rule.  A missing
\* badge event makes rule 100202 take the event first.
CorrelatedIntrusionEscalates ==
    /\ last # NONE
    /\ last.recent
    /\ last.alert.class = "intrusion"
    /\ last.alert.confidence_level = "high"
    => last.rule = 100211
=============================================================================
