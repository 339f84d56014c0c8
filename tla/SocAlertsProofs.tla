--------------------------- MODULE SocAlertsProofs ---------------------------
(* Theorems about SocAlerts, for every set of alerts that a producer may hand *)
(* over and for every timeframe of the correlation rule.                     *)
EXTENDS SocAlerts, TLAPS

-----------------------------------------------------------------------------
(* The rules *)

\* The levels of the rules (local_rules.xml).
LEMMA Levels ==
    /\ Level[100200] = 0 /\ Level[100201] = 10 /\ Level[100202] = 12
    /\ Level[100203] = 12 /\ Level[100211] = 14
  BY SMT DEF Level

\* The rule that the engine ends in, by cases: tampering first, then a missing
\* badge event, which outranks the confidence, then the correlation.
RuleByCases(e) ==
    IF e.class = "sensor_tamper" THEN 100203
    ELSE IF e.class = "intrusion" /\ e.pacs_event_status = "missing" THEN 100202
    ELSE IF e.class = "intrusion" /\ e.confidence_level = "high"
    THEN IF since <= Timeframe THEN 100211 ELSE 100201
    ELSE 100200

\* A rule of S that no other rule of S outranks.
Highest(S) == CHOOSE s \in S : \A t \in S : Level[t] <= Level[s]

\* Where there is one, Highest finds one.
LEMMA HighestExists ==
    ASSUME NEW S, NEW x \in S, \A t \in S : Level[t] <= Level[x]
    PROVE  Highest(S) \in S /\ \A t \in S : Level[t] <= Level[Highest(S)]
  BY Zenon DEF Highest

\* The highest of the matching rules is unique, and it is the one that
\* RuleByCases names: the engine's search is deterministic.
LEMMA FinalRuleByCases ==
    ASSUME NEW e
    PROVE  FinalRule(e) = RuleByCases(e)
<1> DEFINE M == Matching(e)
           best == Highest(M)
<1>1. FinalRule(e) = IF M = {} THEN 100200 ELSE IF Correlated(best) THEN 100211 ELSE best
  BY SMT DEF FinalRule, Highest
<1>2. CASE e.class = "sensor_tamper"
  <2>1. M = {100203}
    BY <1>2, SMT DEF Matching
  <2> HIDE DEF M
  <2>2. \A t \in M : Level[t] <= Level[100203]
    BY <2>1, Levels, SMT
  <2>3. best = 100203
    BY <2>1, <2>2, HighestExists, SMT
  <2> HIDE DEF best
  <2> QED BY <1>1, <1>2, <2>1, <2>3, SMT DEF RuleByCases, Correlated
<1>3. CASE e.class = "intrusion" /\ e.pacs_event_status = "missing"
  <2>1. 100202 \in M /\ M \subseteq {100201, 100202}
    BY <1>3, SMT DEF Matching
  <2> HIDE DEF M
  <2>2. \A t \in M : Level[t] <= Level[100202]
    BY <2>1, Levels, SMT
  <2>3. best \in M /\ Level[100202] <= Level[best]
    <3> DEFINE x == 100202
    <3>x. x \in M /\ \A t \in M : Level[t] <= Level[x]
      BY <2>1, <2>2, SMT
    <3> HIDE DEF x
    <3>1. best \in M /\ \A t \in M : Level[t] <= Level[best]
      BY <3>x, HighestExists, Zenon
    <3> HIDE DEF best
    <3> QED BY <2>1, <3>1, SMT
  <2> HIDE DEF best
  <2>4. best = 100202
    BY <2>1, <2>3, Levels, SMT
  <2> QED BY <1>1, <1>3, <2>1, <2>4, SMT DEF RuleByCases, Correlated
<1>4. CASE e.class = "intrusion" /\ e.pacs_event_status # "missing"
           /\ e.confidence_level = "high"
  <2>1. M = {100201}
    BY <1>4, SMT DEF Matching
  <2> HIDE DEF M
  <2>2. \A t \in M : Level[t] <= Level[100201]
    BY <2>1, Levels, SMT
  <2>3. best = 100201
    BY <2>1, <2>2, HighestExists, SMT
  <2> HIDE DEF best
  <2> QED BY <1>1, <1>4, <2>1, <2>3, SMT DEF RuleByCases, Correlated
<1>5. CASE \/ e.class \notin {"intrusion", "sensor_tamper"}
           \/ e.class = "intrusion" /\ e.pacs_event_status # "missing"
              /\ e.confidence_level # "high"
  <2>1. M = {}
    BY <1>5, SMT DEF Matching
  <2> QED BY <1>1, <1>5, <2>1, SMT DEF RuleByCases
<1> QED BY <1>2, <1>3, <1>4, <1>5, SMT

\* A valid alert carries the level that its confidence has, so the producer's
\* claim cannot raise it (mapper.py:134-141).
LEMMA LevelIsMeasured ==
    ASSUME NEW a, validate_alert(a)
    PROVE  /\ a.class \in _CLASSES /\ a.confidence \in 0 .. 100
           /\ a.confidence_level \in {"low", "borderline", "high"}
           /\ a.confidence_level = "high" <=> a.confidence >= 90
           /\ a.confidence_level = "low" <=> a.confidence < 60
  BY DEF validate_alert, WellFormed, confidence_level

\* The OCSF severity of a valid alert, by cases (mapper.py:245-257).
LEMMA SeverityByCases ==
    ASSUME NEW a, validate_alert(a)
    PROVE  /\ a.class = "normal" => _severity(a) = 1
           /\ a.class = "sensor_tamper" => _severity(a) = 4
           /\ a.class = "intrusion" /\ a.pacs_event_status = "missing" => _severity(a) = 5
           /\ a.class = "intrusion" /\ a.pacs_event_status # "missing" =>
                 _severity(a) = (IF a.confidence_level = "high" THEN 4
                                 ELSE IF a.confidence_level = "borderline" THEN 3 ELSE 2)
  BY LevelIsMeasured DEF _severity, _CLASSES

-----------------------------------------------------------------------------
(* The invariant *)

SocInv == ViewsAgree /\ EscalationExact

\* Both views of a newly mapped alert agree, whatever was mapped before.
LEMMA MapAlertInv ==
    ASSUME NEW a, MapAlert(a)
    PROVE  SocInv'
<1> DEFINE e == to_wazuh(a)
<1>1. /\ e.class = a.class /\ e.confidence_level = a.confidence_level
      /\ e.pacs_event_status = a.pacs_event_status
  BY DEF to_wazuh
<1> HIDE DEF e
<1>2. /\ last'.alert = a /\ last'.rule = FinalRule(e) /\ last'.finding = to_ocsf(a)
  BY DEF MapAlert, e
<1>3. last'.recent = (since <= Timeframe)
  BY DEF MapAlert
<1>4. last'.rule = RuleByCases(e)
  BY <1>2, FinalRuleByCases
<1>5. last'.finding.severity_id = _severity(a)
  BY <1>2 DEF to_ocsf
<1>6. last'.finding.is_alert = (a.class # "normal")
  BY <1>2 DEF to_ocsf
<1>7. validate_alert(a)
  BY DEF MapAlert
<1>7a. /\ a.class \in {"intrusion", "normal", "sensor_tamper"}
       /\ a.confidence_level \in {"low", "borderline", "high"}
       /\ a.confidence_level = "high" <=> a.confidence >= 90
       /\ a.confidence_level = "low" <=> a.confidence < 60
       /\ a.confidence \in 0 .. 100
  BY <1>7, LevelIsMeasured, SMT DEF _CLASSES
<1> DEFINE x == _severity(a)
           rule == RuleByCases(e)
           al == a.class # "normal"
<1>7b. /\ a.class = "normal" => x = 1 /\ rule = 100200
       /\ a.class = "sensor_tamper" => x = 4 /\ rule = 100203
       /\ a.class = "intrusion" /\ a.pacs_event_status = "missing" => x = 5 /\ rule = 100202
       /\ a.class = "intrusion" /\ a.pacs_event_status # "missing"
             /\ a.confidence_level = "high"
          => x = 4 /\ rule = (IF since <= Timeframe THEN 100211 ELSE 100201)
       /\ a.class = "intrusion" /\ a.pacs_event_status # "missing"
             /\ a.confidence_level # "high"
          => x = (IF a.confidence_level = "low" THEN 2 ELSE 3) /\ rule = 100200
  BY <1>1, <1>7, <1>7a, SeverityByCases, SMT DEF RuleByCases
<1> HIDE DEF x, rule
<1>8. ViewsAgree'
  <2>1. /\ Level[rule] > 0 <=> x >= 4
        /\ x = 5 => Level[rule] >= 12
    BY <1>7a, <1>7b, Levels, SMT
  <2>2. last'.rule = rule /\ last'.finding.severity_id = x
    BY <1>4, <1>5, SMT DEF rule, x
  <2>3. last'.finding.is_alert <=> a.class # "normal"
    BY <1>6, Zenon
  <2>4. Suppressed' <=> a.class # "normal" /\ Level[rule] = 0
    BY <2>2, <2>3, Zenon DEF Suppressed
  <2>5. a.class # "normal" /\ Level[rule] = 0 <=>
            a.class = "intrusion" /\ a.confidence < 90 /\ a.pacs_event_status # "missing"
    BY <1>7a, <1>7b, Levels, SMT
  <2>6. x = 3 <=> a.class # "normal" /\ Level[rule] = 0 /\ a.confidence >= 60
    BY <1>7a, <1>7b, Levels, SMT
  <2>7. /\ Level[last'.rule] > 0 <=> last'.finding.severity_id >= 4
        /\ last'.finding.severity_id = 5 => Level[last'.rule] >= 12
    BY <2>1, <2>2, SMT
  <2>8. Suppressed' <=> /\ last'.alert.class = "intrusion"
                        /\ last'.alert.confidence < 90
                        /\ last'.alert.pacs_event_status # "missing"
    BY <1>2, <2>4, <2>5, Zenon
  <2>9. last'.finding.severity_id = 3 <=> Suppressed' /\ last'.alert.confidence >= 60
    BY <1>2, <2>2, <2>4, <2>6, Zenon
  <2> QED BY <2>7, <2>8, <2>9, SMT DEF ViewsAgree
<1>9. EscalationExact'
  <2>1. rule = 100211 <=> /\ since <= Timeframe /\ a.class = "intrusion"
                          /\ a.confidence >= 90 /\ a.pacs_event_status # "missing"
    BY <1>7a, <1>7b, SMT
  <2>2. last'.rule = rule
    BY <1>4, SMT DEF rule
  <2>3. last'.recent <=> since <= Timeframe
    BY <1>3, Zenon
  <2>4. last'.rule = 100211 <=> /\ since <= Timeframe
                                /\ last'.alert.class = "intrusion"
                                /\ last'.alert.confidence >= 90
                                /\ last'.alert.pacs_event_status # "missing"
    BY <1>2, <2>1, <2>2, SMT
  <2> QED BY <2>3, <2>4, SMT DEF EscalationExact
<1> QED BY <1>8, <1>9 DEF SocInv

\* The invariant holds in every reachable state.
THEOREM SocInvariant == Spec => []SocInv
<1>1. Init => SocInv
  BY DEF Init, SocInv, ViewsAgree, EscalationExact
<1>2. SocInv /\ [Next]_vars => SocInv'
  <2> SUFFICES ASSUME SocInv, [Next]_vars PROVE SocInv'
    OBVIOUS
  <2>1. CASE last' = last
    BY <2>1 DEF SocInv, ViewsAgree, Suppressed, EscalationExact
  <2>2. CASE last' = NONE
    BY <2>2 DEF SocInv, ViewsAgree, EscalationExact
  <2> QED BY <2>1, <2>2, MapAlertInv DEF Next, vars, AuthAnomaly, Tick, RejectAlert
<1> QED BY <1>1, <1>2, PTL DEF Spec

\* For every alert, Wazuh raises it exactly when OCSF rates it high or critical, and
\* what OCSF alone calls an alert is an intrusion below 90 percent with no missing
\* badge event.
THEOREM TheTwoViewsAgree == Spec => []ViewsAgree
<1>1. SocInv => ViewsAgree
  BY DEF SocInv
<1> QED BY <1>1, SocInvariant, PTL

\* For every timeframe, the composite incident is raised for exactly the
\* confident intrusions with no missing badge event that follow an anomaly.
THEOREM EscalationIsExact == Spec => []EscalationExact
<1>1. SocInv => EscalationExact
  BY DEF SocInv
<1> QED BY <1>1, SocInvariant, PTL
=============================================================================
