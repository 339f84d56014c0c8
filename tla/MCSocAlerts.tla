----------------------------- MODULE MCSocAlerts -----------------------------
(* Alerts for TLC: every combination of the members that the rules read, with *)
(* confidences on both sides of both thresholds, and one of each other fault. *)
EXTENDS SocAlerts

Shaped == [keys : {_REQUIRED_FIELDS, _REQUIRED_FIELDS \cup {"seq"}}, malformed : {{}},
           class : _CLASSES, confidence : {59, 60, 89, 90, 100},
           confidence_level : {"low", "borderline", "high"},
           pacs_event_status : _PACS_STATUSES,
           reader_id : BOOLEAN, event_id : BOOLEAN]

Sample == CHOOSE a \in Shaped : a.class = "intrusion" /\ validate_alert(a)

MCAlerts == Shaped \cup
    {[Sample EXCEPT !.keys = @ \ {"zone_id"}],
     [Sample EXCEPT !.keys = @ \cup {"raw_csi_hash"}],
     [Sample EXCEPT !.malformed = {"ts_utc"}],
     [Sample EXCEPT !.class = "other"],
     [Sample EXCEPT !.confidence = 101],
     [Sample EXCEPT !.pacs_event_status = "other"]}
=============================================================================
