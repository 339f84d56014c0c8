CONSTANTS
    Alerts <- MCAlerts
    Timeframe = 2
    NONE = NONE
SPECIFICATION Spec
INVARIANTS ViewsAgree EscalationExact
