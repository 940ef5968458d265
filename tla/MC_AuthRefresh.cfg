CONSTANTS
    u1 = u1
    q1 = q1
    q2 = q2
    Emails <- MCEmails
    Reqs <- MCReqs
    MaxTokens = 3
    Outcomes = {"ok", "err"}
SPECIFICATION Spec
INVARIANTS
    RefreshSingleUse
CHECK_DEADLOCK FALSE
