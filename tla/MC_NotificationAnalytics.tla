----------------------- MODULE MC_NotificationAnalytics -----------------------
(* The reminder pipeline through notification-service and analytics-service *)
(* with two due events.                                                     *)
EXTENDS NotificationAnalytics

CONSTANTS e1, e2

MCEvents == {e1, e2}
=============================================================================
