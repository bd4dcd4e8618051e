----------------------- MODULE MCNotificationDelivery -----------------------
(* NotificationDelivery for TLC; the constants are given in the .cfg files. *)
EXTENDS NotificationDelivery

=============================================================================
