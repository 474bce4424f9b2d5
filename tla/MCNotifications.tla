--------------------------- MODULE MCNotifications ---------------------------
(* Instances of Notifications for TLC; the .cfg files give the constants. *)
EXTENDS Notifications
=============================================================================
