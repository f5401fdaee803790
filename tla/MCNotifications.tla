-------------------------- MODULE MCNotifications ---------------------------
(* Notifications with the bounds of Notifications_late.cfg. *)
EXTENDS Notifications
=============================================================================
