--------------------------- MODULE MCNotifications ---------------------------
(* A custom plugin that listens to the events' own names, rabbitmq and the
   websocket plugin; two transaction events and two states; one client. *)
EXTENDS Notifications

CONSTANTS ws, custom, rabbitmq

MCEnabled == <<custom, rabbitmq, ws>>
=============================================================================
