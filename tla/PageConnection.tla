--------------------------- MODULE PageConnection ---------------------------
(***************************************************************************)
(* The connection of a page (websocket.service.ts): its socket, the timers *)
(* that ask whether the server still answers, and the retry.  Dashboard    *)
(* merges all this into Connects and GoesOffline.  The socket never ends   *)
(* without an error: the server closes none.                               *)
(***************************************************************************)
EXTENDS Naturals

VARIABLES
  socket,      \* of the current websocketSubject: connecting, open, down
  alive,       \* the network still carries what an open socket sends (external)
  goneOffline,
  pingTimer,   \* onlineCheckTimeout is set
  pongTimer,   \* onlineCheckTimeoutTwo is set
  retries,     \* the timeouts of goOffline() that have not fired
  heard        \* history: a message has come over this socket

vars == <<socket, alive, goneOffline, pingTimer, pongTimer, retries, heard>>

Init ==
  /\ socket = "connecting" /\ alive = TRUE /\ goneOffline = FALSE
  /\ pingTimer = FALSE /\ pongTimer = FALSE /\ retries = 0 /\ heard = FALSE

-----------------------------------------------------------------------------
(* The network. *)
Opens ==
  /\ socket = "connecting"
  /\ socket' = "open" /\ alive' = TRUE
  /\ UNCHANGED <<goneOffline, pingTimer, pongTimer, retries, heard>>
LinkDies ==
  /\ socket = "open" /\ alive
  /\ alive' = FALSE
  /\ UNCHANGED <<socket, goneOffline, pingTimer, pongTimer, retries, heard>>

-----------------------------------------------------------------------------
GoOffline ==
  /\ goneOffline' = TRUE
  /\ retries' = retries + 1
  /\ socket' = "down"
  /\ UNCHANGED <<alive, heard>>

(* The error callback of the subscription. *)
Fails ==
  /\ socket \in {"connecting", "open"}
  /\ GoOffline
  /\ UNCHANGED <<pingTimer, pongTimer>>

StartOnlineCheck_WhenBack ==
  /\ pingTimer' = (pingTimer \/ goneOffline)
  /\ pongTimer' = FALSE
StartOnlineCheck ==
  /\ pingTimer' = TRUE
  /\ pongTimer' = FALSE

(* Any message: the end of an outage, and the timers start again. *)
Hears ==
  /\ socket = "open" /\ alive
  /\ goneOffline' = FALSE
  /\ StartOnlineCheck
  /\ heard' = TRUE
  /\ UNCHANGED <<socket, alive, retries>>

(* The ping; it is lost unless the socket is open. *)
PingFires ==
  /\ pingTimer
  /\ pingTimer' = FALSE
  /\ pongTimer' = TRUE
  /\ UNCHANGED <<socket, alive, goneOffline, retries, heard>>

PongFires_Unguarded ==
  /\ pongTimer
  /\ pongTimer' = FALSE
  /\ GoOffline
  /\ UNCHANGED pingTimer
(* No answer in time: unless an outage is known already. *)
PongFires ==
  /\ pongTimer
  /\ pongTimer' = FALSE
  /\ IF goneOffline THEN UNCHANGED <<socket, alive, goneOffline, retries, heard>> ELSE GoOffline
  /\ UNCHANGED pingTimer

(* reconnectWebsocket(true): the old subject is left, whatever its state. *)
RetryFires ==
  /\ retries > 0
  /\ retries' = retries - 1
  /\ socket' = "connecting" /\ alive' = TRUE /\ heard' = FALSE
  /\ UNCHANGED <<goneOffline, pingTimer, pongTimer>>

Next == Opens \/ LinkDies \/ Fails \/ Hears \/ PingFires \/ PongFires \/ RetryFires

(* Timers fire.  A page that tries again and again is let in and answered.
   No timer watches a connection that has never been heard: what it sent is
   lost with the link, which the transport reports. *)
FirstFails == ~alive /\ ~heard /\ Fails
Fairness ==
  /\ WF_vars(PingFires) /\ WF_vars(PongFires) /\ WF_vars(RetryFires)
  /\ SF_vars(Opens) /\ SF_vars(Hears) /\ WF_vars(FirstFails)
Spec == Init /\ [][Next]_vars /\ Fairness

-----------------------------------------------------------------------------
(* An outage has one retry under way, and a connection that works is never
   replaced by a retry that was left over. *)
OneReconnect == retries = IF socket = "down" THEN 1 ELSE 0

(* Whatever fails, and in whatever order the timers fire, the page is
   connected again: a dead link is noticed, and an outage ends. *)
Online == socket = "open" /\ alive /\ ~goneOffline
PageRecovers == []<>Online
=============================================================================
