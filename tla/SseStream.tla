----------------------------- MODULE SseStream -----------------------------
(***************************************************************************)
(* The event streams of one user at one server process, and the            *)
(* notifications they show (notification.controller.ts,                    *)
(* notification-sse.service.ts, notification-realtime.service.ts,          *)
(* server.ts).                                                             *)
(*                                                                         *)
(* A notification reaches a stream on two ways: a message published to     *)
(* Redis is written to all registered streams of the user when it arrives, *)
(* and is lost when the process is not listening; and each stream reads    *)
(* all unread notifications when it opens and every 30 s after.  Between   *)
(* the query and the write of its result other things happen.              *)
(***************************************************************************)
EXTENDS Naturals

CONSTANTS
  Streams,        \* connections the user's browsers open
  Notifications,  \* notifications of the user
  MaxFaults       \* bound: failing queries

ASSUME ConstantsAssumption == MaxFaults \in Nat

VARIABLES
  row,         \* row[n]: "NONE" before the notification exists
  subscriber,  \* the subscription of the process to the channel
  server,      \* "up", "stopping" from the signal on, "exited"
  sseclients,  \* registered streams
  conn,        \* conn[s]: the connection
  handler,     \* handler[s]: how far streamUnreadNotifications has come
  polling,     \* streams whose timer has read and not written yet
  snapshot,    \* snapshot[s]: what handler or timer read
  shown,       \* shown[s]: notifications written to the open connection
  faults,      \* queries that failed
  early        \* history: streams that closed before the handler could see it

vars == <<row, subscriber, server, sseclients, conn, handler, polling, snapshot,
          shown, faults, early>>

Unread == {n \in Notifications : row[n] = "UNREAD"}
Open(s) == conn[s] = "open"

Init ==
  /\ row = [n \in Notifications |-> "NONE"]
  /\ subscriber = "subscribing" /\ server = "up"
  /\ sseclients = {}
  /\ conn = [s \in Streams |-> "none"]
  /\ handler = [s \in Streams |-> "none"]
  /\ polling = {}
  /\ snapshot = [s \in Streams |-> {}]
  /\ shown = [s \in Streams |-> {}]
  /\ faults = 0 /\ early = {}

Fault == faults < MaxFaults /\ faults' = faults + 1

----------------------------------------------------------------------------
(* streamUnreadNotifications.                                               *)

\* The headers are sent and the stream is registered before the first await.
AddSseClient(s) ==
  /\ server = "up" /\ conn[s] = "none"
  /\ conn' = [conn EXCEPT ![s] = "open"]
  /\ sseclients' = sseclients \cup {s}
  /\ handler' = [handler EXCEPT ![s] = "loading"]
  /\ UNCHANGED <<row, subscriber, server, polling, snapshot, shown, faults, early>>

\* When the query fails the error handler cannot answer any more, and Express
\* destroys the connection.
GetUnreadNotifications(s) ==
  /\ handler[s] = "loading"
  /\ \/ /\ handler' = [handler EXCEPT ![s] = "loaded"]
        /\ snapshot' = [snapshot EXCEPT ![s] = Unread]
        /\ UNCHANGED <<conn, faults, early>>
     \/ /\ Fault
        /\ handler' = [handler EXCEPT ![s] = "failed"]
        /\ conn' = [conn EXCEPT ![s] = "closed"]
        /\ early' = early \cup {s}
        /\ UNCHANGED snapshot
  /\ UNCHANGED <<row, subscriber, server, sseclients, polling, shown>>

Write(s) == shown' = IF Open(s) THEN [shown EXCEPT ![s] = @ \cup snapshot[s]] ELSE shown

\* The list is written, both timers start, and from now on the handler sees
\* the connection close.
StartTimers(s) ==
  /\ handler[s] = "loaded"
  /\ handler' = [handler EXCEPT ![s] = "serving"]
  /\ Write(s)
  /\ UNCHANGED <<row, subscriber, server, sseclients, conn, polling, snapshot, faults, early>>

\* Mutant: a failing query ends the timer.
PollReadOnce(s) ==
  /\ handler[s] = "serving" /\ s \notin polling
  /\ \/ /\ polling' = polling \cup {s}
        /\ snapshot' = [snapshot EXCEPT ![s] = Unread]
        /\ UNCHANGED <<faults, handler>>
     \/ /\ Fault /\ UNCHANGED <<polling, snapshot>>
        /\ handler' = [handler EXCEPT ![s] = "ended"]
  /\ UNCHANGED <<row, subscriber, server, sseclients, conn, shown, early>>

\* The timer fires; an error is logged.
PollRead(s) ==
  /\ handler[s] = "serving" /\ s \notin polling
  /\ \/ /\ polling' = polling \cup {s}
        /\ snapshot' = [snapshot EXCEPT ![s] = Unread]
        /\ UNCHANGED faults
     \/ Fault /\ UNCHANGED <<polling, snapshot>>
  /\ UNCHANGED <<row, subscriber, server, sseclients, conn, handler, shown, early>>

\* A result that comes after the connection closed is written to nobody.
PollWrite(s) ==
  /\ s \in polling
  /\ polling' = polling \ {s}
  /\ Write(s)
  /\ UNCHANGED <<row, subscriber, server, sseclients, conn, handler, snapshot, faults, early>>

\* Mutant: removeSseClient deletes the entry of the user.
CloseAll(s) ==
  /\ Open(s)
  /\ conn' = [conn EXCEPT ![s] = "closed"]
  /\ IF handler[s] = "serving"
     THEN /\ handler' = [handler EXCEPT ![s] = "ended"]
          /\ sseclients' = {}
          /\ UNCHANGED early
     ELSE early' = early \cup {s} /\ UNCHANGED <<handler, sseclients>>
  /\ UNCHANGED <<row, subscriber, server, polling, snapshot, shown, faults>>

\* The client goes away.  A handler that is still loading does not notice, and
\* starts its timers later.
Close(s) ==
  /\ Open(s)
  /\ conn' = [conn EXCEPT ![s] = "closed"]
  /\ IF handler[s] = "serving"
     THEN /\ handler' = [handler EXCEPT ![s] = "ended"]
          /\ sseclients' = sseclients \ {s}
          /\ UNCHANGED early
     ELSE early' = early \cup {s} /\ UNCHANGED <<handler, sseclients>>
  /\ UNCHANGED <<row, subscriber, server, polling, snapshot, shown, faults>>

----------------------------------------------------------------------------
(* Notifications and the channel.                                           *)

Others == <<server, sseclients, conn, handler, polling, snapshot, faults, early>>

CreateNotification(n) ==
  /\ row[n] = "NONE"
  /\ row' = [row EXCEPT ![n] = "UNREAD"]
  /\ UNCHANGED <<Others, subscriber, shown>>

\* readNotification, by this or another browser of the user.
ReadNotification(n) ==
  /\ row[n] = "UNREAD"
  /\ row' = [row EXCEPT ![n] = "READ"]
  /\ UNCHANGED <<Others, subscriber, shown>>

\* Any process publishes, perhaps again and perhaps late; emitToUser of this
\* process writes to the streams that are registered then.
Publish(n) ==
  /\ row[n] # "NONE" /\ subscriber = "listening" /\ server # "exited"
  /\ shown' = [s \in Streams |-> IF s \in sseclients /\ Open(s) THEN shown[s] \cup {n}
                                                               ELSE shown[s]]
  /\ UNCHANGED <<Others, row, subscriber>>

\* subscribeNotificationChannel: the listener is set when the subscription is
\* confirmed.  If it is refused nobody tries again.  The client reconnects by
\* itself; what is published meanwhile is lost.
SubscribeNotificationChannel ==
  /\ subscriber = "subscribing"
  /\ subscriber' \in {"listening", "deaf"}
  /\ UNCHANGED <<Others, row, shown>>

Disconnect ==
  /\ subscriber = "listening" /\ subscriber' = "lost"
  /\ UNCHANGED <<Others, row, shown>>

Reconnect ==
  /\ subscriber = "lost" /\ subscriber' = "listening"
  /\ UNCHANGED <<Others, row, shown>>

----------------------------------------------------------------------------
(* Shutdown: no new connections, and exit when the last one has closed,     *)
(* which nobody but the clients does.  Docker does not wait for ever.       *)

Shutdown ==
  /\ server = "up" /\ server' = "stopping"
  /\ UNCHANGED <<row, subscriber, sseclients, conn, handler, polling, snapshot, shown, faults, early>>

\* With the process everything in its memory goes.
Gone ==
  /\ server' = "exited"
  /\ sseclients' = {} /\ polling' = {} /\ early' = {}
  /\ conn' = [s \in Streams |-> "closed"]
  /\ handler' = [s \in Streams |-> "ended"]
  /\ UNCHANGED <<row, subscriber, snapshot, shown, faults>>

Exit == server = "stopping" /\ (\A s \in Streams : ~Open(s)) /\ Gone
Kill == server = "stopping" /\ Gone

----------------------------------------------------------------------------
HandlerStep(s) == GetUnreadNotifications(s) \/ StartTimers(s)

Next ==
  \/ \E s \in Streams : AddSseClient(s) \/ HandlerStep(s) \/ PollRead(s) \/ PollWrite(s) \/ Close(s)
  \/ \E n \in Notifications : CreateNotification(n) \/ ReadNotification(n) \/ Publish(n)
  \/ SubscribeNotificationChannel \/ Disconnect \/ Reconnect
  \/ Shutdown \/ Exit \/ Kill

Spec == Init /\ [][Next]_vars

\* Queries end and the interval fires again; nothing is assumed of Redis, of
\* the clients or of the shutdown.
Fairness ==
  \A s \in Streams : WF_vars(HandlerStep(s)) /\ WF_vars(PollRead(s)) /\ WF_vars(PollWrite(s))

FairSpec == Spec /\ Fairness

----------------------------------------------------------------------------
(* Properties.                                                              *)

TypeOK ==
  /\ row \in [Notifications -> {"NONE", "UNREAD", "READ"}]
  /\ subscriber \in {"subscribing", "listening", "lost", "deaf"}
  /\ server \in {"up", "stopping", "exited"}
  /\ sseclients \subseteq Streams /\ polling \subseteq Streams /\ early \subseteq Streams
  /\ conn \in [Streams -> {"none", "open", "closed"}]
  /\ handler \in [Streams -> {"none", "loading", "loaded", "serving", "ended", "failed"}]
  /\ snapshot \in [Streams -> SUBSET Notifications]
  /\ shown \in [Streams -> SUBSET Notifications]
  /\ faults \in 0 .. MaxFaults

\* The map of clients follows the connections: an open stream is registered,
\* whatever becomes of the user's other streams, and one that has closed is
\* not, unless it closed before its close handler was set, in which case it
\* stays for as long as the process runs (notification.controller.ts:16-39).
RegistryFollows ==
  /\ TypeOK
  /\ sseclients = {s \in Streams : Open(s)} \cup early

\* A stream that stays open shows every notification that stays unread, though
\* messages are lost, the subscription may never be made and queries fail: the
\* poll makes up for all of it (notification.controller.ts:24-31).
EventuallyShown ==
  \A s \in Streams, n \in Notifications :
    (Open(s) /\ row[n] = "UNREAD") ~> (n \in shown[s] \/ ~Open(s) \/ row[n] = "READ")
=============================================================================
