--------------------------- MODULE SseStreamProofs ---------------------------
(* The registry of stream clients, for all streams and notifications.        *)
EXTENDS SseStream, TLAPS

(* The types of SseStream hold at the start and are kept by every step. *)
LEMMA TypesKept ==
  ASSUME TypeOK, [Next]_vars
  PROVE  TypeOK'
<1> USE ConstantsAssumption DEF TypeOK, Unread, Open, Fault, Write, Gone, Others
<1>1. ASSUME NEW s \in Streams, AddSseClient(s) PROVE TypeOK'
  BY <1>1 DEF AddSseClient
<1>2. ASSUME NEW s \in Streams, GetUnreadNotifications(s) PROVE TypeOK'
  BY <1>2 DEF GetUnreadNotifications
<1>3. ASSUME NEW s \in Streams, StartTimers(s) PROVE TypeOK'
  BY <1>3 DEF StartTimers
<1>4. ASSUME NEW s \in Streams, PollRead(s) PROVE TypeOK'
  BY <1>4 DEF PollRead
<1>5. ASSUME NEW s \in Streams, PollWrite(s) PROVE TypeOK'
  BY <1>5 DEF PollWrite
<1>6. ASSUME NEW s \in Streams, Close(s) PROVE TypeOK'
  BY <1>6 DEF Close
<1>7. ASSUME NEW n \in Notifications, CreateNotification(n) \/ ReadNotification(n) PROVE TypeOK'
  BY <1>7 DEF CreateNotification, ReadNotification
<1>8. ASSUME NEW n \in Notifications, Publish(n) PROVE TypeOK'
  BY <1>8 DEF Publish
<1>9. CASE SubscribeNotificationChannel \/ Disconnect \/ Reconnect
  BY <1>9 DEF SubscribeNotificationChannel, Disconnect, Reconnect
<1>10. CASE Shutdown
  BY <1>10 DEF Shutdown
<1>11. CASE Exit \/ Kill
  BY <1>11 DEF Exit, Kill
<1>12. CASE UNCHANGED vars
  BY <1>12 DEF vars
<1> QED
  BY <1>1, <1>2, <1>3, <1>4, <1>5, <1>6, <1>7, <1>8, <1>9, <1>10, <1>11, <1>12
     DEF Next, HandlerStep

(* What the registry rests on: a stream whose handler has not set its close
   handler yet is registered, and those that closed too early are closed. *)
Registered ==
  /\ RegistryFollows
  /\ \A s \in Streams : handler[s] \in {"loading", "loaded"} => s \in sseclients
  /\ \A s \in early : conn[s] = "closed"

(* Steps that touch neither connections nor handlers nor the registry. *)
LEMMA OthersKeepRegistry ==
  ASSUME Registered, TypeOK', UNCHANGED <<sseclients, conn, handler, early>>
  PROVE  Registered'
BY DEF Registered, RegistryFollows, Open

(* No step takes an open stream out of the registry or leaves one in it that
   its close handler saw close. *)
LEMMA RegistryKept ==
  ASSUME Registered, TypeOK', [Next]_vars
  PROVE  Registered'
<1>0. TypeOK
  BY DEF Registered, RegistryFollows
<1> USE <1>0 DEF TypeOK, Registered, RegistryFollows, Open
<1>1. ASSUME NEW s \in Streams, AddSseClient(s) PROVE Registered'
  <2>1. /\ conn[s] = "none" /\ conn' = [conn EXCEPT ![s] = "open"]
        /\ sseclients' = sseclients \cup {s} /\ early' = early
        /\ handler' = [handler EXCEPT ![s] = "loading"]
    BY <1>1 DEF AddSseClient
  <2>2. \A q \in Streams : Open(q)' <=> Open(q) \/ q = s
    BY <2>1
  <2>3. \A q \in early : conn'[q] = "closed"
    BY <2>1
  <2>4. \A q \in Streams : handler'[q] \in {"loading", "loaded"} => q \in sseclients'
    BY <2>1
  <2>5. sseclients' = {q \in Streams : Open(q)'} \cup early'
    BY <2>1, <2>2
  <2> QED
    BY <2>1, <2>3, <2>4, <2>5
<1>2. ASSUME NEW s \in Streams, GetUnreadNotifications(s) PROVE Registered'
  <2>1. CASE conn' = conn /\ early' = early
    BY <1>2, <2>1 DEF GetUnreadNotifications
  <2>2. CASE conn' = [conn EXCEPT ![s] = "closed"] /\ early' = early \cup {s}
    <3>1. s \in sseclients /\ sseclients' = sseclients /\ handler[s] = "loading"
      BY <1>2 DEF GetUnreadNotifications
    <3>2. \A q \in Streams : Open(q)' <=> Open(q) /\ q # s
      BY <2>2
    <3>3. \A q \in Streams : handler'[q] \in {"loading", "loaded"} => q \in sseclients'
      BY <1>2, <3>1 DEF GetUnreadNotifications
    <3>4. \A q \in early' : conn'[q] = "closed"
      BY <2>2
    <3>5. sseclients' = {q \in Streams : Open(q)'} \cup early'
      BY <2>2, <3>1, <3>2
    <3> QED
      BY <3>3, <3>4, <3>5
  <2> QED
    BY <1>2, <2>1, <2>2 DEF GetUnreadNotifications
<1>3. ASSUME NEW s \in Streams, StartTimers(s) PROVE Registered'
  <2>1. UNCHANGED <<sseclients, conn, early>> /\ handler' = [handler EXCEPT ![s] = "serving"]
    BY <1>3 DEF StartTimers
  <2> QED
    BY <2>1
<1>4. ASSUME NEW s \in Streams, Close(s) PROVE Registered'
  <2>1. conn[s] = "open" /\ conn' = [conn EXCEPT ![s] = "closed"]
    BY <1>4 DEF Close
  <2>2. \A q \in Streams : Open(q)' <=> Open(q) /\ q # s
    BY <2>1
  <2>3. CASE /\ handler[s] = "serving" /\ handler' = [handler EXCEPT ![s] = "ended"]
             /\ sseclients' = sseclients \ {s} /\ early' = early
    <3>1. s \notin early
      BY <2>1
    <3>2. sseclients' = {q \in Streams : Open(q)'} \cup early'
      BY <2>2, <2>3, <3>1
    <3>3. \A q \in early' : conn'[q] = "closed"
      BY <2>1, <2>3
    <3>4. \A q \in Streams : handler'[q] \in {"loading", "loaded"} => q \in sseclients'
      BY <2>3
    <3> QED
      BY <3>2, <3>3, <3>4
  <2>4. CASE early' = early \cup {s} /\ UNCHANGED <<handler, sseclients>>
    <3>1. s \in sseclients
      BY <2>1
    <3>2. sseclients' = {q \in Streams : Open(q)'} \cup early'
      BY <2>2, <2>4, <3>1
    <3>3. \A q \in early' : conn'[q] = "closed"
      BY <2>1, <2>4
    <3> QED
      BY <2>4, <3>2, <3>3
  <2> QED
    BY <1>4, <2>3, <2>4 DEF Close
<1>5. CASE Exit \/ Kill
  BY <1>5 DEF Exit, Kill, Gone
<1>6. CASE UNCHANGED <<sseclients, conn, handler, early>>
  BY <1>6, OthersKeepRegistry
<1> QED
  BY <1>1, <1>2, <1>3, <1>4, <1>5, <1>6
     DEF Next, HandlerStep, PollRead, PollWrite, CreateNotification, ReadNotification, Publish,
         SubscribeNotificationChannel, Disconnect, Reconnect, Shutdown, Others, vars

(* notification.controller.ts and notification-sse.service.ts: for any number
   of streams, failures and shutdowns, an open stream is registered, and one
   that has closed is registered only if its handler could not see it close. *)
THEOREM RegistryIsExact == Spec => []RegistryFollows
<1>1. Init => Registered
  BY ConstantsAssumption DEF Init, Registered, RegistryFollows, TypeOK, Open
<1>2. Registered /\ [Next]_vars => Registered'
  BY TypesKept, RegistryKept DEF Registered, RegistryFollows
<1>3. Registered => RegistryFollows
  BY DEF Registered
<1> QED
  BY <1>1, <1>2, <1>3, PTL DEF Spec
=============================================================================
