--------------------------- MODULE EventSubProofs ---------------------------
(***************************************************************************)
(* Proofs about the Twitch connection, for any number of sockets,          *)
(* subscription types, messages and faults: nothing outlives its           *)
(* connection, no stale marker survives into a new one, no message and no  *)
(* revocation is lost except where the code gives it up.                   *)
(***************************************************************************)
EXTENDS EventSub, TLAPS

\* The required types are the elements of the list they are posted from.
LEMMA PostedType ==
  ASSUME TypeOK, main = "subscribe"
  PROVE  /\ Types[posted + 1] \in Required
         /\ posted + 1 \in 0..Len(Types)
         /\ posted + 1 # Len(Types) => posted + 1 < Len(Types)
  BY TypesAssumption DEF TypeOK, Required, ToSet

\* What is in a sequence stays in it when something is appended.
LEMMA ContainsAppend ==
  ASSUME NEW s \in Seq(Message), NEW m \in Message, NEW e
  PROVE  /\ Contains(s, e) => Contains(Append(s, m), e)
         /\ Contains(Append(s, m), m)
  <1>1. Len(Append(s, m)) = Len(s) + 1 /\ Append(s, m)[Len(s) + 1] = m
    OBVIOUS
  <1>2. \A i \in 1..Len(s) : Append(s, m)[i] = s[i]
    OBVIOUS
  <1> QED
    BY <1>1, <1>2 DEF Contains

\* Taking the head off a sequence loses only the head.
LEMMA ContainsTail ==
  ASSUME NEW s \in Seq(Message), s # << >>, NEW e, Contains(s, e), Head(s) # e
  PROVE  Contains(Tail(s), e)
  <1>1. PICK i \in 1..Len(s) : s[i] = e
    BY DEF Contains
  <1>2. i # 1
    BY <1>1
  <1>3. i - 1 \in 1..Len(Tail(s)) /\ Tail(s)[i - 1] = s[i]
    BY <1>2
  <1> QED
    BY <1>1, <1>3 DEF Contains

\* The initial states satisfy the invariant.
LEMMA InitIInv == Init => IInv
  <1> SUFFICES ASSUME Init PROVE IInv
    OBVIOUS
  <1>1. cur \in Conn
    BY ConnAssumption DEF Init
  <1>2. inbox \in [Conn -> Seq(Message)]
    BY DEF Init
  <1>3. posted \in 0..Len(Types) /\ backoff \in 1..(2 * Minute) /\ faults \in 0..MaxFaults
    BY MinuteAssumption, BoundAssumption, TypesAssumption DEF Init
  <1>4. TypeOK
    BY <1>1, <1>2, <1>3 DEF Init, TypeOK, Main
  <1> QED
    BY <1>4 DEF Init, IInv, NothingLeaks, Open, Running, NotReadyWhileConnecting,
                SocketInv, MarkInv, DeafnessIsNoticed

----------------------------------------------------------------------------
(* Types *)

\* A fault leaves the budget a natural number.
LEMMA FaultType ==
  ASSUME TypeOK, Fault \/ UNCHANGED faults
  PROVE  faults' \in 0..MaxFaults
  BY BoundAssumption DEF TypeOK, Fault

\* The steps of the main goroutine keep the types.
LEMMA TypeMain == TypeOK /\ MainStep => TypeOK'
  <1> SUFFICES ASSUME TypeOK, MainStep PROVE TypeOK'
    OBVIOUS
  <1> USE DEF TypeOK, Main, Message
  <1>1. CASE Restart
    BY <1>1, MinuteAssumption DEF Restart, sockets, twitch
  <1>2. CASE BackoffEnds
    BY <1>2, MinuteAssumption DEF BackoffEnds, sockets, twitch
  <1>3. CASE RemoveMarker
    <2>1. faults' \in 0..MaxFaults
      BY <1>3, FaultType DEF RemoveMarker
    <2>2. marker' \in BOOLEAN
      BY <1>3 DEF RemoveMarker
    <2> QED
      BY <1>3, <2>1, <2>2 DEF RemoveMarker, sockets, twitch
  <1>4. CASE DialWelcome
    <2>1. faults' \in 0..MaxFaults
      BY <1>4, FaultType DEF DialWelcome
    <2>2. \A s \in subs : <<s[1], "dead">> \in Required \X {"live", "dead"}
      OBVIOUS
    <2>3. subs' \subseteq Required \X {"live", "dead"}
      BY <1>4, <2>2 DEF DialWelcome
    <2>4. \A c \in Conn : [inbox EXCEPT ![c] = << >>] \in [Conn -> Seq(Message)]
      <3>1. << >> \in Seq(Message)
        OBVIOUS
      <3> HIDE DEF Message
      <3> QED
        BY <3>1
    <2>5. inbox' \in [Conn -> Seq(Message)]
      <3>1. \/ UNCHANGED inbox
            \/ \E c \in Conn : inbox' = [inbox EXCEPT ![c] = << >>]
        BY <1>4 DEF DialWelcome, Free
      <3> HIDE DEF Message
      <3> QED
        BY <2>4, <3>1
    <2>6. missed' \in BOOLEAN
      BY <1>4 DEF DialWelcome
    <2> QED
      BY <1>4, <2>1, <2>3, <2>5, <2>6 DEF DialWelcome, Free
  <1>5. CASE DeleteRequiredSubscriptions
    BY <1>5, BoundAssumption, TypesAssumption
    DEF DeleteRequiredSubscriptions, Fault, CloseAndReturn
  <1>6. CASE Subscribe
    <2>1. main = "subscribe"
      BY <1>6 DEF Subscribe
    <2>2. /\ Types[posted + 1] \in Required
          /\ posted + 1 \in 0..Len(Types)
          /\ posted + 1 # Len(Types) => posted + 1 < Len(Types)
      BY <2>1, PostedType
    <2>3. faults' \in 0..MaxFaults
      BY <1>6, FaultType DEF Subscribe
    <2>4. subs' \subseteq Required \X {"live", "dead"}
      BY <1>6, <2>2 DEF Subscribe
    <2> HIDE DEF Required
    <2> QED
      BY <1>6, <2>2, <2>3, <2>4 DEF Subscribe, CloseAndReturn
  <1>7. CASE VerifyRequiredSubscriptions
    BY <1>7, BoundAssumption DEF VerifyRequiredSubscriptions, Fault, CloseAndReturn
  <1>8. CASE WriteReadyMarker
    <2>1. faults' \in 0..MaxFaults
      BY <1>8, FaultType DEF WriteReadyMarker
    <2>2. marker' \in BOOLEAN
      BY <1>8 DEF WriteReadyMarker
    <2> QED
      BY <1>8, <2>1, <2>2 DEF WriteReadyMarker, CloseAndReturn, Started
  <1>9. CASE TakeRead
    BY <1>9 DEF TakeRead, twitch
  <1>10. CASE Redial
    <2>1. faults' \in 0..MaxFaults
      BY <1>10, FaultType DEF Redial
    <2> << >> \in Seq(Message)
      OBVIOUS
    <2>2. inbox' \in [Conn -> Seq(Message)]
      BY <1>10 DEF Redial, Free
    <2> QED
      BY <1>10, <2>1, <2>2 DEF Redial, Free, Started
  <1>11. CASE SwapReader
    BY <1>11 DEF SwapReader, Stop, twitch, Revoked
  <1>12. CASE Leave
    BY <1>12 DEF Leave, Stop, twitch
  <1>13. CASE Join
    BY <1>13 DEF Join, sockets, twitch
  <1> QED
    BY <1>1, <1>2, <1>3, <1>4, <1>5, <1>6, <1>7, <1>8, <1>9, <1>10, <1>11, <1>12,
       <1>13 DEF MainStep

\* So do those of the readers and of the world outside.
LEMMA TypeOther == TypeOK /\ [Next]_vars => TypeOK'
  <1> SUFFICES ASSUME TypeOK, [Next]_vars PROVE TypeOK'
    OBVIOUS
  <1>1. CASE MainStep
    BY <1>1, TypeMain
  <1> USE DEF TypeOK, Main, Message, loop, sockets
  <1>2. ASSUME NEW c \in Conn, ReaderStep(c) PROVE TypeOK'
    <2>1. CASE ReaderReceives(c)
      BY <2>1 DEF ReaderReceives
    <2>2. CASE ReaderFails(c) \/ ReaderCancelled(c)
      BY <2>2 DEF ReaderFails, ReaderCancelled, twitch
    <2> QED
      BY <1>2, <2>1, <2>2 DEF ReaderStep
  <1>3. CASE Exit
    <2>1. faults' \in 0..MaxFaults
      BY <1>3, FaultType DEF Exit
    <2>2. inbox' \in [Conn -> Seq(Message)]
      BY <1>3 DEF Exit
    <2> QED
      BY <1>3, <2>1, <2>2 DEF Exit
  <1>4. CASE Notify \/ AskReconnect
    <2>1. faults' \in 0..MaxFaults
      BY <1>4, FaultType DEF Notify, AskReconnect
    <2>2. inbox' \in [Conn -> Seq(Message)]
      <3>1. PICK m \in Message :
              inbox' = [inbox EXCEPT ![cur] = Append(inbox[cur], m)]
        BY <1>4 DEF Notify, AskReconnect, Deliver
      <3>2. Append(inbox[cur], m) \in Seq(Message)
        OBVIOUS
      <3> HIDE DEF Message
      <3> QED
        BY <3>1, <3>2
    <2> QED
      BY <1>4, <2>1, <2>2 DEF Notify, AskReconnect
  <1>5. CASE Revoke
    <2>1. faults' \in 0..MaxFaults
      BY <1>5, FaultType DEF Revoke
    <2>2. PICK s \in subs : subs' = (subs \ {s}) \cup {<<s[1], "dead">>}
      BY <1>5 DEF Revoke
    <2>3. <<s[1], "dead">> \in Required \X {"live", "dead"}
      BY <2>2
    <2>4. subs' \subseteq Required \X {"live", "dead"}
      BY <2>2, <2>3
    <2>5. inbox' \in [Conn -> Seq(Message)]
      BY <1>5 DEF Revoke, Deliver
    <2> QED
      BY <1>5, <2>1, <2>4, <2>5 DEF Revoke
  <1>6. ASSUME NEW c \in Conn, Disconnect(c) PROVE TypeOK'
    BY <1>6, BoundAssumption DEF Disconnect, Fault, twitch
  <1>7. CASE UNCHANGED vars
    BY <1>7 DEF vars
  <1> QED
    BY <1>1, <1>2, <1>3, <1>4, <1>5, <1>6, <1>7 DEF Next

----------------------------------------------------------------------------
(* Sockets, readers and the marker *)

Holding == NothingLeaks /\ NotReadyWhileConnecting /\ SocketInv

\* Every step keeps track of the sockets and the marker.
LEMMA HoldingStep ==
  ASSUME TypeOK, Holding, [Next]_vars
  PROVE  Holding'
  <1> USE DEF TypeOK, Holding, NothingLeaks, NotReadyWhileConnecting, SocketInv, Open, Running
  <1>1. CASE Restart \/ BackoffEnds \/ RemoveMarker
    BY <1>1 DEF Restart, BackoffEnds, RemoveMarker, sockets
  <1>2. CASE DialWelcome
    BY <1>2 DEF DialWelcome, Free
  <1>3. CASE DeleteRequiredSubscriptions
    BY <1>3 DEF DeleteRequiredSubscriptions, CloseAndReturn
  <1>4. CASE Subscribe
    BY <1>4 DEF Subscribe, CloseAndReturn
  <1>5. CASE VerifyRequiredSubscriptions
    BY <1>5 DEF VerifyRequiredSubscriptions, CloseAndReturn
  <1>6. CASE WriteReadyMarker
    BY <1>6 DEF WriteReadyMarker, CloseAndReturn, Started
  <1>7. CASE TakeRead
    BY <1>7 DEF TakeRead, Message
  <1>8. CASE Redial
    BY <1>8 DEF Redial, Free, Started
  <1>9. CASE SwapReader
    BY <1>9 DEF SwapReader, Stop
  <1>10. CASE Leave
    BY <1>10 DEF Leave, Stop
  <1>11. CASE Join
    BY <1>11 DEF Join, sockets
  <1>12. ASSUME NEW c \in Conn, ReaderStep(c) PROVE Holding'
    <2>1. reader[c] \notin {"none", "done"}
      BY <1>12 DEF ReaderStep, ReaderReceives, ReaderFails, ReaderCancelled, Message
    <2>2. \A d \in Conn : reader'[d] \notin {"none", "done"} => reader[d] \notin {"none", "done"}
      BY <1>12, <2>1 DEF ReaderStep, ReaderReceives, ReaderFails, ReaderCancelled
    <2>3. UNCHANGED <<loop, sock, cancelled, marker>>
      BY <1>12 DEF ReaderStep, ReaderReceives, ReaderFails, ReaderCancelled
    <2> QED
      BY <2>2, <2>3 DEF loop
  <1>13. CASE Exit
    BY <1>13 DEF Exit
  <1>14. CASE Notify \/ AskReconnect \/ Revoke
    BY <1>14 DEF Notify, AskReconnect, Revoke, loop, sockets
  <1>15. ASSUME NEW c \in Conn, Disconnect(c) PROVE Holding'
    BY <1>15 DEF Disconnect, loop
  <1>16. CASE UNCHANGED vars
    BY <1>16 DEF vars
  <1> QED
    BY <1>1, <1>2, <1>3, <1>4, <1>5, <1>6, <1>7, <1>8, <1>9, <1>10, <1>11, <1>12,
       <1>13, <1>14, <1>15, <1>16 DEF Next, MainStep

----------------------------------------------------------------------------
(* Subscriptions *)

Hearing == MarkInv /\ DeafnessIsNoticed

\* A reader keeps the notice of a revocation as long as it is neither stopped
\* nor out of its socket.
LEMMA ReaderKeepsNotice ==
  ASSUME TypeOK, NEW c \in Conn, NEW d \in Conn, ReaderStep(c), Revoked(d),
         Open(d), d \notin cancelled
  PROVE  Revoked(d)'
  <1>1. CASE ReaderReceives(c)
    <2>1. CASE c # d
      BY <1>1, <2>1 DEF ReaderReceives, Revoked, TypeOK
    <2>2. CASE c = d
      <3>1. Contains(inbox[d], "revocation") /\ inbox[d] # << >> /\ inbox[d] \in Seq(Message)
        BY <1>1, <2>2 DEF ReaderReceives, Revoked, TypeOK
      <3>2. reader'[d] = Head(inbox[d]) /\ inbox'[d] = Tail(inbox[d])
        BY <1>1, <2>2 DEF ReaderReceives, TypeOK
      <3>3. CASE Head(inbox[d]) = "revocation"
        BY <3>2, <3>3 DEF Revoked
      <3>4. CASE Head(inbox[d]) # "revocation"
        BY <3>1, <3>2, <3>4, ContainsTail DEF Revoked
      <3> QED
        BY <3>3, <3>4
    <2> QED
      BY <2>1, <2>2
  <1>2. CASE ReaderFails(c)
    BY <1>2 DEF ReaderFails, Revoked, Open, TypeOK, twitch, Contains
  <1>3. CASE ReaderCancelled(c)
    BY <1>3 DEF ReaderCancelled, Revoked, TypeOK, twitch
  <1> QED
    BY <1>1, <1>2, <1>3 DEF ReaderStep

\* A message more does not hide a notice.
LEMMA DeliverKeepsNotice ==
  ASSUME TypeOK, NEW c \in Conn, NEW d \in Conn, NEW m \in Message, Deliver(c, m),
         reader' = reader
  PROVE  /\ Revoked(d) => Revoked(d)'
         /\ m = "revocation" => Revoked(c)'
  <1>1. inbox[c] \in Seq(Message) /\ inbox' = [inbox EXCEPT ![c] = Append(@, m)]
    BY DEF Deliver, TypeOK
  <1>2. inbox'[c] = Append(inbox[c], m) /\ (d # c => inbox'[d] = inbox[d])
    BY <1>1 DEF TypeOK
  <1> QED
    BY <1>1, <1>2, ContainsAppend DEF Revoked

\* Every step keeps the daemon informed about its subscriptions.
LEMMA HearingStep ==
  ASSUME TypeOK, Holding, Hearing, [Next]_vars
  PROVE  Hearing'
  <1> USE DEF Hearing, MarkInv, DeafnessIsNoticed
  <1>1. CASE Restart \/ BackoffEnds \/ RemoveMarker \/ Leave
    BY <1>1 DEF Restart, BackoffEnds, RemoveMarker, Leave
  <1>2. CASE DialWelcome \/ DeleteRequiredSubscriptions \/ Subscribe
    BY <1>2 DEF DialWelcome, DeleteRequiredSubscriptions, Subscribe, CloseAndReturn
  <1>3. CASE VerifyRequiredSubscriptions
    BY <1>3 DEF VerifyRequiredSubscriptions, CloseAndReturn, Verified
  <1>4. CASE WriteReadyMarker
    <2>1. reader[cur] # "revocation"
      BY <1>4 DEF WriteReadyMarker, Holding, NothingLeaks, Running, TypeOK
    <2> QED
      BY <1>4, <2>1 DEF WriteReadyMarker, CloseAndReturn, Verified, Revoked
  <1>5. CASE TakeRead
    <2>1. Verified' = Verified /\ inbox' = inbox /\ cur' = cur /\ missed' = missed
      BY <1>5 DEF TakeRead, twitch, Verified
    <2>2. reader[cur] = "revocation" => main' = "leave"
      BY <1>5 DEF TakeRead
    <2> QED
      BY <1>5, <2>1, <2>2 DEF TakeRead, Revoked
  <1>6. CASE Redial
    <2>1. cur \notin Free
      BY <1>6 DEF Redial, Holding, SocketInv, Free, Open
    <2> QED
      BY <1>6, <2>1 DEF Redial, Revoked, Verified, Started, TypeOK
  <1>7. CASE SwapReader
    BY <1>7 DEF SwapReader, Stop, Revoked, Verified, twitch
  <1>8. CASE Join
    BY <1>8 DEF Join, sockets, twitch, Revoked, Verified
  <1>9. ASSUME NEW c \in Conn, ReaderStep(c) PROVE Hearing'
    <2>1. UNCHANGED <<main, cur, old, subs, missed>>
      BY <1>9 DEF ReaderStep, ReaderReceives, ReaderFails, ReaderCancelled, loop, twitch
    <2>2. ASSUME NEW d \in Conn, Open(d), d \notin cancelled, Revoked(d) PROVE Revoked(d)'
      BY <1>9, <2>2, ReaderKeepsNotice
    <2>3. ASSUME main = "mark", Revoked(cur) PROVE Revoked(cur)'
      <3>1. reader[cur] \in {"none", "done"}
        BY <2>3 DEF Holding, NothingLeaks, Running, TypeOK
      <3>2. c # cur
        BY <1>9, <3>1 DEF ReaderStep, ReaderReceives, ReaderFails, ReaderCancelled, Message
      <3> QED
        BY <1>9, <2>1, <2>3, <3>2
        DEF ReaderStep, ReaderReceives, ReaderFails, ReaderCancelled, Revoked, twitch, TypeOK
    <2>4. main \in {"loop", "redial", "swap", "joinold"} => Open(cur) /\ cur \notin cancelled
      BY DEF Holding, SocketInv
    <2>5. main = "swap" => Open(old) /\ old \notin cancelled
      BY DEF Holding, SocketInv
    <2>6. cur \in Conn /\ old \in Conn
      BY DEF TypeOK
    <2>7. Verified' = Verified /\ (Revoked(cur))' = Revoked(cur)' /\ (Revoked(old))' = Revoked(old)'
      BY <2>1 DEF Verified, Revoked
    <2> QED
      BY <2>1, <2>2, <2>3, <2>4, <2>5, <2>6, <2>7
  <1>10. CASE Exit
    BY <1>10 DEF Exit
  <1>11. CASE Notify \/ AskReconnect
    <2>1. PICK m \in Message : Deliver(cur, m)
      BY <1>11 DEF Notify, AskReconnect, Message
    <2>2. UNCHANGED <<main, cur, old, subs, missed, reader>>
      BY <1>11 DEF Notify, AskReconnect, loop, sockets
    <2>3. \A d \in Conn : Revoked(d) => Revoked(d)'
      BY <2>1, <2>2, DeliverKeepsNotice DEF TypeOK
    <2> QED
      BY <2>2, <2>3 DEF Verified, Revoked, TypeOK
  <1>12. CASE Revoke
    <2>1. Deliver(cur, "revocation") /\ UNCHANGED <<main, cur, old, reader>>
      BY <1>12 DEF Revoke, loop, sockets
    <2>2. Revoked(cur)'
      BY <2>1, DeliverKeepsNotice DEF TypeOK, Message, Revoked
    <2> QED
      BY <2>2
  <1>13. ASSUME NEW c \in Conn, Disconnect(c) PROVE Hearing'
    BY <1>13 DEF Disconnect, loop, twitch, Verified, Revoked
  <1>14. CASE UNCHANGED vars
    BY <1>14 DEF vars, Verified, Revoked
  <1> QED
    BY <1>1, <1>2, <1>3, <1>4, <1>5, <1>6, <1>7, <1>8, <1>9, <1>10, <1>11, <1>12,
       <1>13, <1>14 DEF Next, MainStep

----------------------------------------------------------------------------
(* Theorems *)

\* Every reachable state satisfies the invariant.
THEOREM Invariant == Spec => []IInv
  <1>1. Init => IInv
    BY InitIInv
  <1>2. IInv /\ [Next]_vars => IInv'
    BY TypeOther, HoldingStep, HearingStep DEF IInv, Holding, Hearing
  <1> QED
    BY <1>1, <1>2, PTL DEF Spec

\* The variables of the connection keep their types; in particular the
\* backoff never exceeds twice the minute below which it doubles.
THEOREM TypeCorrect == Spec => []TypeOK
  <1>1. IInv => TypeOK
    BY DEF IInv
  <1> QED
    BY <1>1, Invariant, PTL

\* No socket and no reader goroutine outlives its connection.
THEOREM NoLeak == Spec => []NothingLeaks
  <1>1. IInv => NothingLeaks
    BY DEF IInv
  <1> QED
    BY <1>1, Invariant, PTL

\* A connection that is being set up is never announced as ready.
THEOREM NoEarlyReadiness == Spec => []NotReadyWhileConnecting
  <1>1. IInv => NotReadyWhileConnecting
    BY DEF IInv
  <1> QED
    BY <1>1, Invariant, PTL

\* The loop hears of every subscription it loses, but for the notices that a
\* handoff throws away.
THEOREM NoUnnoticedDeafness == Spec => []DeafnessIsNoticed
  <1>1. IInv => DeafnessIsNoticed
    BY DEF IInv
  <1> QED
    BY <1>1, Invariant, PTL

\* A reader gives a message up to the loop, to stop() or to the end of the
\* process, and to nothing else.
THEOREM NoDrop == Spec => NoSilentDrop
  <1> DEFINE Given(c) ==
        reader[c] \in Message /\ reader'[c] # reader[c] =>
          (main = "loop" /\ c = cur) \/ c \in cancelled \/ main' = "off"
  <1>1. ASSUME TypeOK, NothingLeaks, [Next]_vars, NEW c \in Conn PROVE Given(c)
    <2> SUFFICES ASSUME reader[c] \in Message, reader'[c] # reader[c]
                 PROVE  (main = "loop" /\ c = cur) \/ c \in cancelled \/ main' = "off"
      OBVIOUS
    <2>1. Running(c) /\ TypeOK /\ NothingLeaks /\ [Next]_vars
      BY <1>1 DEF Running, Message
    <2>2. CASE DialWelcome \/ Redial
      <3>1. ASSUME NEW d \in Free PROVE c # d
        BY <2>1, <3>1 DEF Free
      <3>2. CASE DialWelcome
        BY <2>1, <3>1, <3>2 DEF DialWelcome, TypeOK
      <3>3. CASE Redial
        BY <2>1, <3>1, <3>3 DEF Redial, Started, TypeOK
      <3> QED
        BY <2>2, <3>2, <3>3
    <2>3. CASE WriteReadyMarker
      BY <2>1, <2>3 DEF WriteReadyMarker, Started, NothingLeaks, TypeOK
    <2>4. CASE TakeRead
      BY <2>1, <2>4 DEF TakeRead, TypeOK
    <2>5. CASE Restart \/ BackoffEnds \/ RemoveMarker \/ DeleteRequiredSubscriptions \/ Subscribe
               \/ VerifyRequiredSubscriptions \/ SwapReader \/ Leave \/ Join
      BY <2>5 DEF Restart, BackoffEnds, RemoveMarker, DeleteRequiredSubscriptions, Subscribe,
                  VerifyRequiredSubscriptions, SwapReader, Leave, Join, sockets
    <2>6. ASSUME NEW d \in Conn, ReaderStep(d) PROVE c \in cancelled
      BY <2>1, <2>6 DEF ReaderStep, ReaderReceives, ReaderFails, ReaderCancelled, TypeOK, Message
    <2>7. CASE Exit
      BY <2>7 DEF Exit
    <2>8. CASE Notify \/ AskReconnect \/ Revoke \/ (\E d \in Conn : Disconnect(d)) \/ UNCHANGED vars
      BY <2>8 DEF Notify, AskReconnect, Revoke, Disconnect, sockets, vars
    <2> QED
      BY <2>1, <2>2, <2>3, <2>4, <2>5, <2>6, <2>7, <2>8 DEF Next, MainStep
  <1>2. IInv /\ [Next]_vars => [\A c \in Conn : Given(c)]_vars
    BY <1>1 DEF IInv
  <1> QED
    BY <1>2, Invariant, PTL DEF Spec, NoSilentDrop
=============================================================================
