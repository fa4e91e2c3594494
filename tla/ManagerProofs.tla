--------------------------- MODULE ManagerProofs ---------------------------
(***************************************************************************)
(* Proofs about Manager, for any number of devices, connections and        *)
(* commands.                                                               *)
(***************************************************************************)
EXTENDS Manager, TLAPS

-----------------------------------------------------------------------------
(* Messages, channels and timers.                                          *)

\* The messages of a request's channel.
LEMMA MsgType ==
  /\ NoMsg \in Msg
  /\ \A c \in Conns : \A k \in Commands : Reply(c, k) \in Msg
  /\ \A kind \in {"disconnected", "timeout", "not_found", "send_failed",
                  "accepted"} : Result(kind) \in Msg
  BY DEF NoMsg, Reply, Result, Msg

\* A new channel.
LEMMA NewChanType == NewChan \in Chan
  BY MsgType DEF NewChan, Chan

\* What is sent to a channel.
LEMMA OfferType ==
  ASSUME NEW q \in Chan, NEW m \in Msg
  PROVE  Offer(q, m) \in Chan
<1>1. q.msg \in Msg /\ q.closed \in BOOLEAN /\ q.broken \in BOOLEAN
  BY DEF Chan
<1>2. (IF q.closed \/ q.msg # NoMsg THEN q.msg ELSE m) \in Msg
  BY <1>1
<1>3. (q.broken \/ q.closed) \in BOOLEAN
  OBVIOUS
<1>4. QED
  BY <1>1, <1>2, <1>3 DEF Offer, Chan

\* A channel that is closed.
LEMMA CloseType ==
  ASSUME NEW q \in Chan
  PROVE  Close(q) \in Chan
<1>1. q.msg \in Msg /\ q.closed \in BOOLEAN /\ q.broken \in BOOLEAN
  BY DEF Chan
<1>2. (q.broken \/ q.closed) \in BOOLEAN
  OBVIOUS
<1>3. QED
  BY <1>1, <1>2 DEF Close, Chan

\* A channel that is read.
LEMMA DrainedType ==
  ASSUME NEW q \in Chan
  PROVE  Drained(q) \in Chan /\ q.msg \in Msg
  BY MsgType DEF Drained, Chan

\* There is nothing in a new channel.
LEMMA NewChanEmpty == NewChan.msg = NoMsg /\ ~NewChan.closed /\ ~NewChan.broken
  BY DEF NewChan

\* What the operations make of a channel that nobody has touched.
LEMMA Untouched ==
  ASSUME NEW m
  PROVE  /\ Offer(NewChan, m).msg = m
         /\ ~Offer(NewChan, m).broken /\ ~Offer(NewChan, m).closed
         /\ ~Close(NewChan).broken /\ Close(NewChan).closed
         /\ Close(NewChan).msg = NoMsg
         /\ ~Close(Offer(NewChan, m)).broken
         /\ Close(Offer(NewChan, m)).closed
         /\ Close(Offer(NewChan, m)).msg = m
  BY DEF NewChan, Offer, Close

\* To read a channel mends nothing.
LEMMA DrainedKeeps ==
  ASSUME NEW q
  PROVE  Drained(q).broken = q.broken /\ Drained(q).msg = NoMsg
  BY DEF Drained

-----------------------------------------------------------------------------
(* Types.                                                                  *)

\* The types at the start.
LEMMA TypeInit == Init => TypeOK
  BY NoneAssumption, MsgType, NewChanType
     DEF Init, TypeOK, HandlerStates, CallStates, Identified, Sending

\* The types after the loss of a device.
LEMMA DrainType ==
  ASSUME TypeOK, NEW d \in Devices, Drain(d)
  PROVE  /\ ch' \in [Commands -> Chan]
         /\ timer' \in [Commands -> {"unset", "armed", "stopped", "fired"}]
         /\ pending' \in [Devices -> SUBSET Commands]
<1>1. ASSUME NEW k \in Commands
      PROVE  Close(Offer(ch[k], Result("disconnected"))) \in Chan
  BY MsgType, OfferType, CloseType DEF TypeOK
<1>2. ch' \in [Commands -> Chan]
  BY <1>1 DEF Drain, TypeOK
<1>3. QED
  BY <1>2 DEF Drain, TypeOK, Stop

\* Types are preserved, action by action.
LEMMA TypeStep == TypeOK /\ [Next]_vars => TypeOK'
<1> SUFFICES ASSUME TypeOK, [Next]_vars PROVE TypeOK'
  OBVIOUS
<1> USE NoneAssumption DEF TypeOK, HandlerStates, CallStates, Identified, Sending,
        mgrVars, connVars, callVars, vars
<1>1. ASSUME NEW c \in Conns, Accept(c)
      PROVE  TypeOK'
  BY <1>1 DEF Accept, HandlerGoes
<1>2. ASSUME NEW c \in Conns, NEW d \in Devices, ReadConnect(c, d)
      PROVE  TypeOK'
  BY <1>2 DEF ReadConnect, HandlerGoes
<1>3. ASSUME NEW c \in Conns, RefuseConnect(c)
      PROVE  TypeOK'
  BY <1>3 DEF RefuseConnect, HandlerGoes
<1>4. ASSUME NEW c \in Conns, Register(c)
      PROVE  TypeOK'
  BY <1>4 DEF Register, HandlerGoes
<1>5. ASSUME NEW c \in Conns, CloseOld(c)
      PROVE  TypeOK'
  BY <1>5 DEF CloseOld, HandlerGoes
<1>6. ASSUME NEW c \in Conns, NEW k \in Commands, ReadResponse(c, k)
      PROVE  TypeOK'
  BY <1>6, MsgType, OfferType DEF ReadResponse, HandleResponse, Stop
<1>7. ASSUME NEW c \in Conns, ReadError(c)
      PROVE  TypeOK'
  BY <1>7 DEF ReadError, HandlerGoes
<1>8. ASSUME NEW c \in Conns, Cleanup(c)
      PROVE  TypeOK'
  BY <1>8, DrainType DEF Cleanup, HandlerGoes
<1>9. ASSUME NEW c \in Conns, CloseConn(c)
      PROVE  TypeOK'
  BY <1>9 DEF CloseConn, HandlerGoes
<1>10. ASSUME NEW k \in Commands, NEW d \in Devices, SendCommand(k, d)
      PROVE  TypeOK'
  BY <1>10, MsgType DEF SendCommand, LookUp, CallReturns, CallGoes
<1>11. ASSUME NEW k \in Commands, NEW d \in Devices, SendCommandNoWait(k, d)
      PROVE  TypeOK'
  BY <1>11, MsgType DEF SendCommandNoWait, LookUp, CallReturns, CallGoes
<1>12. ASSUME NEW k \in Commands, ArmTimer(k)
      PROVE  TypeOK'
  BY <1>12 DEF ArmTimer, CallGoes
<1>13. ASSUME NEW k \in Commands, RegisterPending(k)
      PROVE  TypeOK'
  BY <1>13 DEF RegisterPending, CallGoes
<1>14. ASSUME NEW k \in Commands, SendJSON(k)
      PROVE  TypeOK'
  BY <1>14 DEF SendJSON, CallGoes
<1>15. ASSUME NEW k \in Commands, Unregister(k)
      PROVE  TypeOK'
  BY <1>15, MsgType DEF Unregister, CallReturns, CallGoes, Stop
<1>16. ASSUME NEW k \in Commands, Receive(k)
      PROVE  TypeOK'
  BY <1>16, MsgType, DrainedType DEF Receive, CallReturns, CallGoes
<1>17. ASSUME NEW k \in Commands, Timeout(k)
      PROVE  TypeOK'
  BY <1>17, CloseType DEF Timeout
<1>18. ASSUME NEW k \in Commands, Post(k)
      PROVE  TypeOK'
  BY <1>18, MsgType DEF Post, CallReturns, CallGoes
<1>19. CASE UNCHANGED vars
  BY <1>19
<1>20. QED
  BY <1>1, <1>2, <1>3, <1>4, <1>5, <1>6, <1>7, <1>8, <1>9, <1>10,
     <1>11, <1>12, <1>13, <1>14, <1>15, <1>16, <1>17, <1>18,
     <1>19 DEF Next, HandlerStep, PeerStep, CallStep,
     ClientStep

-----------------------------------------------------------------------------
(* The table of pending requests.                                          *)

\* A request in the table is untouched until the step that removes it.
LEMMA PendingStep ==
  ASSUME TypeOK, PendingOK, ChannelOK, [Next]_vars
  PROVE  PendingOK'
<1> USE NoneAssumption DEF TypeOK, PendingOK, Identified, Sending, mgrVars, connVars, callVars, vars
<1>1. ASSUME NEW c \in Conns, Accept(c)
      PROVE  PendingOK'
  BY <1>1 DEF Accept, HandlerGoes
<1>2. ASSUME NEW c \in Conns, NEW d \in Devices, ReadConnect(c, d)
      PROVE  PendingOK'
  BY <1>2 DEF ReadConnect, HandlerGoes
<1>3. ASSUME NEW c \in Conns, RefuseConnect(c)
      PROVE  PendingOK'
  BY <1>3 DEF RefuseConnect, HandlerGoes
<1>4. ASSUME NEW c \in Conns, Register(c)
      PROVE  PendingOK'
  BY <1>4 DEF Register, HandlerGoes
<1>5. ASSUME NEW c \in Conns, CloseOld(c)
      PROVE  PendingOK'
  BY <1>5 DEF CloseOld, HandlerGoes
<1>6. ASSUME NEW c \in Conns, NEW k \in Commands, ReadResponse(c, k)
      PROVE  PendingOK'
  BY <1>6 DEF ReadResponse, HandleResponse
<1>7. ASSUME NEW c \in Conns, ReadError(c)
      PROVE  PendingOK'
  BY <1>7 DEF ReadError, HandlerGoes
<1>8. ASSUME NEW c \in Conns, Cleanup(c)
      PROVE  PendingOK'
  BY <1>8 DEF Cleanup, HandlerGoes, Drain
<1>9. ASSUME NEW c \in Conns, CloseConn(c)
      PROVE  PendingOK'
  BY <1>9 DEF CloseConn, HandlerGoes
<1>10. ASSUME NEW k \in Commands, NEW d \in Devices, SendCommand(k, d)
      PROVE  PendingOK'
  BY <1>10 DEF SendCommand, LookUp, CallReturns, CallGoes
<1>11. ASSUME NEW k \in Commands, NEW d \in Devices, SendCommandNoWait(k, d)
      PROVE  PendingOK'
  BY <1>11 DEF SendCommandNoWait, LookUp, CallReturns, CallGoes
<1>12. ASSUME NEW k \in Commands, ArmTimer(k)
      PROVE  PendingOK'
  BY <1>12 DEF ArmTimer, CallGoes
<1>13. ASSUME NEW k \in Commands, RegisterPending(k)
      PROVE  PendingOK'
  BY <1>13 DEF RegisterPending, CallGoes, ChannelOK
<1>14. ASSUME NEW k \in Commands, SendJSON(k)
      PROVE  PendingOK'
  BY <1>14 DEF SendJSON, CallGoes
<1>15. ASSUME NEW k \in Commands, Unregister(k)
      PROVE  PendingOK'
  BY <1>15 DEF Unregister, CallReturns, CallGoes
<1>16. ASSUME NEW k \in Commands, Receive(k)
      PROVE  PendingOK'
  <2>1. cpc[k] = "wait" /\ ch[k] # NewChan
    BY <1>16, NewChanEmpty DEF Receive, CallReturns, CallGoes
  <2>2. \A d \in Devices : k \notin pending[d]
    BY <2>1
  <2>3. /\ \A j \in Commands \ {k} : cpc'[j] = cpc[j] /\ ch'[j] = ch[j]
        /\ UNCHANGED <<pending, target>>
    BY <1>16 DEF Receive, CallReturns, CallGoes
  <2>4. QED
    BY <2>2, <2>3
<1>17. ASSUME NEW k \in Commands, Timeout(k)
      PROVE  PendingOK'
  BY <1>17 DEF Timeout
<1>18. ASSUME NEW k \in Commands, Post(k)
      PROVE  PendingOK'
  BY <1>18 DEF Post, CallReturns, CallGoes
<1>19. CASE UNCHANGED vars
  BY <1>19
<1>20. QED
  BY <1>1, <1>2, <1>3, <1>4, <1>5, <1>6, <1>7, <1>8, <1>9, <1>10,
     <1>11, <1>12, <1>13, <1>14, <1>15, <1>16, <1>17, <1>18,
     <1>19 DEF Next, HandlerStep, PeerStep, CallStep,
     ClientStep
-----------------------------------------------------------------------------
(* The channels.                                                           *)

\* Who touches a channel has taken care of its timer.
LEMMA ChannelStep ==
  ASSUME TypeOK, PendingOK, ChannelOK, TimerOK, [Next]_vars
  PROVE  ChannelOK'
<1> USE NoneAssumption DEF TypeOK, PendingOK, ChannelOK, Identified, Sending, mgrVars, connVars, callVars, vars
<1>1. ASSUME NEW c \in Conns, Accept(c)
      PROVE  ChannelOK'
  BY <1>1 DEF Accept, HandlerGoes
<1>2. ASSUME NEW c \in Conns, NEW d \in Devices, ReadConnect(c, d)
      PROVE  ChannelOK'
  BY <1>2 DEF ReadConnect, HandlerGoes
<1>3. ASSUME NEW c \in Conns, RefuseConnect(c)
      PROVE  ChannelOK'
  BY <1>3 DEF RefuseConnect, HandlerGoes
<1>4. ASSUME NEW c \in Conns, Register(c)
      PROVE  ChannelOK'
  BY <1>4 DEF Register, HandlerGoes
<1>5. ASSUME NEW c \in Conns, CloseOld(c)
      PROVE  ChannelOK'
  BY <1>5 DEF CloseOld, HandlerGoes
<1>6. ASSUME NEW c \in Conns, NEW k \in Commands, ReadResponse(c, k)
      PROVE  ChannelOK'
  BY <1>6, Untouched DEF ReadResponse, HandleResponse, Stop
<1>7. ASSUME NEW c \in Conns, ReadError(c)
      PROVE  ChannelOK'
  BY <1>7 DEF ReadError, HandlerGoes
<1>8. ASSUME NEW c \in Conns, Cleanup(c)
      PROVE  ChannelOK'
  BY <1>8, Untouched DEF Cleanup, HandlerGoes, Drain, Stop
<1>9. ASSUME NEW c \in Conns, CloseConn(c)
      PROVE  ChannelOK'
  BY <1>9 DEF CloseConn, HandlerGoes
<1>10. ASSUME NEW k \in Commands, NEW d \in Devices, SendCommand(k, d)
      PROVE  ChannelOK'
  BY <1>10 DEF SendCommand, LookUp, CallReturns, CallGoes
<1>11. ASSUME NEW k \in Commands, NEW d \in Devices, SendCommandNoWait(k, d)
      PROVE  ChannelOK'
  BY <1>11 DEF SendCommandNoWait, LookUp, CallReturns, CallGoes
<1>12. ASSUME NEW k \in Commands, ArmTimer(k)
      PROVE  ChannelOK'
  BY <1>12 DEF ArmTimer, CallGoes
<1>13. ASSUME NEW k \in Commands, RegisterPending(k)
      PROVE  ChannelOK'
  BY <1>13 DEF RegisterPending, CallGoes
<1>14. ASSUME NEW k \in Commands, SendJSON(k)
      PROVE  ChannelOK'
  BY <1>14 DEF SendJSON, CallGoes
<1>15. ASSUME NEW k \in Commands, Unregister(k)
      PROVE  ChannelOK'
  BY <1>15 DEF Unregister, CallReturns, CallGoes, Stop
<1>16. ASSUME NEW k \in Commands, Receive(k)
      PROVE  ChannelOK'
  <2>1. ch[k] # NewChan
    BY <1>16, NewChanEmpty DEF Receive, CallReturns, CallGoes
  <2>2. timer[k] # "armed" /\ ~ch[k].broken
    BY <2>1
  <2>3. cpc'[k] = "done" /\ timer'[k] = timer[k] /\ ~ch'[k].broken
    BY <1>16, <2>2, DrainedKeeps DEF Receive, CallReturns, CallGoes
  <2>4. \A j \in Commands \ {k} : /\ cpc'[j] = cpc[j]
                                   /\ ch'[j] = ch[j]
                                   /\ timer'[j] = timer[j]
    BY <1>16 DEF Receive, CallReturns, CallGoes
  <2>5. QED
    BY <2>2, <2>3, <2>4
<1>17. ASSUME NEW k \in Commands, Timeout(k)
      PROVE  ChannelOK'
  <2>1. /\ \A j \in Commands \ {k} : ch'[j] = ch[j] /\ timer'[j] = timer[j]
        /\ cpc' = cpc /\ timer'[k] = "fired"
    BY <1>17 DEF Timeout
  <2>2. CASE k \in pending[target[k]]
    <3>1. target[k] \in Devices
      BY <1>17 DEF Timeout, TimerOK, CallStates
    <3>2. /\ ch[k] = NewChan
          /\ cpc[k] \in {"send", "unregister", "wait"}
      BY <2>2, <3>1 DEF PendingOK
    <3>3. ~ch'[k].broken
      BY <1>17, <2>2, <3>2, Untouched DEF Timeout
    <3>4. QED
      BY <2>1, <3>2, <3>3
  <2>3. CASE k \notin pending[target[k]]
    <3>1. ch'[k] = ch[k]
      BY <1>17, <2>3 DEF Timeout
    <3>2. QED
      BY <2>1, <3>1
  <2>4. QED
    BY <2>2, <2>3
<1>18. ASSUME NEW k \in Commands, Post(k)
      PROVE  ChannelOK'
  BY <1>18 DEF Post, CallReturns, CallGoes
<1>19. CASE UNCHANGED vars
  BY <1>19
<1>20. QED
  BY <1>1, <1>2, <1>3, <1>4, <1>5, <1>6, <1>7, <1>8, <1>9, <1>10,
     <1>11, <1>12, <1>13, <1>14, <1>15, <1>16, <1>17, <1>18,
     <1>19 DEF Next, HandlerStep, PeerStep, CallStep,
     ClientStep
-----------------------------------------------------------------------------
(* The timers.                                                             *)

\* A timer is set only in its place, and is not armed any more at the end.
LEMMA TimerStep ==
  ASSUME TypeOK, PendingOK, ChannelOK, TimerOK, [Next]_vars
  PROVE  TimerOK'
<1> USE NoneAssumption DEF TypeOK, TimerOK, Identified, Sending, mgrVars, connVars, callVars, vars
<1>1. ASSUME NEW c \in Conns, Accept(c)
      PROVE  TimerOK'
  BY <1>1 DEF Accept, HandlerGoes
<1>2. ASSUME NEW c \in Conns, NEW d \in Devices, ReadConnect(c, d)
      PROVE  TimerOK'
  BY <1>2 DEF ReadConnect, HandlerGoes
<1>3. ASSUME NEW c \in Conns, RefuseConnect(c)
      PROVE  TimerOK'
  BY <1>3 DEF RefuseConnect, HandlerGoes
<1>4. ASSUME NEW c \in Conns, Register(c)
      PROVE  TimerOK'
  BY <1>4 DEF Register, HandlerGoes
<1>5. ASSUME NEW c \in Conns, CloseOld(c)
      PROVE  TimerOK'
  BY <1>5 DEF CloseOld, HandlerGoes
<1>6. ASSUME NEW c \in Conns, NEW k \in Commands, ReadResponse(c, k)
      PROVE  TimerOK'
  BY <1>6 DEF ReadResponse, HandleResponse, PendingOK, Stop
<1>7. ASSUME NEW c \in Conns, ReadError(c)
      PROVE  TimerOK'
  BY <1>7 DEF ReadError, HandlerGoes
<1>8. ASSUME NEW c \in Conns, Cleanup(c)
      PROVE  TimerOK'
  BY <1>8 DEF Cleanup, HandlerGoes, Drain, PendingOK, Stop
<1>9. ASSUME NEW c \in Conns, CloseConn(c)
      PROVE  TimerOK'
  BY <1>9 DEF CloseConn, HandlerGoes
<1>10. ASSUME NEW k \in Commands, NEW d \in Devices, SendCommand(k, d)
      PROVE  TimerOK'
  BY <1>10 DEF SendCommand, LookUp, CallReturns, CallGoes
<1>11. ASSUME NEW k \in Commands, NEW d \in Devices, SendCommandNoWait(k, d)
      PROVE  TimerOK'
  BY <1>11 DEF SendCommandNoWait, LookUp, CallReturns, CallGoes
<1>12. ASSUME NEW k \in Commands, ArmTimer(k)
      PROVE  TimerOK'
  BY <1>12 DEF ArmTimer, CallGoes
<1>13. ASSUME NEW k \in Commands, RegisterPending(k)
      PROVE  TimerOK'
  BY <1>13 DEF RegisterPending, CallGoes
<1>14. ASSUME NEW k \in Commands, SendJSON(k)
      PROVE  TimerOK'
  BY <1>14 DEF SendJSON, CallGoes
<1>15. ASSUME NEW k \in Commands, Unregister(k)
      PROVE  TimerOK'
  BY <1>15 DEF Unregister, CallReturns, CallGoes, Stop
<1>16. ASSUME NEW k \in Commands, Receive(k)
      PROVE  TimerOK'
  BY <1>16 DEF Receive, CallReturns, CallGoes, ChannelOK, NewChan
<1>17. ASSUME NEW k \in Commands, Timeout(k)
      PROVE  TimerOK'
  BY <1>17 DEF Timeout
<1>18. ASSUME NEW k \in Commands, Post(k)
      PROVE  TimerOK'
  BY <1>18 DEF Post, CallReturns, CallGoes
<1>19. CASE UNCHANGED vars
  BY <1>19
<1>20. QED
  BY <1>1, <1>2, <1>3, <1>4, <1>5, <1>6, <1>7, <1>8, <1>9, <1>10,
     <1>11, <1>12, <1>13, <1>14, <1>15, <1>16, <1>17, <1>18,
     <1>19 DEF Next, HandlerStep, PeerStep, CallStep,
     ClientStep
-----------------------------------------------------------------------------
(* Whoever waits can be woken.                                             *)

\* Who removes the request of a waiting caller wakes it.
LEMMA WakerStep ==
  ASSUME TypeOK, PendingOK, WakerOK, [Next]_vars
  PROVE  WakerOK'
<1> USE NoneAssumption DEF TypeOK, WakerOK, Identified, Sending, mgrVars, connVars, callVars, vars
<1>1. ASSUME NEW c \in Conns, Accept(c)
      PROVE  WakerOK'
  BY <1>1 DEF Accept, HandlerGoes
<1>2. ASSUME NEW c \in Conns, NEW d \in Devices, ReadConnect(c, d)
      PROVE  WakerOK'
  BY <1>2 DEF ReadConnect, HandlerGoes
<1>3. ASSUME NEW c \in Conns, RefuseConnect(c)
      PROVE  WakerOK'
  BY <1>3 DEF RefuseConnect, HandlerGoes
<1>4. ASSUME NEW c \in Conns, Register(c)
      PROVE  WakerOK'
  BY <1>4 DEF Register, HandlerGoes
<1>5. ASSUME NEW c \in Conns, CloseOld(c)
      PROVE  WakerOK'
  BY <1>5 DEF CloseOld, HandlerGoes
<1>6. ASSUME NEW c \in Conns, NEW k \in Commands, ReadResponse(c, k)
      PROVE  WakerOK'
  BY <1>6 DEF ReadResponse, HandleResponse, PendingOK, Offer, NewChan, Reply, NoMsg
<1>7. ASSUME NEW c \in Conns, ReadError(c)
      PROVE  WakerOK'
  BY <1>7 DEF ReadError, HandlerGoes
<1>8. ASSUME NEW c \in Conns, Cleanup(c)
      PROVE  WakerOK'
  BY <1>8 DEF Cleanup, HandlerGoes, Drain, PendingOK, Offer, Close, NewChan, Result,
     NoMsg
<1>9. ASSUME NEW c \in Conns, CloseConn(c)
      PROVE  WakerOK'
  BY <1>9 DEF CloseConn, HandlerGoes
<1>10. ASSUME NEW k \in Commands, NEW d \in Devices, SendCommand(k, d)
      PROVE  WakerOK'
  BY <1>10 DEF SendCommand, LookUp, CallReturns, CallGoes
<1>11. ASSUME NEW k \in Commands, NEW d \in Devices, SendCommandNoWait(k, d)
      PROVE  WakerOK'
  BY <1>11 DEF SendCommandNoWait, LookUp, CallReturns, CallGoes
<1>12. ASSUME NEW k \in Commands, ArmTimer(k)
      PROVE  WakerOK'
  BY <1>12 DEF ArmTimer, CallGoes
<1>13. ASSUME NEW k \in Commands, RegisterPending(k)
      PROVE  WakerOK'
  BY <1>13 DEF RegisterPending, CallGoes
<1>14. ASSUME NEW k \in Commands, SendJSON(k)
      PROVE  WakerOK'
  BY <1>14 DEF SendJSON, CallGoes
<1>15. ASSUME NEW k \in Commands, Unregister(k)
      PROVE  WakerOK'
  BY <1>15 DEF Unregister, CallReturns, CallGoes
<1>16. ASSUME NEW k \in Commands, Receive(k)
      PROVE  WakerOK'
  BY <1>16 DEF Receive, CallReturns, CallGoes, Drained
<1>17. ASSUME NEW k \in Commands, Timeout(k)
      PROVE  WakerOK'
  BY <1>17 DEF Timeout, Close
<1>18. ASSUME NEW k \in Commands, Post(k)
      PROVE  WakerOK'
  BY <1>18 DEF Post, CallReturns, CallGoes
<1>19. CASE UNCHANGED vars
  BY <1>19
<1>20. QED
  BY <1>1, <1>2, <1>3, <1>4, <1>5, <1>6, <1>7, <1>8, <1>9, <1>10,
     <1>11, <1>12, <1>13, <1>14, <1>15, <1>16, <1>17, <1>18,
     <1>19 DEF Next, HandlerStep, PeerStep, CallStep,
     ClientStep
-----------------------------------------------------------------------------
(* Replies come from the device that was asked.                            *)

\* A reply comes from a connection of the request's own device.
LEMMA ReplyStep ==
  ASSUME TypeOK, PendingOK, ChannelOK, ReplyOK, [Next]_vars
  PROVE  ReplyOK'
<1> USE NoneAssumption DEF TypeOK, ReplyOK, GoodMsg, Identified, Sending, mgrVars, connVars, callVars, vars
<1>1. ASSUME NEW c \in Conns, Accept(c)
      PROVE  ReplyOK'
  BY <1>1 DEF Accept, HandlerGoes
<1>2. ASSUME NEW c \in Conns, NEW d \in Devices, ReadConnect(c, d)
      PROVE  ReplyOK'
  BY <1>2 DEF ReadConnect, HandlerGoes
<1>3. ASSUME NEW c \in Conns, RefuseConnect(c)
      PROVE  ReplyOK'
  BY <1>3 DEF RefuseConnect, HandlerGoes
<1>4. ASSUME NEW c \in Conns, Register(c)
      PROVE  ReplyOK'
  BY <1>4 DEF Register, HandlerGoes
<1>5. ASSUME NEW c \in Conns, CloseOld(c)
      PROVE  ReplyOK'
  BY <1>5 DEF CloseOld, HandlerGoes
<1>6. ASSUME NEW c \in Conns, NEW k \in Commands, ReadResponse(c, k)
      PROVE  ReplyOK'
  BY <1>6 DEF ReadResponse, HandleResponse, PendingOK, ChannelOK, Offer, Reply, NewChan
<1>7. ASSUME NEW c \in Conns, ReadError(c)
      PROVE  ReplyOK'
  BY <1>7 DEF ReadError, HandlerGoes
<1>8. ASSUME NEW c \in Conns, Cleanup(c)
      PROVE  ReplyOK'
  BY <1>8 DEF Cleanup, HandlerGoes, Drain, PendingOK, Offer, Close, Result, NewChan
<1>9. ASSUME NEW c \in Conns, CloseConn(c)
      PROVE  ReplyOK'
  BY <1>9 DEF CloseConn, HandlerGoes
<1>10. ASSUME NEW k \in Commands, NEW d \in Devices, SendCommand(k, d)
      PROVE  ReplyOK'
  BY <1>10 DEF SendCommand, LookUp, CallReturns, CallGoes, ChannelOK, NewChan, NoMsg,
     Result
<1>11. ASSUME NEW k \in Commands, NEW d \in Devices, SendCommandNoWait(k, d)
      PROVE  ReplyOK'
  BY <1>11 DEF SendCommandNoWait, LookUp, CallReturns, CallGoes, ChannelOK, NewChan,
     NoMsg, Result
<1>12. ASSUME NEW k \in Commands, ArmTimer(k)
      PROVE  ReplyOK'
  BY <1>12 DEF ArmTimer, CallGoes
<1>13. ASSUME NEW k \in Commands, RegisterPending(k)
      PROVE  ReplyOK'
  BY <1>13 DEF RegisterPending, CallGoes
<1>14. ASSUME NEW k \in Commands, SendJSON(k)
      PROVE  ReplyOK'
  BY <1>14 DEF SendJSON, CallGoes
<1>15. ASSUME NEW k \in Commands, Unregister(k)
      PROVE  ReplyOK'
  BY <1>15 DEF Unregister, CallReturns, CallGoes, Result
<1>16. ASSUME NEW k \in Commands, Receive(k)
      PROVE  ReplyOK'
  BY <1>16 DEF Receive, CallReturns, CallGoes, Drained, Result, NoMsg
<1>17. ASSUME NEW k \in Commands, Timeout(k)
      PROVE  ReplyOK'
  BY <1>17 DEF Timeout, Close
<1>18. ASSUME NEW k \in Commands, Post(k)
      PROVE  ReplyOK'
  BY <1>18 DEF Post, CallReturns, CallGoes, Result
<1>19. CASE UNCHANGED vars
  BY <1>19
<1>20. QED
  BY <1>1, <1>2, <1>3, <1>4, <1>5, <1>6, <1>7, <1>8, <1>9, <1>10,
     <1>11, <1>12, <1>13, <1>14, <1>15, <1>16, <1>17, <1>18,
     <1>19 DEF Next, HandlerStep, PeerStep, CallStep,
     ClientStep
-----------------------------------------------------------------------------
(* Replies wait only for waiting calls.                                    *)

\* Only a call that waits has a reply in its channel.
LEMMA MessageStep ==
  ASSUME TypeOK, PendingOK, ReplyOK, MessageOK, [Next]_vars
  PROVE  MessageOK'
<1> USE NoneAssumption DEF TypeOK, MessageOK, Identified, Sending, mgrVars, connVars, callVars, vars
<1>1. ASSUME NEW c \in Conns, Accept(c)
      PROVE  MessageOK'
  BY <1>1 DEF Accept, HandlerGoes
<1>2. ASSUME NEW c \in Conns, NEW d \in Devices, ReadConnect(c, d)
      PROVE  MessageOK'
  BY <1>2 DEF ReadConnect, HandlerGoes
<1>3. ASSUME NEW c \in Conns, RefuseConnect(c)
      PROVE  MessageOK'
  BY <1>3 DEF RefuseConnect, HandlerGoes
<1>4. ASSUME NEW c \in Conns, Register(c)
      PROVE  MessageOK'
  BY <1>4 DEF Register, HandlerGoes
<1>5. ASSUME NEW c \in Conns, CloseOld(c)
      PROVE  MessageOK'
  BY <1>5 DEF CloseOld, HandlerGoes
<1>6. ASSUME NEW c \in Conns, NEW k \in Commands, ReadResponse(c, k)
      PROVE  MessageOK'
  BY <1>6, Untouched DEF ReadResponse, HandleResponse, PendingOK, ReplyOK, OnWire, NoMsg
<1>7. ASSUME NEW c \in Conns, ReadError(c)
      PROVE  MessageOK'
  BY <1>7 DEF ReadError, HandlerGoes
<1>8. ASSUME NEW c \in Conns, Cleanup(c)
      PROVE  MessageOK'
  BY <1>8, Untouched DEF Cleanup, HandlerGoes, Drain, PendingOK
<1>9. ASSUME NEW c \in Conns, CloseConn(c)
      PROVE  MessageOK'
  BY <1>9 DEF CloseConn, HandlerGoes
<1>10. ASSUME NEW k \in Commands, NEW d \in Devices, SendCommand(k, d)
      PROVE  MessageOK'
  BY <1>10 DEF SendCommand, LookUp, CallReturns, CallGoes
<1>11. ASSUME NEW k \in Commands, NEW d \in Devices, SendCommandNoWait(k, d)
      PROVE  MessageOK'
  BY <1>11 DEF SendCommandNoWait, LookUp, CallReturns, CallGoes
<1>12. ASSUME NEW k \in Commands, ArmTimer(k)
      PROVE  MessageOK'
  BY <1>12 DEF ArmTimer, CallGoes
<1>13. ASSUME NEW k \in Commands, RegisterPending(k)
      PROVE  MessageOK'
  BY <1>13 DEF RegisterPending, CallGoes
<1>14. ASSUME NEW k \in Commands, SendJSON(k)
      PROVE  MessageOK'
  BY <1>14 DEF SendJSON, CallGoes
<1>15. ASSUME NEW k \in Commands, Unregister(k)
      PROVE  MessageOK'
  BY <1>15 DEF Unregister, CallReturns, CallGoes
<1>16. ASSUME NEW k \in Commands, Receive(k)
      PROVE  MessageOK'
  BY <1>16, DrainedKeeps DEF Receive, CallReturns, CallGoes
<1>17. ASSUME NEW k \in Commands, Timeout(k)
      PROVE  MessageOK'
  BY <1>17 DEF Timeout, Close
<1>18. ASSUME NEW k \in Commands, Post(k)
      PROVE  MessageOK'
  BY <1>18 DEF Post, CallReturns, CallGoes
<1>19. CASE UNCHANGED vars
  BY <1>19
<1>20. QED
  BY <1>1, <1>2, <1>3, <1>4, <1>5, <1>6, <1>7, <1>8, <1>9, <1>10,
     <1>11, <1>12, <1>13, <1>14, <1>15, <1>16, <1>17, <1>18,
     <1>19 DEF Next, HandlerStep, PeerStep, CallStep,
     ClientStep
-----------------------------------------------------------------------------
(* The registry.                                                           *)

\* The session of a device is one that its handler has registered, and not removed yet.
LEMMA SessionStep ==
  ASSUME TypeOK, SessionOK, [Next]_vars
  PROVE  SessionOK'
<1> USE NoneAssumption DEF TypeOK, SessionOK, Identified, Sending, mgrVars, connVars, callVars, vars
<1>1. ASSUME NEW c \in Conns, Accept(c)
      PROVE  SessionOK'
  BY <1>1 DEF Accept, HandlerGoes
<1>2. ASSUME NEW c \in Conns, NEW d \in Devices, ReadConnect(c, d)
      PROVE  SessionOK'
  BY <1>2 DEF ReadConnect, HandlerGoes
<1>3. ASSUME NEW c \in Conns, RefuseConnect(c)
      PROVE  SessionOK'
  BY <1>3 DEF RefuseConnect, HandlerGoes
<1>4. ASSUME NEW c \in Conns, Register(c)
      PROVE  SessionOK'
  BY <1>4 DEF Register, HandlerGoes
<1>5. ASSUME NEW c \in Conns, CloseOld(c)
      PROVE  SessionOK'
  BY <1>5 DEF CloseOld, HandlerGoes
<1>6. ASSUME NEW c \in Conns, NEW k \in Commands, ReadResponse(c, k)
      PROVE  SessionOK'
  BY <1>6 DEF ReadResponse, HandleResponse
<1>7. ASSUME NEW c \in Conns, ReadError(c)
      PROVE  SessionOK'
  BY <1>7 DEF ReadError, HandlerGoes
<1>8. ASSUME NEW c \in Conns, Cleanup(c)
      PROVE  SessionOK'
  BY <1>8 DEF Cleanup, HandlerGoes, Drain
<1>9. ASSUME NEW c \in Conns, CloseConn(c)
      PROVE  SessionOK'
  BY <1>9 DEF CloseConn, HandlerGoes
<1>10. ASSUME NEW k \in Commands, NEW d \in Devices, SendCommand(k, d)
      PROVE  SessionOK'
  BY <1>10 DEF SendCommand, LookUp, CallReturns, CallGoes
<1>11. ASSUME NEW k \in Commands, NEW d \in Devices, SendCommandNoWait(k, d)
      PROVE  SessionOK'
  BY <1>11 DEF SendCommandNoWait, LookUp, CallReturns, CallGoes
<1>12. ASSUME NEW k \in Commands, ArmTimer(k)
      PROVE  SessionOK'
  BY <1>12 DEF ArmTimer, CallGoes
<1>13. ASSUME NEW k \in Commands, RegisterPending(k)
      PROVE  SessionOK'
  BY <1>13 DEF RegisterPending, CallGoes
<1>14. ASSUME NEW k \in Commands, SendJSON(k)
      PROVE  SessionOK'
  BY <1>14 DEF SendJSON, CallGoes
<1>15. ASSUME NEW k \in Commands, Unregister(k)
      PROVE  SessionOK'
  BY <1>15 DEF Unregister, CallReturns, CallGoes
<1>16. ASSUME NEW k \in Commands, Receive(k)
      PROVE  SessionOK'
  BY <1>16 DEF Receive, CallReturns, CallGoes
<1>17. ASSUME NEW k \in Commands, Timeout(k)
      PROVE  SessionOK'
  BY <1>17 DEF Timeout
<1>18. ASSUME NEW k \in Commands, Post(k)
      PROVE  SessionOK'
  BY <1>18 DEF Post, CallReturns, CallGoes
<1>19. CASE UNCHANGED vars
  BY <1>19
<1>20. QED
  BY <1>1, <1>2, <1>3, <1>4, <1>5, <1>6, <1>7, <1>8, <1>9, <1>10,
     <1>11, <1>12, <1>13, <1>14, <1>15, <1>16, <1>17, <1>18,
     <1>19 DEF Next, HandlerStep, PeerStep, CallStep,
     ClientStep
-----------------------------------------------------------------------------
(* Displaced connections.                                                  *)

\* A displaced connection is closed, or is about to be.
LEMMA DisplacedStep ==
  ASSUME TypeOK, SessionOK, DisplacedIsClosed, [Next]_vars
  PROVE  DisplacedIsClosed'
<1> USE NoneAssumption DEF TypeOK, SessionOK, DisplacedIsClosed, Identified, Sending, mgrVars, connVars, callVars, vars
<1>1. ASSUME NEW c \in Conns, Accept(c)
      PROVE  DisplacedIsClosed'
  BY <1>1 DEF Accept, HandlerGoes
<1>2. ASSUME NEW c \in Conns, NEW d \in Devices, ReadConnect(c, d)
      PROVE  DisplacedIsClosed'
  BY <1>2 DEF ReadConnect, HandlerGoes
<1>3. ASSUME NEW c \in Conns, RefuseConnect(c)
      PROVE  DisplacedIsClosed'
  BY <1>3 DEF RefuseConnect, HandlerGoes
<1>4. ASSUME NEW c \in Conns, Register(c)
      PROVE  DisplacedIsClosed'
  BY <1>4 DEF Register, HandlerGoes
<1>5. ASSUME NEW c \in Conns, CloseOld(c)
      PROVE  DisplacedIsClosed'
  BY <1>5 DEF CloseOld, HandlerGoes
<1>6. ASSUME NEW c \in Conns, NEW k \in Commands, ReadResponse(c, k)
      PROVE  DisplacedIsClosed'
  BY <1>6 DEF ReadResponse, HandleResponse
<1>7. ASSUME NEW c \in Conns, ReadError(c)
      PROVE  DisplacedIsClosed'
  BY <1>7 DEF ReadError, HandlerGoes
<1>8. ASSUME NEW c \in Conns, Cleanup(c)
      PROVE  DisplacedIsClosed'
  BY <1>8 DEF Cleanup, HandlerGoes, Drain
<1>9. ASSUME NEW c \in Conns, CloseConn(c)
      PROVE  DisplacedIsClosed'
  BY <1>9 DEF CloseConn, HandlerGoes
<1>10. ASSUME NEW k \in Commands, NEW d \in Devices, SendCommand(k, d)
      PROVE  DisplacedIsClosed'
  BY <1>10 DEF SendCommand, LookUp, CallReturns, CallGoes
<1>11. ASSUME NEW k \in Commands, NEW d \in Devices, SendCommandNoWait(k, d)
      PROVE  DisplacedIsClosed'
  BY <1>11 DEF SendCommandNoWait, LookUp, CallReturns, CallGoes
<1>12. ASSUME NEW k \in Commands, ArmTimer(k)
      PROVE  DisplacedIsClosed'
  BY <1>12 DEF ArmTimer, CallGoes
<1>13. ASSUME NEW k \in Commands, RegisterPending(k)
      PROVE  DisplacedIsClosed'
  BY <1>13 DEF RegisterPending, CallGoes
<1>14. ASSUME NEW k \in Commands, SendJSON(k)
      PROVE  DisplacedIsClosed'
  BY <1>14 DEF SendJSON, CallGoes
<1>15. ASSUME NEW k \in Commands, Unregister(k)
      PROVE  DisplacedIsClosed'
  BY <1>15 DEF Unregister, CallReturns, CallGoes
<1>16. ASSUME NEW k \in Commands, Receive(k)
      PROVE  DisplacedIsClosed'
  BY <1>16 DEF Receive, CallReturns, CallGoes
<1>17. ASSUME NEW k \in Commands, Timeout(k)
      PROVE  DisplacedIsClosed'
  BY <1>17 DEF Timeout
<1>18. ASSUME NEW k \in Commands, Post(k)
      PROVE  DisplacedIsClosed'
  BY <1>18 DEF Post, CallReturns, CallGoes
<1>19. CASE UNCHANGED vars
  BY <1>19
<1>20. QED
  BY <1>1, <1>2, <1>3, <1>4, <1>5, <1>6, <1>7, <1>8, <1>9, <1>10,
     <1>11, <1>12, <1>13, <1>14, <1>15, <1>16, <1>17, <1>18,
     <1>19 DEF Next, HandlerStep, PeerStep, CallStep,
     ClientStep

-----------------------------------------------------------------------------
(* The invariant and what follows from it.                                 *)

\* The invariant at the start.
LEMMA InvInit == Init => IInv
<1> SUFFICES ASSUME Init PROVE IInv
  OBVIOUS
<1>1. TypeOK
  BY TypeInit
<1>2. PendingOK /\ ChannelOK /\ TimerOK /\ WakerOK
  BY NewChanEmpty DEF Init, PendingOK, ChannelOK, TimerOK, WakerOK
<1>3. ReplyOK /\ MessageOK
  BY NewChanEmpty DEF Init, ReplyOK, GoodMsg, MessageOK, NoMsg
<1>4. SessionOK /\ DisplacedIsClosed
  BY DEF Init, SessionOK, DisplacedIsClosed
<1>5. QED
  BY <1>1, <1>2, <1>3, <1>4 DEF IInv

\* Every step preserves it: one lemma for each part.
LEMMA InvStep == IInv /\ [Next]_vars => IInv'
<1> SUFFICES ASSUME IInv, [Next]_vars PROVE IInv'
  OBVIOUS
<1> USE DEF IInv
<1>1. TypeOK'
  BY TypeStep
<1>2. PendingOK'
  BY PendingStep
<1>3. ChannelOK'
  BY ChannelStep
<1>4. TimerOK'
  BY TimerStep
<1>5. WakerOK'
  BY WakerStep
<1>6. ReplyOK'
  BY ReplyStep
<1>7. SessionOK'
  BY SessionStep
<1>8. DisplacedIsClosed'
  BY DisplacedStep
<1>9. MessageOK'
  BY MessageStep
<1>10. QED
  BY <1>1, <1>2, <1>3, <1>4, <1>5, <1>6, <1>7, <1>8, <1>9

\* Every reachable state satisfies the inductive invariant: the table, the
\* channels, the timers, the registry and the sockets agree with each other.
THEOREM Invariance == Spec => []IInv
  BY InvInit, InvStep, PTL DEF Spec

\* Every reachable state is well typed; in particular no call ever uses a nil
\* session (manager.go:461-469).
THEOREM TypeCorrect == Spec => []TypeOK
<1>1. IInv => TypeOK
  BY DEF IInv
<1>2. QED
  BY <1>1, Invariance, PTL

\* The timer, a response and the drain never close a request's channel twice
\* and never send on a closed one (manager.go:339-346, 415-429, 495-504).
THEOREM NoPanic == Spec => []NoChannelPanic
<1>1. IInv => NoChannelPanic
  BY DEF IInv, ChannelOK, NoChannelPanic
<1>2. QED
  BY <1>1, Invariance, PTL

\* Nobody waits on a channel that nobody can write any more
\* (manager.go:341-346, 419-426, 495-504, 532).
THEOREM WaitersCanWake == Spec => []WaiterHasWaker
<1>1. IInv => WaiterHasWaker
  BY DEF IInv, WakerOK, WaiterHasWaker
<1>2. QED
  BY <1>1, Invariance, PTL

\* A call that is over has left the table and its timer is not running
\* (manager.go:339-348, 419-420, 495-504, 520-527).
THEOREM NothingLeftBehind == Spec => []FinishedCallsHoldNothing
<1>1. IInv => FinishedCallsHoldNothing
  BY DEF IInv, PendingOK, TimerOK, FinishedCallsHoldNothing
<1>2. QED
  BY <1>1, Invariance, PTL

\* What a call returns as a reply names this very request as the one that it
\* answers, and came from the device that the command was for
\* (manager.go:415-429).
THEOREM RepliesGenuine == Spec => []RepliesAreOwn
<1>1. IInv => RepliesAreOwn
  BY DEF IInv, ReplyOK, GoodMsg, RepliesAreOwn
<1>2. QED
  BY <1>1, Invariance, PTL

\* However many connections of a device displace each other, each one that is
\* no longer its session is closed or about to be (manager.go:268-281).
THEOREM DisplacedAreClosed == Spec => []DisplacedIsClosed
<1>1. IInv => DisplacedIsClosed
  BY DEF IInv
<1>2. QED
  BY <1>1, Invariance, PTL

\* A device leaves the registry only when the handler of its session cleans up.
LEMMA Removal ==
  ASSUME TypeOK, [Next]_vars, NEW d \in Devices,
         sessions[d] # None, sessions'[d] = None
  PROVE  \E c \in Conns : /\ sessions[d] = c /\ dev[c] = d
                          /\ HandlerGoes(c, "cleanup", "closing")
                          /\ Drain(d)
<1> USE NoneAssumption DEF TypeOK, mgrVars, connVars, callVars, vars
<1>1. sessions' # sessions
  OBVIOUS
<1>2. PICK c \in Conns : Register(c) \/ Cleanup(c)
  BY <1>1 DEF Next, HandlerStep, PeerStep, CallStep, ClientStep, Accept,
     ReadConnect, RefuseConnect, CloseOld, ReadResponse, ReadError, CloseConn,
     SendCommand, SendCommandNoWait, LookUp, ArmTimer, RegisterPending,
     SendJSON, Unregister, Receive, Timeout, Post
<1>3. ~Register(c)
  BY DEF Register, HandlerGoes, Identified
<1>4. Cleanup(c)
  BY <1>2, <1>3
<1>5. /\ sessions[dev[c]] = c
      /\ sessions' = [sessions EXCEPT ![dev[c]] = None]
      /\ Drain(dev[c])
      /\ HandlerGoes(c, "cleanup", "closing")
  BY <1>1, <1>4 DEF Cleanup
<1>6. dev[c] = d
  BY <1>5
<1>7. QED
  BY <1>5, <1>6

\* Only the handler of a device's current session takes it out of the registry
\* (manager.go:336-337).
THEOREM OwnerRemoves == Spec => OnlyOwnerRemoves
<1> DEFINE Owner ==
      \A d \in Devices :
        sessions[d] # None /\ sessions'[d] = None =>
          hpc[sessions[d]] = "cleanup" /\ hpc'[sessions[d]] = "closing"
<1>1. ASSUME TypeOK, [Next]_vars
      PROVE  Owner
  BY <1>1, Removal DEF HandlerGoes, TypeOK
<1>2. QED
  BY <1>1, TypeCorrect, PTL DEF Spec, OnlyOwnerRemoves

\* The step that takes a device out of the registry tells every caller
\* registered for it (manager.go:337-347).
THEOREM OfflineFails == Spec => OfflineFailsPending
<1> DEFINE Told ==
      \A d \in Devices :
        sessions[d] # None /\ sessions'[d] = None =>
          \A k \in pending[d] : ch'[k].closed
                                /\ ch'[k].msg = Result("disconnected")
<1>1. ASSUME IInv, [Next]_vars
      PROVE  Told
  <2> SUFFICES ASSUME NEW d \in Devices, sessions[d] # None,
                      sessions'[d] = None, NEW k \in pending[d]
               PROVE  ch'[k].closed /\ ch'[k].msg = Result("disconnected")
    OBVIOUS
  <2>1. Drain(d)
    BY <1>1, Removal DEF IInv
  <2>2. k \in Commands /\ ch[k] = NewChan
    BY <1>1 DEF IInv, TypeOK, PendingOK
  <2>3. ch'[k] = Close(Offer(NewChan, Result("disconnected")))
    BY <2>1, <2>2 DEF Drain
  <2>4. QED
    BY <2>3, Untouched
<1>2. QED
  BY <1>1, Invariance, PTL DEF Spec, OfflineFailsPending
-----------------------------------------------------------------------------
(* Manager implements Calls: every step of a handler or of a call is a     *)
(* step of the promise, or invisible to it.                                *)

\* The kind of a message tells what it is.
LEMMA Kinds ==
  /\ NoMsg.kind = "none"
  /\ \A kind : Result(kind).kind = kind
  /\ \A c, k : Reply(c, k).kind = "reply"
  BY DEF NoMsg, Result, Reply

\* One command moves on: what the others see of theirs stays.
LEMMA OthersStay ==
  ASSUME TypeOK, NEW k \in Commands,
         \A j \in Commands \ {k} : /\ cpc'[j] = cpc[j]
                                   /\ ch'[j] = ch[j]
                                   /\ outcome'[j] = outcome[j]
  PROVE  \A j \in Commands \ {k} : Stage(j)' = Stage(j) /\ Verdict(j)' = Verdict(j)
  BY DEF Stage, Verdict

\* What a call in a given place looks like from outside.
LEMMA Views ==
  ASSUME NEW k \in Commands
  PROVE  /\ cpc[k] = "idle" => Stage(k) = "idle" /\ Verdict(k) = "none"
         /\ cpc[k] \in {"arm", "register", "send", "unregister", "post"} =>
              Stage(k) = "calling" /\ Verdict(k) = "none"
         /\ cpc[k] = "wait" =>
              /\ Stage(k) = "sent"
              /\ ch[k].msg # NoMsg => Verdict(k) = ch[k].msg.kind
              /\ ch[k].msg = NoMsg /\ ch[k].closed => Verdict(k) = "timeout"
              /\ ch[k].msg = NoMsg /\ ~ch[k].closed => Verdict(k) = "none"
         /\ cpc[k] = "done" => Stage(k) = "done" /\ Verdict(k) = outcome[k].kind
  BY DEF Stage, Verdict

\* The promise's view of one command that moves from one stage to another.
LEMMA Moved ==
  ASSUME NEW k \in Commands, NEW from, NEW to,
         \A j \in Commands \ {k} : Stage(j)' = Stage(j),
         Stage(k) = from, Stage(k)' = to
  PROVE  Promise!Moves(k, from, to)
  BY DEF Promise!Moves

\* One verdict changes.
LEMMA VerdictSet ==
  ASSUME NEW k \in Commands, NEW v,
         \A j \in Commands \ {k} : Verdict(j)' = Verdict(j),
         Verdict(k)' = v
  PROVE  [j \in Commands |-> Verdict(j)]'
           = [[j \in Commands |-> Verdict(j)] EXCEPT ![k] = v]
  OBVIOUS

\* No verdict changes.
LEMMA VerdictSame ==
  ASSUME \A j \in Commands : Verdict(j)' = Verdict(j)
  PROVE  [j \in Commands |-> Verdict(j)]' = [j \in Commands |-> Verdict(j)]
  OBVIOUS

\* A step that changes no view of a call and no presence is a stutter.
LEMMA Invisible ==
  ASSUME TypeOK,
         \A d \in Devices : (sessions'[d] # None) = (sessions[d] # None),
         UNCHANGED target,
         \A k \in Commands : Stage(k)' = Stage(k) /\ Verdict(k)' = Verdict(k)
  PROVE  UNCHANGED Promise!callsVars
  BY DEF Promise!callsVars

\* Initial states map to initial states.
LEMMA PromiseInit == Init => Promise!CallsInit
<1> SUFFICES ASSUME Init PROVE Promise!CallsInit
  OBVIOUS
<1>1. \A k \in Commands : Stage(k) = "idle" /\ Verdict(k) = "none"
  BY Views DEF Init
<1>2. [k \in Commands |-> Stage(k)] = [k \in Commands |-> "idle"]
  BY <1>1
<1>3. [k \in Commands |-> Verdict(k)] = [k \in Commands |-> "none"]
  BY <1>1
<1>4. target = [k \in Commands |-> None]
  BY DEF Init
<1>6. {d \in Devices : sessions[d] # None} = {}
  BY DEF Init
<1>7. QED
  BY <1>2, <1>3, <1>4, <1>6 DEF Promise!CallsInit

\* A registration attaches the device, if it was not there.
LEMMA AttachStep ==
  ASSUME IInv, NEW c \in Conns, Register(c), NEW d \in Devices, d = dev[c]
  PROVE  Promise!Attach(d) \/ UNCHANGED Promise!callsVars
<1> USE NoneAssumption DEF IInv, TypeOK, Register, HandlerGoes, Identified
<1>1. \A k \in Commands : Stage(k)' = Stage(k) /\ Verdict(k)' = Verdict(k)
  BY DEF Stage, Verdict, callVars
<1>2. UNCHANGED target
  BY DEF callVars
<1>3. CASE sessions[d] # None
  <2>1. \A x \in Devices : (sessions'[x] # None) = (sessions[x] # None)
    BY <1>2, <1>3
  <2>2. QED
    BY <1>1, <1>2, <2>1, Invisible
<1>4. CASE sessions[d] = None
  <2>1. {x \in Devices : sessions'[x] # None}
          = {x \in Devices : sessions[x] # None} \cup {d}
    BY <1>2, <1>4
  <2>2. QED
    BY <1>1, <1>2, <1>4, <2>1 DEF Promise!Attach
<1>5. QED
  BY <1>3, <1>4

\* A clean-up detaches it, if the session was its own.
LEMMA DetachStep ==
  ASSUME IInv, NEW c \in Conns, Cleanup(c), NEW d \in Devices, d = dev[c]
  PROVE  Promise!Detach(d) \/ UNCHANGED Promise!callsVars
<1> USE NoneAssumption DEF IInv, TypeOK, Cleanup, HandlerGoes, Identified
<1>1. UNCHANGED <<target, cpc, outcome>>
  OBVIOUS
<1>2. CASE sessions[d] # c
  <2>1. \A k \in Commands : Stage(k)' = Stage(k) /\ Verdict(k)' = Verdict(k)
    BY <1>2 DEF Stage, Verdict
  <2>2. QED
    BY <1>1, <1>2, <2>1, Invisible
<1>3. CASE sessions[d] = c
  <2>1. \A k \in Commands : Stage(k)' = Stage(k)
    BY <1>1 DEF Stage
  <2>2. ASSUME NEW k \in pending[d]
        PROVE  IF Stage(k) = "sent"
               THEN Verdict(k) = "none" /\ Verdict(k)' = "disconnected"
               ELSE Verdict(k)' = Verdict(k)
    <3>1. k \in Commands /\ ch[k] = NewChan
                        /\ cpc[k] \in {"send", "unregister", "wait"}
      BY <1>1 DEF PendingOK
    <3>2. ch'[k] = Close(Offer(NewChan, Result("disconnected")))
      BY <1>3, <3>1 DEF Drain
    <3>3. ch'[k].msg = Result("disconnected") /\ Result("disconnected") # NoMsg
          /\ Result("disconnected").kind = "disconnected"
      BY <3>2, Untouched DEF Result, NoMsg
    <3>4. QED
      BY <1>1, <3>1, <3>3, NewChanEmpty DEF Stage, Verdict
  <2>3. ASSUME NEW k \in Commands, k \notin pending[d]
        PROVE  Verdict(k)' = Verdict(k)
    BY <1>1, <1>3, <2>3 DEF Drain, Verdict
  <2>4. ASSUME NEW k \in Commands, Stage(k) = "sent", Verdict(k) = "none",
               target[k] = d
        PROVE  k \in pending[d]
    <3>1. cpc[k] = "wait"
      BY <2>4 DEF Stage
    <3>2. ch[k].msg = NoMsg /\ ~ch[k].closed
      BY <2>4, <3>1, Views, Kinds DEF MessageOK
    <3>3. QED
      BY <2>4, <3>1, <3>2 DEF WakerOK
  <2>5. ASSUME NEW k \in pending[d]
        PROVE  k \in Commands /\ target[k] = d
    BY <1>1 DEF PendingOK
  <2>6. \A k \in Commands :
          Verdict(k)' = IF Stage(k) = "sent" /\ Verdict(k) = "none" /\ target[k] = d
                        THEN "disconnected" ELSE Verdict(k)
    BY <2>2, <2>3, <2>4, <2>5
  <2>7. {x \in Devices : sessions'[x] # None}
          = {x \in Devices : sessions[x] # None} \ {d}
    BY <1>1, <1>3
  <2>8. QED
    BY <1>1, <1>3, <2>1, <2>6, <2>7 DEF Promise!Detach
<1>4. QED
  BY <1>2, <1>3

\* A look-up begins a call or turns it away.
LEMMA LookUpStep ==
  ASSUME IInv, NEW k \in Commands, NEW d \in Devices, NEW next \in {"arm", "post"},
         LookUp(k, d, next)
  PROVE  Promise!Call(k, d) \/ Promise!Refuse(k, d)
<1> USE NoneAssumption DEF IInv, TypeOK, LookUp, CallReturns, CallGoes
<1>1. cpc[k] = "idle" /\ UNCHANGED <<sessions, ch>>
  BY DEF mgrVars
<1>2. \A j \in Commands \ {k} : Stage(j)' = Stage(j) /\ Verdict(j)' = Verdict(j)
  BY <1>1, OthersStay
<1>3. Stage(k) = "idle" /\ Verdict(k) = "none"
  BY <1>1, Views
<1>4. CASE sessions[d] = None
  <2>1. Stage(k)' = "done" /\ Verdict(k)' = "not_found"
    BY <1>1, <1>4, Kinds DEF Stage, Verdict
  <2>2. QED
    BY <1>1, <1>2, <1>3, <1>4, <2>1 DEF Promise!Refuse, Promise!Moves
<1>5. CASE sessions[d] # None
  <2>1. Stage(k)' = "calling" /\ Verdict(k)' = "none"
    BY <1>1, <1>5 DEF Stage, Verdict
  <2>2. Promise!Moves(k, "idle", "calling")
    BY <1>2, <1>3, <2>1, Moved
  <2>3. [j \in Commands |-> Verdict(j)]' = [j \in Commands |-> Verdict(j)]
    BY <1>2, <1>3, <2>1, VerdictSame
  <2>4. QED
    BY <1>1, <1>5, <2>2, <2>3 DEF Promise!Call
<1>6. QED
  BY <1>4, <1>5

\* The write of a frame, whose verdict may be there already.
LEMMA SendStep ==
  ASSUME IInv, NEW k \in Commands, SendJSON(k)
  PROVE  \/ \E v \in {"none", "timeout", "disconnected"} : Promise!Send(k, v)
         \/ UNCHANGED Promise!callsVars
<1> USE DEF IInv, TypeOK, SendJSON, CallGoes
<1>1. cpc[k] = "send" /\ UNCHANGED <<sessions, target, ch, outcome>>
  BY DEF mgrVars
<1>2. \A j \in Commands \ {k} : Stage(j)' = Stage(j) /\ Verdict(j)' = Verdict(j)
  BY <1>1, OthersStay
<1>3. Stage(k) = "calling" /\ Verdict(k) = "none"
  BY <1>1, Views
<1>4. CASE cpc'[k] = "unregister"
  <2>1. Stage(k)' = "calling" /\ Verdict(k)' = "none"
    BY <1>4 DEF Stage, Verdict
  <2>2. QED
    BY <1>1, <1>2, <1>3, <2>1, Invisible
<1>5. CASE cpc'[k] = "wait"
  <2>1. Stage(k)' = "sent"
    BY <1>5 DEF Stage
  <2>2. ch[k].msg \in {NoMsg, Result("disconnected")}
    BY <1>1 DEF MessageOK
  <2>3. Verdict(k)' \in {"none", "timeout", "disconnected"}
    BY <1>1, <1>5, <2>2, Kinds DEF Verdict
  <2>4. Promise!Send(k, Verdict(k)')
    BY <1>1, <1>2, <1>3, <2>1 DEF Promise!Send, Promise!Moves
  <2>5. QED
    BY <2>3, <2>4
<1>6. QED
  BY <1>1, <1>4, <1>5

\* A call ends without a wait.
LEMMA FinishStep ==
  ASSUME IInv, NEW k \in Commands, Unregister(k) \/ Post(k)
  PROVE  \E v \in {"send_failed", "accepted"} : Promise!Finish(k, v)
<1> USE DEF IInv, TypeOK, Unregister, Post, CallReturns, CallGoes
<1>1. cpc[k] \in {"unregister", "post"} /\ UNCHANGED <<sessions, target, ch>>
  BY DEF mgrVars
<1>2. \A j \in Commands \ {k} : Stage(j)' = Stage(j) /\ Verdict(j)' = Verdict(j)
  BY <1>1, OthersStay
<1>3. Stage(k) = "calling" /\ Verdict(k) = "none"
  BY <1>1, Views
<1>4. PICK v \in {"send_failed", "accepted"} : CallReturns(k, cpc[k], Result(v))
  OBVIOUS
<1>5. Stage(k)' = "done" /\ Verdict(k)' = v
  BY <1>4, Kinds DEF Stage, Verdict
<1>6. Promise!Moves(k, "calling", "done")
  BY <1>2, <1>3, <1>5, Moved
<1>7. [j \in Commands |-> Verdict(j)]'
        = [[j \in Commands |-> Verdict(j)] EXCEPT ![k] = v]
  BY <1>2, <1>5, VerdictSet
<1>8. Promise!Finish(k, v)
  BY <1>1, <1>6, <1>7 DEF Promise!Finish
<1>9. QED
  BY <1>8

\* A caller takes its verdict.
LEMMA ReturnStep ==
  ASSUME IInv, NEW k \in Commands, Receive(k)
  PROVE  Promise!Return(k)
<1> USE DEF IInv, TypeOK, Receive, CallReturns, CallGoes
<1>1. cpc[k] = "wait" /\ cpc'[k] = "done" /\ UNCHANGED <<sessions, target>>
  BY DEF mgrVars
<1>2. \A j \in Commands \ {k} : Stage(j)' = Stage(j) /\ Verdict(j)' = Verdict(j)
  BY <1>1, OthersStay
<1>3. Stage(k) = "sent" /\ Stage(k)' = "done" /\ Verdict(k)' = outcome'[k].kind
  BY <1>1 DEF Stage, Verdict
<1>4. Promise!Moves(k, "sent", "done")
  BY <1>2, <1>3, Moved
<1>5. ASSUME Verdict(k) # "none", Verdict(k)' = Verdict(k)
      PROVE  Promise!Return(k)
  <2>1. [j \in Commands |-> Verdict(j)]' = [j \in Commands |-> Verdict(j)]
    BY <1>2, <1>5, VerdictSame
  <2>2. QED
    BY <1>1, <1>4, <1>5, <2>1 DEF Promise!Return
<1>6. CASE ch[k].msg # NoMsg
  <2>1. Verdict(k) = ch[k].msg.kind /\ outcome'[k] = ch[k].msg
    BY <1>1, <1>6, Views
  <2>2. ch[k].msg.kind # "none"
    BY <1>6, Kinds DEF MessageOK
  <2>3. QED
    BY <1>3, <1>5, <2>1, <2>2
<1>7. CASE ch[k].msg = NoMsg
  <2>1. Verdict(k) = "timeout" /\ outcome'[k] = Result("timeout")
    BY <1>1, <1>7, Views
  <2>2. QED
    BY <1>3, <1>5, <2>1, Kinds
<1>8. QED
  BY <1>6, <1>7

\* A response or a timer decides a call that waits, and nothing else.
LEMMA DecideStep ==
  ASSUME IInv, NEW k \in Commands, NEW v \in {"reply", "timeout"},
         UNCHANGED <<sessions, cpc, target, outcome>>,
         \A j \in Commands \ {k} : ch'[j] = ch[j],
         \/ ch'[k] = ch[k]
         \/ /\ ch[k] = NewChan
            /\ cpc[k] = "wait" => Verdict(k)' = v
  PROVE  Promise!Decide(k, v) \/ UNCHANGED Promise!callsVars
<1> USE DEF IInv, TypeOK
<1>1. \A j \in Commands \ {k} : Stage(j)' = Stage(j) /\ Verdict(j)' = Verdict(j)
  BY OthersStay
<1>2. Stage(k)' = Stage(k)
  BY DEF Stage
<1>3. CASE Verdict(k)' = Verdict(k)
  BY <1>1, <1>2, <1>3, Invisible
<1>4. CASE Verdict(k)' # Verdict(k)
  <2>1. cpc[k] = "wait" /\ ch[k] = NewChan
    BY <1>4 DEF Verdict
  <2>2. Stage(k) = "sent" /\ Verdict(k) = "none" /\ Verdict(k)' = v
    BY <1>4, <2>1, Views, NewChanEmpty DEF Verdict
  <2>3. [j \in Commands |-> Verdict(j)]'
          = [[j \in Commands |-> Verdict(j)] EXCEPT ![k] = v]
    BY <1>1, <2>2, VerdictSet
  <2>4. [j \in Commands |-> Stage(j)]' = [j \in Commands |-> Stage(j)]
    BY <1>1, <1>2
  <2>5. QED
    BY <2>2, <2>3, <2>4 DEF Promise!Decide
<1>5. QED
  BY <1>3, <1>4

\* An answer decides a call that waits.
LEMMA AnswerStep ==
  ASSUME IInv, NEW c \in Conns, NEW k \in Commands, ReadResponse(c, k)
  PROVE  Promise!Decide(k, "reply") \/ UNCHANGED Promise!callsVars
<1> USE DEF IInv, TypeOK, ReadResponse, HandleResponse
<1>1. /\ UNCHANGED <<sessions, cpc, target, outcome>>
      /\ dev[c] \in Devices
      /\ \A j \in Commands \ {k} : ch'[j] = ch[j]
  BY DEF Identified
<1>2. CASE k \in pending[dev[c]]
  <2>1. ch[k] = NewChan
    BY <1>1, <1>2 DEF PendingOK
  <2>2. ch'[k].msg = Reply(c, k) /\ Reply(c, k) # NoMsg
    BY <1>2, <2>1, Untouched, Kinds
  <2>3. cpc[k] = "wait" => Verdict(k)' = "reply"
    BY <1>1, <2>2, Kinds DEF Verdict
  <2>4. QED
    BY <1>1, <2>1, <2>3, DecideStep
<1>3. CASE k \notin pending[dev[c]]
  BY <1>1, <1>3, DecideStep
<1>4. QED
  BY <1>2, <1>3

\* So does its timer.
LEMMA ExpireStep ==
  ASSUME IInv, NEW k \in Commands, Timeout(k)
  PROVE  Promise!Decide(k, "timeout") \/ UNCHANGED Promise!callsVars
<1> USE DEF IInv, TypeOK, Timeout
<1>1. /\ UNCHANGED <<sessions, cpc, target, outcome>>
      /\ target[k] \in Devices
      /\ \A j \in Commands \ {k} : ch'[j] = ch[j]
  BY DEF TimerOK, CallStates, Sending
<1>2. CASE k \in pending[target[k]]
  <2>1. ch[k] = NewChan
    BY <1>1, <1>2 DEF PendingOK
  <2>2. ch'[k].msg = NoMsg /\ ch'[k].closed
    BY <1>2, <2>1, Untouched
  <2>3. cpc[k] = "wait" => Verdict(k)' = "timeout"
    BY <1>1, <2>2 DEF Verdict
  <2>4. QED
    BY <1>1, <2>1, <2>3, DecideStep
<1>3. CASE k \notin pending[target[k]]
  BY <1>1, <1>3, DecideStep
<1>4. QED
  BY <1>2, <1>3

\* Accepting, reading and closing connections, and preparing a call.
LEMMA QuietStep ==
  ASSUME IInv, UNCHANGED <<sessions, target, ch, outcome>>,
         \A k \in Commands : Stage(k)' = Stage(k) /\ (cpc'[k] = cpc[k] \/ Stage(k) = "calling")
  PROVE  UNCHANGED Promise!callsVars
<1>1. ASSUME NEW k \in Commands
      PROVE  Verdict(k)' = Verdict(k)
  <2>1. CASE cpc'[k] = cpc[k]
    BY <2>1 DEF Verdict
  <2>2. CASE Stage(k) = "calling"
    BY <2>2 DEF Stage, Verdict
  <2>3. QED
    BY <2>1, <2>2
<1>2. QED
  BY <1>1, Invisible DEF IInv

\* Every step maps to a step or to a stutter.
LEMMA PromiseStep ==
  ASSUME IInv, [Next]_vars
  PROVE  Promise!CallsNext \/ UNCHANGED Promise!callsVars
<1> USE DEF mgrVars, connVars, callVars, vars
<1>1. ASSUME NEW c \in Conns, HandlerStep(c)
      PROVE  Promise!CallsNext \/ UNCHANGED Promise!callsVars
  <2>1. CASE Register(c)
    <3>1. PICK d \in Devices : d = dev[c]
      BY <2>1 DEF Register, HandlerGoes, IInv, TypeOK, Identified
    <3>2. Promise!Attach(d) \/ UNCHANGED Promise!callsVars
      BY <2>1, <3>1, AttachStep
    <3>3. QED
      BY <3>2 DEF Promise!CallsNext
  <2>2. CASE Cleanup(c)
    <3>1. PICK d \in Devices : d = dev[c]
      BY <2>2 DEF Cleanup, HandlerGoes, IInv, TypeOK, Identified
    <3>2. Promise!Detach(d) \/ UNCHANGED Promise!callsVars
      BY <2>2, <3>1, DetachStep
    <3>3. QED
      BY <3>2 DEF Promise!CallsNext
  <2>3. CASE CloseOld(c) \/ CloseConn(c)
    BY <2>3, QuietStep DEF CloseOld, CloseConn, Stage
  <2>4. QED
    BY <1>1, <2>1, <2>2, <2>3 DEF HandlerStep
<1>2. ASSUME NEW c \in Conns, PeerStep(c)
      PROVE  Promise!CallsNext \/ UNCHANGED Promise!callsVars
  <2>1. ASSUME NEW k \in Commands, ReadResponse(c, k)
        PROVE  Promise!CallsNext \/ UNCHANGED Promise!callsVars
    BY <2>1, AnswerStep DEF Promise!CallsNext
  <2>2. CASE Accept(c) \/ RefuseConnect(c) \/ ReadError(c)
    BY <2>2, QuietStep DEF Accept, RefuseConnect, ReadError, Stage
  <2>3. ASSUME NEW d \in Devices, ReadConnect(c, d)
        PROVE  Promise!CallsNext \/ UNCHANGED Promise!callsVars
    BY <2>3, QuietStep DEF ReadConnect, Stage
  <2>4. QED
    BY <1>2, <2>1, <2>2, <2>3 DEF PeerStep
<1>3. ASSUME NEW k \in Commands, CallStep(k)
      PROVE  Promise!CallsNext \/ UNCHANGED Promise!callsVars
  <2>1. CASE ArmTimer(k) \/ RegisterPending(k)
    <3>1. /\ cpc[k] \in {"arm", "register"} /\ cpc'[k] \in {"register", "send"}
          /\ \A j \in Commands \ {k} : cpc'[j] = cpc[j]
          /\ UNCHANGED <<sessions, target, ch, outcome>>
      BY <2>1 DEF ArmTimer, RegisterPending, CallGoes, IInv, TypeOK
    <3>2. QED
      BY <3>1, QuietStep DEF Stage
  <2>2. CASE SendJSON(k)
    BY <2>2, SendStep DEF Promise!CallsNext
  <2>3. CASE Unregister(k) \/ Post(k)
    BY <2>3, FinishStep DEF Promise!CallsNext
  <2>4. CASE Receive(k)
    BY <2>4, ReturnStep DEF Promise!CallsNext
  <2>5. QED
    BY <1>3, <2>1, <2>2, <2>3, <2>4 DEF CallStep
<1>4. ASSUME NEW k \in Commands, ClientStep(k)
      PROVE  Promise!CallsNext \/ UNCHANGED Promise!callsVars
  <2>1. PICK d \in Devices : LookUp(k, d, "arm") \/ LookUp(k, d, "post")
    BY <1>4 DEF ClientStep, SendCommand, SendCommandNoWait
  <2>2. Promise!Call(k, d) \/ Promise!Refuse(k, d)
    BY <2>1, LookUpStep
  <2>3. QED
    BY <2>2 DEF Promise!CallsNext
<1>5. ASSUME NEW k \in Commands, Timeout(k)
      PROVE  Promise!CallsNext \/ UNCHANGED Promise!callsVars
  BY <1>5, ExpireStep DEF Promise!CallsNext
<1>6. CASE UNCHANGED vars
  BY <1>6, QuietStep DEF Stage
<1>7. QED
  BY <1>1, <1>2, <1>3, <1>4, <1>5, <1>6 DEF Next

\* The manager keeps its promise to the callers of SendCommand and
\* SendCommandNoWait (manager.go:335-349, 405-430, 457-579): one verdict for
\* each command sent, none left open when its device goes away.
THEOREM PromiseKept == Spec => CallsKept
<1>1. Init => Promise!CallsInit
  BY PromiseInit
<1>2. IInv /\ [Next]_vars => [Promise!CallsNext]_(Promise!callsVars)
  BY PromiseStep
<1>3. QED
  BY <1>1, <1>2, Invariance, PTL DEF Spec, CallsKept, Promise!CallsSpec
=============================================================================
