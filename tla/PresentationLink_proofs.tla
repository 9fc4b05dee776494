----------------------- MODULE PresentationLink_proofs -----------------------
(***************************************************************************)
(* Proofs about the presentation link.                                     *)
(*                                                                         *)
(* For every value of the constants: the types, that the host never sends  *)
(* a tile outside the panel, and that no input handler runs once the       *)
(* display is destroyed.  For a client that sends no Ping, one session,    *)
(* and no more frames than wire ids: a present that returned success has   *)
(* put its rows on the panel, and the link implements DisplaySink.         *)
(***************************************************************************)
EXTENDS PresentationLink, SequenceTheorems, TLAPS

FramePhase == ui \in {"begin", "tile", "end", "await"}

\* What the UI thread knows of the frame it is sending.
FrameOK ==
  FramePhase =>
    /\ frame.id \in 1 .. MaxId /\ stamp \in 1 .. MaxFrames
    /\ frame.h >= 1 /\ frame.y + frame.h <= Rows
    /\ (ui = "begin" => frame.row = 0)
    /\ (ui = "tile" => frame.row < frame.h)
    /\ (ui \in {"end", "await"} => frame.row = frame.h)

\* Every tile under way lies in the panel, and every ack reports success.
TilesFit == \A i \in 1 .. Len(toClient) :
              toClient[i].t = "tile" => toClient[i].y + toClient[i].h <= Rows

TypeInv == TypeOK /\ FrameOK /\ TilesFit /\ NoProtocolError

-----------------------------------------------------------------------------
Active == ui \in {"tile", "end", "await"}
IsFrame(m) == m.t \in {"begin", "tile", "end"}
Current(m) == IsFrame(m) /\ m.id = stamp

AckedStamp == \/ lastAck.id = stamp
              \/ \E i \in 1 .. Len(toHost) : toHost[i].t = "ack" /\ toHost[i].id = stamp

\* Ids name presents: no id of a frame under way is newer than the present, and
\* a tile carries the pixels of the present its id names.
IdsOK ==
  /\ stamp < MaxId => nextId = stamp + 1
  /\ FramePhase => frame.id = stamp
  /\ FramePhase <=> result = "pending"
  /\ open <= stamp /\ lastAck.id <= stamp
  /\ \A i \in 1 .. Len(toHost) :
       /\ toHost[i].t # "ping"
       /\ toHost[i].t = "ack" => toHost[i].id <= stamp
  /\ \A i \in 1 .. Len(toClient) :
       /\ IsFrame(toClient[i]) => toClient[i].id <= stamp
       /\ toClient[i].t = "tile" => toClient[i].px = toClient[i].id

NoPongs == rx # "pong" /\ writer # "rx"

\* The row a message of the running frame starts at, and the one its successor
\* must start at.  One row past the end stands for "nothing more".
Start(m) == IF m.t = "tile" THEN m.y
            ELSE IF m.t = "begin" THEN frame.y ELSE frame.y + frame.h
Stop(m)  == IF m.t = "tile" THEN m.y + m.h
            ELSE IF m.t = "begin" THEN frame.y ELSE frame.y + frame.h + 1
Sent     == IF ui = "await" THEN frame.y + frame.h + 1 ELSE frame.y + frame.row
Reached  == IF toClient = <<>> THEN Sent ELSE Start(Head(toClient))

\* Messages of the running frame are the end of the queue, without a gap.
ChainOK ==
  Active =>
    /\ \A i \in 1 .. Len(toClient) : Current(toClient[i]) =>
         /\ toClient[i].t = "tile" =>
              /\ frame.y <= toClient[i].y
              /\ toClient[i].y + toClient[i].h <= frame.y + frame.h
         /\ i = Len(toClient) => Stop(toClient[i]) = Sent
         /\ i < Len(toClient) => Start(toClient[i + 1]) = Stop(toClient[i])
         /\ \A j \in i .. Len(toClient) : Current(toClient[j])

\* A client that has the frame open is in step and has shown what came before.
OpenOK ==
  Active /\ open = stamp =>
    /\ synced
    /\ \A i \in 1 .. Len(toClient) : Current(toClient[i])
    /\ \A r \in FrameRows : r < Reached => panel[r] = stamp

\* Nothing of a frame exists before its Begin, and no ack before its End.
FreshOK == /\ ui = "begin" => /\ open # stamp
                              /\ \A i \in 1 .. Len(toClient) : ~Current(toClient[i])
           /\ ui \in {"begin", "tile", "end"} => ~AckedStamp

\* An ack of the running frame, or success, means shown and nothing left to come.
DoneOK ==
  (ui = "await" /\ AckedStamp) \/ result = "ok" =>
    /\ \A i \in 1 .. Len(toClient) : ~IsFrame(toClient[i])
    /\ \A r \in FrameRows : panel[r] = stamp

ShownInv == TypeInv /\ IdsOK /\ NoPongs /\ ChainOK /\ OpenOK /\ FreshOK /\ DoneOK

-----------------------------------------------------------------------------
(* Queues and messages                                                     *)

\* What appending a message to a queue leaves in place.
LEMMA Appended ==
  ASSUME NEW S, NEW q \in Seq(S), NEW m \in S
  PROVE  /\ Append(q, m) \in Seq(S)
         /\ Len(q) \in Nat /\ Len(Append(q, m)) = Len(q) + 1
         /\ \A i \in 1 .. Len(q) : Append(q, m)[i] = q[i]
         /\ Append(q, m)[Len(q) + 1] = m
         /\ Append(q, m) # <<>> /\ Head(Append(q, m)) = Append(q, m)[1]
  BY AppendProperties, EmptySeq

\* What taking the head of a queue leaves.
LEMMA Taken ==
  ASSUME NEW S, NEW q \in Seq(S), q # <<>>
  PROVE  /\ Tail(q) \in Seq(S) /\ Head(q) \in S /\ Head(q) = q[1]
         /\ Len(q) \in Nat /\ Len(q) >= 1 /\ Len(Tail(q)) = Len(q) - 1
         /\ \A i \in 1 .. Len(Tail(q)) : Tail(q)[i] = q[i + 1]
  OBVIOUS

\* What dropping the first k messages of a queue leaves.
LEMMA Dropped ==
  ASSUME NEW S, NEW q \in Seq(S), NEW k \in 1 .. Len(q)
  PROVE  /\ SubSeq(q, k + 1, Len(q)) \in Seq(S)
         /\ Len(SubSeq(q, k + 1, Len(q))) = Len(q) - k
         /\ \A i \in 1 .. Len(q) - k : SubSeq(q, k + 1, Len(q))[i] = q[i + k]
  OBVIOUS

\* The messages the host may send, and what each of their fields holds.
LEMMA HostMessages ==
  /\ \A x \in {"hello", "bye", "backlight", "pong", "torn"} : [t |-> x] \in HostMsg
  /\ \A i \in 1 .. MaxId : /\ [t |-> "begin", id |-> i] \in HostMsg
                           /\ [t |-> "end", id |-> i] \in HostMsg
  /\ \A i \in 1 .. MaxId, p \in 1 .. MaxFrames, y \in RowSet, h \in 1 .. Rows :
       [t |-> "tile", id |-> i, px |-> p, y |-> y, h |-> h] \in HostMsg
  /\ \A m \in HostMsg :
       /\ m.t \in {"hello", "bye", "backlight", "pong", "torn", "begin", "tile", "end"}
       /\ m.t \in {"begin", "tile", "end"} => m.id \in 1 .. MaxId
       /\ m.t = "tile" => m.px \in 1 .. MaxFrames /\ m.y \in RowSet /\ m.h \in 1 .. Rows
  BY SMTT(30) DEF HostMsg

\* The messages the client may send, and what each of their fields holds.
LEMMA ClientMessages ==
  /\ \A g \in Replies : [t |-> "reply", good |-> g] \in ClientMsg
  /\ [t |-> "ping"] \in ClientMsg /\ [t |-> "input"] \in ClientMsg
  /\ \A i \in 1 .. MaxId, s \in {0, 1} :
       [t |-> "ack", id |-> i, status |-> s] \in ClientMsg
  /\ \A m \in ClientMsg :
       /\ m.t \in {"reply", "ping", "input", "ack"}
       /\ m.t = "ack" => m.id \in 1 .. MaxId /\ m.status \in {0, 1}
  BY SMTT(30) DEF ClientMsg

\* A write, whole, torn or not made at all, leaves a queue of fitting messages.
LEMMA WriteType ==
  ASSUME TypeOK, TilesFit, NEW w, NEW m \in HostMsg,
         m.t = "tile" => m.y + m.h <= Rows, Written(w, m)
  PROVE  toClient' \in Seq(HostMsg) /\ TilesFit' /\ writer' = "none"
  BY Appended DEF TypeOK, Written, TilesFit

\* A torn message is a message of the host, and not a tile.
LEMMA TornType ==
  ASSUME TypeOK, TilesFit, toClient' = Append(toClient, [t |-> "torn"])
  PROVE  toClient' \in Seq(HostMsg) /\ TilesFit'
<1> DEFINE m == [t |-> "torn"]
<1>1. m \in HostMsg /\ m.t # "tile"  BY HostMessages
<1>2. QED  BY <1>1, Appended DEF TypeOK, TilesFit

\* A write that failed leaves a queue of fitting messages.
LEMMA NoWriteType ==
  ASSUME TypeOK, TilesFit, NEW w, NotWritten(w)
  PROVE  toClient' \in Seq(HostMsg) /\ TilesFit' /\ writer' = "none"
<1>1. CASE toClient' = toClient  BY <1>1 DEF TypeOK, TilesFit, NotWritten
<1>2. CASE toClient' = Append(toClient, [t |-> "torn"])
      BY <1>2, TornType DEF NotWritten
<1>3. QED  BY <1>1, <1>2 DEF NotWritten

\* An answer of the client keeps the queue's type; none reports an error.
LEMMA ReplyType ==
  ASSUME TypeOK, NoProtocolError, NEW m \in ClientMsg,
         m.t = "ack" => m.status = 0, Reply(m)
  PROVE  toHost' \in Seq(ClientMsg) /\ NoProtocolError'
  BY Appended DEF TypeOK, Reply, NoProtocolError

\* What the client leaves of a queue of fitting messages fits.
LEMMA HandledType ==
  ASSUME TypeOK, TilesFit, toClient # <<>>, toClient' = Tail(toClient)
  PROVE  toClient' \in Seq(HostMsg) /\ TilesFit'
  BY Taken DEF TypeOK, TilesFit

-----------------------------------------------------------------------------
(* Types, for every value of the constants                                 *)

\* The types hold when connect() is called.
LEMMA InitType == Init => TypeInv
<1> SUFFICES ASSUME Init PROVE TypeInv  OBVIOUS
<1> USE LinkAssumption
<1>1. frame \in [id : 0 .. MaxId, y : RowSet, h : 0 .. Rows, row : 0 .. Rows]
      BY DEF Init, NoFrame, RowSet
<1>2. /\ lastAck \in [id : 0 .. MaxId, status : {0, 1}]
      /\ panel \in [RowSet -> 0 .. MaxFrames]
      BY DEF Init, NoAck
<1>3. toClient \in Seq(HostMsg) /\ toHost \in Seq(ClientMsg)
      BY DEF Init
<1>4. /\ ui \in Sending \cup {"pump", "idle", "await", "join", "closed", "failed"}
      /\ nextId \in 1 .. MaxId /\ stamp \in 0 .. MaxFrames /\ lastOk \in 0 .. MaxFrames
      /\ result \in {"none", "pending", "ok", "invalid", "timeout", "io"}
      /\ rx \in {"off", "read", "pong", "exited"} /\ writer \in {"none", "ui", "rx"}
      /\ open \in 0 .. MaxId /\ handled \in Nat /\ pings \in 0 .. MaxPings
      /\ touches \in 0 .. MaxInputs /\ session \in 1 .. MaxSessions
      BY DEF Init, Sending
<1>5. running \in BOOLEAN /\ linkUp \in BOOLEAN /\ synced \in BOOLEAN
      BY DEF Init
<1>6. TypeOK  BY <1>1, <1>2, <1>3, <1>4, <1>5 DEF TypeOK
<1>7. FrameOK /\ TilesFit /\ NoProtocolError
      BY DEF Init, FrameOK, FramePhase, TilesFit, NoProtocolError
<1>8. QED  BY <1>6, <1>7 DEF TypeInv

\* The steps of the UI thread keep the types.
LEMMA UiStepType == TypeInv /\ UiStep => TypeInv'
<1> SUFFICES ASSUME TypeInv, UiStep PROVE TypeInv'  OBVIOUS
<1> USE LinkAssumption DEF TypeInv
<1>1. CASE UiLock
      BY <1>1 DEF UiLock, TakeWriteMutex, TypeOK, FrameOK, FramePhase, TilesFit,
           NoProtocolError, uiVars, hostVars, clientVars, bounds
<1>2. CASE SendHello
  <2>1. toClient' \in Seq(HostMsg) /\ TilesFit' /\ writer' = "none"
        BY <1>2, WriteType, HostMessages DEF SendHello
  <2>2. QED  BY <1>2, <2>1 DEF SendHello, TypeOK, FrameOK, FramePhase, NoProtocolError,
                  hostVars, clientVars, bounds, Sending
<1>3. CASE PumpRead
  <2>1. PICK k \in 1 .. Len(toHost) : toHost' = SubSeq(toHost, k + 1, Len(toHost))
        BY <1>3 DEF PumpRead
  <2>2. toHost' \in Seq(ClientMsg) /\ NoProtocolError'
        BY <2>1, Dropped DEF TypeOK, NoProtocolError
  <2>3. /\ ui = "pump" /\ ui' \in {"pump", "failed", "idle"}
        /\ rx' \in {rx, "read"} /\ running' \in {running, TRUE}
        BY <1>3 DEF PumpRead
  <2>4. QED  BY <1>3, <2>2, <2>3 DEF PumpRead, TypeOK, FrameOK, FramePhase, TilesFit,
                  clientVars, bounds, Sending
<1>4. CASE ConnectFails
      BY <1>4 DEF ConnectFails, TypeOK, FrameOK, FramePhase, TilesFit,
           NoProtocolError, hostVars, clientVars, bounds, Sending
<1>5. CASE SendBegin
  <2>1. toClient' \in Seq(HostMsg) /\ TilesFit' /\ writer' = "none"
    <3>1. frame.id \in 1 .. MaxId  BY <1>5 DEF SendBegin, FrameOK, FramePhase
    <3>2. [t |-> "begin", id |-> frame.id] \in HostMsg  BY <3>1, HostMessages
    <3>3. QED  BY <1>5, <3>2, WriteType DEF SendBegin
  <2>2. QED  BY <1>5, <2>1 DEF SendBegin, TypeOK, FrameOK, FramePhase, NoProtocolError,
                  hostVars, clientVars, bounds, Sending
<1>6. CASE SendTile
  <2> DEFINE m == [t |-> "tile", id |-> frame.id, px |-> stamp,
                   y |-> frame.y + frame.row, h |-> TileRows]
  <2>1. /\ frame.id \in 1 .. MaxId /\ stamp \in 1 .. MaxFrames
        /\ frame.y \in RowSet /\ frame.row \in Nat /\ frame.h \in Nat
        /\ frame.row < frame.h /\ frame.y + frame.h <= Rows
        BY <1>6 DEF SendTile, FrameOK, FramePhase, TypeOK
  <2>2. /\ TileRows \in 1 .. Rows /\ frame.row + TileRows <= frame.h
        /\ frame.row + RowsPerTile < frame.h => frame.row + TileRows < frame.h
        /\ ~(frame.row + RowsPerTile < frame.h) => frame.row + TileRows = frame.h
        BY <2>1 DEF TileRows, RowSet
  <2>3. m \in HostMsg /\ m.y + m.h <= Rows
        BY <2>1, <2>2, HostMessages DEF RowSet
  <2>4. toClient' \in Seq(HostMsg) /\ TilesFit' /\ writer' = "none"
        BY <1>6, <2>3, WriteType DEF SendTile
  <2>5. /\ frame' = [frame EXCEPT !.row = frame.row + TileRows]
        /\ frame \in [id : 0 .. MaxId, y : RowSet, h : 0 .. Rows, row : 0 .. Rows]
        /\ frame.row + TileRows \in 0 .. Rows
    <3>1. frame' = [frame EXCEPT !.row = frame.row + TileRows]  BY <1>6 DEF SendTile
    <3>2. frame \in [id : 0 .. MaxId, y : RowSet, h : 0 .. Rows, row : 0 .. Rows]
          BY DEF TypeOK
    <3>3. frame.h \in 0 .. Rows /\ frame.row + TileRows \in 0 .. Rows
          BY <3>2, <2>1, <2>2
    <3>4. QED  BY <3>1, <3>2, <3>3
  <2>6. FrameOK'
        BY <1>6, <2>1, <2>2, <2>5 DEF SendTile, FrameOK, FramePhase
  <2>7. QED  BY <1>6, <2>4, <2>5, <2>6 DEF SendTile, TypeOK, NoProtocolError,
                  hostVars, clientVars, bounds, Sending
<1>7. CASE SendEnd
  <2>1. toClient' \in Seq(HostMsg) /\ TilesFit' /\ writer' = "none"
    <3>1. frame.id \in 1 .. MaxId  BY <1>7 DEF SendEnd, FrameOK, FramePhase
    <3>2. [t |-> "end", id |-> frame.id] \in HostMsg  BY <3>1, HostMessages
    <3>3. QED  BY <1>7, <3>2, WriteType DEF SendEnd
  <2>2. QED  BY <1>7, <2>1 DEF SendEnd, TypeOK, FrameOK, FramePhase, NoProtocolError,
                  hostVars, clientVars, bounds, Sending
<1>8. CASE AwaitAck
      BY <1>8 DEF AwaitAck, TypeOK, FrameOK, FramePhase, TilesFit, NoProtocolError,
           hostVars, clientVars, bounds, Sending
<1>9. CASE AckTimeout
      BY <1>9 DEF AckTimeout, TypeOK, FrameOK, FramePhase, TilesFit, NoProtocolError,
           hostVars, clientVars, bounds, Sending
<1>10. CASE SendBacklight
  <2>1. toClient' \in Seq(HostMsg) /\ TilesFit' /\ writer' = "none"
        BY <1>10, WriteType, HostMessages DEF SendBacklight
  <2>2. QED  BY <1>10, <2>1 DEF SendBacklight, TypeOK, FrameOK, FramePhase,
                  NoProtocolError, hostVars, clientVars, bounds, Sending
<1>11. CASE UiWriteFails
  <2>1. toClient' \in Seq(HostMsg) /\ TilesFit' /\ writer' = "none"
        BY <1>11, NoWriteType DEF UiWriteFails
  <2>2. /\ ui' \in {"failed", "join", "idle"} /\ running' \in BOOLEAN
        /\ result' \in {"none", "pending", "ok", "invalid", "timeout", "io"}
        BY <1>11 DEF UiWriteFails, FailsTo, StillRunning, TypeOK
  <2>3. QED  BY <1>11, <2>1, <2>2 DEF UiWriteFails, TypeOK, FrameOK, FramePhase,
                  NoProtocolError, clientVars, bounds
<1>12. CASE SendBye
  <2>1. toClient' \in Seq(HostMsg) /\ TilesFit' /\ writer' = "none"
        BY <1>12, WriteType, HostMessages DEF SendBye
  <2>2. QED  BY <1>12, <2>1 DEF SendBye, TypeOK, FrameOK, FramePhase, NoProtocolError,
                  clientVars, bounds
<1>13. CASE Join
      BY <1>13 DEF Join, TypeOK, FrameOK, FramePhase, TilesFit, NoProtocolError,
           hostVars, clientVars, bounds
<1>14. QED
      BY <1>1, <1>2, <1>3, <1>4, <1>5, <1>6, <1>7, <1>8, <1>9, <1>10, <1>11, <1>12,
         <1>13 DEF UiStep

\* The calls of the display's user keep the types.
LEMMA UiCallType == TypeInv /\ UiCall => TypeInv'
<1> SUFFICES ASSUME TypeInv, UiCall PROVE TypeInv'  OBVIOUS
<1> USE LinkAssumption DEF TypeInv
<1>1. CASE Present
  <2>1. PICK y \in RowSet, h \in 1 .. Rows :
          InBounds(y, h) /\ frame' = [id |-> nextId, y |-> y, h |-> h, row |-> 0]
        BY <1>1 DEF Present
  <2>2. nextId \in 1 .. MaxId /\ stamp' \in 1 .. MaxFrames
        BY <1>1 DEF Present, TypeOK
  <2>3. frame' \in [id : 0 .. MaxId, y : RowSet, h : 0 .. Rows, row : 0 .. Rows]
        BY <2>1, <2>2
  <2>4. nextId' \in 1 .. MaxId  BY <1>1, <2>2 DEF Present, NextId
  <2>5. lastAck' \in [id : 0 .. MaxId, status : {0, 1}]  BY <1>1 DEF Present, NoAck
  <2>6. FrameOK'
        BY <1>1, <2>1, <2>2 DEF Present, FrameOK, FramePhase, InBounds, RowSet
  <2>7. QED  BY <1>1, <2>2, <2>3, <2>4, <2>5, <2>6 DEF Present, TypeOK, TilesFit,
                  NoProtocolError, clientVars, bounds, Sending
<1>2. CASE PresentRejected
      BY <1>2 DEF PresentRejected, TypeOK, FrameOK, FramePhase, TilesFit,
           NoProtocolError, hostVars, clientVars, bounds, Sending
<1>3. CASE SetBacklight
      BY <1>3 DEF SetBacklight, TypeOK, FrameOK, FramePhase, TilesFit,
           NoProtocolError, hostVars, clientVars, bounds, Sending
<1>4. CASE Destroy
      BY <1>4 DEF Destroy, TypeOK, FrameOK, FramePhase, TilesFit,
           NoProtocolError, hostVars, clientVars, bounds, Sending
<1>5. QED  BY <1>1, <1>2, <1>3, <1>4 DEF UiCall

\* The steps of the receive thread keep the types.
LEMMA RxStepType == TypeInv /\ RxStep => TypeInv'
<1> SUFFICES ASSUME TypeInv, RxStep PROVE TypeInv'  OBVIOUS
<1> USE LinkAssumption DEF TypeInv
<1>1. CASE RxMessage
  <2>1. PICK m \in ClientMsg :
          /\ Received(m)
          /\ \/ /\ m.t = "ack" /\ lastAck' = [id |-> m.id, status |-> m.status]
                /\ UNCHANGED <<rx, handled>>
             \/ m.t = "ping" /\ rx' = "pong" /\ UNCHANGED <<lastAck, handled>>
             \/ m.t = "input" /\ handled' = handled + 1 /\ UNCHANGED <<lastAck, rx>>
             \/ m.t = "reply" /\ UNCHANGED <<lastAck, rx, handled>>
        BY <1>1 DEF RxMessage
  <2>2. toHost' \in Seq(ClientMsg) /\ NoProtocolError'
        BY <2>1, Taken DEF Received, TypeOK, NoProtocolError
  <2>3. lastAck' \in [id : 0 .. MaxId, status : {0, 1}]
        BY <2>1, ClientMessages DEF TypeOK
  <2>4. rx' \in {"off", "read", "pong", "exited"} /\ handled' \in Nat
        BY <2>1 DEF TypeOK
  <2>5. QED  BY <1>1, <2>2, <2>3, <2>4 DEF RxMessage, TypeOK, FrameOK, FramePhase,
                  TilesFit, uiVars, clientVars, bounds
<1>2. CASE RxLock
      BY <1>2 DEF RxLock, TakeWriteMutex, TypeOK, FrameOK, FramePhase, TilesFit,
           NoProtocolError, uiVars, hostVars, clientVars, bounds
<1>3. CASE RxPong
  <2>1. toClient' \in Seq(HostMsg) /\ TilesFit' /\ writer' = "none"
        BY <1>3, WriteType, NoWriteType, HostMessages DEF RxPong
  <2>2. QED  BY <1>3, <2>1 DEF RxPong, TypeOK, FrameOK, FramePhase, NoProtocolError,
                  uiVars, clientVars, bounds
<1>4. CASE RxExit
      BY <1>4 DEF RxExit, TypeOK, FrameOK, FramePhase, TilesFit, NoProtocolError,
           uiVars, clientVars, bounds
<1>5. QED  BY <1>1, <1>2, <1>3, <1>4 DEF RxStep

\* The steps of the client keep the types.
LEMMA ClientType == TypeInv /\ Client => TypeInv'
<1> SUFFICES ASSUME TypeInv, Client PROVE TypeInv'  OBVIOUS
<1> USE LinkAssumption DEF TypeInv
<1>1. CASE ClientHandle
  <2> DEFINE m == Head(toClient)
  <2>1. /\ m \in HostMsg /\ m = toClient[1] /\ 1 \in 1 .. Len(toClient)
        /\ toClient' \in Seq(HostMsg) /\ TilesFit'
        BY <1>1, Taken, HandledType DEF ClientHandle, TypeOK
  <2>2. m.t = "tile" => m.y + m.h <= Rows  BY <2>1 DEF TilesFit
  <2>3. /\ toHost' \in Seq(ClientMsg) /\ NoProtocolError'
        /\ open' \in 0 .. MaxId /\ panel' \in [RowSet -> 0 .. MaxFrames]
    <3>1. CASE ClientHello(m)
          BY <3>1, ReplyType, ClientMessages DEF ClientHello, TypeOK
    <3>2. CASE ClientBegin(m)
          BY <3>2, <2>1, HostMessages DEF ClientBegin, TypeOK, NoProtocolError
    <3>3. CASE ClientTile(m)
      <4>1. CASE open # m.id
            BY <3>3, <4>1 DEF ClientTile, TypeOK, NoProtocolError
      <4>2. CASE open = m.id
        <5>1. /\ m.px \in 0 .. MaxFrames /\ m.y \in Int /\ m.h \in Int /\ m.t = "tile"
              BY <3>3, <2>1, HostMessages DEF ClientTile, RowSet
        <5>2. ~(m.y + m.h > Rows)  BY <5>1, <2>2
        <5>3. /\ panel' = [r \in RowSet |->
                    IF r \in m.y .. m.y + m.h - 1 THEN m.px ELSE panel[r]]
              /\ UNCHANGED <<open, toHost>>
              BY <3>3, <4>2, <5>2 DEF ClientTile
        <5>4. QED  BY <5>1, <5>3 DEF TypeOK, NoProtocolError
      <4>3. QED  BY <4>1, <4>2
    <3>4. CASE ClientEnd(m)
      <4>1. CASE open # m.id
            BY <3>4, <4>1 DEF ClientEnd, TypeOK, NoProtocolError
      <4>2. CASE open = m.id
        <5>1. m.id \in 1 .. MaxId  BY <3>4, <2>1, HostMessages DEF ClientEnd
        <5>2. [t |-> "ack", id |-> m.id, status |-> 0] \in ClientMsg
              BY <5>1, ClientMessages
        <5>3. Reply([t |-> "ack", id |-> m.id, status |-> 0]) /\ open' = 0 /\ UNCHANGED panel
              BY <3>4, <4>2 DEF ClientEnd
        <5>4. toHost' \in Seq(ClientMsg) /\ NoProtocolError'
              BY <5>2, <5>3, ReplyType
        <5>5. QED  BY <5>3, <5>4 DEF TypeOK
      <4>3. QED  BY <4>1, <4>2
    <3>5. CASE ClientIgnores(m)
          BY <3>5 DEF ClientIgnores, TypeOK, NoProtocolError
    <3>6. QED  BY <1>1, <3>1, <3>2, <3>3, <3>4, <3>5 DEF ClientHandle
  <2>4. QED  BY <1>1, <2>1, <2>3 DEF ClientHandle, TypeOK, FrameOK, FramePhase,
                  uiVars, hostVars, bounds
<1>2. CASE ClientLoses
  <2>1. toClient' \in Seq(HostMsg) /\ TilesFit'
        BY <1>2, HandledType DEF ClientLoses
  <2>2. synced' \in BOOLEAN  BY <1>2 DEF ClientLoses
  <2>3. QED  BY <1>2, <2>1, <2>2 DEF ClientLoses, TypeOK, FrameOK, FramePhase,
                  NoProtocolError, uiVars, hostVars, bounds
<1>3. CASE ClientTouch
  <2>1. toHost' \in Seq(ClientMsg) /\ NoProtocolError'
        BY <1>3, ReplyType, ClientMessages DEF ClientTouch
  <2>2. QED  BY <1>3, <2>1 DEF ClientTouch, TypeOK, FrameOK, FramePhase, TilesFit,
                  uiVars, hostVars, clientVars
<1>4. CASE ClientPing
  <2>1. toHost' \in Seq(ClientMsg) /\ NoProtocolError'
        BY <1>4, ReplyType, ClientMessages DEF ClientPing
  <2>2. QED  BY <1>4, <2>1 DEF ClientPing, TypeOK, FrameOK, FramePhase, TilesFit,
                  uiVars, hostVars, clientVars
<1>5. QED  BY <1>1, <1>2, <1>3, <1>4 DEF Client

\* An unplugged device and a restarted host keep the types.
LEMMA EnvironmentType == TypeInv /\ (Unplug \/ Restart) => TypeInv'
<1> SUFFICES ASSUME TypeInv, Unplug \/ Restart PROVE TypeInv'  OBVIOUS
<1> USE LinkAssumption DEF TypeInv
<1>1. CASE Unplug
  <2>1. linkUp' \in BOOLEAN  BY <1>1 DEF Unplug
  <2>2. QED  BY <1>1, <2>1 DEF Unplug, TypeOK, FrameOK, FramePhase, TilesFit,
                  NoProtocolError, uiVars, hostVars, clientVars, bounds
<1>2. CASE Restart
  <2>1. toClient' \in Seq(HostMsg) /\ TilesFit'
    <3>1. CASE toClient' = toClient  BY <3>1 DEF TypeOK, TilesFit
    <3>2. CASE toClient' = Append(toClient, [t |-> "torn"])  BY <3>2, TornType
    <3>3. CASE toClient' = <<>>  BY <3>3 DEF TilesFit
    <3>4. QED  BY <1>2, <3>1, <3>2, <3>3 DEF Restart
  <2>2. toHost' \in Seq(ClientMsg) /\ NoProtocolError'
    <3>1. CASE toHost' = toHost  BY <3>1 DEF TypeOK, NoProtocolError
    <3>2. CASE toHost' = <<>>  BY <3>2 DEF NoProtocolError
    <3>3. QED  BY <1>2, <3>1, <3>2 DEF Restart
  <2>3. frame' \in [id : 0 .. MaxId, y : RowSet, h : 0 .. Rows, row : 0 .. Rows]
        BY <1>2 DEF Restart, NoFrame, RowSet
  <2>4. lastAck' \in [id : 0 .. MaxId, status : {0, 1}]  BY <1>2 DEF Restart, NoAck
  <2>5. session' \in 1 .. MaxSessions /\ FrameOK'
        BY <1>2 DEF Restart, TypeOK, FrameOK, FramePhase
  <2>6. linkUp' \in BOOLEAN /\ running' \in BOOLEAN  BY <1>2 DEF Restart
  <2>7. nextId' \in 1 .. MaxId /\ ui' = "hello" /\ result' = "none" /\ rx' = "off"
        BY <1>2 DEF Restart
  <2>8. TypeOK'
        BY <1>2, <2>1, <2>2, <2>3, <2>4, <2>5, <2>6, <2>7 DEF Restart, TypeOK,
           clientVars, Sending
  <2>9. QED  BY <2>1, <2>2, <2>5, <2>8
<1>3. QED  BY <1>1, <1>2

\* A stuttering step keeps the types.
LEMMA StutterType == TypeInv /\ UNCHANGED vars => TypeInv'
  BY DEF TypeInv, TypeOK, FrameOK, FramePhase, TilesFit, NoProtocolError, vars,
       uiVars, hostVars, clientVars, bounds

\* Every step keeps the types.
LEMMA NextType == TypeInv /\ [Next]_vars => TypeInv'
  BY UiStepType, UiCallType, RxStepType, ClientType, EnvironmentType, StutterType
     DEF Next

\* Every variable keeps its type, whatever the panel, the tiling and the bounds.
THEOREM TypeCorrect == Spec => []TypeOK
<1>1. TypeInv => TypeOK  BY DEF TypeInv
<1>2. QED  BY <1>1, InitType, NextType, PTL DEF Spec

\* The host never sends a tile that leaves the panel, so the client never answers
\* with status 1: presentRegion()'s row split (LinkedDisplay.cpp) for every panel
\* height, tile height and region.
THEOREM TilesStayInside == Spec => []NoProtocolError
<1>1. TypeInv => NoProtocolError  BY DEF TypeInv
<1>2. QED  BY <1>1, InitType, NextType, PTL DEF Spec

-----------------------------------------------------------------------------
(* Success means shown                                                     *)

\* One session, a client that sends no Ping, no more frames than wire ids.
OneSession == MaxPings = 0 /\ MaxSessions = 1 /\ MaxFrames <= MaxId

\* The invariant holds when connect() is called.
LEMMA InitShown == Init => ShownInv
<1> SUFFICES ASSUME Init PROVE ShownInv  OBVIOUS
<1>1. TypeInv  BY InitType
<1>2. IdsOK /\ NoPongs
      BY DEF Init, IdsOK, NoPongs, FramePhase, NoAck
<1>3. ChainOK /\ OpenOK /\ FreshOK /\ DoneOK
      BY DEF Init, ChainOK, OpenOK, FreshOK, DoneOK, Active
<1>4. QED  BY <1>1, <1>2, <1>3 DEF ShownInv

\* Away from a frame the UI thread adds at most a message that is not part of one,
\* and the receive thread or connect() removes what the client sent.
LEMMA OutOfFrame ==
  ASSUME ShownInv, TypeInv',
         \/ toClient' = toClient
         \/ \E m \in HostMsg : ~IsFrame(m) /\ toClient' = Append(toClient, m),
         \A i \in 1 .. Len(toHost') : \E j \in 1 .. Len(toHost) : toHost'[i] = toHost[j],
         ~FramePhase', result' # "pending", result' = "ok" => result = "ok",
         rx' # "pong", writer' # "rx",
         UNCHANGED <<frame, stamp, nextId, lastAck, open, synced, panel>>
  PROVE  ShownInv'
<1> USE DEF ShownInv
<1>1. \A i \in 1 .. Len(toClient') : \/ ~IsFrame(toClient'[i])
                                     \/ /\ i \in 1 .. Len(toClient)
                                        /\ toClient'[i] = toClient[i]
  <2>1. CASE toClient' = toClient  BY <2>1
  <2>2. CASE \E m \in HostMsg : ~IsFrame(m) /\ toClient' = Append(toClient, m)
    <3>1. PICK m \in HostMsg : ~IsFrame(m) /\ toClient' = Append(toClient, m)
          BY <2>2
    <3>2. toClient \in Seq(HostMsg)  BY DEF TypeInv, TypeOK
    <3>3. /\ Len(toClient) \in Nat /\ Len(toClient') = Len(toClient) + 1
          /\ \A i \in 1 .. Len(toClient) : toClient'[i] = toClient[i]
          /\ toClient'[Len(toClient) + 1] = m
          BY <3>1, <3>2, Appended
    <3>4. QED  BY <3>1, <3>3
  <2>3. QED  BY <2>1, <2>2
<1>2. IdsOK' /\ NoPongs'
      BY <1>1 DEF IdsOK, NoPongs, IsFrame
<1>3. ~Active' /\ ui' # "begin"  BY DEF Active, FramePhase
<1>4. ChainOK' /\ OpenOK' /\ FreshOK'
      BY <1>3 DEF ChainOK, OpenOK, FreshOK, Active
<1>5. DoneOK'
      BY <1>1, <1>3 DEF DoneOK, FrameRows, Active
<1>6. QED  BY <1>2, <1>4, <1>5

\* The rows of a frame message of the running frame that was just sent follow those
\* of the one before it.
LEMMA SentShown ==
  ASSUME ShownInv, TypeInv', NEW m \in HostMsg, Current(m),
         FramePhase, ui # "await", Active', result' = result,
         toClient' = Append(toClient, m),
         ui = "begin" => m.t = "begin",
         Active => Start(m) = Sent,
         Stop(m) = Sent',
         m.t = "tile" => /\ m.px = m.id /\ frame.y <= m.y
                         /\ m.y + m.h <= frame.y + frame.h,
         frame' = [frame EXCEPT !.row = frame'.row], writer' = "none",
         UNCHANGED <<stamp, nextId, lastAck, toHost, rx, open, synced, panel>>
  PROVE  ShownInv'
<1> USE DEF ShownInv
<1> DEFINE q == toClient  n == Len(toClient)
<1>0. /\ q \in Seq(HostMsg) /\ n \in Nat /\ Len(toClient') = n + 1
      /\ \A i \in 1 .. n : toClient'[i] = q[i]
      /\ toClient'[n + 1] = m /\ toClient' # <<>>
      /\ Head(toClient') = toClient'[1]
      /\ frame \in [id : 0 .. MaxId, y : RowSet, h : 0 .. Rows, row : 0 .. Rows]
  <2>1. q \in Seq(HostMsg)
        /\ frame \in [id : 0 .. MaxId, y : RowSet, h : 0 .. Rows, row : 0 .. Rows]
        BY DEF TypeInv, TypeOK
  <2>2. QED  BY <2>1, Appended
<1>1. frame'.id = frame.id /\ frame'.y = frame.y /\ frame'.h = frame.h
      BY <1>0
<1>2. /\ \A x : Current(x)' <=> Current(x)
      /\ \A x : Start(x)' = Start(x) /\ Stop(x)' = Stop(x)
      BY <1>1 DEF Current, IsFrame, Start, Stop
<1>3. IdsOK' /\ NoPongs'
  <2>1. FramePhase'  BY DEF Active, FramePhase
  <2>2. \A i \in 1 .. Len(toClient') :
          /\ IsFrame(toClient'[i]) => toClient'[i].id <= stamp
          /\ toClient'[i].t = "tile" => toClient'[i].px = toClient'[i].id
    <3>1. ASSUME NEW i \in 1 .. n
          PROVE  /\ IsFrame(toClient'[i]) => toClient'[i].id <= stamp
                 /\ toClient'[i].t = "tile" => toClient'[i].px = toClient'[i].id
          <4>1. toClient'[i] = q[i]  BY <1>0
          <4>2. QED  BY <4>1 DEF IdsOK
    <3>2. /\ m.id <= stamp
          /\ m.t = "tile" => m.px = m.id
      <4>1. stamp \in Nat  BY DEF TypeInv, TypeOK
      <4>2. m.id = stamp  BY DEF Current
      <4>3. QED  BY <4>1, <4>2
    <3>3. QED  BY <3>1, <3>2, <1>0
  <2>3. QED  BY <1>1, <2>1, <2>2 DEF IdsOK, NoPongs, IsFrame
<1>4. ChainOK'
  <2>1. ASSUME NEW i \in 1 .. n, Current(q[i])
        PROVE  /\ Active
               /\ \A j \in i .. n : Current(q[j])
               /\ q[i].t = "tile" => /\ frame.y <= q[i].y
                                     /\ q[i].y + q[i].h <= frame.y + frame.h
               /\ i < n => Start(q[i + 1]) = Stop(q[i])
               /\ i = n => Stop(q[i]) = Start(m)
    <3>1. ui # "begin"  BY <2>1 DEF FreshOK
    <3>2. Active  BY <3>1 DEF FramePhase, Active
    <3>3. QED  BY <2>1, <3>2 DEF ChainOK
  <2>2. ASSUME NEW i \in 1 .. n + 1, Current(toClient'[i])
        PROVE  /\ toClient'[i].t = "tile" =>
                    /\ frame.y <= toClient'[i].y
                    /\ toClient'[i].y + toClient'[i].h <= frame.y + frame.h
               /\ i = n + 1 => Stop(toClient'[i]) = Sent'
               /\ i < n + 1 => Start(toClient'[i + 1]) = Stop(toClient'[i])
               /\ \A j \in i .. n + 1 : Current(toClient'[j])
    <3>1. CASE i = n + 1  BY <3>1, <1>0
    <3>2. CASE i \in 1 .. n
      <4>1. toClient'[i] = q[i] /\ Current(q[i])  BY <3>2, <2>2, <1>0
      <4>2. i < n => toClient'[i + 1] = q[i + 1]  BY <3>2, <1>0
      <4>3. \A j \in i .. n + 1 : Current(toClient'[j])  BY <3>2, <4>1, <2>1, <1>0
      <4>4. QED  BY <3>2, <4>1, <4>2, <4>3, <2>1, <1>0
    <3>3. QED  BY <3>1, <3>2, <1>0
  <2>3. QED  BY <2>2, <1>0, <1>1, <1>2 DEF ChainOK
<1>5. OpenOK'
  <2> SUFFICES ASSUME open = stamp PROVE OpenOK'  BY DEF OpenOK
  <2>1. Active  BY DEF FreshOK, FramePhase, Active
  <2>2. synced /\ (\A i \in 1 .. n : Current(q[i]))
        /\ (\A r \in FrameRows : r < Reached => panel[r] = stamp)
        BY <2>1 DEF OpenOK
  <2>3. \A i \in 1 .. n + 1 : Current(toClient'[i])  BY <2>2, <1>0
  <2>4. Reached' = Reached
    <3>1. CASE q = <<>>  BY <3>1, <1>0, <1>2, <2>1 DEF Reached
    <3>2. CASE q # <<>>
      <4>1. n >= 1 /\ Head(q) = q[1]  BY <3>2, <1>0, Taken
      <4>2. Head(toClient') = Head(q)  BY <4>1, <1>0
      <4>3. QED  BY <3>2, <4>2, <1>0, <1>2 DEF Reached
    <3>3. QED  BY <3>1, <3>2
  <2>5. FrameRows' = FrameRows  BY <1>1 DEF FrameRows
  <2>6. QED  BY <2>2, <2>3, <2>4, <2>5, <1>0, <1>2 DEF OpenOK
<1>6. FreshOK' /\ DoneOK'
  <2>1. ui \in {"begin", "tile", "end"} /\ ~AckedStamp /\ ~AckedStamp'
        BY DEF FreshOK, FramePhase, AckedStamp
  <2>2. result' = "pending" /\ ui' # "begin"  BY DEF IdsOK, Active
  <2>3. QED  BY <2>1, <2>2 DEF FreshOK, DoneOK
<1>7. QED  BY <1>3, <1>4, <1>5, <1>6

\* The steps of the UI thread keep the invariant: each message of a frame starts
\* where the one before it stopped, and success is returned on an ack of this frame.
LEMMA UiStepShown == ShownInv /\ TypeInv' /\ UiStep => ShownInv'
<1> SUFFICES ASSUME ShownInv, TypeInv', UiStep PROVE ShownInv'  OBVIOUS
<1> USE DEF ShownInv
<1> DEFINE Same == \A i \in 1 .. Len(toHost') : \E j \in 1 .. Len(toHost) :
                     toHost'[i] = toHost[j]
<1>a. toClient \in Seq(HostMsg) /\ toHost \in Seq(ClientMsg)  BY DEF TypeInv, TypeOK
<1>b. rx # "pong" /\ writer # "rx" /\ (FramePhase <=> result = "pending")
      BY DEF NoPongs, IdsOK
<1>c. toHost' = toHost => Same  BY <1>a
<1>d. \A x \in {"hello", "bye", "backlight", "torn"} :
        [t |-> x] \in HostMsg /\ ~IsFrame([t |-> x])
      BY HostMessages DEF IsFrame
<1>1. CASE UiLock
      BY <1>1, <1>b DEF UiLock, TakeWriteMutex, uiVars, hostVars, clientVars, TypeInv,
           IdsOK, NoPongs, ChainOK, OpenOK, FreshOK, DoneOK, FramePhase, Active, Sent,
           Reached, Start, Stop, Current, FrameRows, AckedStamp
<1>2. CASE SendHello
  <2>1. toClient' = Append(toClient, [t |-> "hello"]) /\ writer' = "none"
        BY <1>2 DEF SendHello, Written
  <2>2. result # "pending"  BY <1>2, <1>b DEF SendHello, FramePhase
  <2>3. Same  BY <1>2, <1>c DEF SendHello
  <2>4. QED  BY <1>2, <1>b, <1>d, <2>1, <2>2, <2>3, OutOfFrame
                DEF SendHello, FramePhase, hostVars, clientVars
<1>3. CASE PumpRead
  <2>1. PICK k \in 1 .. Len(toHost) : toHost' = SubSeq(toHost, k + 1, Len(toHost))
        BY <1>3 DEF PumpRead
  <2>2. Same
    <3>1. /\ Len(toHost) \in Nat /\ Len(toHost') = Len(toHost) - k
          /\ \A i \in 1 .. Len(toHost) - k : toHost'[i] = toHost[i + k]
          BY <1>a, <2>1, Dropped
    <3>2. QED  BY <3>1
  <2>3. ui = "pump" /\ ui' \in {"pump", "failed", "idle"} /\ rx' \in {rx, "read"}
        BY <1>3 DEF PumpRead
  <2>4. QED  BY <1>3, <1>b, <2>2, <2>3, OutOfFrame DEF PumpRead, FramePhase, clientVars
<1>4. CASE ConnectFails
      BY <1>4, <1>b, <1>c, OutOfFrame DEF ConnectFails, FramePhase, hostVars, clientVars
<1>5. CASE SendBegin
  <2> DEFINE m == [t |-> "begin", id |-> frame.id]
  <2>1. frame.id \in 1 .. MaxId /\ frame.id = stamp /\ frame.row = 0 /\ frame.y \in Nat
        BY <1>5 DEF SendBegin, FramePhase, IdsOK, TypeInv, FrameOK, TypeOK, RowSet
  <2>2. m \in HostMsg /\ Current(m)
        BY <2>1, HostMessages DEF Current, IsFrame
  <2>3. Stop(m) = Sent'  BY <1>5, <2>1 DEF SendBegin, Stop, Sent
  <2>4. frame' = [frame EXCEPT !.row = frame'.row]
        BY <1>5 DEF SendBegin, TypeInv, TypeOK
  <2>5. toClient' = Append(toClient, m) /\ writer' = "none"
        BY <1>5 DEF SendBegin, Written
  <2>6. QED  BY <1>5, <2>2, <2>3, <2>4, <2>5, SentShown
                DEF SendBegin, FramePhase, Active, hostVars, clientVars
<1>6. CASE SendTile
  <2> DEFINE m == [t |-> "tile", id |-> frame.id, px |-> stamp,
                   y |-> frame.y + frame.row, h |-> TileRows]
  <2>1. /\ frame.id \in 1 .. MaxId /\ frame.id = stamp /\ stamp \in 1 .. MaxFrames
        /\ frame.y \in RowSet /\ frame.row \in Nat /\ frame.h \in Nat
        /\ frame.row < frame.h /\ frame.y + frame.h <= Rows
        /\ frame \in [id : 0 .. MaxId, y : RowSet, h : 0 .. Rows, row : 0 .. Rows]
        BY <1>6 DEF SendTile, FramePhase, IdsOK, TypeInv, FrameOK, TypeOK
  <2>2. TileRows \in 1 .. Rows /\ frame.row + TileRows <= frame.h
        BY <2>1, LinkAssumption DEF TileRows, RowSet
  <2>3. m \in HostMsg /\ Current(m)
        BY <2>1, <2>2, HostMessages, LinkAssumption DEF Current, IsFrame, RowSet
  <2>4. frame' = [frame EXCEPT !.row = frame.row + TileRows]  BY <1>6 DEF SendTile
  <2>5. frame'.row = frame.row + TileRows /\ frame'.y = frame.y  BY <2>1, <2>4
  <2>6. Start(m) = Sent /\ Stop(m) = Sent'
        BY <1>6, <2>1, <2>2, <2>5 DEF SendTile, Start, Stop, Sent, RowSet
  <2>7. frame' = [frame EXCEPT !.row = frame'.row]  BY <2>4, <2>5
  <2>8. toClient' = Append(toClient, m) /\ writer' = "none"
        BY <1>6 DEF SendTile, Written
  <2>9. m.px = m.id /\ frame.y <= m.y /\ m.y + m.h <= frame.y + frame.h
        BY <2>1, <2>2 DEF RowSet
  <2>10. FramePhase /\ Active' /\ ui = "tile"
         BY <1>6 DEF SendTile, FramePhase, Active
  <2>11. QED  BY <1>6, <2>3, <2>6, <2>7, <2>8, <2>9, <2>10, SentShown
                 DEF SendTile, hostVars, clientVars
<1>7. CASE SendEnd
  <2> DEFINE m == [t |-> "end", id |-> frame.id]
  <2>1. /\ frame.id \in 1 .. MaxId /\ frame.id = stamp /\ frame.row = frame.h
        BY <1>7 DEF SendEnd, FramePhase, IdsOK, TypeInv, FrameOK
  <2>2. m \in HostMsg /\ Current(m)
        BY <2>1, HostMessages DEF Current, IsFrame
  <2>3. Start(m) = Sent /\ Stop(m) = Sent'
        BY <1>7, <2>1 DEF SendEnd, Start, Stop, Sent
  <2>4. frame' = [frame EXCEPT !.row = frame'.row]
        BY <1>7 DEF SendEnd, TypeInv, TypeOK
  <2>5. toClient' = Append(toClient, m) /\ writer' = "none"
        BY <1>7 DEF SendEnd, Written
  <2>6. QED  BY <1>7, <2>2, <2>3, <2>4, <2>5, SentShown
                DEF SendEnd, FramePhase, Active, hostVars, clientVars
<1>8. CASE AwaitAck
  <2>1. AckedStamp
        BY <1>8 DEF AwaitAck, Acked, AckedStamp, IdsOK, FramePhase
  <2>2. /\ \A i \in 1 .. Len(toClient) : ~IsFrame(toClient[i])
        /\ \A r \in FrameRows : panel[r] = stamp
        BY <1>8, <2>1 DEF DoneOK, AwaitAck
  <2>3. DoneOK'  BY <1>8, <2>2 DEF DoneOK, AwaitAck, clientVars, FrameRows, IsFrame
  <2>4. IdsOK' /\ NoPongs'
        BY <1>8, <1>b DEF AwaitAck, IdsOK, NoPongs, FramePhase, hostVars, clientVars, IsFrame
  <2>5. ChainOK' /\ OpenOK' /\ FreshOK'
        BY <1>8 DEF AwaitAck, ChainOK, OpenOK, FreshOK, Active
  <2>6. QED  BY <2>3, <2>4, <2>5
<1>9. CASE AckTimeout
      BY <1>9, <1>b, <1>c, OutOfFrame DEF AckTimeout, FramePhase, hostVars, clientVars
<1>10. CASE SendBacklight
  <2>1. toClient' = Append(toClient, [t |-> "backlight"]) /\ writer' = "none"
        BY <1>10 DEF SendBacklight, Written
  <2>2. result # "pending"  BY <1>10, <1>b DEF SendBacklight, FramePhase
  <2>3. Same  BY <1>10, <1>c DEF SendBacklight
  <2>4. QED  BY <1>10, <1>b, <1>d, <2>1, <2>2, <2>3, OutOfFrame
                DEF SendBacklight, FramePhase, hostVars, clientVars
<1>11. CASE UiWriteFails
  <2>1. /\ toClient' = toClient \/ toClient' = Append(toClient, [t |-> "torn"])
        /\ writer' = "none"
        BY <1>11 DEF UiWriteFails, NotWritten
  <2>2. ui' \in {"failed", "join", "idle"} /\ ~FramePhase'
        BY <1>11 DEF UiWriteFails, FailsTo, FramePhase
  <2>3. result' # "pending" /\ (result' = "ok" => result = "ok")
        BY <1>11, <1>b DEF UiWriteFails, FramePhase, Sending
  <2>4. Same  BY <1>11, <1>c DEF UiWriteFails
  <2>5. QED  BY <1>11, <1>b, <1>d, <2>1, <2>2, <2>3, <2>4, OutOfFrame
                DEF UiWriteFails, clientVars
<1>12. CASE SendBye
  <2>1. toClient' = Append(toClient, [t |-> "bye"]) /\ writer' = "none"
        BY <1>12 DEF SendBye, Written
  <2>2. result # "pending"  BY <1>12, <1>b DEF SendBye, FramePhase
  <2>3. Same  BY <1>12, <1>c DEF SendBye
  <2>4. QED  BY <1>12, <1>b, <1>d, <2>1, <2>2, <2>3, OutOfFrame
                DEF SendBye, FramePhase, clientVars
<1>13. CASE Join
      BY <1>13, <1>b, <1>c, OutOfFrame DEF Join, FramePhase, hostVars, clientVars
<1>14. QED
      BY <1>1, <1>2, <1>3, <1>4, <1>5, <1>6, <1>7, <1>8, <1>9, <1>10, <1>11, <1>12,
         <1>13 DEF UiStep

\* The numbers in the presentRegion call.
LEMMA FrameType ==
  ASSUME TypeInv
  PROVE  frame.y \in Nat /\ frame.h \in Nat /\ frame.row \in Nat /\ stamp \in Nat
<1>1. frame \in [id : 0 .. MaxId, y : RowSet, h : 0 .. Rows, row : 0 .. Rows]
      /\ stamp \in 0 .. MaxFrames
      BY DEF TypeInv, TypeOK
<1>2. QED  BY <1>1, LinkAssumption DEF RowSet

\* A new present has an id nothing under way bears.
LEMMA PresentShown ==
  ASSUME ShownInv, TypeInv', OneSession, Present
  PROVE  ShownInv'
<1> USE LinkAssumption DEF ShownInv
<1>1. /\ stamp \in Nat /\ nextId \in 1 .. MaxId /\ stamp < MaxId /\ stamp' = stamp + 1
      /\ nextId = stamp + 1 /\ frame'.id = nextId /\ ui' = "begin" /\ result' = "pending"
      /\ open \in Nat /\ lastAck'.id = 0
      BY DEF TypeInv, TypeOK, Present, IdsOK, OneSession, NoAck
<1>2. UNCHANGED <<rx, writer, open, toClient, toHost>>
      BY DEF Present, clientVars
<1>3. nextId' = NextId(nextId)  BY DEF Present
<1>4. stamp' < MaxId => nextId' = stamp' + 1  BY <1>1, <1>3 DEF NextId
<1>5. toClient \in Seq(HostMsg) /\ toHost \in Seq(ClientMsg)  BY DEF TypeInv, TypeOK
<1>6. ASSUME NEW i \in 1 .. Len(toClient)
      PROVE  /\ IsFrame(toClient[i]) => toClient[i].id <= stamp' /\ toClient[i].id # stamp'
             /\ toClient[i].t = "tile" => toClient[i].px = toClient[i].id
  <2>1. toClient[i] \in HostMsg  BY <1>5
  <2>2. IsFrame(toClient[i]) => toClient[i].id \in Nat /\ toClient[i].id <= stamp
        BY <2>1, HostMessages DEF IsFrame, IdsOK
  <2>3. QED  BY <1>1, <2>2 DEF IdsOK
<1>7. ASSUME NEW i \in 1 .. Len(toHost)
      PROVE  /\ toHost[i].t # "ping"
             /\ toHost[i].t = "ack" => toHost[i].id <= stamp' /\ toHost[i].id # stamp'
  <2>1. toHost[i] \in ClientMsg  BY <1>5
  <2>2. toHost[i].t = "ack" => toHost[i].id \in Nat /\ toHost[i].id <= stamp
        BY <2>1, ClientMessages DEF IdsOK
  <2>3. QED  BY <1>1, <2>2 DEF IdsOK
<1>8. open <= stamp' /\ open # stamp' /\ lastAck'.id <= stamp' /\ lastAck'.id # stamp'
      BY <1>1 DEF IdsOK
<1>9. IdsOK' /\ NoPongs'
      BY <1>1, <1>2, <1>4, <1>6, <1>7, <1>8 DEF IdsOK, NoPongs, IsFrame, FramePhase
<1>10. ~AckedStamp'  BY <1>2, <1>7, <1>8 DEF AckedStamp
<1>11. \A i \in 1 .. Len(toClient') : ~Current(toClient[i])'
       BY <1>2, <1>6 DEF Current, IsFrame
<1>12. FreshOK'  BY <1>2, <1>8, <1>10, <1>11 DEF FreshOK
<1>13. ChainOK' /\ OpenOK' /\ DoneOK'
       BY <1>1 DEF ChainOK, OpenOK, DoneOK, Active
<1>14. QED  BY <1>9, <1>12, <1>13

\* The calls of the display's user keep the invariant.
LEMMA UiCallShown ==
  ASSUME ShownInv, TypeInv', OneSession, UiCall
  PROVE  ShownInv'
<1>a. \A i \in 1 .. Len(toHost) : \E j \in 1 .. Len(toHost) : toHost[i] = toHost[j]
      OBVIOUS
<1>b. rx # "pong" /\ writer # "rx" /\ (FramePhase <=> result = "pending")
      BY DEF ShownInv, NoPongs, IdsOK
<1>1. CASE Present  BY <1>1, PresentShown
<1>2. CASE PresentRejected
      BY <1>2, <1>a, <1>b, OutOfFrame DEF PresentRejected, FramePhase, hostVars, clientVars
<1>3. CASE SetBacklight
      BY <1>3, <1>a, <1>b, OutOfFrame DEF SetBacklight, FramePhase, hostVars, clientVars
<1>4. CASE Destroy
      BY <1>4, <1>a, <1>b, OutOfFrame DEF Destroy, FramePhase, hostVars, clientVars
<1>5. QED  BY <1>1, <1>2, <1>3, <1>4 DEF UiCall

\* The receive thread or the client changes what the client sent without adding an
\* ack of the present: nothing else of the invariant depends on it.
LEMMA HostQueueShown ==
  ASSUME ShownInv, TypeInv',
         \A i \in 1 .. Len(toHost') :
           \/ toHost'[i].t \in {"reply", "input"}
           \/ \E j \in 1 .. Len(toHost) : toHost'[i] = toHost[j],
         lastAck' = lastAck \/ \E j \in 1 .. Len(toHost) :
                                 toHost[j].t = "ack" /\ lastAck'.id = toHost[j].id,
         rx' # "pong", writer' # "rx",
         UNCHANGED <<uiVars, clientVars, toClient>>
  PROVE  ShownInv'
<1> USE DEF ShownInv
<1>1. IdsOK' /\ NoPongs'
  <2>1. lastAck'.id <= stamp  BY DEF IdsOK
  <2>2. \A i \in 1 .. Len(toHost') :
          /\ toHost'[i].t # "ping"
          /\ toHost'[i].t = "ack" => toHost'[i].id <= stamp
        BY DEF IdsOK
  <2>3. QED  BY <2>1, <2>2 DEF IdsOK, NoPongs, FramePhase, IsFrame, uiVars, clientVars
<1>2. AckedStamp' => AckedStamp  BY DEF AckedStamp, uiVars
<1>3. ChainOK'
      BY DEF ChainOK, Active, Current, IsFrame, Start, Stop, Sent, uiVars, clientVars
<1>4. OpenOK'
      BY DEF OpenOK, Active, Current, IsFrame, Reached, Start, Sent, FrameRows, uiVars,
           clientVars
<1>5. FreshOK' /\ DoneOK'
      BY <1>2 DEF FreshOK, DoneOK, Current, IsFrame, FrameRows, uiVars, clientVars
<1>6. QED  BY <1>1, <1>3, <1>4, <1>5

\* The receive thread keeps the invariant: it sends nothing without a Ping.
LEMMA RxStepShown ==
  ASSUME ShownInv, TypeInv', RxStep
  PROVE  ShownInv'
<1>a. toHost \in Seq(ClientMsg)  BY DEF ShownInv, TypeInv, TypeOK
<1>b. rx # "pong" /\ writer # "rx"  BY DEF ShownInv, NoPongs
<1>c. \A i \in 1 .. Len(toHost) : \E j \in 1 .. Len(toHost) : toHost[i] = toHost[j]
      OBVIOUS
<1>1. CASE RxMessage
  <2>1. PICK m \in ClientMsg :
          /\ Received(m)
          /\ \/ /\ m.t = "ack" /\ lastAck' = [id |-> m.id, status |-> m.status]
                /\ UNCHANGED <<rx, handled>>
             \/ m.t = "ping" /\ rx' = "pong" /\ UNCHANGED <<lastAck, handled>>
             \/ m.t = "input" /\ handled' = handled + 1 /\ UNCHANGED <<lastAck, rx>>
             \/ m.t = "reply" /\ UNCHANGED <<lastAck, rx, handled>>
        BY <1>1 DEF RxMessage
  <2>2. toHost # <<>> /\ m = Head(toHost) /\ toHost' = Tail(toHost)
        BY <2>1 DEF Received
  <2>3. /\ m = toHost[1] /\ 1 \in 1 .. Len(toHost)
        /\ Len(toHost) \in Nat /\ Len(toHost') = Len(toHost) - 1
        /\ \A i \in 1 .. Len(toHost') : toHost'[i] = toHost[i + 1]
        BY <1>a, <2>2, Taken
  <2>4. \A i \in 1 .. Len(toHost') : \E j \in 1 .. Len(toHost) : toHost'[i] = toHost[j]
        BY <2>3
  <2>5. m.t # "ping"  BY <2>3 DEF ShownInv, IdsOK
  <2>6. lastAck' = lastAck \/ (m.t = "ack" /\ lastAck'.id = m.id)
        BY <2>1, <2>5
  <2>7. rx' # "pong"  BY <2>1, <2>5, <1>b
  <2>8. QED  BY <1>1, <1>b, <2>3, <2>4, <2>6, <2>7, HostQueueShown DEF RxMessage
<1>2. CASE RxLock  BY <1>2, <1>b DEF RxLock
<1>3. CASE RxPong  BY <1>3, <1>b DEF RxPong
<1>4. CASE RxExit  BY <1>4, <1>b, <1>c, HostQueueShown DEF RxExit
<1>5. QED  BY <1>1, <1>2, <1>3, <1>4 DEF RxStep

\* The tail of a queue holds what the queue holds, one place earlier.
LEMMA Shifted ==
  ASSUME NEW i \in Nat, NEW n \in Nat, NEW k, k = n - 1
  PROVE  (i < k => i + 1 < n) /\ (i = k => i + 1 = n)
  OBVIOUS

\* Taking the head of the queue keeps what the rest of it says.
LEMMA TakenShown ==
  ASSUME ShownInv, toClient # <<>>, toClient' = Tail(toClient), UNCHANGED uiVars
  PROVE  /\ \A i \in 1 .. Len(toClient') : /\ i + 1 \in 1 .. Len(toClient)
                                           /\ toClient'[i] = toClient[i + 1]
         /\ \A m : /\ Current(m)' <=> Current(m)
                   /\ Start(m)' = Start(m) /\ Stop(m)' = Stop(m)
         /\ ChainOK'
         /\ FrameRows' = FrameRows /\ Sent' = Sent /\ (Active' <=> Active)
<1> USE DEF ShownInv
<1>1. /\ Len(toClient) \in Nat /\ Len(toClient') = Len(toClient) - 1
      /\ \A i \in 1 .. Len(toClient') : toClient'[i] = toClient[i + 1]
      BY Taken DEF TypeInv, TypeOK
<1>2. /\ \A m : /\ Current(m)' <=> Current(m)
                /\ Start(m)' = Start(m) /\ Stop(m)' = Stop(m)
      /\ FrameRows' = FrameRows /\ Sent' = Sent /\ (Active' <=> Active)
      BY DEF uiVars, Current, IsFrame, Start, Stop, FrameRows, Sent, Active
<1>3. ChainOK'
  <2> SUFFICES ASSUME Active, NEW i \in 1 .. Len(toClient'), Current(toClient'[i])
               PROVE  /\ toClient'[i].t = "tile" =>
                           /\ frame.y <= toClient'[i].y
                           /\ toClient'[i].y + toClient'[i].h <= frame.y + frame.h
                      /\ i = Len(toClient') => Stop(toClient'[i]) = Sent
                      /\ i < Len(toClient') => Start(toClient'[i + 1]) = Stop(toClient'[i])
                      /\ \A j \in i .. Len(toClient') : Current(toClient'[j])
      BY <1>2 DEF ChainOK, uiVars
  <2>1. i + 1 \in 1 .. Len(toClient) /\ toClient'[i] = toClient[i + 1]  BY <1>1
  <2>2. /\ toClient[i + 1].t = "tile" =>
             /\ frame.y <= toClient[i + 1].y
             /\ toClient[i + 1].y + toClient[i + 1].h <= frame.y + frame.h
        /\ i + 1 = Len(toClient) => Stop(toClient[i + 1]) = Sent
        /\ i + 1 < Len(toClient) => Start(toClient[(i + 1) + 1]) = Stop(toClient[i + 1])
        /\ \A j \in i + 1 .. Len(toClient) : Current(toClient[j])
        BY <2>1 DEF ChainOK
  <2>3. /\ i < Len(toClient') => /\ toClient'[i + 1] = toClient[(i + 1) + 1]
                                 /\ i + 1 < Len(toClient)
        /\ i = Len(toClient') => i + 1 = Len(toClient)
    <3>1. i < Len(toClient') => i + 1 \in 1 .. Len(toClient')  BY <1>1
    <3>2. i < Len(toClient') => toClient'[i + 1] = toClient[(i + 1) + 1]
          BY <1>1, <3>1
    <3>3. i \in Nat /\ Len(toClient') = Len(toClient) - 1 /\ Len(toClient) \in Nat
          BY <1>1
    <3>4. /\ i < Len(toClient') => i + 1 < Len(toClient)
          /\ i = Len(toClient') => i + 1 = Len(toClient)
          BY <3>3, Shifted, Zenon
    <3>5. QED  BY <3>2, <3>4, Zenon
  <2>4. \A j \in i .. Len(toClient') : Current(toClient'[j])
    <3> TAKE j \in i .. Len(toClient')
    <3>1. j + 1 \in i + 1 .. Len(toClient) /\ toClient'[j] = toClient[j + 1]  BY <1>1
    <3>2. QED  BY <2>2, <3>1
  <2>5. QED  BY <2>1, <2>2, <2>3, <2>4
<1>4. QED  BY <1>1, <1>2, <1>3

\* The head of the queue is not part of a frame the client has open: nothing it
\* does with it matters to the running frame.
LEMMA OtherHandled ==
  ASSUME ShownInv, TypeInv', toClient # <<>>, toClient' = Tail(toClient),
         UNCHANGED <<uiVars, lastAck, rx, writer, panel>>,
         \/ toHost' = toHost
         \/ \E a \in ClientMsg : /\ toHost' = Append(toHost, a) /\ a.t # "ping"
                                 /\ a.t = "ack" => a.id < stamp,
         open' = open \/ open' < stamp,
         Active => open # stamp
  PROVE  ShownInv'
<1> USE DEF ShownInv
<1>a. toHost \in Seq(ClientMsg) /\ stamp \in Nat  BY DEF TypeInv, TypeOK
<1>b. \A i \in 1 .. Len(toHost') :
        \/ \E j \in 1 .. Len(toHost) : toHost'[i] = toHost[j]
        \/ toHost'[i].t # "ping" /\ (toHost'[i].t = "ack" => toHost'[i].id < stamp)
  <2>1. CASE toHost' = toHost  BY <2>1
  <2>2. CASE toHost' # toHost
    <3>1. PICK a \in ClientMsg : /\ toHost' = Append(toHost, a) /\ a.t # "ping"
                                 /\ a.t = "ack" => a.id < stamp
          BY <2>2
    <3>2. /\ Len(toHost) \in Nat /\ Len(toHost') = Len(toHost) + 1
          /\ \A i \in 1 .. Len(toHost) : toHost'[i] = toHost[i]
          /\ toHost'[Len(toHost) + 1] = a
          BY <1>a, <3>1, Appended
    <3>3. QED  BY <3>1, <3>2
  <2>3. QED  BY <2>1, <2>2
<1>1. IdsOK' /\ NoPongs'
  <2>1. \A i \in 1 .. Len(toHost') : /\ toHost'[i].t # "ping"
                                     /\ toHost'[i].t = "ack" => toHost'[i].id <= stamp
    <3>1. ASSUME NEW i \in 1 .. Len(toHost'), toHost'[i].t = "ack"
          PROVE  toHost'[i].id <= stamp
      <4>1. toHost'[i].id \in Nat
        <5>1. toHost' \in Seq(ClientMsg)  BY DEF TypeInv, TypeOK
        <5>2. toHost'[i] \in ClientMsg  BY <5>1
        <5>3. QED  BY <5>2, <3>1, ClientMessages
      <4>2. QED  BY <3>1, <4>1, <1>a, <1>b DEF IdsOK
    <3>2. QED  BY <3>1, <1>b DEF IdsOK
  <2>2. \A i \in 1 .. Len(toClient') :
          /\ IsFrame(toClient'[i]) => toClient'[i].id <= stamp
          /\ toClient'[i].t = "tile" => toClient'[i].px = toClient'[i].id
        BY TakenShown DEF IdsOK
  <2>3. open' <= stamp
    <3>1. open' \in Nat  BY DEF TypeInv, TypeOK
    <3>2. QED  BY <3>1, <1>a DEF IdsOK
  <2>4. QED  BY <2>1, <2>2, <2>3 DEF IdsOK, NoPongs, FramePhase, IsFrame, uiVars
<1>2. ChainOK'  BY TakenShown
<1>3. open' = stamp => open = stamp  BY <1>a
<1>4. OpenOK'  BY <1>3, TakenShown DEF OpenOK, uiVars
<1>5. AckedStamp' => AckedStamp
  <2>1. ASSUME NEW i \in 1 .. Len(toHost'), toHost'[i].t = "ack", toHost'[i].id = stamp
        PROVE  \E j \in 1 .. Len(toHost) : toHost'[i] = toHost[j]
        BY <2>1, <1>a, <1>b
  <2>2. QED  BY <2>1 DEF AckedStamp, uiVars
<1>6. FreshOK'  BY <1>3, <1>5, TakenShown DEF FreshOK, uiVars
<1>7. DoneOK'
  <2> SUFFICES ASSUME (ui = "await" /\ AckedStamp) \/ result = "ok"
               PROVE  DoneOK'  BY <1>5 DEF DoneOK, uiVars
  <2>1. QED  BY TakenShown DEF DoneOK, IsFrame, uiVars
<1>8. QED  BY <1>1, <1>2, <1>4, <1>6, <1>7

\* The client opens a frame it finds at the head of the queue.
LEMMA BeginHandled ==
  ASSUME ShownInv, TypeInv', toClient # <<>>, toClient' = Tail(toClient), synced,
         NEW m \in HostMsg, m = Head(toClient), ClientBegin(m),
         UNCHANGED <<uiVars, lastAck, rx, writer, synced>>
  PROVE  ShownInv'
<1> USE DEF ShownInv
<1>1. /\ m = toClient[1] /\ 1 \in 1 .. Len(toClient) /\ stamp \in Nat
      /\ Len(toClient) \in Nat /\ Len(toClient') = Len(toClient) - 1
      BY Taken DEF TypeInv, TypeOK
<1>2. m.t = "begin" /\ open' = m.id /\ UNCHANGED <<panel, toHost>> /\ m.id \in Nat
      BY HostMessages DEF ClientBegin
<1>3. m.id <= stamp  BY <1>1, <1>2 DEF IdsOK, IsFrame
<1>4. CASE ~Active \/ m.id # stamp
  <2>1. \/ open' < stamp
        \/ ~Active /\ open' = stamp
        BY <1>1, <1>2, <1>3, <1>4
  <2>2. CASE open' < stamp /\ (Active => open # stamp)
        BY <1>2, <2>2, OtherHandled
  <2>3. CASE open' < stamp /\ Active /\ open = stamp
    <3>1. Current(m)  BY <1>1, <2>3 DEF OpenOK
    <3>2. QED  BY <1>2, <2>3, <3>1 DEF Current
  <2>4. CASE ~Active /\ open' = stamp
    <3>1. ui # "begin"
      <4>1. Current(m)  BY <1>2, <2>4 DEF Current, IsFrame
      <4>2. QED  BY <1>1, <4>1 DEF FreshOK
    <3>2. IdsOK' /\ NoPongs'
      <4>1. \A i \in 1 .. Len(toClient') :
              /\ IsFrame(toClient'[i]) => toClient'[i].id <= stamp
              /\ toClient'[i].t = "tile" => toClient'[i].px = toClient'[i].id
            BY TakenShown DEF IdsOK
      <4>2. QED  BY <1>1, <1>2, <1>3, <4>1 DEF IdsOK, NoPongs, FramePhase, IsFrame, uiVars
    <3>3. ~Active' /\ ui' # "begin"  BY <2>4, <3>1 DEF Active, uiVars
    <3>4. ChainOK' /\ OpenOK' /\ FreshOK'
          BY <3>3 DEF ChainOK, OpenOK, FreshOK, Active
    <3>5. result # "ok" /\ ui # "await"
          BY <1>1, <1>2, <2>4 DEF DoneOK, IsFrame, Active
    <3>6. DoneOK'  BY <3>5 DEF DoneOK, uiVars
    <3>7. QED  BY <3>2, <3>4, <3>6
  <2>5. QED  BY <2>1, <2>2, <2>3, <2>4
<1>5. CASE Active /\ m.id = stamp
  <2>1. Current(m)  BY <1>2, <1>5 DEF Current, IsFrame
  <2>2. /\ \A j \in 1 .. Len(toClient) : Current(toClient[j])
        /\ 1 = Len(toClient) => Stop(m) = Sent
        /\ 1 < Len(toClient) => Start(toClient[1 + 1]) = Stop(m)
        BY <1>1, <1>5, <2>1 DEF ChainOK
  <2>3. Stop(m) = frame.y /\ frame.y \in Nat
        BY <1>2, FrameType DEF Stop
  <2>4. Reached' = frame.y
    <3>1. CASE toClient' = <<>>
      <4>1. Len(toClient) = 1  BY <1>1, <3>1
      <4>2. QED  BY <2>2, <2>3, <3>1, <4>1, TakenShown DEF Reached
    <3>2. CASE toClient' # <<>>
      <4>1. /\ Head(toClient') = toClient'[1] /\ Len(toClient') >= 1
            BY <3>2, Taken DEF TypeInv, TypeOK
      <4>2. toClient'[1] = toClient[1 + 1] /\ 1 < Len(toClient)
            BY <1>1, <4>1, TakenShown
      <4>3. QED  BY <2>2, <2>3, <3>2, <4>1, <4>2, TakenShown DEF Reached
    <3>3. QED  BY <3>1, <3>2
  <2>5. OpenOK'
    <3>1. (\A i \in 1 .. Len(toClient) : Current(toClient[i]))'  BY <2>2, TakenShown
    <3>2. \A r \in FrameRows : ~(r < frame.y)  BY FrameType DEF FrameRows
    <3>3. QED  BY <2>4, <3>1, <3>2, TakenShown DEF OpenOK
  <2>6. IdsOK' /\ NoPongs'
    <3>1. \A i \in 1 .. Len(toClient') :
            /\ IsFrame(toClient'[i]) => toClient'[i].id <= stamp
            /\ toClient'[i].t = "tile" => toClient'[i].px = toClient'[i].id
          BY TakenShown DEF IdsOK
    <3>2. QED  BY <1>1, <1>2, <1>3, <3>1 DEF IdsOK, NoPongs, FramePhase, IsFrame, uiVars
  <2>7. ~(ui = "await" /\ AckedStamp) /\ result # "ok"
        BY <1>1, <2>1 DEF DoneOK, Current
  <2>8. (AckedStamp' <=> AckedStamp) /\ ui # "begin"
        BY <1>2, <1>5 DEF AckedStamp, Active, uiVars
  <2>9. FreshOK' /\ DoneOK'
        BY <2>7, <2>8 DEF FreshOK, DoneOK, uiVars
  <2>10. QED  BY <2>5, <2>6, <2>9, TakenShown
<1>6. QED  BY <1>4, <1>5

\* The client shows a tile of the frame it has open.
LEMMA TileHandled ==
  ASSUME ShownInv, TypeInv', toClient # <<>>, toClient' = Tail(toClient), synced,
         NEW m \in HostMsg, m = Head(toClient), ClientTile(m),
         UNCHANGED <<uiVars, lastAck, rx, writer, synced>>
  PROVE  ShownInv'
<1> USE DEF ShownInv
<1>1. /\ m = toClient[1] /\ 1 \in 1 .. Len(toClient) /\ stamp \in Nat
      /\ Len(toClient) \in Nat /\ Len(toClient') = Len(toClient) - 1
      BY Taken DEF TypeInv, TypeOK
<1>2. /\ m.t = "tile" /\ m.id \in Nat /\ m.y \in Nat /\ m.h \in Nat
      BY HostMessages DEF ClientTile, RowSet
<1>3. m.id <= stamp /\ m.px = m.id /\ m.y + m.h <= Rows
      BY <1>1, <1>2 DEF IdsOK, IsFrame, TypeInv, TilesFit
<1>4. CASE open # m.id
  <2>1. UNCHANGED <<open, panel, toHost>>  BY <1>4 DEF ClientTile
  <2>2. Active => open # stamp
    <3>1. ASSUME Active, open = stamp PROVE FALSE
      <4>1. Current(m)  BY <1>1, <3>1 DEF OpenOK
      <4>2. QED  BY <1>4, <3>1, <4>1 DEF Current
    <3>2. QED  BY <3>1
  <2>3. QED  BY <2>1, <2>2, OtherHandled
<1>5. CASE open = m.id
  <2>1. ~(m.y + m.h > Rows)  BY <1>2, <1>3, LinkAssumption
  <2>2. /\ panel' = [r \in RowSet |-> IF r \in m.y .. m.y + m.h - 1 THEN m.px ELSE panel[r]]
        /\ UNCHANGED <<open, toHost>>
        BY <1>5, <2>1 DEF ClientTile
  <2>3. IdsOK' /\ NoPongs'
    <3>1. \A i \in 1 .. Len(toClient') :
            /\ IsFrame(toClient'[i]) => toClient'[i].id <= stamp
            /\ toClient'[i].t = "tile" => toClient'[i].px = toClient'[i].id
          BY TakenShown DEF IdsOK
    <3>2. QED  BY <2>2, <3>1 DEF IdsOK, NoPongs, FramePhase, IsFrame, uiVars
  <2>4. ~(ui = "await" /\ AckedStamp) /\ result # "ok"
        BY <1>1, <1>2 DEF DoneOK, IsFrame
  <2>5. AckedStamp' <=> AckedStamp  BY <2>2 DEF AckedStamp, uiVars
  <2>6. DoneOK'  BY <2>4, <2>5 DEF DoneOK, uiVars
  <2>7. FreshOK'  BY <2>2, <2>5, TakenShown DEF FreshOK, uiVars
  <2>8. OpenOK'
    <3> SUFFICES ASSUME Active, open = stamp PROVE OpenOK'
        BY <2>2, TakenShown DEF OpenOK, uiVars
    <3>1. /\ \A i \in 1 .. Len(toClient) : Current(toClient[i])
          /\ \A r \in FrameRows : r < Reached => panel[r] = stamp
          BY DEF OpenOK
    <3>2. Current(m) /\ Start(m) = m.y /\ Stop(m) = m.y + m.h /\ Reached = m.y
          BY <1>1, <1>2, <3>1 DEF Start, Stop, Reached
    <3>3. /\ 1 = Len(toClient) => Stop(m) = Sent
          /\ 1 < Len(toClient) => Start(toClient[1 + 1]) = Stop(m)
          BY <1>1, <3>2 DEF ChainOK
    <3>4. Reached' = m.y + m.h
      <4>1. CASE toClient' = <<>>
        <5>1. Len(toClient) = 1  BY <1>1, <4>1
        <5>2. QED  BY <3>2, <3>3, <4>1, <5>1, TakenShown DEF Reached
      <4>2. CASE toClient' # <<>>
        <5>1. /\ Head(toClient') = toClient'[1] /\ Len(toClient') >= 1
              BY <4>2, Taken DEF TypeInv, TypeOK
        <5>2. toClient'[1] = toClient[1 + 1] /\ 1 < Len(toClient)
              BY <1>1, <5>1, TakenShown
        <5>3. QED  BY <3>2, <3>3, <4>2, <5>1, <5>2, TakenShown DEF Reached
      <4>3. QED  BY <4>1, <4>2
    <3>5. /\ stamp \in 1 .. MaxFrames /\ frame.y + frame.h <= Rows
          /\ frame.y \in Nat /\ frame.h \in Nat
          BY FrameType DEF TypeInv, FrameOK, FramePhase, Active
    <3>6. ASSUME NEW r \in FrameRows, r < m.y + m.h PROVE panel'[r] = stamp
      <4>1. r \in RowSet /\ r \in Int  BY <3>5, LinkAssumption DEF FrameRows, RowSet
      <4>2. CASE r < m.y  BY <1>2, <2>2, <3>1, <3>2, <4>1, <4>2
      <4>3. CASE r >= m.y
        <5>1. r \in m.y .. m.y + m.h - 1  BY <1>2, <3>6, <4>1, <4>3
        <5>2. QED  BY <1>3, <1>5, <2>2, <4>1, <5>1
      <4>4. QED  BY <1>2, <4>1, <4>2, <4>3
    <3>7. (\A i \in 1 .. Len(toClient) : Current(toClient[i]))'  BY <3>1, TakenShown
    <3>8. stamp' = stamp /\ synced'  BY DEF uiVars
    <3>9. QED  BY <3>4, <3>6, <3>7, <3>8, TakenShown DEF OpenOK
  <2>9. QED  BY <2>3, <2>6, <2>7, <2>8, TakenShown
<1>6. QED  BY <1>4, <1>5

\* The client acks the frame it has open when its FrameEnd comes.
LEMMA EndHandled ==
  ASSUME ShownInv, TypeInv', toClient # <<>>, toClient' = Tail(toClient), synced,
         NEW m \in HostMsg, m = Head(toClient), ClientEnd(m),
         UNCHANGED <<uiVars, lastAck, rx, writer, synced>>
  PROVE  ShownInv'
<1> USE DEF ShownInv
<1>1. /\ m = toClient[1] /\ 1 \in 1 .. Len(toClient)
      /\ Len(toClient) \in Nat /\ Len(toClient') = Len(toClient) - 1
      /\ toClient \in Seq(HostMsg)
      BY Taken DEF TypeInv, TypeOK
<1>2. m.t = "end" /\ m.id \in 1 .. MaxId /\ m.id <= stamp /\ stamp \in Nat
  <2>1. m.t = "end" /\ m.id \in 1 .. MaxId  BY HostMessages DEF ClientEnd
  <2>2. QED  BY <1>1, <2>1, FrameType DEF IdsOK, IsFrame
<1>3. CASE open # m.id
  <2>1. UNCHANGED <<open, panel, toHost>>  BY <1>3 DEF ClientEnd
  <2>2. Active => open # stamp
    <3>1. ASSUME Active, open = stamp PROVE FALSE
      <4>1. Current(m)  BY <1>1, <3>1 DEF OpenOK
      <4>2. QED  BY <1>3, <3>1, <4>1 DEF Current
    <3>2. QED  BY <3>1
  <2>3. QED  BY <2>1, <2>2, OtherHandled
<1>4. CASE open = m.id
  <2> DEFINE a == [t |-> "ack", id |-> m.id, status |-> 0]
  <2>1. /\ a \in ClientMsg /\ toHost' = Append(toHost, a) /\ open' = 0
        /\ UNCHANGED panel
        BY <1>2, <1>4, ClientMessages DEF ClientEnd, Reply
  <2>2. CASE m.id # stamp
    <3>1. a.id < stamp /\ a.t # "ping" /\ open' < stamp  BY <1>2, <2>1, <2>2
    <3>2. Active => open # stamp  BY <1>4, <2>2
    <3>3. QED  BY <2>1, <3>1, <3>2, OtherHandled
  <2>3. CASE m.id = stamp
    <3>1. Current(m)  BY <1>2, <2>3 DEF Current, IsFrame
    <3>2. ui # "begin" /\ result # "ok"
          BY <1>1, <3>1 DEF FreshOK, DoneOK, Current
    <3>3. Active =>
            /\ ui = "await" /\ toClient' = <<>>
            /\ \A r \in FrameRows : panel[r] = stamp
      <4> SUFFICES ASSUME Active
                   PROVE  /\ ui = "await" /\ toClient' = <<>>
                          /\ \A r \in FrameRows : panel[r] = stamp
          OBVIOUS
      <4>1. /\ frame.y \in Nat /\ frame.h \in Nat /\ frame.row \in Nat /\ frame.h >= 1
            /\ frame.row <= frame.h
            BY FrameType DEF TypeInv, FrameOK, FramePhase, Active
      <4>2. Start(m) = frame.y + frame.h /\ Stop(m) = frame.y + frame.h + 1
            BY <1>2 DEF Start, Stop
      <4>3. /\ 1 = Len(toClient) => Stop(m) = Sent
            /\ 1 < Len(toClient) => Start(toClient[1 + 1]) = Stop(m)
            /\ \A j \in 1 .. Len(toClient) : Current(toClient[j])
            BY <1>1, <3>1 DEF ChainOK
      <4>4. ~(1 < Len(toClient))
        <5> SUFFICES ASSUME 1 < Len(toClient) PROVE FALSE  OBVIOUS
        <5> DEFINE x == toClient[1 + 1]
        <5>1. 1 + 1 \in 1 .. Len(toClient) /\ x \in HostMsg  BY <1>1
        <5>2. Current(x) /\ Start(x) = frame.y + frame.h + 1
              BY <4>2, <4>3, <5>1
        <5>3. x.t = "tile"  BY <4>1, <5>2 DEF Start
        <5>4. x.y + x.h <= frame.y + frame.h  BY <5>1, <5>2, <5>3 DEF ChainOK
        <5>5. x.y \in Nat /\ x.h \in Nat /\ x.h >= 1
              BY <5>1, <5>3, HostMessages, LinkAssumption DEF RowSet
        <5>6. x.y = frame.y + frame.h + 1  BY <5>2, <5>3 DEF Start
        <5>7. QED  BY <4>1, <5>4, <5>5, <5>6
      <4>5. Len(toClient) = 1 /\ Stop(m) = Sent  BY <1>1, <4>3, <4>4
      <4>6. ui = "await"  BY <4>1, <4>2, <4>5 DEF Sent
      <4>7. toClient' = <<>>
        <5>1. toClient' \in Seq(HostMsg) /\ Len(toClient') = 0
              BY <1>1, <4>5, Taken
        <5>2. QED  BY <5>1, EmptySeq
      <4>8. \A r \in FrameRows : r < Reached => panel[r] = stamp
            BY <1>4, <2>3 DEF OpenOK
      <4>9. Reached = frame.y + frame.h  BY <4>2 DEF Reached
      <4>10. \A r \in FrameRows : r < frame.y + frame.h  BY <4>1 DEF FrameRows
      <4>11. QED  BY <4>6, <4>7, <4>8, <4>9, <4>10
    <3>4. stamp >= 1  BY <1>2, <2>3
    <3>5. IdsOK' /\ NoPongs'
      <4>1. \A i \in 1 .. Len(toClient') :
              /\ IsFrame(toClient'[i]) => toClient'[i].id <= stamp
              /\ toClient'[i].t = "tile" => toClient'[i].px = toClient'[i].id
            BY TakenShown DEF IdsOK
      <4>2. toHost \in Seq(ClientMsg)  BY DEF TypeInv, TypeOK
      <4>3. /\ Len(toHost) \in Nat /\ Len(toHost') = Len(toHost) + 1
            /\ \A i \in 1 .. Len(toHost) : toHost'[i] = toHost[i]
            /\ toHost'[Len(toHost) + 1] = a
            BY <2>1, <4>2, Appended
      <4>4. a.t = "ack" /\ a.id <= stamp  BY <1>2
      <4>5. \A i \in 1 .. Len(toHost') : /\ toHost'[i].t # "ping"
                                         /\ toHost'[i].t = "ack" => toHost'[i].id <= stamp
        <5>1. ASSUME NEW i \in 1 .. Len(toHost)
              PROVE  /\ toHost'[i].t # "ping"
                     /\ toHost'[i].t = "ack" => toHost'[i].id <= stamp
              BY <4>3 DEF IdsOK
        <5>2. QED  BY <4>3, <4>4, <5>1
      <4>6. open' <= stamp  BY <2>1, <3>4, <1>2
      <4>7. NoPongs'  BY DEF NoPongs
      <4>8. QED  BY <4>1, <4>5, <4>6, <4>7 DEF IdsOK, FramePhase, IsFrame, uiVars
    <3>6. OpenOK'  BY <2>1, <3>4 DEF OpenOK, uiVars
    <3>7. FreshOK'
      <4>1. ui \notin {"begin", "tile", "end"}  BY <3>2, <3>3 DEF Active
      <4>2. QED  BY <4>1 DEF FreshOK, uiVars
    <3>8. DoneOK'
      <4> SUFFICES ASSUME ui = "await" PROVE DoneOK'
          BY <3>2 DEF DoneOK, uiVars
      <4>1. toClient' = <<>> /\ \A r \in FrameRows : panel[r] = stamp
            BY <3>3 DEF Active
      <4>2. Len(toClient') = 0  BY <4>1, EmptySeq
      <4>3. QED  BY <2>1, <4>1, <4>2, TakenShown DEF DoneOK, uiVars
    <3>9. QED  BY <3>5, <3>6, <3>7, <3>8, TakenShown
  <2>4. QED  BY <2>2, <2>3
<1>5. QED  BY <1>3, <1>4

\* The steps of the client keep the invariant.
LEMMA ClientShown ==
  ASSUME ShownInv, TypeInv', OneSession, Client
  PROVE  ShownInv'
<1>a. toHost \in Seq(ClientMsg) /\ toClient \in Seq(HostMsg)
      BY DEF ShownInv, TypeInv, TypeOK
<1>b. rx # "pong" /\ writer # "rx"  BY DEF ShownInv, NoPongs
<1>c. \A i \in 1 .. Len(toHost) : \E j \in 1 .. Len(toHost) : toHost[i] = toHost[j]
      OBVIOUS
<1>1. CASE ClientHandle
  <2> DEFINE m == Head(toClient)
  <2>1. /\ toClient # <<>> /\ toClient' = Tail(toClient) /\ synced
        /\ UNCHANGED <<uiVars, lastAck, rx, writer, synced>>
        BY <1>1 DEF ClientHandle, hostVars
  <2>2. m \in HostMsg /\ m = toClient[1] /\ 1 \in 1 .. Len(toClient)
        BY <1>a, <2>1, Taken
  <2>3. ~IsFrame(m) => (Active => open # stamp)
        BY <2>2 DEF ShownInv, OpenOK, Current
  <2>4. CASE ClientHello(m)
    <3>1. PICK g \in Replies : Reply([t |-> "reply", good |-> g])
          BY <2>4 DEF ClientHello
    <3>2. [t |-> "reply", good |-> g] \in ClientMsg  BY ClientMessages
    <3>3. toHost' = Append(toHost, [t |-> "reply", good |-> g])  BY <3>1 DEF Reply
    <3>4. ~IsFrame(m) /\ UNCHANGED <<open, panel>>  BY <2>4 DEF ClientHello, IsFrame
    <3>5. QED  BY <2>1, <2>3, <3>2, <3>3, <3>4, OtherHandled
  <2>5. CASE ClientBegin(m)  BY <2>1, <2>2, <2>5, BeginHandled
  <2>6. CASE ClientTile(m)  BY <2>1, <2>2, <2>6, TileHandled
  <2>7. CASE ClientEnd(m)  BY <2>1, <2>2, <2>7, EndHandled
  <2>8. CASE ClientIgnores(m)
    <3>1. ~IsFrame(m) /\ UNCHANGED <<open, panel, toHost>>
          BY <2>8 DEF ClientIgnores, IsFrame
    <3>2. QED  BY <2>1, <2>3, <3>1, OtherHandled
  <2>9. QED  BY <1>1, <2>4, <2>5, <2>6, <2>7, <2>8 DEF ClientHandle
<1>2. CASE ClientLoses
  <2>1. /\ toClient # <<>> /\ toClient' = Tail(toClient)
        /\ UNCHANGED <<uiVars, lastAck, rx, writer, panel, toHost, open>>
        /\ \/ synced /\ Head(toClient).t = "torn"
           \/ ~synced
        BY <1>2 DEF ClientLoses, hostVars
  <2>2. Head(toClient) = toClient[1] /\ 1 \in 1 .. Len(toClient)
        BY <1>a, <2>1, Taken
  <2>3. Active => open # stamp
        BY <2>1, <2>2 DEF ShownInv, OpenOK, Current, IsFrame
  <2>4. QED  BY <2>1, <2>3, OtherHandled
<1>3. CASE ClientTouch
  <2>1. toHost' = Append(toHost, [t |-> "input"]) /\ [t |-> "input"] \in ClientMsg
        BY <1>3, ClientMessages DEF ClientTouch, Reply
  <2>2. /\ Len(toHost) \in Nat /\ Len(toHost') = Len(toHost) + 1
        /\ \A i \in 1 .. Len(toHost) : toHost'[i] = toHost[i]
        /\ toHost'[Len(toHost) + 1] = [t |-> "input"]
        BY <1>a, <2>1, Appended
  <2>3. \A i \in 1 .. Len(toHost') :
           \/ toHost'[i].t \in {"reply", "input"}
           \/ \E j \in 1 .. Len(toHost) : toHost'[i] = toHost[j]
        BY <2>2
  <2>4. QED  BY <1>3, <1>b, <2>3, HostQueueShown DEF ClientTouch, hostVars
<1>4. CASE ClientPing  BY <1>4 DEF ClientPing, OneSession, ShownInv, TypeInv, TypeOK
<1>5. QED  BY <1>1, <1>2, <1>3, <1>4 DEF Client

\* Every step of the one session keeps the invariant.
LEMMA NextShown == OneSession /\ ShownInv /\ [Next]_vars => ShownInv'
<1> SUFFICES ASSUME OneSession, ShownInv, [Next]_vars PROVE ShownInv'  OBVIOUS
<1>1. TypeInv /\ TypeInv'  BY NextType DEF ShownInv
<1>a. \A i \in 1 .. Len(toHost) : \E j \in 1 .. Len(toHost) : toHost[i] = toHost[j]
      OBVIOUS
<1>2. CASE Unplug
      BY <1>1, <1>2, <1>a, HostQueueShown DEF Unplug, hostVars, ShownInv, NoPongs
<1>3. CASE Restart  BY <1>3 DEF Restart, OneSession, ShownInv, TypeInv, TypeOK
<1>4. CASE UNCHANGED vars
      BY <1>1, <1>4, <1>a, HostQueueShown DEF vars, hostVars, ShownInv, NoPongs
<1>5. QED  BY <1>1, <1>2, <1>3, <1>4, UiStepShown, UiCallShown, RxStepShown, ClientShown
              DEF Next

\* A present that returned success has put every row of its region on the panel:
\* for every panel, tiling, buffering, input load and torn write, as long as no
\* Ping makes the receive thread write between the messages of a frame, the host
\* has not restarted, and the wire ids have not wrapped.
THEOREM SuccessMeansShown ==
  ASSUME OneSession
  PROVE  Spec => []OkMeansShown
<1>1. ShownInv => OkMeansShown  BY DEF ShownInv, DoneOK, OkMeansShown
<1>2. ShownInv /\ [Next]_vars => ShownInv'  BY NextShown
<1>3. QED  BY <1>1, <1>2, InitShown, PTL DEF Spec

-----------------------------------------------------------------------------
(* No input handler after the destructor                                   *)

\* The destructor has joined the receive thread; only connect() starts another.
ClosedInv == ui = "closed" => rx = "exited"

\* Every step keeps it: a closed display takes no step of the UI thread.
LEMMA NextClosed == ClosedInv /\ [Next]_vars => ClosedInv'
<1> SUFFICES ASSUME ClosedInv, [Next]_vars PROVE ClosedInv'  OBVIOUS
<1> USE DEF ClosedInv
<1>1. CASE UiStep
  <2>1. UiLock \/ Join => ClosedInv'
        BY DEF UiLock, Join, Joinable, Sending, uiVars, hostVars
  <2>2. SendHello \/ PumpRead \/ ConnectFails \/ SendBegin \/ SendTile \/ SendEnd
          \/ AwaitAck \/ AckTimeout \/ SendBacklight \/ SendBye => ui' # "closed"
        BY DEF SendHello, PumpRead, ConnectFails, SendBegin, SendTile, SendEnd,
             AwaitAck, AckTimeout, SendBacklight, SendBye
  <2>3. UiWriteFails => ui' # "closed"  BY DEF UiWriteFails, FailsTo
  <2>4. QED  BY <1>1, <2>1, <2>2, <2>3 DEF UiStep
<1>2. CASE UiCall
      BY <1>2 DEF UiCall, Present, PresentRejected, SetBacklight, Destroy
<1>3. CASE RxStep
      BY <1>3 DEF RxStep, RxMessage, Received, RxLock, RxPong, RxExit, uiVars, hostVars
<1>4. CASE Client
      BY <1>4 DEF Client, ClientHandle, ClientLoses, ClientTouch, ClientPing, uiVars,
           hostVars
<1>5. CASE Unplug \/ Restart \/ UNCHANGED vars
      BY <1>5 DEF Unplug, Restart, vars, uiVars, hostVars
<1>6. QED  BY <1>1, <1>2, <1>3, <1>4, <1>5 DEF Next

\* Only a receive thread that has not ended gives an event to a handler.
LEMMA HandlersRun == [Next]_vars => handled' = handled \/ rx = "read"
<1> SUFFICES ASSUME [Next]_vars PROVE handled' = handled \/ rx = "read"  OBVIOUS
<1>1. CASE UiStep
      BY <1>1 DEF UiStep, UiLock, SendHello, PumpRead, ConnectFails, SendBegin,
           SendTile, SendEnd, AwaitAck, AckTimeout, SendBacklight, UiWriteFails,
           SendBye, Join, hostVars
<1>2. CASE UiCall
      BY <1>2 DEF UiCall, Present, PresentRejected, SetBacklight, Destroy, hostVars
<1>3. CASE RxStep
      BY <1>3 DEF RxStep, RxMessage, Received, RxLock, RxPong, RxExit, hostVars
<1>4. CASE Client
      BY <1>4 DEF Client, ClientHandle, ClientLoses, ClientTouch, ClientPing, hostVars
<1>5. CASE Unplug \/ Restart \/ UNCHANGED vars
      BY <1>5 DEF Unplug, Restart, vars, hostVars
<1>6. QED  BY <1>1, <1>2, <1>3, <1>4, <1>5 DEF Next

\* Once the destructor has returned no handler of an input event runs any more,
\* whatever the client sends and however often the host restarts: the destructor
\* clears running_ while messages of the last read are still being handled, and
\* it is the join that ends them.
THEOREM NoHandlerAfterClose == Spec => QuietAfterClose
<1>1. Init => ClosedInv  BY DEF Init, ClosedInv
<1>2. ClosedInv /\ [Next]_vars => (ui = "closed" => handled' = handled)
      BY HandlersRun DEF ClosedInv
<1>3. ClosedInv /\ [Next]_vars => ClosedInv'  BY NextClosed
<1>4. ClosedInv /\ [Next]_vars => [ui = "closed" => handled' = handled]_vars
      BY <1>2
<1>5. QED  BY <1>1, <1>3, <1>4, PTL DEF Spec, QuietAfterClose

-----------------------------------------------------------------------------
(* The link implements the display sink                                    *)

\* What the refinement needs beyond ShownInv: every tile under way is newer than
\* the last success and no older than what any row shows, and tiles travel in the
\* order of their presents.
TileOrder == \A i, j \in 1 .. Len(toClient) :
  i < j /\ toClient[i].t = "tile" /\ toClient[j].t = "tile"
    => toClient[i].px <= toClient[j].px

FloorOK ==
  /\ lastOk <= stamp
  /\ result = "pending" => lastOk < stamp
  /\ \A r \in RowSet : panel[r] <= stamp
  /\ \A i \in 1 .. Len(toClient) : toClient[i].t = "tile" =>
       /\ lastOk < toClient[i].px
       /\ \A r \in RowSet : panel[r] <= toClient[i].px

SinkInv == ShownInv /\ FloorOK /\ TileOrder

\* A step that sends at most a tile of the present it runs, or takes one message
\* from the queue, and shows nothing keeps the order.
LEMMA FloorKept ==
  ASSUME ShownInv, FloorOK, TileOrder, UNCHANGED <<stamp, lastOk, panel>>,
         result' = "pending" => result = "pending",
         \/ toClient' = toClient
         \/ toClient # <<>> /\ toClient' = Tail(toClient)
         \/ \E m \in HostMsg : /\ toClient' = Append(toClient, m)
                               /\ m.t = "tile" => result = "pending" /\ m.px = stamp
  PROVE  FloorOK' /\ TileOrder'
<1>1. /\ toClient \in Seq(HostMsg) /\ stamp \in Nat /\ lastOk \in Nat
      /\ panel \in [RowSet -> Nat]
      BY LinkAssumption DEF ShownInv, TypeInv, TypeOK
<1>2. /\ lastOk <= stamp /\ (result = "pending" => lastOk < stamp)
      /\ \A r \in RowSet : panel[r] <= stamp
      BY DEF FloorOK
<1>3. ASSUME NEW i \in 1 .. Len(toClient), toClient[i].t = "tile"
      PROVE  /\ lastOk < toClient[i].px /\ toClient[i].px <= stamp
             /\ toClient[i].px \in Nat
             /\ \A r \in RowSet : panel[r] <= toClient[i].px
      BY <1>1, <1>3, HostMessages DEF FloorOK, ShownInv, IdsOK, IsFrame
<1>4. CASE toClient' = toClient
      BY <1>4 DEF FloorOK, TileOrder
<1>5. CASE toClient # <<>> /\ toClient' = Tail(toClient)
  <2>1. /\ Len(toClient) \in Nat /\ Len(toClient') = Len(toClient) - 1
        /\ \A i \in 1 .. Len(toClient') : toClient'[i] = toClient[i + 1]
        BY <1>1, <1>5, Taken
  <2>2. \A i \in 1 .. Len(toClient') : i + 1 \in 1 .. Len(toClient)  BY <2>1
  <2>3. FloorOK'  BY <2>1, <2>2 DEF FloorOK
  <2>4. TileOrder'
    <3> SUFFICES ASSUME NEW i \in 1 .. Len(toClient'), NEW j \in 1 .. Len(toClient'),
                        i < j, toClient'[i].t = "tile", toClient'[j].t = "tile"
                 PROVE  toClient'[i].px <= toClient'[j].px
        BY DEF TileOrder
    <3>1. i + 1 < j + 1 /\ i + 1 \in 1 .. Len(toClient) /\ j + 1 \in 1 .. Len(toClient)
          BY <2>2, <2>1
    <3>2. QED  BY <3>1, <2>1 DEF TileOrder
  <2>5. QED  BY <2>3, <2>4
<1>6. ASSUME NEW m \in HostMsg, toClient' = Append(toClient, m),
             m.t = "tile" => result = "pending" /\ m.px = stamp
      PROVE  FloorOK' /\ TileOrder'
  <2>1. /\ Len(toClient) \in Nat /\ Len(toClient') = Len(toClient) + 1
        /\ \A i \in 1 .. Len(toClient) : toClient'[i] = toClient[i]
        /\ toClient'[Len(toClient) + 1] = m
        BY <1>1, <1>6, Appended
  <2>2. ASSUME NEW i \in 1 .. Len(toClient'), toClient'[i].t = "tile"
        PROVE  /\ lastOk < toClient'[i].px /\ toClient'[i].px <= stamp
               /\ \A r \in RowSet : panel[r] <= toClient'[i].px
    <3>1. CASE i \in 1 .. Len(toClient)  BY <3>1, <2>1, <2>2, <1>3
    <3>2. CASE i = Len(toClient) + 1  BY <3>2, <2>1, <2>2, <1>2, <1>6, <1>1
    <3>3. QED  BY <3>1, <3>2, <2>1
  <2>3. FloorOK'  BY <1>2, <2>2 DEF FloorOK
  <2>4. TileOrder'
    <3> SUFFICES ASSUME NEW i \in 1 .. Len(toClient'), NEW j \in 1 .. Len(toClient'),
                        i < j, toClient'[i].t = "tile", toClient'[j].t = "tile"
                 PROVE  toClient'[i].px <= toClient'[j].px
        BY DEF TileOrder
    <3>1. i \in 1 .. Len(toClient) /\ toClient'[i] = toClient[i]  BY <2>1
    <3>2. CASE j \in 1 .. Len(toClient)
          BY <3>1, <3>2, <2>1 DEF TileOrder
    <3>3. CASE j = Len(toClient) + 1
          BY <3>1, <3>3, <2>1, <2>2, <1>6
    <3>4. QED  BY <3>2, <3>3, <2>1
  <2>5. QED  BY <2>3, <2>4
<1>7. QED  BY <1>4, <1>5, <1>6

\* The UI thread's steps: each is a stutter of the sink, its success or its failure.
LEMMA UiStepSink ==
  ASSUME SinkInv, UiStep
  PROVE  FloorOK' /\ TileOrder' /\ [Sink!Next]_(Sink!vars)
<1> USE DEF SinkInv
<1> DEFINE Sends(m) == /\ toClient' = Append(toClient, m)
                       /\ m.t = "tile" => result = "pending" /\ m.px = stamp
<1>a. \A x \in {"hello", "bye", "backlight", "torn"} :
        [t |-> x] \in HostMsg /\ [t |-> x].t # "tile"
      BY HostMessages
<1>b. /\ stamp \in Nat /\ lastOk \in Nat /\ (FramePhase <=> result = "pending")
      /\ FramePhase => frame.id \in 1 .. MaxId /\ stamp \in 1 .. MaxFrames
      BY DEF ShownInv, TypeInv, TypeOK, FrameOK, IdsOK
<1>1. CASE UiLock \/ PumpRead \/ ConnectFails \/ Join
  <2>1. UNCHANGED <<toClient, stamp, lastOk, panel, result, frame>>
        BY <1>1 DEF UiLock, PumpRead, ConnectFails, Join, uiVars, clientVars
  <2>2. FloorOK' /\ TileOrder'  BY <2>1, FloorKept
  <2>3. UNCHANGED Sink!vars  BY <2>1 DEF Sink!vars, FrameRows
  <2>4. QED  BY <2>2, <2>3
<1>2. CASE SendHello \/ SendBacklight \/ SendBye
  <2>1. /\ UNCHANGED <<stamp, lastOk, panel, result, frame>>
        /\ \E m \in HostMsg : Sends(m)
        BY <1>2, <1>a DEF SendHello, SendBacklight, SendBye, Written, clientVars
  <2>2. FloorOK' /\ TileOrder'  BY <2>1, FloorKept
  <2>3. UNCHANGED Sink!vars  BY <2>1 DEF Sink!vars, FrameRows
  <2>4. QED  BY <2>2, <2>3
<1>3. CASE SendBegin \/ SendEnd
  <2>1. FramePhase  BY <1>3 DEF SendBegin, SendEnd, FramePhase
  <2>2. /\ [t |-> "begin", id |-> frame.id] \in HostMsg
        /\ [t |-> "end", id |-> frame.id] \in HostMsg
        BY <1>b, <2>1, HostMessages
  <2>3. /\ UNCHANGED <<stamp, lastOk, panel, result, frame>>
        /\ \E m \in HostMsg : Sends(m)
        BY <1>3, <2>2 DEF SendBegin, SendEnd, Written, clientVars
  <2>4. FloorOK' /\ TileOrder'  BY <2>3, FloorKept
  <2>5. UNCHANGED Sink!vars  BY <2>3 DEF Sink!vars, FrameRows
  <2>6. QED  BY <2>4, <2>5
<1>4. CASE SendTile
  <2> DEFINE m == [t |-> "tile", id |-> frame.id, px |-> stamp,
                   y |-> frame.y + frame.row, h |-> TileRows]
  <2>1. FramePhase /\ result = "pending"  BY <1>4, <1>b DEF SendTile, FramePhase
  <2>2. /\ frame.y \in RowSet /\ frame.row \in Nat /\ frame.h \in Nat
        /\ frame.row < frame.h /\ frame.y + frame.h <= Rows
        /\ frame \in [id : 0 .. MaxId, y : RowSet, h : 0 .. Rows, row : 0 .. Rows]
        BY <1>4, <2>1 DEF SendTile, ShownInv, TypeInv, FrameOK, TypeOK
  <2>3. TileRows \in 1 .. Rows /\ frame.y + frame.row \in RowSet
        BY <2>2, LinkAssumption DEF TileRows, RowSet
  <2>4. m \in HostMsg  BY <1>b, <2>1, <2>3, HostMessages
  <2>5. m.px = stamp /\ toClient' = Append(toClient, m)
        BY <1>4 DEF SendTile, Written
  <2>6. UNCHANGED <<stamp, lastOk, panel, result>>
        BY <1>4 DEF SendTile, clientVars
  <2>7. FloorOK' /\ TileOrder'
    <3>1. \E x \in HostMsg : Sends(x)  BY <2>1, <2>4, <2>5
    <3>2. QED  BY <2>6, <3>1, FloorKept
  <2>8. frame' = [frame EXCEPT !.row = frame.row + TileRows]  BY <1>4 DEF SendTile
  <2>9. frame'.y = frame.y /\ frame'.h = frame.h  BY <2>2, <2>8
  <2>10. UNCHANGED Sink!vars  BY <2>6, <2>9 DEF Sink!vars, FrameRows
  <2>11. QED  BY <2>7, <2>10
<1>5. CASE AwaitAck
  <2>1. AckedStamp /\ ui = "await" /\ result = "pending"
        BY <1>5, <1>b DEF AwaitAck, Acked, AckedStamp, ShownInv, IdsOK, FramePhase
  <2>2. /\ \A i \in 1 .. Len(toClient) : ~IsFrame(toClient[i])
        /\ \A r \in FrameRows : panel[r] = stamp
        BY <2>1 DEF ShownInv, DoneOK
  <2>3. UNCHANGED <<toClient, stamp, panel, frame>>
        BY <1>5 DEF AwaitAck, clientVars
  <2>4. CASE result' = "ok" /\ lastOk' = stamp
    <3>1. \A i \in 1 .. Len(toClient') : toClient'[i].t # "tile"
          BY <2>2, <2>3 DEF IsFrame
    <3>2. FloorOK'
          BY <2>3, <2>4, <3>1, <1>b DEF FloorOK
    <3>3. TileOrder'  BY <3>1 DEF TileOrder
    <3>4. Sink!Succeed
          BY <2>1, <2>2, <2>3, <2>4 DEF Sink!Succeed
    <3>5. QED  BY <3>2, <3>3, <3>4 DEF Sink!Next
  <2>5. CASE result' = "io" /\ UNCHANGED lastOk
    <3>1. FloorOK' /\ TileOrder'  BY <2>3, <2>5, FloorKept
    <3>2. Sink!Fail  BY <2>3, <2>5 DEF Sink!Fail, Sink!Failure
    <3>3. QED  BY <3>1, <3>2 DEF Sink!Next
  <2>6. QED  BY <1>5, <2>4, <2>5 DEF AwaitAck
<1>6. CASE AckTimeout
  <2>1. UNCHANGED <<toClient, stamp, lastOk, panel>> /\ result' = "timeout"
        BY <1>6 DEF AckTimeout, clientVars
  <2>2. FloorOK' /\ TileOrder'  BY <2>1, FloorKept
  <2>3. Sink!Fail  BY <2>1 DEF Sink!Fail, Sink!Failure
  <2>4. QED  BY <2>2, <2>3 DEF Sink!Next
<1>7. CASE UiWriteFails
  <2>1. UNCHANGED <<stamp, lastOk, panel, frame>>
        BY <1>7 DEF UiWriteFails, clientVars
  <2>2. toClient' = toClient \/ \E m \in HostMsg : Sends(m)
        BY <1>7, <1>a DEF UiWriteFails, NotWritten
  <2>3. CASE ui \in {"begin", "tile", "end"}
    <3>1. result' \in {"timeout", "io"}  BY <1>7, <2>3 DEF UiWriteFails
    <3>2. FloorOK' /\ TileOrder'  BY <2>1, <2>2, <3>1, FloorKept
    <3>3. Sink!Fail  BY <2>1, <3>1 DEF Sink!Fail, Sink!Failure
    <3>4. QED  BY <3>2, <3>3 DEF Sink!Next
  <2>4. CASE ui \notin {"begin", "tile", "end"}
    <3>1. result' = result  BY <1>7, <2>4 DEF UiWriteFails
    <3>2. FloorOK' /\ TileOrder'  BY <2>1, <2>2, <3>1, FloorKept
    <3>3. UNCHANGED Sink!vars  BY <2>1, <3>1 DEF Sink!vars, FrameRows
    <3>4. QED  BY <3>2, <3>3
  <2>5. QED  BY <2>3, <2>4
<1>8. QED  BY <1>1, <1>2, <1>3, <1>4, <1>5, <1>6, <1>7 DEF UiStep

\* The user's calls: a present is the sink's call, a refused one its failure.
LEMMA UiCallSink ==
  ASSUME SinkInv, UiCall
  PROVE  FloorOK' /\ TileOrder' /\ [Sink!Next]_(Sink!vars)
<1> USE DEF SinkInv
<1>b. stamp \in Nat /\ lastOk \in Nat /\ (FramePhase <=> result = "pending")
      BY DEF ShownInv, TypeInv, TypeOK, IdsOK
<1>1. CASE Present
  <2>1. /\ UNCHANGED <<toClient, lastOk, panel>> /\ stamp' = stamp + 1
        /\ result' = "pending" /\ ui = "idle"
        BY <1>1 DEF Present, clientVars
  <2>2. PICK y \in RowSet, h \in 1 .. Rows :
          InBounds(y, h) /\ frame' = [id |-> nextId, y |-> y, h |-> h, row |-> 0]
        BY <1>1 DEF Present
  <2>3. FloorOK'
    <3>1. panel \in [RowSet -> Nat]
          BY LinkAssumption DEF ShownInv, TypeInv, TypeOK
    <3>2. lastOk' < stamp' /\ lastOk' <= stamp'  BY <2>1, <1>b DEF FloorOK
    <3>3. \A r \in RowSet : panel'[r] <= stamp'
          BY <2>1, <1>b, <3>1 DEF FloorOK
    <3>4. QED  BY <2>1, <3>2, <3>3 DEF FloorOK
  <2>4. TileOrder'  BY <2>1 DEF TileOrder
  <2>5. FrameRows' = y .. y + h - 1  BY <2>2 DEF FrameRows
  <2>6. FrameRows' \subseteq Sink!RowSet /\ FrameRows' # {}
    <3>1. y \in FrameRows'  BY <2>2, <2>5 DEF RowSet
    <3>2. FrameRows' \subseteq 0 .. Rows - 1
          BY <2>2, <2>5, LinkAssumption DEF RowSet, InBounds
    <3>3. QED  BY <3>1, <3>2 DEF Sink!RowSet
  <2>7. Sink!Call
    <3>1. result # "pending"  BY <2>1, <1>b DEF FramePhase
    <3>2. QED  BY <2>1, <2>6, <3>1 DEF Sink!Call
  <2>8. QED  BY <2>3, <2>4, <2>7 DEF Sink!Next
<1>2. CASE PresentRejected
  <2>1. UNCHANGED <<toClient, stamp, lastOk, panel>> /\ result' = "invalid"
        BY <1>2 DEF PresentRejected, clientVars
  <2>2. FloorOK' /\ TileOrder'  BY <2>1, FloorKept
  <2>3. Sink!Fail  BY <2>1 DEF Sink!Fail, Sink!Failure
  <2>4. QED  BY <2>2, <2>3 DEF Sink!Next
<1>3. CASE SetBacklight \/ Destroy
  <2>1. UNCHANGED <<toClient, stamp, lastOk, panel, result, frame>>
        BY <1>3 DEF SetBacklight, Destroy, clientVars
  <2>2. FloorOK' /\ TileOrder'  BY <2>1, FloorKept
  <2>3. UNCHANGED Sink!vars  BY <2>1 DEF Sink!vars, FrameRows
  <2>4. QED  BY <2>2, <2>3
<1>4. QED  BY <1>1, <1>2, <1>3 DEF UiCall

\* The client: a tile of the open frame is the sink's Show, all else a stutter.
LEMMA ClientSink ==
  ASSUME SinkInv, Client
  PROVE  FloorOK' /\ TileOrder' /\ [Sink!Next]_(Sink!vars)
<1> USE DEF SinkInv
<1> DEFINE m == Head(toClient)
           Shown == [r \in RowSet |-> IF r \in m.y .. m.y + m.h - 1 THEN m.px ELSE panel[r]]
<1>b. /\ stamp \in Nat /\ lastOk \in Nat /\ panel \in [RowSet -> Nat]
      /\ toClient \in Seq(HostMsg)
      BY LinkAssumption DEF ShownInv, TypeInv, TypeOK
<1>1. UNCHANGED <<stamp, lastOk, result, frame>>
      BY DEF Client, ClientHandle, ClientLoses, ClientTouch, ClientPing, uiVars
<1>2. toClient' = toClient \/ (toClient # <<>> /\ toClient' = Tail(toClient))
      BY DEF Client, ClientHandle, ClientLoses, ClientTouch, ClientPing
<1>3. CASE UNCHANGED panel
  <2>1. FloorOK' /\ TileOrder'  BY <1>1, <1>2, <1>3, FloorKept
  <2>2. UNCHANGED Sink!vars  BY <1>1, <1>3 DEF Sink!vars, FrameRows
  <2>3. QED  BY <2>1, <2>2
<1>4. CASE ~UNCHANGED panel
  <2>1. ClientHandle  BY <1>4 DEF Client, ClientLoses, ClientTouch, ClientPing, clientVars
  <2>2. toClient # <<>> /\ toClient' = Tail(toClient)  BY <2>1 DEF ClientHandle
  <2>3. ClientTile(m)
        BY <1>4, <2>1 DEF ClientHandle, ClientHello, ClientBegin, ClientEnd, ClientIgnores
  <2>4. m \in HostMsg /\ m = toClient[1] /\ 1 \in 1 .. Len(toClient)
        BY <1>b, <2>2, Taken
  <2>5. m.t = "tile" /\ panel' = Shown  BY <1>4, <2>3 DEF ClientTile
  <2>6. m.px \in Nat /\ m.y \in RowSet /\ m.h \in 1 .. Rows
        BY <2>4, <2>5, HostMessages
  <2>7. m.y + m.h <= Rows  BY <2>4, <2>5 DEF ShownInv, TypeInv, TilesFit
  <2>8. m.px <= stamp
        BY <2>4, <2>5 DEF ShownInv, IdsOK, IsFrame
  <2>9. lastOk < m.px /\ \A r \in RowSet : panel[r] <= m.px
        BY <2>4, <2>5 DEF FloorOK
  <2>10. FloorOK' /\ TileOrder'
    <3>1. /\ Len(toClient) \in Nat /\ Len(toClient') = Len(toClient) - 1
          /\ \A i \in 1 .. Len(toClient') : toClient'[i] = toClient[i + 1]
          BY <1>b, <2>2, Taken
    <3>2. \A r \in RowSet : panel'[r] = m.px \/ panel'[r] = panel[r]  BY <2>5
    <3>3. \A r \in RowSet : panel'[r] <= stamp
          BY <3>2, <2>8, <2>6 DEF FloorOK
    <3>4. ASSUME NEW i \in 1 .. Len(toClient'), toClient'[i].t = "tile"
          PROVE  /\ lastOk < toClient'[i].px
                 /\ \A r \in RowSet : panel'[r] <= toClient'[i].px
      <4>1. i + 1 \in 1 .. Len(toClient) /\ 1 < i + 1 /\ toClient'[i] = toClient[i + 1]
            BY <3>1
      <4>2. m.px <= toClient[i + 1].px
            BY <4>1, <3>4, <2>4, <2>5 DEF TileOrder
      <4>3. QED  BY <4>1, <4>2, <3>2, <3>4 DEF FloorOK
    <3>5. FloorOK'  BY <1>1, <3>3, <3>4 DEF FloorOK
    <3>6. TileOrder'
      <4> SUFFICES ASSUME NEW i \in 1 .. Len(toClient'), NEW j \in 1 .. Len(toClient'),
                          i < j, toClient'[i].t = "tile", toClient'[j].t = "tile"
                   PROVE  toClient'[i].px <= toClient'[j].px
          BY DEF TileOrder
      <4>1. i + 1 < j + 1 /\ i + 1 \in 1 .. Len(toClient) /\ j + 1 \in 1 .. Len(toClient)
            BY <3>1
      <4>2. QED  BY <4>1, <3>1 DEF TileOrder
    <3>7. QED  BY <3>5, <3>6
  <2>11. Sink!Show
    <3> DEFINE R == m.y .. m.y + m.h - 1
    <3>1. R \subseteq Sink!RowSet
          BY <2>6, <2>7, LinkAssumption DEF RowSet, Sink!RowSet
    <3>2. m.y \in R  BY <2>6 DEF RowSet
    <3>3. m.px \in lastOk + 1 .. stamp  BY <1>b, <2>6, <2>8, <2>9
    <3>4. \A r \in R : panel[r] <= m.px  BY <3>1, <2>9 DEF RowSet, Sink!RowSet
    <3>5. panel' = [r \in Sink!RowSet |-> IF r \in R THEN m.px ELSE panel[r]]
          BY <2>5 DEF RowSet, Sink!RowSet
    <3>6. UNCHANGED <<stamp, IF result = "pending" THEN FrameRows ELSE {}, result, lastOk>>
          BY <1>1 DEF FrameRows
    <3>7. QED  BY <3>1, <3>2, <3>3, <3>4, <3>5, <3>6 DEF Sink!Show
  <2>12. QED  BY <2>10, <2>11 DEF Sink!Next
<1>5. QED  BY <1>3, <1>4

\* Every step of the one session is a step of the sink or a stutter.
LEMMA NextSink ==
  ASSUME OneSession, SinkInv, [Next]_vars
  PROVE  SinkInv' /\ [Sink!Next]_(Sink!vars)
<1>1. ShownInv'  BY NextShown DEF SinkInv
<1>2. CASE UiStep  BY <1>1, <1>2, UiStepSink DEF SinkInv
<1>3. CASE UiCall  BY <1>1, <1>3, UiCallSink DEF SinkInv, ShownInv
<1>4. CASE Client  BY <1>1, <1>4, ClientSink DEF SinkInv
<1>5. CASE RxStep \/ Unplug \/ UNCHANGED vars
  <2>1. UNCHANGED <<stamp, lastOk, panel, result, frame>>
        BY <1>5 DEF RxStep, RxMessage, RxLock, RxPong, RxExit, Unplug, vars, uiVars,
             clientVars
  <2>2. rx # "pong"  BY DEF SinkInv, ShownInv, NoPongs
  <2>3. toClient' = toClient
        BY <1>5, <2>2 DEF RxStep, RxMessage, RxLock, RxPong, RxExit, Unplug, vars
  <2>4. FloorOK' /\ TileOrder'  BY <2>1, <2>3, FloorKept DEF SinkInv
  <2>5. UNCHANGED Sink!vars  BY <2>1 DEF Sink!vars, FrameRows
  <2>6. QED  BY <1>1, <2>4, <2>5 DEF SinkInv
<1>6. CASE Restart
      BY <1>6 DEF Restart, OneSession, SinkInv, ShownInv, TypeInv, TypeOK
<1>7. QED  BY <1>2, <1>3, <1>4, <1>5, <1>6 DEF Next

\* The link implements the display contract (IDisplay.hpp) for every panel, tiling,
\* buffering, input load and torn write, under the assumptions of SuccessMeansShown:
\* what reaches the panel is never older than a present that returned success, no
\* row goes back to an older frame, and success comes only when all rows are shown.
THEOREM LinkImplementsSink ==
  ASSUME OneSession
  PROVE  Spec => SinkSpec
<1>1. Init => SinkInv /\ Sink!Init
  <2> SUFFICES ASSUME Init PROVE SinkInv /\ Sink!Init  OBVIOUS
  <2>1. FloorOK /\ TileOrder  BY DEF Init, FloorOK, TileOrder, RowSet
  <2>2. Sink!Init  BY DEF Init, Sink!Init, Sink!RowSet, RowSet
  <2>3. QED  BY <2>1, <2>2, InitShown DEF SinkInv
<1>2. SinkInv /\ [Next]_vars => SinkInv' /\ [Sink!Next]_(Sink!vars)  BY NextSink
<1>3. QED  BY <1>1, <1>2, PTL DEF Spec, SinkSpec, Sink!Spec
=============================================================================
