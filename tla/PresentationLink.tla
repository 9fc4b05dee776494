-------------------------- MODULE PresentationLink --------------------------
(***************************************************************************)
(* The presentation link: LinkedDisplay on the host (its UI thread and its *)
(* receive thread), a byte-stream transport, and the display client.       *)
(*                                                                         *)
(*   platform/display/src/linked/LinkedDisplay.cpp, SerialTransport.cpp    *)
(*   firmware/tab5_display_client/tab5_display_client.ino                  *)
(*                                                                         *)
(* Granularity.  The wire carries whole messages.  A write that fails half *)
(* way leaves a torn message: its length field makes the client's decoder  *)
(* swallow what follows, so the next message (at least) is lost before the *)
(* decoder finds a sync byte again.  Each transport write is made of the   *)
(* steps "take writeMutex_" and "write, release", because the lock is held *)
(* while the write waits for space.  Pixels are abstracted to the number   *)
(* of the present they belong to; columns are left out (every tile is as   *)
(* wide as its region).                                                    *)
(***************************************************************************)
EXTENDS Integers, Sequences

CONSTANTS
  Rows,         \* panel height in rows, negotiated in HelloReply
  RowsPerTile,  \* rows one tile may carry: (maxPayload_ - 12) / rowBytes
  MaxId,        \* wire frame ids are 1..MaxId (65535 in the code)
  Cap,          \* messages a direction of the transport buffers
  Replies,      \* what HelloReply may be: TRUE acceptable, FALSE rejected
  MaxFrames,    \* bound on the presents of a behaviour
  MaxPings,     \* bound on the Pings the client sends (the Tab5 sends none)
  MaxInputs,    \* bound on the input events the client sends
  MaxSessions   \* bound on the lives of the host process

ASSUME LinkAssumption ==
  /\ Rows \in Nat \ {0}
  /\ RowsPerTile \in Nat \ {0}
  /\ MaxId \in Nat \ {0}
  /\ Cap \in Nat \ {0}
  /\ Replies \subseteq BOOLEAN
  /\ MaxFrames \in Nat
  /\ MaxPings \in Nat
  /\ MaxInputs \in Nat
  /\ MaxSessions \in Nat \ {0}

VARIABLES
  ui,        \* where the UI thread is
  frame,     \* its presentRegion call: wire id, region [y, y+h), loop row
  nextId,    \* nextFrameId_
  stamp,     \* number of presents so far: names the pixels of the last one
  result,    \* what the last present returned, "pending" while it runs
  lastOk,    \* history: the last present that returned success
  lastAck,   \* lastAck_
  running,   \* running_
  rx,        \* where the receive thread is
  writer,    \* who holds writeMutex_
  toClient, toHost,            \* bytes in flight, as messages
  linkUp,    \* the device is plugged in
  synced,    \* the client's decoder is at a message boundary
  open,      \* the client's openFrameId while frameOpen, else 0
  panel,     \* panel[r]: the present whose pixels row r shows
  handled,   \* input events given to the host's handlers
  pings, touches, session      \* counters that bound the behaviour

uiVars     == <<ui, frame, nextId, stamp, result, lastOk>>
hostVars   == <<lastAck, running, rx, handled>>
clientVars == <<synced, open, panel>>
bounds     == <<pings, touches, session>>
vars == <<uiVars, hostVars, clientVars, bounds, writer, toClient, toHost, linkUp>>

RowSet == 0 .. Rows - 1
NoAck  == [id |-> 0, status |-> 0]

\* Messages, host to client.  A torn message is what a failed write leaves.
HostMsg == [t : {"hello", "bye", "backlight", "pong", "torn"}]
             \cup [t : {"begin", "end"}, id : 1 .. MaxId]
             \cup [t : {"tile"}, id : 1 .. MaxId, px : 1 .. MaxFrames,
                   y : RowSet, h : 1 .. Rows]
\* Messages, client to host.
ClientMsg == [t : {"reply"}, good : Replies] \cup [t : {"ping", "input"}]
               \cup [t : {"ack"}, id : 1 .. MaxId, status : {0, 1}]

Sending == {"hello", "begin", "tile", "end", "backlight", "bye"}

TypeOK ==
  /\ ui \in Sending \cup {"pump", "idle", "await", "join", "closed", "failed"}
  /\ frame \in [id : 0 .. MaxId, y : RowSet, h : 0 .. Rows, row : 0 .. Rows]
  /\ nextId \in 1 .. MaxId
  /\ stamp \in 0 .. MaxFrames /\ lastOk \in 0 .. MaxFrames
  /\ result \in {"none", "pending", "ok", "invalid", "timeout", "io"}
  /\ lastAck \in [id : 0 .. MaxId, status : {0, 1}]
  /\ running \in BOOLEAN /\ linkUp \in BOOLEAN /\ synced \in BOOLEAN
  /\ rx \in {"off", "read", "pong", "exited"}
  /\ writer \in {"none", "ui", "rx"}
  /\ toClient \in Seq(HostMsg) /\ toHost \in Seq(ClientMsg)
  /\ open \in 0 .. MaxId
  /\ panel \in [RowSet -> 0 .. MaxFrames]
  /\ handled \in Nat
  /\ pings \in 0 .. MaxPings /\ touches \in 0 .. MaxInputs
  /\ session \in 1 .. MaxSessions

NoFrame == [id |-> 0, y |-> 0, h |-> 0, row |-> 0]

\* A composition root has opened the transport and calls connect().
Init ==
  /\ ui = "hello" /\ frame = NoFrame /\ nextId = 1
  /\ stamp = 0 /\ result = "none" /\ lastOk = 0
  /\ lastAck = NoAck /\ running = FALSE /\ rx = "off" /\ handled = 0
  /\ writer = "none" /\ toClient = <<>> /\ toHost = <<>> /\ linkUp = TRUE
  /\ synced = TRUE /\ open = 0 /\ panel = [r \in RowSet |-> 0]
  /\ pings = 0 /\ touches = 0 /\ session = 1

-----------------------------------------------------------------------------
(* sendFrame and SerialTransport::write                                    *)

TakeWriteMutex(w) == writer = "none" /\ writer' = w

\* Full for 100 ms, or the device is gone.  (NeverGivesUp: select() without its
\* time limit.)
NeverGivesUp  == ~linkUp
WriteGivesUp  == ~linkUp \/ Len(toClient) >= Cap

\* The transport took the whole message.
Written(w, m) ==
  /\ writer = w /\ linkUp /\ Len(toClient) < Cap
  /\ toClient' = Append(toClient, m)
  /\ writer' = "none"

\* write() failed with some of the message already sent, or none of it.
NotWritten(w) ==
  /\ writer = w /\ WriteGivesUp
  /\ \/ toClient' = toClient
     \/ linkUp /\ Len(toClient) = Cap /\ toClient' = Append(toClient, [t |-> "torn"])
  /\ writer' = "none"

-----------------------------------------------------------------------------
(* UI thread: connect()                                                    *)

UiLock == ui \in Sending /\ TakeWriteMutex("ui")
          /\ UNCHANGED <<uiVars, hostVars, clientVars, bounds, toClient, toHost, linkUp>>

SendHello ==
  /\ ui = "hello" /\ Written("ui", [t |-> "hello"])
  /\ ui' = "pump"
  /\ UNCHANGED <<frame, nextId, stamp, result, lastOk, hostVars, clientVars,
                 bounds, toHost, linkUp>>

\* One read of the pump: a chunk of k messages.  Everything up to the first
\* HelloReply is skipped; what follows it in the same chunk is thrown away
\* with connect()'s buffer.
PumpRead ==
  /\ ui = "pump" /\ linkUp
  /\ \E k \in 1 .. Len(toHost) :
       LET replies == {i \in 1 .. k : toHost[i].t = "reply"}
           first   == CHOOSE i \in replies : \A j \in replies : i <= j
       IN /\ toHost' = SubSeq(toHost, k + 1, Len(toHost))
          /\ \/ replies = {} /\ UNCHANGED <<ui, running, rx>>
             \/ /\ replies # {} /\ ~toHost[first].good
                /\ ui' = "failed" /\ UNCHANGED <<running, rx>>
             \/ /\ replies # {} /\ toHost[first].good
                /\ ui' = "idle" /\ running' = TRUE /\ rx' = "read"
  /\ UNCHANGED <<frame, nextId, stamp, result, lastOk, lastAck, handled,
                 clientVars, bounds, writer, toClient, linkUp>>

\* helloTimeout expired, or the transport's read failed.
ConnectFails ==
  /\ ui = "pump"
  /\ ui' = "failed"
  /\ UNCHANGED <<frame, nextId, stamp, result, lastOk, hostVars, clientVars,
                 bounds, writer, toClient, toHost, linkUp>>

-----------------------------------------------------------------------------
(* UI thread: presentRegion(), awaitAck(), setBacklight()                  *)

InBounds(y, h) == h # 0 /\ y + h <= Rows

\* nextFrameId_ skips 0 when it wraps.  (NextIdNoSkip: it does not.)
NextIdNoSkip(i) == (i + 1) % (MaxId + 1)
NextId(i) == IF i = MaxId THEN 1 ELSE i + 1

Present ==
  /\ ui = "idle" /\ stamp < MaxFrames
  /\ \E y \in RowSet, h \in 1 .. Rows :
       InBounds(y, h) /\ frame' = [id |-> nextId, y |-> y, h |-> h, row |-> 0]
  /\ nextId' = NextId(nextId)
  /\ stamp' = stamp + 1
  /\ lastAck' = NoAck
  /\ ui' = "begin" /\ result' = "pending"
  /\ UNCHANGED <<lastOk, running, rx, handled, clientVars, bounds, writer,
                 toClient, toHost, linkUp>>

\* A region that is empty or leaves the panel is refused before any write.
PresentRejected ==
  /\ ui = "idle"
  /\ \E y \in RowSet, h \in 0 .. Rows : ~InBounds(y, h)
  /\ result' = "invalid"
  /\ UNCHANGED <<ui, frame, nextId, stamp, lastOk, hostVars, clientVars, bounds,
                 writer, toClient, toHost, linkUp>>

SendBegin ==
  /\ ui = "begin" /\ Written("ui", [t |-> "begin", id |-> frame.id])
  /\ ui' = "tile"
  /\ UNCHANGED <<frame, nextId, stamp, result, lastOk, hostVars, clientVars,
                 bounds, toHost, linkUp>>

\* Rows of the tile that starts at loop row frame.row.  (WholeTiles: the last
\* tile is not cut to the region.)
WholeTiles == RowsPerTile
TileRows == IF frame.h - frame.row < RowsPerTile THEN frame.h - frame.row
                                                 ELSE RowsPerTile

SendTile ==
  /\ ui = "tile"
  /\ Written("ui", [t |-> "tile", id |-> frame.id, px |-> stamp,
                    y |-> frame.y + frame.row, h |-> TileRows])
  /\ frame' = [frame EXCEPT !.row = @ + TileRows]
  /\ ui' = IF frame.row + RowsPerTile < frame.h THEN "tile" ELSE "end"
  /\ UNCHANGED <<nextId, stamp, result, lastOk, hostVars, clientVars, bounds,
                 toHost, linkUp>>

SendEnd ==
  /\ ui = "end" /\ Written("ui", [t |-> "end", id |-> frame.id])
  /\ ui' = "await"
  /\ UNCHANGED <<frame, nextId, stamp, result, lastOk, hostVars, clientVars,
                 bounds, toHost, linkUp>>

\* (AnyAck: the frame id of the ack is not compared.)
AnyAck == lastAck.id # 0
Acked  == lastAck.id = frame.id

AwaitAck ==
  /\ ui = "await" /\ Acked
  /\ ui' = "idle"
  /\ \/ lastAck.status = 0 /\ result' = "ok" /\ lastOk' = stamp
     \/ lastAck.status # 0 /\ result' = "io" /\ UNCHANGED lastOk
  /\ UNCHANGED <<frame, nextId, stamp, hostVars, clientVars, bounds, writer,
                 toClient, toHost, linkUp>>

AckTimeout ==
  /\ ui = "await" /\ ~Acked
  /\ ui' = "idle" /\ result' = "timeout"
  /\ UNCHANGED <<frame, nextId, stamp, lastOk, hostVars, clientVars, bounds,
                 writer, toClient, toHost, linkUp>>

SetBacklight ==
  /\ ui = "idle"
  /\ ui' = "backlight"
  /\ UNCHANGED <<frame, nextId, stamp, result, lastOk, hostVars, clientVars,
                 bounds, writer, toClient, toHost, linkUp>>

SendBacklight ==
  /\ ui = "backlight" /\ Written("ui", [t |-> "backlight"])
  /\ ui' = "idle"
  /\ UNCHANGED <<frame, nextId, stamp, result, lastOk, hostVars, clientVars,
                 bounds, toHost, linkUp>>

\* A write failed: connect() and presentRegion() return its error, the
\* destructor goes on without its Bye.  (SkipsTile: a tile's error is dropped.
\* KeepsRunning: the destructor returns early.)
SkipsTile(u) == CASE u = "hello" -> "failed" [] u = "bye" -> "join"
                  [] u = "tile" -> "end" [] OTHER -> "idle"
FailsTo(u)   == CASE u = "hello" -> "failed" [] u = "bye" -> "join" [] OTHER -> "idle"
KeepsRunning == running
StillRunning == running /\ ui # "bye"

UiWriteFails ==
  /\ ui \in Sending /\ NotWritten("ui")
  /\ ui' = FailsTo(ui) /\ running' = StillRunning
  /\ result' = IF ui \in {"begin", "tile", "end"}
               THEN IF linkUp THEN "timeout" ELSE "io" ELSE result
  /\ UNCHANGED <<frame, nextId, stamp, lastOk, lastAck, rx, handled, clientVars,
                 bounds, toHost, linkUp>>

-----------------------------------------------------------------------------
(* UI thread: the destructor                                               *)

Destroy ==
  /\ ui = "idle"
  /\ ui' = "bye"
  /\ UNCHANGED <<frame, nextId, stamp, result, lastOk, hostVars, clientVars,
                 bounds, writer, toClient, toHost, linkUp>>

SendBye ==
  /\ ui = "bye" /\ Written("ui", [t |-> "bye"])
  /\ ui' = "join" /\ running' = FALSE
  /\ UNCHANGED <<frame, nextId, stamp, result, lastOk, lastAck, rx, handled,
                 clientVars, bounds, toHost, linkUp>>

\* (Detached: the thread is not joined.)
Detached == TRUE
Joinable == rx = "exited"

Join ==
  /\ ui = "join" /\ Joinable
  /\ ui' = "closed"
  /\ UNCHANGED <<frame, nextId, stamp, result, lastOk, hostVars, clientVars,
                 bounds, writer, toClient, toHost, linkUp>>

-----------------------------------------------------------------------------
(* Receive thread: receiveLoop(), handleMessage()                          *)

\* The message at the head of what the client sent, unless the device is gone.
\* One read may return several: the loop tests running_ only between reads,
\* so messages may still be handled after the destructor has cleared it.
Received(m) == /\ rx = "read" /\ linkUp /\ toHost # <<>> /\ m = Head(toHost)
               /\ toHost' = Tail(toHost)

RxMessage ==
  /\ \E m \in ClientMsg :
       /\ Received(m)
       /\ \/ /\ m.t = "ack" /\ lastAck' = [id |-> m.id, status |-> m.status]
             /\ UNCHANGED <<rx, handled>>
          \/ m.t = "ping" /\ rx' = "pong" /\ UNCHANGED <<lastAck, handled>>
          \/ m.t = "input" /\ handled' = handled + 1 /\ UNCHANGED <<lastAck, rx>>
          \/ m.t = "reply" /\ UNCHANGED <<lastAck, rx, handled>>
  /\ UNCHANGED <<uiVars, running, clientVars, bounds, writer, toClient, linkUp>>

RxLock == rx = "pong" /\ TakeWriteMutex("rx")
          /\ UNCHANGED <<uiVars, hostVars, clientVars, bounds, toClient, toHost, linkUp>>

\* The Pong is best effort: its status is discarded.
RxPong ==
  /\ rx = "pong"
  /\ Written("rx", [t |-> "pong"]) \/ NotWritten("rx")
  /\ rx' = "read"
  /\ UNCHANGED <<uiVars, lastAck, running, handled, clientVars, bounds, toHost, linkUp>>

\* running_ was cleared, or the transport's read failed.
RxExit ==
  /\ rx = "read" /\ (~running \/ ~linkUp)
  /\ rx' = "exited"
  /\ UNCHANGED <<uiVars, lastAck, running, handled, clientVars, bounds, writer,
                 toClient, toHost, linkUp>>

-----------------------------------------------------------------------------
(* The display client: its loop() reads, decodes and handles one message.  *)

\* Serial.write blocks while the host does not read.
Reply(m) == Len(toHost) < Cap /\ toHost' = Append(toHost, m)

ClientHello(m) ==
  /\ m.t = "hello"
  /\ \E g \in Replies : Reply([t |-> "reply", good |-> g])
  /\ UNCHANGED <<open, panel>>

ClientBegin(m) == m.t = "begin" /\ open' = m.id /\ UNCHANGED <<panel, toHost>>

\* A tile of the open frame is shown at once; one outside the panel drops the
\* frame with status 1; a tile of another frame is discarded.
ClientTile(m) ==
  /\ m.t = "tile"
  /\ IF open # m.id THEN UNCHANGED <<open, panel, toHost>>
     ELSE IF m.y + m.h > Rows
          THEN /\ Reply([t |-> "ack", id |-> m.id, status |-> 1])
               /\ open' = 0 /\ UNCHANGED panel
          ELSE /\ panel' = [r \in RowSet |->
                              IF r \in m.y .. m.y + m.h - 1 THEN m.px ELSE panel[r]]
               /\ UNCHANGED <<open, toHost>>

ClientEnd(m) ==
  /\ m.t = "end"
  /\ IF open = m.id
     THEN /\ Reply([t |-> "ack", id |-> m.id, status |-> 0])
          /\ open' = 0 /\ UNCHANGED panel
     ELSE UNCHANGED <<open, panel, toHost>>

ClientIgnores(m) ==
  /\ m.t \in {"pong", "bye", "backlight"}
  /\ UNCHANGED <<open, panel, toHost>>

ClientHandle ==
  /\ toClient # <<>> /\ synced
  /\ LET m == Head(toClient)
     IN ClientHello(m) \/ ClientBegin(m) \/ ClientTile(m) \/ ClientEnd(m) \/ ClientIgnores(m)
  /\ toClient' = Tail(toClient)
  /\ UNCHANGED <<uiVars, hostVars, bounds, writer, linkUp, synced>>

\* A torn message puts the decoder out of step; the message after it is lost,
\* and more may be until the decoder meets a true sync byte.
ClientLoses ==
  /\ toClient # <<>>
  /\ \/ synced /\ Head(toClient).t = "torn" /\ synced' = FALSE
     \/ ~synced /\ synced' \in BOOLEAN
  /\ toClient' = Tail(toClient)
  /\ UNCHANGED <<uiVars, hostVars, open, panel, bounds, writer, toHost, linkUp>>

\* The operator touches the panel (pumpTouch).
ClientTouch ==
  /\ touches < MaxInputs /\ Reply([t |-> "input"])
  /\ touches' = touches + 1
  /\ UNCHANGED <<uiVars, hostVars, clientVars, pings, session, writer, toClient, linkUp>>

\* A client that probes the link (presentation.md section 8).
ClientPing ==
  /\ pings < MaxPings /\ Reply([t |-> "ping"])
  /\ pings' = pings + 1
  /\ UNCHANGED <<uiVars, hostVars, clientVars, touches, session, writer, toClient, linkUp>>

-----------------------------------------------------------------------------
(* The environment                                                         *)

Unplug ==
  /\ linkUp /\ linkUp' = FALSE
  /\ UNCHANGED <<uiVars, hostVars, clientVars, bounds, writer, toClient, toHost>>

\* The host process dies anywhere and is started again, the device plugged in:
\* a fresh LinkedDisplay on the same stream.  A write under way is torn; bytes
\* an unplugged device never got are gone; what the old process had not read may
\* or may not still be delivered.
Restart ==
  /\ session < MaxSessions /\ session' = session + 1
  /\ ui' = "hello" /\ frame' = NoFrame /\ nextId' = 1 /\ result' = "none"
  /\ lastAck' = NoAck /\ running' = FALSE /\ rx' = "off"
  /\ writer' = "none" /\ linkUp' = TRUE
  /\ toHost' \in {toHost, <<>>}
  /\ \/ toClient' = toClient
     \/ writer # "none" /\ toClient' = Append(toClient, [t |-> "torn"])
     \/ ~linkUp /\ toClient' = <<>>
  /\ UNCHANGED <<stamp, lastOk, handled, clientVars, pings, touches>>

-----------------------------------------------------------------------------
UiStep == \/ UiLock \/ SendHello \/ PumpRead \/ ConnectFails
          \/ SendBegin \/ SendTile \/ SendEnd \/ AwaitAck \/ AckTimeout
          \/ SendBacklight \/ UiWriteFails \/ SendBye \/ Join
UiCall == Present \/ PresentRejected \/ SetBacklight \/ Destroy
RxStep == RxMessage \/ RxLock \/ RxPong \/ RxExit
Client == ClientHandle \/ ClientLoses \/ ClientTouch \/ ClientPing

Next == UiStep \/ UiCall \/ RxStep \/ Client \/ Unplug \/ Restart

Spec == Init /\ [][Next]_vars

\* The two host threads run; nothing is asked of the client, the cable or the
\* user of the display.
FairSpec == Spec /\ WF_vars(UiStep) /\ WF_vars(RxStep)

-----------------------------------------------------------------------------
(* Properties                                                              *)

FrameRows == frame.y .. frame.y + frame.h - 1

\* A present that returned success has put every row of its region on the
\* panel, and they stay there until the next present: FrameAck status 0 means
\* "displayed" (presentation.md section 5), IDisplay::present() promises it.
OkMeansShown ==
  ui \in {"idle", "backlight", "bye", "join", "closed"} /\ result = "ok"
    => \A r \in FrameRows : panel[r] = stamp

\* The host never sends a tile that leaves the panel: the client never answers
\* with status 1 (presentation.md section 5, rules).
NoProtocolError == \A i \in 1 .. Len(toHost) :
                     toHost[i].t = "ack" => toHost[i].status = 0

\* The link implements the display contract every caller of IDisplay relies on.
Sink == INSTANCE DisplaySink WITH
          rows  <- IF result = "pending" THEN FrameRows ELSE {},
          floor <- lastOk
SinkSpec == Sink!Spec

\* Once the destructor has returned no input handler runs: what the composition
\* root captured in them may be gone.
QuietAfterClose == [][ui = "closed" => handled' = handled]_vars

\* presentRegion() returns whatever the client does, reads, answers or not
\* (presentation.md section 8: drop the frame, stay responsive), although the
\* receive thread may be waiting for the write lock it holds.
PresentReturns == result = "pending" ~> result # "pending"

\* The destructor's join returns whatever the client does.
CloseReturns == ui = "bye" ~> ui \notin {"bye", "join"}

\* What presentation.md section 8 says of a dead link: the display reconnects in
\* the background.
Reconnects == rx = "exited" /\ running ~> rx = "read" \/ ~running
=============================================================================
