------------------------------ MODULE McuBridge ------------------------------
(***************************************************************************)
(* SerialMcuBridge: the threads that call it, its reader thread and the    *)
(* firmware at the other end of the device.                                *)
(*                                                                         *)
(*   platform/hardware/src/unoq/SerialMcuBridge.cpp                        *)
(*   firmware/mcu_bridge/mcu_bridge.ino                                    *)
(*                                                                         *)
(* A request is named by its number; its pin is not modelled, because      *)
(* nobody compares it: the reply carries the number it answers.  A frame   *)
(* goes to the device in one write() or in two, so that writeMutex_        *)
(* matters.  Frames whose checksum fails vanish at either end.             *)
(***************************************************************************)
EXTENDS Integers, Sequences

CONSTANTS
  Callers,      \* threads that use the bridge
  ReplyTopics,  \* request topics that have a reply topic
  Cap,          \* writes a direction of the device buffers
  MaxCalls,     \* bound on the calls of a behaviour
  MaxEvents,    \* bound on what the firmware publishes on its own
  MaxOpens      \* bound on open()

ASSUME BridgeAssumption ==
  /\ Cap \in Nat \ {0, 1}
  /\ MaxCalls \in Nat /\ MaxEvents \in Nat /\ MaxOpens \in Nat
  /\ "none" \notin Callers /\ {"post", "user"} \cap ReplyTopics = {}

VARIABLES
  pc, call,         \* where a caller is, and its call: number and topic
  sent,             \* sent[c]: the first part of c's frame is written
  writer,           \* who holds writeMutex_
  slot,             \* replies_, by topic
  subscribed,       \* topics with a handler in subscribers_
  life, running,    \* fd_ and running_: "open" is fd_ >= 0
  reader,           \* where the reader thread is
  toMcu, toHost,    \* what the device buffers
  linkUp,           \* the device behind fd_ is there
  calls, events, opens,
  got, handled      \* history: replies returned to callers, handlers run

callerVars == <<pc, call, sent, writer>>
hostVars   == <<slot, subscribed, life, running, reader>>
wireVars   == <<toMcu, toHost, linkUp>>
counters   == <<calls, events, opens>>
history    == <<got, handled>>
vars == <<callerVars, hostVars, wireVars, counters, history>>

NoReply == [to |-> 0, at |-> 0]
Topics  == ReplyTopics \cup {"user"}
Numbers == 0 .. MaxCalls
Part    == [n : Numbers, topic : ReplyTopics \cup {"post"}, part : {"all", "first", "rest"}]

TypeOK ==
  /\ pc \in [Callers -> {"idle", "send", "wait"}]
  /\ call \in [Callers -> [n : Numbers, topic : ReplyTopics \cup {"post"}]]
  /\ sent \in [Callers -> BOOLEAN] /\ writer \in Callers \cup {"none"}
  /\ slot \in [Topics -> [to : Numbers, at : Numbers]]
  /\ subscribed \subseteq Topics
  /\ life \in {"closed", "open", "closing"} /\ running \in BOOLEAN
  /\ reader \in {"off", "read", "handler", "exited"}
  /\ toMcu \in Seq(Part) /\ toHost \in Seq([topic : Topics, to : Numbers])
  /\ linkUp \in BOOLEAN
  /\ calls \in Numbers /\ events \in 0 .. MaxEvents /\ opens \in 0 .. MaxOpens
  /\ got \subseteq [own : Numbers, reply : Numbers, at : Numbers]
  /\ handled \in Nat
  /\ \A c \in Callers : pc[c] = "wait" => call[c].topic \in ReplyTopics

Init ==
  /\ pc = [c \in Callers |-> "idle"]
  /\ call = [c \in Callers |-> [n |-> 0, topic |-> "post"]]
  /\ sent = [c \in Callers |-> FALSE] /\ writer = "none"
  /\ slot = [t \in Topics |-> NoReply] /\ subscribed = {}
  /\ life = "closed" /\ running = FALSE /\ reader = "off"
  /\ toMcu = <<>> /\ toHost = <<>> /\ linkUp = TRUE
  /\ calls = 0 /\ events = 0 /\ opens = 0 /\ got = {} /\ handled = 0

-----------------------------------------------------------------------------
(* open() and close()                                                      *)

\* A device that comes back may have kept what it had buffered.
Open ==
  /\ life = "closed" /\ opens < MaxOpens
  /\ opens' = opens + 1
  /\ life' = "open" /\ running' = TRUE /\ reader' = "read" /\ linkUp' = TRUE
  /\ toHost' \in {toHost, <<>>}
  /\ UNCHANGED <<callerVars, slot, subscribed, toMcu, calls, events, history>>

\* running_ = false, ::close(fd_), fd_ = -1; other threads may be in any call.
Close ==
  /\ life = "open" /\ life' = "closing" /\ running' = FALSE
  /\ UNCHANGED <<callerVars, slot, subscribed, reader, wireVars, counters, history>>

\* (Detached: the thread is not joined.)
Detached == TRUE
Joinable == reader = "exited"

Join ==
  /\ life = "closing" /\ Joinable /\ life' = "closed"
  /\ UNCHANGED <<callerVars, slot, subscribed, running, reader, wireVars, counters, history>>

-----------------------------------------------------------------------------
(* The calls.  request() erases the reply topic's slot before it sends;    *)
(* pinMode, digitalWrite, pwmWrite and publish only send.                  *)

\* (Unerased: a reply left by an earlier request stays in the slot.)
Unerased(t) == slot
Erased(t)   == [slot EXCEPT ![t] = NoReply]

Starts(c, t) ==
  /\ pc[c] = "idle" /\ calls < MaxCalls
  /\ calls' = calls + 1
  /\ call' = [call EXCEPT ![c] = [n |-> calls + 1, topic |-> t]]
  /\ pc' = [pc EXCEPT ![c] = "send"]
  /\ UNCHANGED <<sent, writer, subscribed, life, running, reader, wireVars,
                 events, opens, history>>

Request(c) == \E t \in ReplyTopics : Starts(c, t) /\ slot' = Erased(t)
Post(c)    == Starts(c, "post") /\ UNCHANGED slot

Returns(c) == /\ pc' = [pc EXCEPT ![c] = "idle"]
              /\ UNCHANGED <<call, subscribed, life, running, reader, wireVars, counters>>

\* fd_ < 0: NotInitialized.
SendRefused(c) ==
  /\ pc[c] = "send" /\ writer # c /\ life # "open"
  /\ Returns(c) /\ UNCHANGED <<sent, writer, slot, history>>

TakeWriteMutex(c) ==
  /\ pc[c] = "send" /\ life = "open" /\ writer = "none" /\ writer' = c
  /\ UNCHANGED <<pc, call, sent, hostVars, wireVars, counters, history>>

\* (Unlocked: the frame is written without writeMutex_.)
Unlocked(c) == TRUE
Holds(c)    == writer = c

\* (AlwaysWaits: a call without a reply waits for one too.)
AlwaysWaits(c) == "wait"
AfterSend(c)   == IF call[c].topic = "post" THEN "idle" ELSE "wait"

\* One write(): the whole frame, a part of it, or the rest.
Write(c) ==
  /\ pc[c] = "send" /\ Holds(c) /\ life = "open" /\ linkUp /\ Len(toMcu) < Cap
  /\ \E p \in IF sent[c] THEN {"rest"} ELSE {"all", "first"} :
       /\ toMcu' = Append(toMcu, [n |-> call[c].n, topic |-> call[c].topic, part |-> p])
       /\ sent' = [sent EXCEPT ![c] = p = "first"]
       /\ IF p = "first" THEN UNCHANGED <<pc, writer>>
          ELSE pc' = [pc EXCEPT ![c] = AfterSend(c)] /\ writer' = "none"
  /\ UNCHANGED <<call, hostVars, toHost, linkUp, counters, history>>

\* The device is gone or the descriptor closed: IoFailure, also half way.
WriteFails(c) ==
  /\ pc[c] = "send" /\ Holds(c) /\ (life # "open" \/ ~linkUp)
  /\ Returns(c)
  /\ sent' = [sent EXCEPT ![c] = FALSE] /\ writer' = "none"
  /\ UNCHANGED <<slot, history>>

\* (Untaken: the reply is copied and stays in the slot.)
Untaken(t) == slot
Taken(t)   == [slot EXCEPT ![t] = NoReply]

TakeReply(c) ==
  LET t == call[c].topic IN
  /\ pc[c] = "wait" /\ slot[t] # NoReply
  /\ got' = got \cup {[own |-> call[c].n, reply |-> slot[t].to, at |-> slot[t].at]}
  /\ slot' = Taken(t)
  /\ Returns(c) /\ UNCHANGED <<sent, writer, handled>>

\* wait_for() gave up.  (Patient: it waits without a limit.)
Patient(c) == FALSE
Expired(c) == slot[call[c].topic] = NoReply

TimesOut(c) ==
  /\ pc[c] = "wait" /\ Expired(c)
  /\ Returns(c) /\ UNCHANGED <<sent, writer, slot, history>>

Subscribe ==
  /\ \E t \in Topics \ subscribed : subscribed' = subscribed \cup {t}
  /\ UNCHANGED <<callerVars, slot, life, running, reader, wireVars, counters, history>>

-----------------------------------------------------------------------------
(* The reader thread: every message is stored, then given to its handler.  *)
(* running_ is read between two read()s only: a read() may return several  *)
(* messages, and close() need not wake it.                                 *)

ReadMessage ==
  /\ reader = "read" /\ linkUp /\ toHost # <<>>
  /\ LET m == Head(toHost) IN
       /\ slot' = [slot EXCEPT ![m.topic] = [to |-> m.to, at |-> calls]]
       /\ reader' = IF m.topic \in subscribed THEN "handler" ELSE "read"
  /\ toHost' = Tail(toHost)
  /\ UNCHANGED <<callerVars, subscribed, life, running, toMcu, linkUp, counters, history>>

RunHandler ==
  /\ reader = "handler" /\ reader' = "read" /\ handled' = handled + 1
  /\ UNCHANGED <<callerVars, slot, subscribed, life, running, wireVars, counters, got>>

ReaderExits ==
  /\ reader = "read" /\ (~running \/ ~linkUp)
  /\ reader' = "exited"
  /\ UNCHANGED <<callerVars, slot, subscribed, life, running, wireVars, counters, history>>

-----------------------------------------------------------------------------
(* The firmware: its loop() decodes a frame and handles it.                *)

SecondHalf(q) == q[2].part = "rest" /\ q[2].n = q[1].n

\* What the decoder takes from the buffer when the next frame is complete: it
\* swallows what follows a first part whose rest never came.
Decodes(q, k) == \/ q # <<>> /\ q[1].part # "first" /\ k = 1
                 \/ Len(q) >= 2 /\ q[1].part = "first" /\ k = 2
Sound(q, k)   == \/ k = 1 /\ q[1].part = "all"
                 \/ k = 2 /\ SecondHalf(q)

McuLoop ==
  /\ \E k \in {1, 2} :
       /\ Decodes(toMcu, k)
       /\ toMcu' = SubSeq(toMcu, k + 1, Len(toMcu))
       /\ \/ /\ Sound(toMcu, k) /\ toMcu[1].topic \in ReplyTopics /\ Len(toHost) < Cap
             /\ toHost' = Append(toHost, [topic |-> toMcu[1].topic, to |-> toMcu[1].n])
          \/ /\ Sound(toMcu, k) => toMcu[1].topic = "post"
             /\ UNCHANGED toHost
  /\ UNCHANGED <<callerVars, hostVars, linkUp, counters, history>>

\* A frame fails its checksum at either end.
Noise ==
  /\ \/ \E k \in {1, 2} : /\ Decodes(toMcu, k)
                          /\ toMcu' = SubSeq(toMcu, k + 1, Len(toMcu))
                          /\ UNCHANGED toHost
     \/ toHost # <<>> /\ toHost' = Tail(toHost) /\ UNCHANGED toMcu
  /\ UNCHANGED <<callerVars, hostVars, linkUp, counters, history>>

\* A module of the firmware publishes on a user topic.
McuPublishes ==
  /\ events < MaxEvents /\ Len(toHost) < Cap
  /\ events' = events + 1
  /\ toHost' = Append(toHost, [topic |-> "user", to |-> 0])
  /\ UNCHANGED <<callerVars, hostVars, toMcu, linkUp, calls, opens, history>>

DeviceGone ==
  /\ life = "open" /\ linkUp /\ linkUp' = FALSE
  /\ UNCHANGED <<callerVars, hostVars, toMcu, toHost, counters, history>>

-----------------------------------------------------------------------------
CallStep(c) == \/ SendRefused(c) \/ TakeWriteMutex(c) \/ Write(c) \/ WriteFails(c)
               \/ TakeReply(c) \/ TimesOut(c)
ReaderStep  == ReadMessage \/ RunHandler \/ ReaderExits

Next == \/ Open \/ Close \/ Join \/ Subscribe
        \/ \E c \in Callers : Request(c) \/ Post(c) \/ CallStep(c)
        \/ ReaderStep \/ McuLoop \/ Noise \/ McuPublishes \/ DeviceGone

Spec == Init /\ [][Next]_vars

\* The threads run and the firmware's loop() keeps reading: a frame it takes
\* from its buffer is handled or dropped.
FairSpec == /\ Spec
            /\ \A c \in Callers : WF_vars(CallStep(c))
            /\ WF_vars(ReaderStep) /\ WF_vars(McuLoop)

-----------------------------------------------------------------------------
(* Properties                                                              *)

\* A request never returns a message the reader stored before the request
\* began: request() clears the slot of its topic first.
Fresh == \A g \in got : g.at >= g.own

\* A reply answers one request only, whoever waits on its topic.
ReplyOnce == \A g, h \in got : g.reply = h.reply => g = h

\* Frames of different callers are never mixed on the wire: what follows the
\* first part of a frame is its own rest, if that part was ever written.  (The
\* firmware may have swallowed the first part behind a torn frame.)
FramesWhole == \A i \in 1 .. Len(toMcu) :
                 i > 1 /\ toMcu[i].part = "rest" =>
                   toMcu[i - 1].part = "first" /\ toMcu[i - 1].n = toMcu[i].n

\* After close() has returned no subscriber's handler runs.
QuietAfterClose == [][life = "closed" => handled' = handled]_vars

\* Every call returns, although replies may be lost or taken by another caller
\* and the firmware may be blocked on a full buffer of its own.
CallsReturn == \A c \in Callers : pc[c] # "idle" ~> pc[c] = "idle"

\* digitalRead(pin) and analogRead(pin) return the reply to their own request.
Paired == \A g \in got : g.reply = g.own
=============================================================================
