--------------------------- MODULE McuBridge_proofs ---------------------------
(***************************************************************************)
(* Proofs about McuBridge, for any set of callers and reply topics, any    *)
(* buffering and any number of calls, events and openings.                 *)
(***************************************************************************)
EXTENDS McuBridge, SequenceTheorems, TLAPS

-----------------------------------------------------------------------------
(* Queues                                                                  *)

\* What is left of a queue when its first k elements are taken.
LEMMA Rest ==
  ASSUME NEW S, NEW q \in Seq(S), NEW k \in Nat, k <= Len(q)
  PROVE  LET r == SubSeq(q, k + 1, Len(q)) IN
           /\ r \in Seq(S) /\ Len(r) = Len(q) - k
           /\ \A i \in 1 .. Len(r) : i + k \in 1 .. Len(q) /\ r[i] = q[i + k]
<1>1. Len(q) \in Nat /\ k + 1 \in 1 .. Len(q) + 1 /\ Len(q) \in (k + 1) - 1 .. Len(q)
  BY LenProperties
<1> QED
  BY <1>1, SubSeqProperties

\* What a queue holds after an element was appended.
LEMMA Added ==
  ASSUME NEW S, NEW q \in Seq(S), NEW e \in S
  PROVE  LET r == Append(q, e) IN
           /\ r \in Seq(S) /\ Len(r) = Len(q) + 1 /\ r[Len(r)] = e
           /\ \A i \in 1 .. Len(r) : i <= Len(q) => i \in 1 .. Len(q) /\ r[i] = q[i]
           /\ \A i \in 1 .. Len(r) : i > Len(q) => i = Len(r)
BY AppendProperties, LenProperties

\* What a queue holds after its first element was taken.
LEMMA Taken1 ==
  ASSUME NEW S, NEW q \in Seq(S), q # <<>>
  PROVE  LET r == Tail(q) IN
           /\ Head(q) \in S /\ Head(q) = q[1] /\ 1 \in 1 .. Len(q)
           /\ r \in Seq(S) /\ Len(r) = Len(q) - 1
           /\ \A i \in 1 .. Len(r) : i + 1 \in 1 .. Len(q) /\ r[i] = q[i + 1]
BY HeadTailProperties, LenProperties
-----------------------------------------------------------------------------
(* Types                                                                   *)

HostMsg == [topic : Topics, to : Numbers]

\* What the type invariant says, with the sets the leaves below need by name.
LEMMA Types ==
  ASSUME TypeOK
  PROVE  /\ toMcu \in Seq(Part) /\ toHost \in Seq(HostMsg)
         /\ Len(toMcu) \in Nat /\ Len(toHost) \in Nat
         /\ calls \in Nat /\ calls <= MaxCalls /\ MaxCalls \in Nat
         /\ \A n \in Numbers : n \in Nat /\ n <= MaxCalls
         /\ \A c \in Callers : /\ call[c].n \in Numbers
                               /\ call[c].topic \in ReplyTopics \cup {"post"}
BY BridgeAssumption, LenProperties DEF TypeOK, Numbers, HostMsg

\* What the buffers hold: every message has a topic and a number of their types.
LEMMA Messages ==
  /\ \A m \in HostMsg : m.topic \in Topics /\ m.to \in Numbers
  /\ \A x \in Part : /\ x.n \in Numbers /\ x.topic \in ReplyTopics \cup {"post"}
                     /\ x.part \in {"all", "first", "rest"}
  /\ \A n \in Numbers, t \in Topics : [topic |-> t, to |-> n] \in HostMsg
  /\ \A n \in Numbers, t \in ReplyTopics \cup {"post"}, k \in {"all", "first", "rest"} :
       [n |-> n, topic |-> t, part |-> k] \in Part
  /\ 0 \in Numbers /\ ReplyTopics \subseteq Topics /\ "user" \in Topics
BY BridgeAssumption DEF HostMsg, Part, Topics, Numbers

\* What a step of the firmware, or noise, takes from the front of toMcu.
McuTakes(k) == /\ k \in {1, 2} /\ k <= Len(toMcu)
               /\ toMcu' = SubSeq(toMcu, k + 1, Len(toMcu))

\* The firmware's decoder takes one or two parts that are there.
LEMMA McuTakesSome ==
  ASSUME TypeOK, NEW k \in {1, 2}, Decodes(toMcu, k),
         toMcu' = SubSeq(toMcu, k + 1, Len(toMcu))
  PROVE  McuTakes(k)
<1>1. toMcu # <<>> => Len(toMcu) >= 1
  BY Types, EmptySeq, LenProperties
<1> QED
  BY <1>1, Types DEF Decodes, McuTakes

\* The rest of toMcu, after k elements were taken.
LEMMA McuRest ==
  ASSUME TypeOK, NEW k, McuTakes(k)
  PROVE  /\ toMcu' \in Seq(Part) /\ Len(toMcu') = Len(toMcu) - k /\ k \in Nat
         /\ \A i \in 1 .. Len(toMcu') : i + k \in 1 .. Len(toMcu) /\ toMcu'[i] = toMcu[i + k]
BY Types, Rest DEF McuTakes

\* Every step keeps the types.
LEMMA TypeStep == TypeOK /\ [Next]_vars => TypeOK'
<1> SUFFICES ASSUME TypeOK, [Next]_vars PROVE TypeOK'
  OBVIOUS
<1> USE DEF TypeOK
<1>1. CASE UNCHANGED vars
  BY <1>1 DEF vars, callerVars, hostVars, wireVars, counters, history
<1>2. CASE Open
  <2>1. opens' \in 0 .. MaxOpens
    BY <1>2, BridgeAssumption DEF Open
  <2>2. toHost' \in Seq([topic : Topics, to : Numbers])
    BY <1>2, EmptySeq DEF Open
  <2> QED
    BY <1>2, <2>1, <2>2 DEF Open, callerVars, history
<1>3. CASE Close
  BY <1>3 DEF Close, callerVars, wireVars, counters, history
<1>4. CASE Join
  BY <1>4 DEF Join, callerVars, wireVars, counters, history
<1>5. CASE Subscribe
  BY <1>5 DEF Subscribe, callerVars, wireVars, counters, history
<1>6. ASSUME NEW c \in Callers, Request(c) \/ Post(c) PROVE TypeOK'
  <2>1. PICK t \in ReplyTopics \cup {"post"} : Starts(c, t)
    BY <1>6 DEF Request, Post
  <2>2. /\ calls' \in Numbers /\ calls + 1 \in Numbers
        /\ call' = [call EXCEPT ![c] = [n |-> calls + 1, topic |-> t]]
        /\ pc' = [pc EXCEPT ![c] = "send"]
    BY <2>1, Types DEF Starts, Numbers
  <2>3. /\ call' \in [Callers -> [n : Numbers, topic : ReplyTopics \cup {"post"}]]
        /\ pc' \in [Callers -> {"idle", "send", "wait"}]
        /\ \A d \in Callers : pc'[d] = "wait" => call'[d].topic \in ReplyTopics
    BY <2>2
  <2>4. slot' \in [Topics -> [to : Numbers, at : Numbers]]
    <3>1. NoReply \in [to : Numbers, at : Numbers]
      BY Messages DEF NoReply
    <3> QED
      BY <1>6, <3>1 DEF Request, Post, Erased
  <2> QED
    BY <2>1, <2>2, <2>3, <2>4 DEF Starts, wireVars, history
<1>7. ASSUME NEW c \in Callers, SendRefused(c) \/ TakeWriteMutex(c) PROVE TypeOK'
  BY <1>7 DEF SendRefused, TakeWriteMutex, Returns, callerVars, hostVars, wireVars, counters, history
<1>8. ASSUME NEW c \in Callers, Write(c) PROVE TypeOK'
  <2>1. PICK p \in {"all", "first", "rest"} :
          /\ toMcu' = Append(toMcu, [n |-> call[c].n, topic |-> call[c].topic, part |-> p])
          /\ sent' = [sent EXCEPT ![c] = (p = "first")]
          /\ IF p = "first" THEN UNCHANGED <<pc, writer>>
             ELSE pc' = [pc EXCEPT ![c] = AfterSend(c)] /\ writer' = "none"
    BY <1>8 DEF Write
  <2>2. toMcu' \in Seq(Part)
    BY <2>1, Types, Messages, Added
  <2>3. /\ sent' \in [Callers -> BOOLEAN] /\ writer' \in Callers \cup {"none"}
        /\ pc' \in [Callers -> {"idle", "send", "wait"}]
        /\ \A d \in Callers : pc'[d] = "wait" => call[d].topic \in ReplyTopics
    BY <2>1, Types DEF AfterSend
  <2> QED
    BY <1>8, <2>2, <2>3 DEF Write, hostVars, counters, history
<1>9. ASSUME NEW c \in Callers, WriteFails(c) PROVE TypeOK'
  BY <1>9 DEF WriteFails, Returns, wireVars, counters, history
<1>10. ASSUME NEW c \in Callers, TakeReply(c) PROVE TypeOK'
  <2>1. call[c].topic \in ReplyTopics /\ call[c].topic \in Topics
    BY <1>10, Messages DEF TakeReply
  <2>2. slot' \in [Topics -> [to : Numbers, at : Numbers]]
    BY <1>10, <2>1, Messages DEF TakeReply, Taken, NoReply
  <2>3. got' \subseteq [own : Numbers, reply : Numbers, at : Numbers]
    BY <1>10, <2>1 DEF TakeReply
  <2> QED
    BY <1>10, <2>2, <2>3 DEF TakeReply, Returns, wireVars, counters
<1>11. ASSUME NEW c \in Callers, TimesOut(c) PROVE TypeOK'
  BY <1>11 DEF TimesOut, Returns, wireVars, counters, history
<1>12. CASE ReadMessage
  <2>1. /\ Head(toHost) \in HostMsg /\ toHost' \in Seq([topic : Topics, to : Numbers])
    BY <1>12, Types, Taken1 DEF ReadMessage, HostMsg
  <2>2. slot' \in [Topics -> [to : Numbers, at : Numbers]]
    BY <1>12, <2>1, Messages DEF ReadMessage
  <2> QED
    BY <1>12, <2>1, <2>2 DEF ReadMessage, callerVars, counters, history
<1>13. CASE RunHandler \/ ReaderExits
  BY <1>13 DEF RunHandler, ReaderExits, callerVars, wireVars, counters, history
<1>14. CASE McuLoop
  <2>1. PICK k \in {1, 2} :
          /\ Decodes(toMcu, k) /\ toMcu' = SubSeq(toMcu, k + 1, Len(toMcu))
          /\ \/ /\ toMcu[1].topic \in ReplyTopics
                /\ toHost' = Append(toHost, [topic |-> toMcu[1].topic, to |-> toMcu[1].n])
             \/ UNCHANGED toHost
    BY <1>14 DEF McuLoop
  <2>2. McuTakes(k) /\ toMcu' \in Seq(Part)
    BY <2>1, McuTakesSome, McuRest
  <2>3. toMcu[1] \in Part
    BY <2>2, Types, ElementOfSeq DEF McuTakes
  <2>4. toHost' \in Seq(HostMsg)
    <3>1. CASE UNCHANGED toHost
      BY <3>1, Types
    <3>2. CASE /\ toMcu[1].topic \in ReplyTopics
               /\ toHost' = Append(toHost, [topic |-> toMcu[1].topic, to |-> toMcu[1].n])
      <4>1. [topic |-> toMcu[1].topic, to |-> toMcu[1].n] \in HostMsg
        BY <2>3, <3>2, Messages
      <4> QED
        BY <3>2, <4>1, Types, Added
    <3> QED
      BY <2>1, <3>1, <3>2
  <2> QED
    BY <1>14, <2>2, <2>4 DEF McuLoop, callerVars, hostVars, counters, history, HostMsg
<1>15. CASE Noise
  <2>1. toMcu' \in Seq(Part)
    BY <1>15, McuTakesSome, McuRest DEF Noise
  <2>2. toHost' \in Seq(HostMsg)
    <3>1. CASE UNCHANGED toHost
      BY <3>1, Types
    <3>2. CASE toHost # <<>> /\ toHost' = Tail(toHost)
      BY <3>2, Types, Taken1
    <3> QED
      BY <1>15, <3>1, <3>2 DEF Noise
  <2> QED
    BY <1>15, <2>1, <2>2 DEF Noise, callerVars, hostVars, counters, history, HostMsg
<1>16. CASE McuPublishes
  <2>1. toHost' \in Seq(HostMsg)
    BY <1>16, Types, Messages, Added DEF McuPublishes
  <2>2. events' \in 0 .. MaxEvents
    BY <1>16, BridgeAssumption DEF McuPublishes
  <2> QED
    BY <1>16, <2>1, <2>2 DEF McuPublishes, callerVars, hostVars, history, HostMsg
<1>17. CASE DeviceGone
  BY <1>17 DEF DeviceGone, callerVars, hostVars, counters, history
<1> QED
  BY <1>1, <1>2, <1>3, <1>4, <1>5, <1>6, <1>7, <1>8, <1>9, <1>10, <1>11, <1>12, <1>13, <1>14,
     <1>15, <1>16, <1>17 DEF Next, CallStep, ReaderStep
-----------------------------------------------------------------------------
(* A closed bridge has no reader                                           *)

NoReader == life = "closed" => reader \in {"off", "exited"}

\* close() returns after the join: a closed bridge never has a reader at work.
LEMMA NoReaderStep == NoReader /\ [Next]_vars => NoReader'
<1> SUFFICES ASSUME NoReader, [Next]_vars PROVE NoReader'
  OBVIOUS
<1> USE DEF NoReader
<1>1. CASE UNCHANGED <<life, reader>>
  BY <1>1
<1>2. CASE Open \/ Close \/ Join
  BY <1>2 DEF Open, Close, Join, Joinable
<1>3. CASE ReaderStep
  BY <1>3 DEF ReaderStep, ReadMessage, RunHandler, ReaderExits
<1>4. ASSUME NEW c \in Callers, Request(c) \/ Post(c) \/ CallStep(c)
      PROVE  UNCHANGED <<life, reader>>
  BY <1>4 DEF Request, Post, CallStep, Starts, SendRefused, TakeWriteMutex, Write, WriteFails,
              TakeReply, TimesOut, Returns, hostVars
<1>5. CASE Subscribe \/ McuLoop \/ Noise \/ McuPublishes \/ DeviceGone
  BY <1>1, <1>5 DEF Subscribe, McuLoop, Noise, McuPublishes, DeviceGone, hostVars
<1>6. CASE UNCHANGED vars
  BY <1>1, <1>6 DEF vars, hostVars
<1> QED
  BY <1>1, <1>2, <1>3, <1>4, <1>5, <1>6 DEF Next

-----------------------------------------------------------------------------
(* Replies are not older than their requests                               *)

\* What the slot of a request under way holds came after the request began.
FreshSlots ==
  /\ \A c \in Callers : call[c].n <= calls
  /\ \A c \in Callers : pc[c] # "idle" /\ call[c].topic \in ReplyTopics =>
       \/ slot[call[c].topic] = NoReply
       \/ slot[call[c].topic].at >= call[c].n

\* A slot of a topic whose request is under way is empty or was filled after the
\* request began, so what the request returns is fresh.
LEMMA FreshStep == TypeOK /\ FreshSlots /\ Fresh /\ [Next]_vars => FreshSlots' /\ Fresh'
<1> SUFFICES ASSUME TypeOK, FreshSlots, Fresh, [Next]_vars PROVE FreshSlots' /\ Fresh'
  OBVIOUS
<1> DEFINE Kept == /\ UNCHANGED <<call, slot, calls, got>>
                   /\ \A c \in Callers : pc'[c] # "idle" => pc[c] # "idle"
<1>0. /\ \A c \in Callers : call[c].n \in Nat /\ call[c].topic \in ReplyTopics \cup {"post"}
      /\ calls \in Nat /\ call \in [Callers -> [n : Numbers, topic : ReplyTopics \cup {"post"}]]
      /\ pc \in [Callers -> {"idle", "send", "wait"}]
      /\ slot \in [Topics -> [to : Numbers, at : Numbers]]
      /\ ReplyTopics \subseteq Topics /\ "post" \notin ReplyTopics
  BY Types, Messages, BridgeAssumption DEF TypeOK
<1>1. CASE Kept
  BY <1>1 DEF FreshSlots, Fresh
<1>2. ASSUME NEW c \in Callers, NEW t \in ReplyTopics \cup {"post"}, Starts(c, t),
             (t = "post" /\ UNCHANGED slot) \/ (t # "post" /\ slot' = Erased(t))
      PROVE  FreshSlots' /\ Fresh'
  <2>1. /\ calls' = calls + 1 /\ got' = got /\ pc' = [pc EXCEPT ![c] = "send"]
        /\ call' = [call EXCEPT ![c] = [n |-> calls + 1, topic |-> t]]
    BY <1>2 DEF Starts, history
  <2>2. \A u \in Topics : slot'[u] = slot[u] \/ slot'[u] = NoReply
    BY <1>0, <1>2 DEF Erased
  <2>3. t \in ReplyTopics => slot'[t] = NoReply
    BY <1>0, <1>2 DEF Erased
  <2>4. \A d \in Callers : d # c => call'[d] = call[d] /\ pc'[d] = pc[d]
    BY <1>0, <2>1
  <2>5. call'[c].n = calls' /\ call'[c].topic = t
    BY <1>0, <2>1
  <2>6. FreshSlots'
    BY <1>0, <2>1, <2>2, <2>3, <2>4, <2>5 DEF FreshSlots
  <2> QED
    BY <2>1, <2>6 DEF Fresh
<1>3. ASSUME NEW c \in Callers, TakeReply(c) PROVE FreshSlots' /\ Fresh'
  <2> DEFINE t == call[c].topic
             g == [own |-> call[c].n, reply |-> slot[t].to, at |-> slot[t].at]
  <2>1. /\ slot[t] # NoReply /\ pc[c] = "wait" /\ got' = got \cup {g}
        /\ slot' = [slot EXCEPT ![t] = NoReply] /\ pc' = [pc EXCEPT ![c] = "idle"]
        /\ UNCHANGED <<call, calls>> /\ t \in ReplyTopics
    BY <1>3 DEF TakeReply, Taken, Returns, counters, TypeOK
  <2>2. g.at >= g.own
    BY <2>1 DEF FreshSlots
  <2>3. Fresh'
    BY <2>1, <2>2 DEF Fresh
  <2>4. FreshSlots'
    BY <1>0, <2>1 DEF FreshSlots
  <2> QED
    BY <2>3, <2>4
<1>4. CASE ReadMessage
  <2>1. /\ \A t \in Topics : slot'[t] = slot[t] \/ slot'[t].at = calls
        /\ UNCHANGED <<pc, call, calls, got>>
    BY <1>0, <1>4 DEF ReadMessage, callerVars, counters, history
  <2> QED
    BY <1>0, <2>1 DEF FreshSlots, Fresh
<1>5. ASSUME NEW c \in Callers, SendRefused(c) \/ TakeWriteMutex(c) \/ WriteFails(c) \/ TimesOut(c)
      PROVE  Kept
  BY <1>0, <1>5 DEF SendRefused, TakeWriteMutex, WriteFails, TimesOut, Returns, hostVars, counters,
                    history
<1>6. ASSUME NEW c \in Callers, Write(c) PROVE Kept
  <2>1. pc[c] = "send" /\ (pc' = pc \/ pc' = [pc EXCEPT ![c] = AfterSend(c)])
    BY <1>6 DEF Write
  <2> QED
    BY <1>0, <1>6, <2>1 DEF Write, hostVars, counters, history
<1>7. CASE Open \/ Close \/ Join \/ Subscribe
  BY <1>1, <1>7 DEF Open, Close, Join, Subscribe, callerVars, counters, history
<1>8. CASE RunHandler \/ ReaderExits
  BY <1>1, <1>8 DEF RunHandler, ReaderExits, callerVars, counters, history
<1>9. CASE McuLoop \/ Noise \/ McuPublishes \/ DeviceGone
  BY <1>1, <1>9 DEF McuLoop, Noise, McuPublishes, DeviceGone, callerVars, hostVars, counters, history
<1>10. CASE UNCHANGED vars
  BY <1>1, <1>10 DEF vars, callerVars, hostVars, counters, history
<1>11. ASSUME NEW c \in Callers, Request(c) \/ Post(c) PROVE FreshSlots' /\ Fresh'
  BY <1>0, <1>2, <1>11 DEF Request, Post
<1> QED
  BY <1>1, <1>3, <1>4, <1>5, <1>6, <1>7, <1>8, <1>9, <1>10, <1>11
     DEF Next, CallStep, ReaderStep
-----------------------------------------------------------------------------
(* Frames stay whole                                                       *)

\* Who has written the first part of a frame holds writeMutex_, and what he
\* wrote is still the last thing in the buffer, unless the firmware took it.
OwnRest ==
  \A c \in Callers :
    /\ writer = c => pc[c] = "send"
    /\ sent[c] => /\ writer = c
                  /\ \/ toMcu = <<>>
                     \/ /\ toMcu[Len(toMcu)].part = "first"
                        /\ toMcu[Len(toMcu)].n = call[c].n

\* Taking from the front of the buffer leaves whole frames whole.
LEMMA FramesTaken ==
  ASSUME TypeOK, OwnRest, FramesWhole, NEW k, McuTakes(k), UNCHANGED callerVars
  PROVE  OwnRest' /\ FramesWhole'
<1>1. /\ toMcu' \in Seq(Part) /\ Len(toMcu') = Len(toMcu) - k /\ k \in Nat /\ Len(toMcu') \in Nat
      /\ \A i \in 1 .. Len(toMcu') : i + k \in 1 .. Len(toMcu) /\ toMcu'[i] = toMcu[i + k]
      /\ Len(toMcu) \in Nat
  BY McuRest, Types, LenProperties
<1>2. FramesWhole'
  <2> SUFFICES ASSUME NEW i \in 1 .. Len(toMcu'), i > 1, toMcu'[i].part = "rest"
               PROVE  toMcu'[i - 1].part = "first" /\ toMcu'[i - 1].n = toMcu'[i].n
    BY DEF FramesWhole
  <2>1. /\ i - 1 \in 1 .. Len(toMcu') /\ i + k \in 1 .. Len(toMcu) /\ i + k > 1
        /\ (i - 1) + k = (i + k) - 1
    BY <1>1
  <2>2. toMcu'[i] = toMcu[i + k] /\ toMcu'[i - 1] = toMcu[(i + k) - 1]
    BY <1>1, <2>1
  <2> QED
    BY <2>1, <2>2 DEF FramesWhole
<1>3. toMcu' # <<>> => toMcu # <<>> /\ toMcu'[Len(toMcu')] = toMcu[Len(toMcu)]
  <2> SUFFICES ASSUME toMcu' # <<>>
               PROVE  toMcu # <<>> /\ toMcu'[Len(toMcu')] = toMcu[Len(toMcu)]
    OBVIOUS
  <2>1. Len(toMcu') # 0
    BY <1>1, EmptySeq
  <2>2. Len(toMcu') \in 1 .. Len(toMcu') /\ Len(toMcu') + k = Len(toMcu) /\ Len(toMcu) # 0
    BY <1>1, <2>1
  <2> QED
    BY <1>1, <2>2, EmptySeq
<1>4. OwnRest'
  BY <1>3 DEF OwnRest, callerVars
<1> QED
  BY <1>2, <1>4

\* The mutex keeps a frame whose first part is written the last in the buffer
\* until its rest follows.
LEMMA FramesStep == TypeOK /\ OwnRest /\ FramesWhole /\ [Next]_vars => OwnRest' /\ FramesWhole'
<1> SUFFICES ASSUME TypeOK, OwnRest, FramesWhole, [Next]_vars PROVE OwnRest' /\ FramesWhole'
  OBVIOUS
<1>0. /\ pc \in [Callers -> {"idle", "send", "wait"}] /\ sent \in [Callers -> BOOLEAN]
      /\ call \in [Callers -> [n : Numbers, topic : ReplyTopics \cup {"post"}]]
      /\ writer \in Callers \cup {"none"} /\ "none" \notin Callers
  BY BridgeAssumption DEF TypeOK
<1>1. CASE UNCHANGED <<callerVars, toMcu>>
  BY <1>1 DEF OwnRest, FramesWhole, callerVars
<1>2. ASSUME NEW c \in Callers, Request(c) \/ Post(c) PROVE OwnRest' /\ FramesWhole'
  <2>1. PICK t \in ReplyTopics \cup {"post"} : Starts(c, t)
    BY <1>2 DEF Request, Post
  <2>2. /\ pc[c] = "idle" /\ UNCHANGED <<sent, writer, toMcu>>
        /\ pc' = [pc EXCEPT ![c] = "send"]
        /\ \A d \in Callers : d # c => call'[d] = call[d]
    BY <1>0, <2>1 DEF Starts, wireVars
  <2>3. writer # c /\ ~sent[c]
    BY <2>2 DEF OwnRest
  <2> QED
    BY <1>0, <2>2, <2>3 DEF OwnRest, FramesWhole
<1>3. ASSUME NEW c \in Callers, SendRefused(c) \/ TakeWriteMutex(c)
      PROVE  OwnRest' /\ FramesWhole'
  <2>1. UNCHANGED <<toMcu, call, sent>>
    BY <1>3 DEF SendRefused, TakeWriteMutex, Returns, wireVars
  <2>2. CASE SendRefused(c)
    BY <1>0, <2>1, <2>2 DEF SendRefused, Returns, OwnRest, FramesWhole
  <2>3. CASE TakeWriteMutex(c)
    BY <1>0, <2>1, <2>3 DEF TakeWriteMutex, OwnRest, FramesWhole
  <2> QED
    BY <1>3, <2>2, <2>3
<1>4. ASSUME NEW c \in Callers, Write(c) PROVE OwnRest' /\ FramesWhole'
  <2>1. PICK p \in IF sent[c] THEN {"rest"} ELSE {"all", "first"} :
          /\ toMcu' = Append(toMcu, [n |-> call[c].n, topic |-> call[c].topic, part |-> p])
          /\ sent' = [sent EXCEPT ![c] = (p = "first")]
          /\ IF p = "first" THEN UNCHANGED <<pc, writer>>
             ELSE pc' = [pc EXCEPT ![c] = AfterSend(c)] /\ writer' = "none"
    BY <1>4 DEF Write
  <2>2. writer = c /\ pc[c] = "send" /\ UNCHANGED call
    BY <1>4 DEF Write, Holds
  <2> DEFINE x == [n |-> call[c].n, topic |-> call[c].topic, part |-> p]
  <2>3. x \in Part /\ p \in {"all", "first", "rest"} /\ (p = "rest" <=> sent[c])
    BY <1>0, <2>1, Types, Messages
  <2>4. /\ Len(toMcu) \in Nat /\ Len(toMcu') = Len(toMcu) + 1 /\ toMcu'[Len(toMcu')] = x
        /\ \A i \in 1 .. Len(toMcu') : i <= Len(toMcu) => i \in 1 .. Len(toMcu) /\ toMcu'[i] = toMcu[i]
        /\ \A i \in 1 .. Len(toMcu') : i > Len(toMcu) => i = Len(toMcu')
    BY <2>1, <2>3, Types, Added
  <2>5. \A d \in Callers : d # c => ~sent[d] /\ ~sent'[d] /\ writer # d /\ writer' # d
    BY <1>0, <2>1, <2>2 DEF OwnRest
  <2>6. OwnRest'
    <3>1. CASE p = "first"
      BY <1>0, <2>1, <2>2, <2>4, <2>5, <3>1 DEF OwnRest
    <3>2. CASE p # "first"
      BY <1>0, <2>1, <2>2, <2>5, <3>2 DEF OwnRest
    <3> QED
      BY <3>1, <3>2
  <2>7. FramesWhole'
    <3> SUFFICES ASSUME NEW i \in 1 .. Len(toMcu'), i > 1, toMcu'[i].part = "rest"
                 PROVE  toMcu'[i - 1].part = "first" /\ toMcu'[i - 1].n = toMcu'[i].n
      BY DEF FramesWhole
    <3>1. i - 1 \in 1 .. Len(toMcu') /\ i - 1 <= Len(toMcu)
      BY <2>4
    <3>2. toMcu'[i - 1] = toMcu[i - 1]
      BY <2>4, <3>1
    <3>3. CASE i <= Len(toMcu)
      BY <2>4, <3>2, <3>3 DEF FramesWhole
    <3>4. CASE i > Len(toMcu)
      <4>1. i = Len(toMcu') /\ toMcu'[i] = x /\ i - 1 = Len(toMcu)
        BY <2>4, <3>4
      <4>2. sent[c]
        BY <2>3, <4>1
      <4>3. toMcu # <<>>
        BY <4>1, EmptySeq
      <4>4. toMcu[Len(toMcu)].part = "first" /\ toMcu[Len(toMcu)].n = call[c].n
        BY <4>2, <4>3 DEF OwnRest
      <4> QED
        BY <3>2, <4>1, <4>4
    <3> QED
      BY <2>4, <3>3, <3>4
  <2> QED
    BY <2>6, <2>7
<1>5. ASSUME NEW c \in Callers, WriteFails(c) PROVE OwnRest' /\ FramesWhole'
  BY <1>0, <1>5 DEF WriteFails, Returns, Holds, wireVars, OwnRest, FramesWhole
<1>6. ASSUME NEW c \in Callers, TakeReply(c) \/ TimesOut(c) PROVE OwnRest' /\ FramesWhole'
  <2>1. /\ pc[c] = "wait" /\ pc' = [pc EXCEPT ![c] = "idle"]
        /\ UNCHANGED <<call, sent, writer, toMcu>>
    BY <1>6 DEF TakeReply, TimesOut, Returns, wireVars
  <2>2. writer # c
    BY <2>1 DEF OwnRest
  <2> QED
    BY <1>0, <2>1, <2>2 DEF OwnRest, FramesWhole
<1>7. CASE McuLoop \/ Noise
  <2>1. UNCHANGED callerVars
    BY <1>7 DEF McuLoop, Noise
  <2>2. UNCHANGED toMcu \/ \E k \in {1, 2} : McuTakes(k)
    BY <1>7, McuTakesSome DEF McuLoop, Noise
  <2> QED
    BY <1>1, <2>1, <2>2, FramesTaken
<1>8. CASE Open \/ Close \/ Join \/ Subscribe
  BY <1>1, <1>8 DEF Open, Close, Join, Subscribe, wireVars
<1>9. CASE ReaderStep
  BY <1>1, <1>9 DEF ReaderStep, ReadMessage, RunHandler, ReaderExits, wireVars
<1>10. CASE McuPublishes \/ DeviceGone
  BY <1>1, <1>10 DEF McuPublishes, DeviceGone
<1>11. CASE UNCHANGED vars
  BY <1>1, <1>11 DEF vars, wireVars
<1> QED
  BY <1>2, <1>3, <1>4, <1>5, <1>6, <1>7, <1>8, <1>9, <1>10, <1>11 DEF Next, CallStep
-----------------------------------------------------------------------------
(* Replies are returned once                                               *)

\* The number of a request is in one place at a time: with its caller until its
\* frame is complete, then in the buffer to the firmware, in the reply, in a slot
\* and with the caller the reply was returned to.
Fills(x)  == x.part # "first"
AtMcu(n)  == \E i \in 1 .. Len(toMcu) : Fills(toMcu[i]) /\ toMcu[i].n = n
AtHost(n) == \E i \in 1 .. Len(toHost) : toHost[i].to = n
AtSlot(n) == \E t \in Topics : slot[t].to = n
Given(n)  == \E g \in got : g.reply = n
Used(n)   == AtMcu(n) \/ AtHost(n) \/ AtSlot(n) \/ Given(n)

OnePlace(n) == /\ AtMcu(n)  => ~AtHost(n) /\ ~AtSlot(n) /\ ~Given(n)
               /\ AtHost(n) => ~AtSlot(n) /\ ~Given(n)
               /\ AtSlot(n) => ~Given(n)

OwnCalls ==
  /\ \A c \in Callers : call[c].n <= calls /\ (pc[c] # "idle" => call[c].n # 0)
  /\ \A c, d \in Callers : call[c].n = call[d].n /\ call[c].n # 0 => c = d

Unused ==
  /\ \A n \in Nat : n # 0 /\ Used(n) => n <= calls
  /\ \A c \in Callers, n \in Nat : pc[c] = "send" /\ call[c].n = n => ~Used(n)
  /\ \A n \in Nat : n # 0 => OnePlace(n)

Once ==
  /\ \A i, j \in 1 .. Len(toMcu) :
       Fills(toMcu[i]) /\ Fills(toMcu[j]) /\ toMcu[i].n = toMcu[j].n => i = j
  /\ \A i, j \in 1 .. Len(toHost) :
       toHost[i].to = toHost[j].to /\ toHost[i].to # 0 => i = j
  /\ \A t, u \in Topics : slot[t].to = slot[u].to /\ slot[t].to # 0 => t = u
  /\ ReplyOnce

\* A reply to a request has its number; other messages have none.
Numbered ==
  /\ \A i \in 1 .. Len(toMcu) : toMcu[i].n # 0
  /\ \A i \in 1 .. Len(toHost) : toHost[i].topic \in ReplyTopics => toHost[i].to # 0
  /\ \A t \in ReplyTopics : slot[t] = NoReply \/ slot[t].to # 0

TokenInv == OwnCalls /\ Unused /\ Once /\ Numbered

\* A step that only lets messages disappear and calls return.
LEMMA TokenLoss ==
  ASSUME TypeOK, TokenInv, UNCHANGED <<call, calls, got>>,
         \A c \in Callers : pc'[c] \in {pc[c], "idle"},
         NEW k \in Nat, NEW h \in Nat,
         Len(toMcu') \in Nat, Len(toHost') \in Nat,
         \A i \in 1 .. Len(toMcu') : i + k \in 1 .. Len(toMcu) /\ toMcu'[i] = toMcu[i + k],
         \A i \in 1 .. Len(toHost') : i + h \in 1 .. Len(toHost) /\ toHost'[i] = toHost[i + h],
         \A t \in Topics : slot'[t] \in {slot[t], NoReply}
  PROVE  TokenInv'
<1>0. ReplyTopics \subseteq Topics
  BY Messages
<1>1. \A n \in Nat : n # 0 => /\ AtMcu(n)' => AtMcu(n)
                              /\ AtHost(n)' => AtHost(n)
                              /\ AtSlot(n)' => AtSlot(n)
                              /\ Given(n)' => Given(n)
  <2> TAKE n \in Nat
  <2> HAVE n # 0
  <2>1. AtMcu(n)' => AtMcu(n)
    <3> SUFFICES ASSUME NEW i \in 1 .. Len(toMcu'), Fills(toMcu'[i]), toMcu'[i].n = n
                 PROVE  AtMcu(n)
      BY DEF AtMcu
    <3> QED
      BY DEF AtMcu
  <2>2. AtHost(n)' => AtHost(n)
    BY DEF AtHost
  <2>3. AtSlot(n)' => AtSlot(n)
    <3> SUFFICES ASSUME NEW t \in Topics, slot'[t].to = n PROVE AtSlot(n)
      BY DEF AtSlot
    <3> QED
      BY DEF AtSlot, NoReply
  <2>4. Given(n)' => Given(n)
    BY DEF Given
  <2> QED
    BY <2>1, <2>2, <2>3, <2>4
<1>2. OwnCalls'
  BY DEF TokenInv, OwnCalls
<1>3. Unused'
  <2>1. \A n \in Nat : n # 0 /\ Used(n)' => Used(n)
    BY <1>1 DEF Used
  <2>2. \A n \in Nat : n # 0 => OnePlace(n)'
    BY <1>1 DEF TokenInv, Unused, OnePlace
  <2>3. ASSUME NEW c \in Callers, NEW n \in Nat, pc'[c] = "send", call'[c].n = n
        PROVE  ~Used(n)'
    BY <2>1, <2>3 DEF TokenInv, Unused, OwnCalls
  <2>4. \A n \in Nat : n # 0 /\ Used(n)' => n <= calls'
    BY <2>1 DEF TokenInv, Unused
  <2> QED
    BY <2>2, <2>3, <2>4 DEF Unused
<1>4. Once'
  <2>1. ASSUME NEW i \in 1 .. Len(toMcu'), NEW j \in 1 .. Len(toMcu'),
               Fills(toMcu'[i]), Fills(toMcu'[j]), toMcu'[i].n = toMcu'[j].n
        PROVE  i = j
    <3>1. i + k = j + k
      BY <2>1 DEF TokenInv, Once
    <3> QED
      BY <3>1
  <2>2. ASSUME NEW i \in 1 .. Len(toHost'), NEW j \in 1 .. Len(toHost'),
               toHost'[i].to = toHost'[j].to, toHost'[i].to # 0
        PROVE  i = j
    <3>1. /\ i + h \in 1 .. Len(toHost) /\ j + h \in 1 .. Len(toHost)
          /\ toHost[i + h].to = toHost[j + h].to /\ toHost[i + h].to # 0
      BY <2>2
    <3>2. i + h = j + h
      BY <3>1 DEF TokenInv, Once
    <3> QED
      BY <3>2
  <2>3. \A t, u \in Topics : slot'[t].to = slot'[u].to /\ slot'[t].to # 0 => t = u
    BY DEF TokenInv, Once, NoReply
  <2>4. ReplyOnce'
    BY DEF TokenInv, Once, ReplyOnce
  <2> QED
    BY <2>1, <2>2, <2>3, <2>4 DEF Once, Fills
<1>5. Numbered'
  BY <1>0 DEF TokenInv, Numbered
<1> QED
  BY <1>2, <1>3, <1>4, <1>5 DEF TokenInv
\* A new call gets a number nobody has.
LEMMA TokenStart ==
  ASSUME TypeOK, TokenInv, NEW c \in Callers, NEW t \in ReplyTopics \cup {"post"}, Starts(c, t),
         \A u \in Topics : slot'[u] \in {slot[u], NoReply}
  PROVE  TokenInv'
<1>0. /\ calls \in Nat /\ ReplyTopics \subseteq Topics
      /\ \A d \in Callers : call[d].n \in Nat
      /\ calls' = calls + 1 /\ pc' = [pc EXCEPT ![c] = "send"]
      /\ call' = [call EXCEPT ![c] = [n |-> calls + 1, topic |-> t]]
      /\ UNCHANGED <<toMcu, toHost, got>>
  BY Types, Messages DEF Starts, wireVars, history
<1>1. /\ call'[c].n = calls + 1
      /\ \A d \in Callers : d # c => call'[d] = call[d] /\ pc'[d] = pc[d]
  BY <1>0 DEF TypeOK
<1>2. \A n \in Nat : n # 0 => /\ AtMcu(n)' <=> AtMcu(n)
                              /\ AtHost(n)' <=> AtHost(n)
                              /\ AtSlot(n)' => AtSlot(n)
                              /\ Given(n)' <=> Given(n)
  BY <1>0 DEF AtMcu, AtHost, AtSlot, Given, NoReply
<1>3. \A n \in Nat : n # 0 /\ Used(n)' => Used(n)
  BY <1>2 DEF Used
<1>4. OwnCalls'
  BY <1>0, <1>1 DEF TokenInv, OwnCalls
<1>5. Unused'
  <2>1. \A n \in Nat : n # 0 /\ Used(n)' => n <= calls'
    BY <1>0, <1>3 DEF TokenInv, Unused
  <2>2. ASSUME NEW d \in Callers, NEW n \in Nat, pc'[d] = "send", call'[d].n = n
        PROVE  ~Used(n)'
    <3>1. CASE d = c
      BY <1>0, <1>1, <1>3, <2>2, <3>1 DEF TokenInv, Unused
    <3>2. CASE d # c
      BY <1>1, <1>3, <2>2, <3>2 DEF TokenInv, Unused, OwnCalls
    <3> QED
      BY <3>1, <3>2
  <2>3. \A n \in Nat : n # 0 => OnePlace(n)'
    BY <1>2 DEF TokenInv, Unused, OnePlace
  <2> QED
    BY <2>1, <2>2, <2>3 DEF Unused
<1>6. Once' /\ Numbered'
  BY <1>0 DEF TokenInv, Once, ReplyOnce, Numbered, NoReply
<1> QED
  BY <1>4, <1>5, <1>6 DEF TokenInv

\* A write hands the number of its call to the buffer when the frame is complete.
LEMMA TokenWrite ==
  ASSUME TypeOK, TokenInv, OwnRest, NEW c \in Callers, Write(c)
  PROVE  TokenInv'
<1> DEFINE m == call[c].n
<1>1. PICK p \in {"all", "first", "rest"} :
        /\ toMcu' = Append(toMcu, [n |-> m, topic |-> call[c].topic, part |-> p])
        /\ IF p = "first" THEN UNCHANGED pc ELSE pc' = [pc EXCEPT ![c] = AfterSend(c)]
  BY DEF Write
<1>2. /\ pc[c] = "send" /\ UNCHANGED <<call, slot, toHost, calls, got>>
      /\ m \in Nat /\ m # 0 /\ m <= calls /\ \A d \in Callers : call[d].n \in Nat
      /\ [n |-> m, topic |-> call[c].topic, part |-> p] \in Part
  BY Types, Messages DEF Write, hostVars, counters, history, TokenInv, OwnCalls
<1>3. /\ Len(toMcu) \in Nat /\ Len(toMcu') = Len(toMcu) + 1
      /\ toMcu'[Len(toMcu')] = [n |-> m, topic |-> call[c].topic, part |-> p]
      /\ \A i \in 1 .. Len(toMcu') : i <= Len(toMcu) => i \in 1 .. Len(toMcu) /\ toMcu'[i] = toMcu[i]
      /\ \A i \in 1 .. Len(toMcu') : i > Len(toMcu) => i = Len(toMcu')
  BY <1>1, <1>2, Types, Added
<1>4. pc'[c] # "idle" => pc[c] # "idle"
  BY <1>2
<1>5. \A d \in Callers : (d # c => pc'[d] = pc[d]) /\ (p # "first" => pc'[c] # "send")
  BY <1>1 DEF TypeOK, AfterSend
<1>6. ~Used(m)
  BY <1>2 DEF TokenInv, Unused
<1>7. \A n \in Nat : AtMcu(n)' => AtMcu(n) \/ (n = m /\ p # "first")
  BY <1>3 DEF AtMcu, Fills
<1>8. \A n \in Nat : /\ AtHost(n)' <=> AtHost(n)
                     /\ AtSlot(n)' <=> AtSlot(n)
                     /\ Given(n)' <=> Given(n)
  BY <1>2 DEF AtHost, AtSlot, Given
<1>9. OwnCalls'
  BY <1>2, <1>5 DEF TokenInv, OwnCalls
<1>10. Unused'
  <2>1. \A n \in Nat : n # 0 /\ Used(n)' => n <= calls'
    BY <1>2, <1>7, <1>8 DEF TokenInv, Unused, Used
  <2>2. ASSUME NEW d \in Callers, NEW n \in Nat, pc'[d] = "send", call'[d].n = n
        PROVE  ~Used(n)'
    <3>1. pc[d] = "send" /\ ~Used(n)
      BY <1>2, <1>5, <2>2 DEF TokenInv, Unused
    <3>2. ~(n = m /\ p # "first")
      BY <1>2, <1>5, <2>2 DEF TokenInv, OwnCalls
    <3> QED
      BY <1>7, <1>8, <3>1, <3>2 DEF Used
  <2>3. \A n \in Nat : n # 0 => OnePlace(n)'
    BY <1>6, <1>7, <1>8 DEF TokenInv, Unused, OnePlace, Used
  <2> QED
    BY <2>1, <2>2, <2>3 DEF Unused
<1>11. Once'
  <2>1. ASSUME NEW i \in 1 .. Len(toMcu'), NEW j \in 1 .. Len(toMcu'),
               Fills(toMcu'[i]), Fills(toMcu'[j]), toMcu'[i].n = toMcu'[j].n
        PROVE  i = j
    <3>1. ASSUME NEW k \in 1 .. Len(toMcu'), k <= Len(toMcu), Fills(toMcu'[k])
          PROVE  toMcu'[k].n # m
      BY <1>3, <1>6, <3>1 DEF Used, AtMcu
    <3>2. CASE i <= Len(toMcu) /\ j <= Len(toMcu)
      BY <1>3, <2>1, <3>2 DEF TokenInv, Once
    <3>3. CASE i > Len(toMcu) \/ j > Len(toMcu)
      BY <1>3, <2>1, <3>1, <3>3
    <3> QED
      BY <1>3, <3>2, <3>3
  <2> QED
    BY <1>2, <2>1 DEF TokenInv, Once, ReplyOnce, Fills
<1>12. Numbered'
  BY <1>2, <1>3 DEF TokenInv, Numbered
<1> QED
  BY <1>9, <1>10, <1>11, <1>12 DEF TokenInv

\* The caller takes the reply and clears the slot.
LEMMA TokenTake ==
  ASSUME TypeOK, TokenInv, NEW c \in Callers, TakeReply(c)
  PROVE  TokenInv'
<1> DEFINE t == call[c].topic
           m == slot[t].to
           g == [own |-> call[c].n, reply |-> m, at |-> slot[t].at]
<1>1. /\ pc[c] = "wait" /\ t \in ReplyTopics /\ t \in Topics /\ slot[t] # NoReply
      /\ got' = got \cup {g} /\ slot' = [slot EXCEPT ![t] = NoReply]
      /\ pc' = [pc EXCEPT ![c] = "idle"]
      /\ UNCHANGED <<call, calls, toMcu, toHost>>
  BY Messages DEF TakeReply, Taken, Returns, counters, wireVars, TypeOK
<1>2. m # 0 /\ m \in Nat /\ AtSlot(m)
  BY <1>1, Types DEF TokenInv, Numbered, AtSlot, TypeOK
<1>3. /\ slot'[t] = NoReply
      /\ \A u \in Topics : u # t => slot'[u] = slot[u] /\ slot[u].to # m
  BY <1>1, <1>2 DEF TypeOK, TokenInv, Once
<1>4. \A n \in Nat : n # 0 => /\ AtMcu(n)' <=> AtMcu(n)
                              /\ AtHost(n)' <=> AtHost(n)
                              /\ AtSlot(n)' => AtSlot(n) /\ n # m
                              /\ Given(n)' => Given(n) \/ n = m
  <2> TAKE n \in Nat
  <2> HAVE n # 0
  <2>1. (AtMcu(n)' <=> AtMcu(n)) /\ (AtHost(n)' <=> AtHost(n))
    BY <1>1 DEF AtMcu, AtHost
  <2>2. AtSlot(n)' => AtSlot(n) /\ n # m
    BY <1>3 DEF AtSlot, NoReply
  <2>3. Given(n)' => Given(n) \/ n = m
    BY <1>1 DEF Given
  <2> QED
    BY <2>1, <2>2, <2>3
<1>5. OwnCalls'
  BY <1>1 DEF TokenInv, OwnCalls, TypeOK
<1>6. Unused'
  <2>1. \A n \in Nat : n # 0 /\ Used(n)' => Used(n)
    BY <1>2, <1>4 DEF Used
  <2>2. \A n \in Nat : n # 0 /\ Used(n)' => n <= calls'
    BY <1>1, <2>1 DEF TokenInv, Unused
  <2>3. ASSUME NEW d \in Callers, NEW n \in Nat, pc'[d] = "send", call'[d].n = n
        PROVE  ~Used(n)'
    BY <1>1, <2>1, <2>3 DEF TokenInv, Unused, OwnCalls, TypeOK
  <2>4. \A n \in Nat : n # 0 => OnePlace(n)'
    BY <1>2, <1>4 DEF TokenInv, Unused, OnePlace
  <2> QED
    BY <2>2, <2>3, <2>4 DEF Unused
<1>7. Once'
  <2>1. \A h \in got : h.reply # m
    BY <1>2 DEF TokenInv, Unused, OnePlace, Given
  <2>2. ReplyOnce'
    BY <1>1, <2>1 DEF TokenInv, Once, ReplyOnce
  <2>3. \A u, v \in Topics : slot'[u].to = slot'[v].to /\ slot'[u].to # 0 => u = v
    BY <1>3 DEF TokenInv, Once, NoReply
  <2> QED
    BY <1>1, <2>2, <2>3 DEF TokenInv, Once
<1>8. Numbered'
  BY <1>1, <1>3, Messages DEF TokenInv, Numbered
<1> QED
  BY <1>5, <1>6, <1>7, <1>8 DEF TokenInv
\* The reader moves a message from the buffer to the slot of its topic.
LEMMA TokenRead ==
  ASSUME TypeOK, TokenInv, ReadMessage
  PROVE  TokenInv'
<1> DEFINE e == Head(toHost)
           m == e.to
<1>1. /\ e \in HostMsg /\ e = toHost[1] /\ 1 \in 1 .. Len(toHost) /\ e.topic \in Topics
      /\ m \in Nat /\ Len(toHost') = Len(toHost) - 1 /\ Len(toHost) \in Nat
      /\ \A i \in 1 .. Len(toHost') : i + 1 \in 1 .. Len(toHost) /\ toHost'[i] = toHost[i + 1]
      /\ slot' = [slot EXCEPT ![e.topic] = [to |-> m, at |-> calls]]
      /\ UNCHANGED <<pc, call, calls, toMcu, got>>
  BY Types, Messages, Taken1 DEF ReadMessage, callerVars, counters, history
<1>2. /\ slot'[e.topic].to = m
      /\ \A u \in Topics : u # e.topic => slot'[u] = slot[u]
  BY <1>1 DEF TypeOK
<1>3. AtHost(m)
  BY <1>1 DEF AtHost
<1>4. \A n \in Nat : n # 0 => /\ AtMcu(n)' <=> AtMcu(n)
                              /\ AtHost(n)' => AtHost(n) /\ n # m
                              /\ AtSlot(n)' => AtSlot(n) \/ n = m
                              /\ Given(n)' <=> Given(n)
  <2> TAKE n \in Nat
  <2> HAVE n # 0
  <2>1. (AtMcu(n)' <=> AtMcu(n)) /\ (Given(n)' <=> Given(n))
    BY <1>1 DEF AtMcu, Given
  <2>2. AtHost(n)' => AtHost(n) /\ n # m
    <3> SUFFICES ASSUME NEW i \in 1 .. Len(toHost'), toHost'[i].to = n
                 PROVE  AtHost(n) /\ n # m
      BY DEF AtHost
    <3>1. i + 1 \in 1 .. Len(toHost) /\ toHost[i + 1].to = n /\ i + 1 # 1
      BY <1>1
    <3> QED
      BY <1>1, <3>1 DEF AtHost, TokenInv, Once
  <2>3. AtSlot(n)' => AtSlot(n) \/ n = m
    BY <1>2 DEF AtSlot
  <2> QED
    BY <2>1, <2>2, <2>3
<1>5. OwnCalls'
  BY <1>1 DEF TokenInv, OwnCalls
<1>6. Unused'
  <2>1. \A n \in Nat : n # 0 /\ Used(n)' => Used(n)
    BY <1>3, <1>4 DEF Used
  <2>2. \A n \in Nat : n # 0 /\ Used(n)' => n <= calls'
    BY <1>1, <2>1 DEF TokenInv, Unused
  <2>3. ASSUME NEW d \in Callers, NEW n \in Nat, pc'[d] = "send", call'[d].n = n
        PROVE  ~Used(n)'
    BY <1>1, <2>1, <2>3 DEF TokenInv, Unused, OwnCalls
  <2>4. \A n \in Nat : n # 0 => OnePlace(n)'
    BY <1>3, <1>4 DEF TokenInv, Unused, OnePlace
  <2> QED
    BY <2>2, <2>3, <2>4 DEF Unused
<1>7. Once'
  <2>1. m # 0 => \A u \in Topics : slot[u].to # m
    BY <1>1, <1>3 DEF TokenInv, Unused, OnePlace, AtSlot
  <2>2. \A u, v \in Topics : slot'[u].to = slot'[v].to /\ slot'[u].to # 0 => u = v
    BY <1>2, <2>1 DEF TokenInv, Once
  <2>3. ASSUME NEW i \in 1 .. Len(toHost'), NEW j \in 1 .. Len(toHost'),
               toHost'[i].to = toHost'[j].to, toHost'[i].to # 0
        PROVE  i = j
    <3>1. /\ i + 1 \in 1 .. Len(toHost) /\ j + 1 \in 1 .. Len(toHost)
          /\ toHost[i + 1].to = toHost[j + 1].to /\ toHost[i + 1].to # 0
      BY <1>1, <2>3
    <3>2. i + 1 = j + 1
      BY <3>1 DEF TokenInv, Once
    <3> QED
      BY <3>2
  <2> QED
    BY <1>1, <2>2, <2>3 DEF TokenInv, Once, ReplyOnce
<1>8. Numbered'
  <2>1. \A i \in 1 .. Len(toHost') : toHost'[i].topic \in ReplyTopics => toHost'[i].to # 0
    BY <1>1 DEF TokenInv, Numbered
  <2>2. \A u \in ReplyTopics : slot'[u] = NoReply \/ slot'[u].to # 0
    BY <1>1, <1>2, Messages DEF TokenInv, Numbered
  <2> QED
    BY <1>1, <2>1, <2>2 DEF TokenInv, Numbered
<1> QED
  BY <1>5, <1>6, <1>7, <1>8 DEF TokenInv

\* The firmware takes a complete frame and answers it.
LEMMA TokenReply ==
  ASSUME TypeOK, TokenInv, NEW k \in {1, 2}, McuTakes(k), Sound(toMcu, k),
         toHost' = Append(toHost, [topic |-> toMcu[1].topic, to |-> toMcu[1].n]),
         toMcu[1].topic \in ReplyTopics,
         UNCHANGED <<pc, call, slot, calls, got>>
  PROVE  TokenInv'
<1> DEFINE m == toMcu[1].n
<1>1. /\ 1 \in 1 .. Len(toMcu) /\ k \in 1 .. Len(toMcu) /\ toMcu[1] \in Part
      /\ toMcu[k].n = m /\ Fills(toMcu[k])
  BY Types, ElementOfSeq DEF McuTakes, Sound, SecondHalf, Fills
<1>2. m \in Nat /\ m # 0 /\ AtMcu(m) /\ [topic |-> toMcu[1].topic, to |-> m] \in HostMsg
  BY <1>1, Types, Messages DEF TokenInv, Numbered, AtMcu
<1>3. /\ Len(toMcu') \in Nat
      /\ \A i \in 1 .. Len(toMcu') : i + k \in 1 .. Len(toMcu) /\ toMcu'[i] = toMcu[i + k]
  BY McuRest, LenProperties
<1>4. /\ Len(toHost) \in Nat /\ Len(toHost') = Len(toHost) + 1
      /\ toHost'[Len(toHost')] = [topic |-> toMcu[1].topic, to |-> m]
      /\ \A i \in 1 .. Len(toHost') : i <= Len(toHost) => i \in 1 .. Len(toHost) /\ toHost'[i] = toHost[i]
      /\ \A i \in 1 .. Len(toHost') : i > Len(toHost) => i = Len(toHost')
  BY <1>2, Types, Added
<1>5. \A n \in Nat : n # 0 => /\ AtMcu(n)' => AtMcu(n) /\ n # m
                              /\ AtHost(n)' => AtHost(n) \/ n = m
                              /\ AtSlot(n)' <=> AtSlot(n)
                              /\ Given(n)' <=> Given(n)
  <2> TAKE n \in Nat
  <2> HAVE n # 0
  <2>1. (AtSlot(n)' <=> AtSlot(n)) /\ (Given(n)' <=> Given(n))
    BY DEF AtSlot, Given
  <2>2. AtHost(n)' => AtHost(n) \/ n = m
    BY <1>4 DEF AtHost
  <2>3. AtMcu(n)' => AtMcu(n) /\ n # m
    <3> SUFFICES ASSUME NEW i \in 1 .. Len(toMcu'), Fills(toMcu'[i]), toMcu'[i].n = n
                 PROVE  AtMcu(n) /\ n # m
      BY DEF AtMcu, Fills
    <3>1. i + k \in 1 .. Len(toMcu) /\ Fills(toMcu[i + k]) /\ toMcu[i + k].n = n /\ i + k # k
      BY <1>3
    <3> QED
      BY <1>1, <3>1 DEF AtMcu, TokenInv, Once
  <2> QED
    BY <2>1, <2>2, <2>3
<1>6. OwnCalls'
  BY DEF TokenInv, OwnCalls
<1>7. Unused'
  <2>1. \A n \in Nat : n # 0 /\ Used(n)' => Used(n)
    BY <1>2, <1>5 DEF Used
  <2>2. \A n \in Nat : n # 0 /\ Used(n)' => n <= calls'
    BY <2>1 DEF TokenInv, Unused
  <2>3. ASSUME NEW d \in Callers, NEW n \in Nat, pc'[d] = "send", call'[d].n = n
        PROVE  ~Used(n)'
    BY <2>1, <2>3 DEF TokenInv, Unused, OwnCalls
  <2>4. \A n \in Nat : n # 0 => OnePlace(n)'
    BY <1>2, <1>5 DEF TokenInv, Unused, OnePlace
  <2> QED
    BY <2>2, <2>3, <2>4 DEF Unused
<1>8. Once'
  <2>1. ASSUME NEW i \in 1 .. Len(toMcu'), NEW j \in 1 .. Len(toMcu'),
               Fills(toMcu'[i]), Fills(toMcu'[j]), toMcu'[i].n = toMcu'[j].n
        PROVE  i = j
    <3>1. i + k = j + k
      BY <1>3, <2>1 DEF TokenInv, Once
    <3> QED
      BY <1>3, <3>1
  <2>2. \A i \in 1 .. Len(toHost) : toHost[i].to # m
    BY <1>2 DEF TokenInv, Unused, OnePlace, AtHost
  <2>3. ASSUME NEW i \in 1 .. Len(toHost'), NEW j \in 1 .. Len(toHost'),
               toHost'[i].to = toHost'[j].to, toHost'[i].to # 0
        PROVE  i = j
    <3>1. CASE i <= Len(toHost) /\ j <= Len(toHost)
      BY <1>4, <2>3, <3>1 DEF TokenInv, Once
    <3>2. CASE i > Len(toHost) \/ j > Len(toHost)
      BY <1>4, <2>2, <2>3, <3>2
    <3> QED
      BY <1>4, <3>1, <3>2
  <2> QED
    BY <2>1, <2>3 DEF TokenInv, Once, ReplyOnce, Fills
<1>9. Numbered'
  <2>1. \A i \in 1 .. Len(toMcu') : toMcu'[i].n # 0
    BY <1>3 DEF TokenInv, Numbered
  <2>2. ASSUME NEW i \in 1 .. Len(toHost'), toHost'[i].topic \in ReplyTopics
        PROVE  toHost'[i].to # 0
    <3>1. CASE i <= Len(toHost)
      BY <1>4, <2>2, <3>1 DEF TokenInv, Numbered
    <3>2. CASE i > Len(toHost)
      BY <1>2, <1>4, <3>2
    <3> QED
      BY <1>4, <3>1, <3>2
  <2> QED
    BY <2>1, <2>2 DEF TokenInv, Numbered
<1> QED
  BY <1>6, <1>7, <1>8, <1>9 DEF TokenInv

\* The firmware publishes a message that answers nothing.
LEMMA TokenPublish ==
  ASSUME TypeOK, TokenInv, McuPublishes
  PROVE  TokenInv'
<1>1. /\ toHost' = Append(toHost, [topic |-> "user", to |-> 0])
      /\ UNCHANGED <<pc, call, slot, calls, got, toMcu>>
  BY DEF McuPublishes, callerVars, hostVars, history
<1>2. /\ Len(toHost) \in Nat /\ Len(toHost') = Len(toHost) + 1
      /\ toHost'[Len(toHost')] = [topic |-> "user", to |-> 0]
      /\ \A i \in 1 .. Len(toHost') : i <= Len(toHost) => i \in 1 .. Len(toHost) /\ toHost'[i] = toHost[i]
      /\ \A i \in 1 .. Len(toHost') : i > Len(toHost) => i = Len(toHost')
  BY <1>1, Types, Messages, Added
<1>3. \A n \in Nat : n # 0 => /\ AtMcu(n)' <=> AtMcu(n)
                              /\ AtHost(n)' => AtHost(n)
                              /\ AtSlot(n)' <=> AtSlot(n)
                              /\ Given(n)' <=> Given(n)
  BY <1>1, <1>2 DEF AtMcu, AtHost, AtSlot, Given
<1>4. \A n \in Nat : n # 0 /\ Used(n)' => Used(n)
  BY <1>3 DEF Used
<1>5. OwnCalls'
  BY <1>1 DEF TokenInv, OwnCalls
<1>6. Unused'
  <2>1. \A n \in Nat : n # 0 /\ Used(n)' => n <= calls'
    BY <1>1, <1>4 DEF TokenInv, Unused
  <2>2. ASSUME NEW d \in Callers, NEW n \in Nat, pc'[d] = "send", call'[d].n = n
        PROVE  ~Used(n)'
    BY <1>1, <1>4, <2>2 DEF TokenInv, Unused, OwnCalls
  <2>3. \A n \in Nat : n # 0 => OnePlace(n)'
    BY <1>3 DEF TokenInv, Unused, OnePlace
  <2> QED
    BY <2>1, <2>2, <2>3 DEF Unused
<1>7. Once'
  BY <1>1, <1>2 DEF TokenInv, Once, ReplyOnce
<1>8. Numbered'
  BY <1>1, <1>2, BridgeAssumption DEF TokenInv, Numbered
<1> QED
  BY <1>5, <1>6, <1>7, <1>8 DEF TokenInv

\* Every step of the bridge keeps each number in one place at a time.
LEMMA TokenStep == TypeOK /\ OwnRest /\ TokenInv /\ [Next]_vars => TokenInv'
<1> SUFFICES ASSUME TypeOK, OwnRest, TokenInv, [Next]_vars PROVE TokenInv'
  OBVIOUS
<1>1. Len(toMcu) \in Nat /\ Len(toHost) \in Nat
  BY Types
<1>2. ASSUME UNCHANGED <<call, calls, got, slot, toMcu, toHost>>,
             \A c \in Callers : pc'[c] \in {pc[c], "idle"}
      PROVE  TokenInv'
  <2>1. 0 \in Nat /\ (\A i \in 1 .. Len(toMcu') : i + 0 = i) /\ (\A i \in 1 .. Len(toHost') : i + 0 = i)
    BY <1>1, <1>2
  <2> QED
    BY <1>1, <1>2, <2>1, TokenLoss
<1>3. CASE Open
  <2>1. PICK h \in {0, Len(toHost)} : 
          \A i \in 1 .. Len(toHost') : i + h \in 1 .. Len(toHost) /\ toHost'[i] = toHost[i + h]
    <3>1. CASE toHost' = toHost
      BY <1>1, <3>1
    <3>2. CASE toHost' = <<>>
      BY <1>1, <3>2, EmptySeq
    <3> QED
      BY <1>3, <3>1, <3>2 DEF Open
  <2>2. /\ UNCHANGED <<pc, call, calls, got, slot, toMcu>> /\ Len(toHost') \in Nat
    BY <1>1, <1>3, EmptySeq DEF Open, callerVars, history
  <2>3. /\ h \in Nat /\ 0 \in Nat
        /\ \A i \in 1 .. Len(toMcu') : i + 0 \in 1 .. Len(toMcu) /\ toMcu'[i] = toMcu[i + 0]
    BY <1>1, <2>2
  <2> QED
    BY <1>1, <2>1, <2>2, <2>3, TokenLoss
<1>4. CASE Close \/ Join \/ Subscribe \/ RunHandler \/ ReaderExits \/ DeviceGone \/ UNCHANGED vars
  BY <1>2, <1>4 DEF Close, Join, Subscribe, RunHandler, ReaderExits, DeviceGone, vars, callerVars,
                    hostVars, wireVars, counters, history
<1>5. ASSUME NEW c \in Callers, Request(c) \/ Post(c) PROVE TokenInv'
  <2>1. PICK t \in ReplyTopics \cup {"post"} :
          Starts(c, t) /\ (slot' = Erased(t) \/ UNCHANGED slot)
    BY <1>5 DEF Request, Post
  <2>2. \A u \in Topics : slot'[u] \in {slot[u], NoReply}
    BY <2>1 DEF Erased, TypeOK
  <2> QED
    BY <2>1, <2>2, TokenStart
<1>6. ASSUME NEW c \in Callers,
             SendRefused(c) \/ TakeWriteMutex(c) \/ WriteFails(c) \/ TimesOut(c)
      PROVE  TokenInv'
  <2>1. /\ UNCHANGED <<call, calls, got, slot, toMcu, toHost>>
        /\ pc' = pc \/ pc' = [pc EXCEPT ![c] = "idle"]
    BY <1>6 DEF SendRefused, TakeWriteMutex, WriteFails, TimesOut, Returns, hostVars, wireVars,
                counters, history
  <2> QED
    BY <1>2, <2>1 DEF TypeOK
<1>7. ASSUME NEW c \in Callers, Write(c) \/ TakeReply(c) PROVE TokenInv'
  BY <1>7, TokenWrite, TokenTake
<1>8. CASE ReadMessage
  BY <1>8, TokenRead
<1>9. CASE McuPublishes
  BY <1>9, TokenPublish
<1>10. ASSUME NEW k \in {1, 2}, McuTakes(k), UNCHANGED <<pc, call, slot, calls, got, toHost>>
       PROVE  TokenInv'
  <2>1. /\ k \in Nat /\ Len(toMcu') \in Nat /\ Len(toHost') \in Nat
        /\ \A i \in 1 .. Len(toMcu') : i + k \in 1 .. Len(toMcu) /\ toMcu'[i] = toMcu[i + k]
    BY <1>1, <1>10, McuRest, LenProperties
  <2>2. /\ 0 \in Nat
        /\ \A i \in 1 .. Len(toHost') : i + 0 \in 1 .. Len(toHost) /\ toHost'[i] = toHost[i + 0]
    BY <1>1, <1>10
  <2> QED
    BY <1>10, <2>1, <2>2, TokenLoss
<1>11. CASE McuLoop
  <2>1. PICK k \in {1, 2} :
          /\ McuTakes(k)
          /\ \/ /\ Sound(toMcu, k) /\ toMcu[1].topic \in ReplyTopics
                /\ toHost' = Append(toHost, [topic |-> toMcu[1].topic, to |-> toMcu[1].n])
             \/ UNCHANGED toHost
    BY <1>11, McuTakesSome DEF McuLoop
  <2>2. UNCHANGED <<pc, call, slot, calls, got>>
    BY <1>11 DEF McuLoop, callerVars, hostVars, counters, history
  <2> QED
    BY <1>10, <2>1, <2>2, TokenReply
<1>12. CASE Noise
  <2>1. UNCHANGED <<pc, call, slot, calls, got>>
    BY <1>12 DEF Noise, callerVars, hostVars, counters, history
  <2>2. CASE UNCHANGED toHost /\ \E k \in {1, 2} : McuTakes(k)
    BY <1>10, <2>1, <2>2
  <2>3. CASE toHost # <<>> /\ toHost' = Tail(toHost) /\ UNCHANGED toMcu
    <3>1. /\ 0 \in Nat /\ 1 \in Nat /\ Len(toHost') \in Nat
          /\ \A i \in 1 .. Len(toHost') : i + 1 \in 1 .. Len(toHost) /\ toHost'[i] = toHost[i + 1]
          /\ \A i \in 1 .. Len(toMcu') : i + 0 \in 1 .. Len(toMcu) /\ toMcu'[i] = toMcu[i + 0]
      BY <1>1, <2>3, Types, Taken1, LenProperties
    <3> QED
      BY <1>1, <2>1, <2>3, <3>1, TokenLoss
  <2> QED
    BY <1>12, <2>2, <2>3, McuTakesSome DEF Noise
<1> QED
  BY <1>3, <1>4, <1>5, <1>6, <1>7, <1>8, <1>9, <1>11, <1>12 DEF Next, CallStep, ReaderStep

-----------------------------------------------------------------------------
(* The invariant and the theorems                                          *)

BridgeInv == /\ TypeOK /\ NoReader /\ FreshSlots /\ Fresh /\ OwnRest /\ FramesWhole
             /\ TokenInv

\* The invariant holds before the first call.
LEMMA BridgeInit == Init => BridgeInv
<1> SUFFICES ASSUME Init PROVE BridgeInv
  OBVIOUS
<1>1. toMcu = <<>> /\ toHost = <<>> /\ Len(toMcu) = 0 /\ Len(toHost) = 0
  BY EmptySeq DEF Init
<1>2. TypeOK
  <2>1. toMcu \in Seq(Part) /\ toHost \in Seq([topic : Topics, to : Numbers])
    BY <1>1, EmptySeq
  <2>2. slot \in [Topics -> [to : Numbers, at : Numbers]]
    BY Messages DEF Init, NoReply
  <2>3. /\ call \in [Callers -> [n : Numbers, topic : ReplyTopics \cup {"post"}]]
        /\ pc \in [Callers -> {"idle", "send", "wait"}]
        /\ \A c \in Callers : pc[c] # "wait"
    BY Messages DEF Init
  <2>4. calls \in Numbers /\ events \in 0 .. MaxEvents /\ opens \in 0 .. MaxOpens
    BY BridgeAssumption DEF Init, Numbers
  <2>5. /\ sent \in [Callers -> BOOLEAN] /\ writer \in Callers \cup {"none"}
        /\ subscribed \subseteq Topics /\ life \in {"closed", "open", "closing"}
        /\ running \in BOOLEAN /\ reader \in {"off", "read", "handler", "exited"}
        /\ linkUp \in BOOLEAN /\ handled \in Nat
        /\ got \subseteq [own : Numbers, reply : Numbers, at : Numbers]
    BY DEF Init
  <2> QED
    BY <2>1, <2>2, <2>3, <2>4, <2>5 DEF TypeOK
<1>3. NoReader /\ FreshSlots /\ Fresh
  BY DEF Init, NoReader, FreshSlots, Fresh
<1>4. OwnRest /\ FramesWhole
  BY <1>1, BridgeAssumption DEF Init, OwnRest, FramesWhole
<1>5. \A n \in Nat : n # 0 => ~Used(n)
  BY <1>1 DEF Init, Used, AtMcu, AtHost, AtSlot, Given, NoReply
<1>6. OwnCalls /\ Unused
  BY <1>5 DEF Init, OwnCalls, Unused, OnePlace, Used
<1>7. Once /\ Numbered
  BY <1>1, Messages DEF Init, Once, ReplyOnce, Numbered, NoReply
<1> QED
  BY <1>2, <1>3, <1>4, <1>6, <1>7 DEF BridgeInv, TokenInv

\* Every step keeps the invariant.
LEMMA BridgeStep == BridgeInv /\ [Next]_vars => BridgeInv'
BY TypeStep, NoReaderStep, FreshStep, FramesStep, TokenStep DEF BridgeInv

\* Every step of the bridge preserves what the theorems below need.
THEOREM BridgeInvariant == Spec => []BridgeInv
<1> QED
  BY BridgeInit, BridgeStep, PTL DEF Spec

\* The bridge's state keeps its types: only calls that have a reply wait for one.
THEOREM TypeCorrect == Spec => []TypeOK
<1>1. BridgeInv => TypeOK
  BY DEF BridgeInv
<1> QED
  BY <1>1, BridgeInvariant, PTL

\* No request returns a reply that was stored before the request began.
THEOREM RepliesAreFresh == Spec => []Fresh
<1>1. BridgeInv => Fresh
  BY DEF BridgeInv
<1> QED
  BY <1>1, BridgeInvariant, PTL

\* No reply is returned twice, however many callers wait on a topic and whatever
\* is lost, late or closed.
THEOREM RepliesAreReturnedOnce == Spec => []ReplyOnce
<1>1. BridgeInv => ReplyOnce
  BY DEF BridgeInv, TokenInv, Once
<1> QED
  BY <1>1, BridgeInvariant, PTL

\* The parts of two callers' frames are never mixed on the wire.
THEOREM FramesAreNotMixed == Spec => []FramesWhole
<1>1. BridgeInv => FramesWhole
  BY DEF BridgeInv
<1> QED
  BY <1>1, BridgeInvariant, PTL

\* After close() no handler runs.
THEOREM NoHandlerAfterClose == Spec => QuietAfterClose
<1>1. BridgeInv /\ [Next]_vars => [life = "closed" => handled' = handled]_vars
  <2> SUFFICES ASSUME NoReader, [Next]_vars, life = "closed" PROVE handled' = handled
    BY DEF BridgeInv
  <2>1. reader # "handler"
    BY DEF NoReader
  <2>2. ASSUME NEW c \in Callers, Request(c) \/ Post(c) \/ CallStep(c) PROVE handled' = handled
    BY <2>2 DEF Request, Post, CallStep, Starts, SendRefused, TakeWriteMutex, Write, WriteFails,
                TakeReply, TimesOut, history
  <2>3. CASE Open \/ Close \/ Join \/ Subscribe \/ ReaderStep
    BY <2>1, <2>3 DEF Open, Close, Join, Subscribe, ReaderStep, ReadMessage, RunHandler,
                      ReaderExits, history
  <2>4. CASE McuLoop \/ Noise \/ McuPublishes \/ DeviceGone \/ UNCHANGED vars
    BY <2>4 DEF McuLoop, Noise, McuPublishes, DeviceGone, vars, history
  <2> QED
    BY <2>2, <2>3, <2>4 DEF Next
<1> QED
  BY <1>1, BridgeInvariant, PTL DEF Spec, QuietAfterClose
=============================================================================
