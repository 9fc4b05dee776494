----------------------------- MODULE Shell_proofs -----------------------------
(***************************************************************************)
(* Proofs about Shell, for any capacity, any numbering and any number of   *)
(* refused events.                                                         *)
(*                                                                         *)
(* The numbers of the queue are those of the last accepted events          *)
(* (InOrder), which stays so because the number of the next event and the  *)
(* end of the queue move together, and its head moves alone.  That there   *)
(* is an event for each that dispatchPending() still delivers (Counted)    *)
(* is what keeps pop_front() off an empty queue.                           *)
(***************************************************************************)
EXTENDS Shell, TLAPS

\* dispatchPending() never takes an event from an empty queue.
Counted == phase = "dispatch" => pending <= Len(queue)

ShellInv == TypeOK /\ Counted /\ InOrder

-----------------------------------------------------------------------------
\* The remainder of a number below the modulus, and of one below twice the modulus.
LEMMA ModSmall == ASSUME NEW m \in Nat, NEW v \in 0 .. m - 1 PROVE v % m = v
  BY SMT

LEMMA ModLarge == ASSUME NEW m \in Nat \ {0}, NEW v \in m .. 2 * m - 1 PROVE v % m = v - m
  BY SMT

\* The number of an event that has k successors in the queue.
Behind(n, k) == (n - 1 - k + Modulus) % Modulus

\* Numbers count round.
LEMMA BehindIs ==
  ASSUME NEW n \in Number, NEW k \in 0 .. Modulus - 2
  PROVE  Behind(n, k) = IF n > k THEN n - 1 - k ELSE n - 1 - k + Modulus
<1>1. Modulus \in Nat \ {0} /\ n \in 0 .. Modulus - 1
  BY ShellAssumption DEF Number
<1>2. CASE n > k
  <2>1. n - 1 - k + Modulus \in Modulus .. 2 * Modulus - 1
    BY <1>1, <1>2
  <2>2. (n - 1 - k + Modulus) % Modulus = (n - 1 - k + Modulus) - Modulus
    BY <1>1, <2>1, ModLarge
  <2> QED
    BY <1>1, <1>2, <2>2 DEF Behind
<1>3. CASE ~(n > k)
  <2>1. n - 1 - k + Modulus \in 0 .. Modulus - 1
    BY <1>1, <1>3
  <2> QED
    BY <1>1, <1>3, <2>1, ModSmall DEF Behind
<1> QED
  BY <1>2, <1>3

\* The number after a number.
LEMMA AfterIs ==
  ASSUME NEW n \in Number
  PROVE  /\ (n + 1) % Modulus \in Number
         /\ (n + 1) % Modulus = IF n = Modulus - 1 THEN 0 ELSE n + 1
<1>1. Modulus \in Nat \ {0} /\ n \in 0 .. Modulus - 1
  BY ShellAssumption DEF Number
<1>2. CASE n = Modulus - 1
  <2>1. n + 1 \in Modulus .. 2 * Modulus - 1
    BY <1>1, <1>2
  <2>2. (n + 1) % Modulus = (n + 1) - Modulus
    BY <1>1, <2>1, ModLarge
  <2> QED
    BY <1>1, <1>2, <2>2 DEF Number
<1>3. CASE n # Modulus - 1
  <2>1. n + 1 \in 0 .. Modulus - 1
    BY <1>1, <1>3
  <2>2. (n + 1) % Modulus = n + 1
    BY <1>1, <2>1, ModSmall
  <2> QED
    BY <1>1, <1>3, <2>1, <2>2 DEF Number
<1> QED
  BY <1>2, <1>3

\* The event that was last is now the last but one.
LEMMA BehindMoves ==
  ASSUME NEW n \in Number, NEW k \in 0 .. Modulus - 3
  PROVE  Behind((n + 1) % Modulus, k + 1) = Behind(n, k)
<1>1. Modulus \in Nat \ {0} /\ n \in 0 .. Modulus - 1
  BY ShellAssumption DEF Number
<1> DEFINE m == (n + 1) % Modulus
<1>2. m \in Number /\ m = IF n = Modulus - 1 THEN 0 ELSE n + 1
  BY AfterIs
<1>3. Behind(m, k + 1) = IF m > k + 1 THEN m - 1 - (k + 1) ELSE m - 1 - (k + 1) + Modulus
  BY <1>1, <1>2, BehindIs
<1>4. Behind(n, k) = IF n > k THEN n - 1 - k ELSE n - 1 - k + Modulus
  BY <1>1, BehindIs
<1> QED
  BY <1>1, <1>2, <1>3, <1>4

\* The event that has just been accepted is the last one.
LEMMA BehindNew ==
  ASSUME NEW n \in Number
  PROVE  Behind((n + 1) % Modulus, 0) = n
<1>1. Modulus \in Nat /\ Modulus > 1 /\ n \in 0 .. Modulus - 1
  BY ShellAssumption DEF Number
<1> DEFINE m == (n + 1) % Modulus
<1>2. m \in Number /\ m = IF n = Modulus - 1 THEN 0 ELSE n + 1
  BY AfterIs
<1>3. Behind(m, 0) = IF m > 0 THEN m - 1 - 0 ELSE m - 1 - 0 + Modulus
  BY <1>1, <1>2, BehindIs
<1> QED
  BY <1>1, <1>2, <1>3

\* What the type invariant says of the queue and of the numbers.
LEMMA QueueType ==
  ASSUME TypeOK
  PROVE  /\ queue \in Seq(Event) /\ Len(queue) \in Nat /\ Len(queue) <= Capacity
         /\ next \in Number /\ next \in Nat /\ pending \in 0 .. Capacity
         /\ Capacity \in Nat \ {0} /\ Modulus \in Nat /\ Modulus > Capacity
<1>1. queue \in Seq(Event) /\ Len(queue) <= Capacity /\ next \in Number /\ pending \in 0 .. Capacity
  BY DEF TypeOK
<1>2. Len(queue) \in Nat
  BY <1>1
<1>3. next \in Nat
  BY <1>1, ShellAssumption DEF Number
<1> QED
  BY <1>1, <1>2, <1>3, ShellAssumption

\* A step that leaves the apps and the loop's other variables alone keeps their types.
LEMMA TypeStep ==
  ASSUME TypeOK, UNCHANGED <<appVars, running>>,
         queue' \in Seq(Event), Len(queue') <= Capacity, next' \in Number,
         dropped' \in 0 .. MaxDrops, pending' \in 0 .. Capacity,
         phase' \in {"tick", "dispatch", "switch", "stopped"}
  PROVE  TypeOK'
  BY DEF TypeOK, appVars

\* InOrder, by the number of successors.
LEMMA InOrderBehind ==
  ASSUME TypeOK
  PROVE  InOrder <=> \A i \in 1 .. Len(queue) : queue[i].n = Behind(next, Len(queue) - i)
<1>1. next \in Int /\ Len(queue) \in Int /\ Modulus \in Int
  BY QueueType
<1>2. \A i \in 1 .. Len(queue) : next - 1 - Len(queue) + i + Modulus = next - 1 - (Len(queue) - i) + Modulus
  BY <1>1
<1> QED
  BY <1>2 DEF InOrder, Behind

-----------------------------------------------------------------------------
LEMMA InitInv == Init => ShellInv
<1> SUFFICES ASSUME Init PROVE ShellInv
  OBVIOUS
<1> USE ShellAssumption
<1>1. queue \in Seq(Event) /\ Len(queue) = 0
  <2>1. queue = <<>>
    BY DEF Init
  <2> QED
    BY <2>1
<1>2. next \in Number /\ dropped \in 0 .. MaxDrops /\ pending \in 0 .. Capacity
  <2>1. next = 0 /\ dropped = 0 /\ pending = 0
    BY DEF Init
  <2> QED
    BY <2>1 DEF Number
<1>3. /\ phase \in {"tick", "dispatch", "switch", "stopped"}
      /\ active \in Apps \cup {"launcher"} /\ selected \in Rows \cup {Nobody}
      /\ exit \in BOOLEAN /\ running \in BOOLEAN /\ launch \in Apps \cup {""}
  BY DEF Init
<1>4. TypeOK
  <2>1. Len(queue) <= Capacity
    BY <1>1
  <2> QED
    BY <1>1, <1>2, <1>3, <2>1 DEF TypeOK
<1>5. Counted
  BY DEF Init, Counted
<1>6. InOrder
  BY <1>1 DEF InOrder
<1> QED
  BY <1>4, <1>5, <1>6 DEF ShellInv

\* What handling an event does to the app.
LEMMA HandleType ==
  ASSUME TypeOK, NEW e \in Kinds, Handle(e)
  PROVE  /\ selected' \in Rows \cup {Nobody} /\ exit' \in BOOLEAN
         /\ active' \in Apps \cup {"launcher"} /\ launch' \in Apps \cup {""}
<1>1. e.k = "up" => e.row \in Rows
  BY DEF Kinds
<1>2. selected' \in Rows \cup {Nobody}
  BY <1>1 DEF TypeOK, Handle
<1>3. exit' \in BOOLEAN
  BY DEF TypeOK, Handle
<1> QED
  BY <1>2, <1>3 DEF TypeOK, Handle

LEMMA PostInv == ShellInv /\ Post => ShellInv'
<1> SUFFICES ASSUME ShellInv, Post PROVE ShellInv'
  OBVIOUS
<1>1. /\ queue \in Seq(Event) /\ Len(queue) \in Nat
      /\ next \in Number /\ Len(queue) < Capacity /\ Capacity \in Nat
      /\ Modulus \in Nat /\ Modulus > Capacity
  BY QueueType DEF ShellInv, Post, Full
<1>2. PICK e \in Kinds : queue' = Append(queue, [n |-> next, e |-> e])
  BY DEF Post
<1>3. /\ queue' \in Seq(Event) /\ Len(queue') = Len(queue) + 1
      /\ queue'[Len(queue) + 1].n = next
      /\ \A i \in 1 .. Len(queue) : queue'[i] = queue[i]
  <2>1. [n |-> next, e |-> e] \in Event /\ [n |-> next, e |-> e].n = next
    BY <1>1 DEF Event
  <2> DEFINE new == [n |-> next, e |-> e]
  <2> HIDE DEF new
  <2>2. new \in Event /\ queue' = Append(queue, new) /\ new.n = next
    BY <1>2, <2>1 DEF new
  <2> QED
    BY <1>1, <2>2
<1>4. next' = (next + 1) % Modulus /\ next' \in Number
  BY <1>1, AfterIs DEF Post
<1>5. TypeOK'
  <2>1. dropped' \in 0 .. MaxDrops /\ pending' \in 0 .. Capacity
    BY DEF ShellInv, TypeOK, Post
  <2>2. phase' \in {"tick", "dispatch", "switch", "stopped"}
    BY DEF ShellInv, TypeOK, Post
  <2>3. Len(queue') <= Capacity
    BY <1>1, <1>3
  <2>4. TypeOK /\ UNCHANGED <<appVars, running>>
    BY DEF ShellInv, Post
  <2> QED
    BY <1>3, <1>4, <2>1, <2>2, <2>3, <2>4, TypeStep
<1>6. Counted'
  <2>1. pending \in Int /\ UNCHANGED <<phase, pending>> /\ Counted
    BY QueueType DEF ShellInv, Post
  <2> QED
    BY <1>1, <1>3, <2>1 DEF Counted
<1>7. ASSUME NEW i \in 1 .. Len(queue') PROVE queue'[i].n = Behind(next', Len(queue') - i)
  <2>1. CASE i = Len(queue) + 1
    BY <1>1, <1>3, <1>4, <2>1, BehindNew
  <2>2. CASE i \in 1 .. Len(queue)
    <3>1. queue[i].n = Behind(next, Len(queue) - i)
      BY <2>2, InOrderBehind DEF ShellInv
    <3>2. Len(queue) - i \in 0 .. Modulus - 3
      BY <1>1, <2>2
    <3>3. Behind(next', (Len(queue) - i) + 1) = Behind(next, Len(queue) - i)
      BY <1>1, <1>4, <3>2, BehindMoves
    <3>4. Len(queue') - i = (Len(queue) - i) + 1
      BY <1>1, <1>3, <2>2
    <3> QED
      BY <1>3, <2>2, <3>1, <3>3, <3>4
  <2> QED
    BY <1>1, <1>3, <2>1, <2>2
<1>8. InOrder'
  <2>1. \A i \in 1 .. Len(queue') : next' - 1 - (Len(queue') - i) + Modulus
                                      = next' - 1 - Len(queue') + i + Modulus
    BY <1>1, <1>3, <1>4 DEF Number
  <2> QED
    BY <1>7, <2>1 DEF InOrder, Behind
<1> QED
  BY <1>5, <1>6, <1>8 DEF ShellInv

LEMMA DispatchInv == ShellInv /\ Dispatch => ShellInv'
<1> SUFFICES ASSUME ShellInv, Dispatch PROVE ShellInv'
  OBVIOUS
<1>1. /\ queue \in Seq(Event) /\ Len(queue) \in Nat /\ Len(queue) <= Capacity
      /\ next \in Number /\ pending \in 1 .. Capacity /\ Capacity \in Nat
      /\ pending <= Len(queue) /\ Modulus \in Nat
  BY QueueType DEF ShellInv, Counted, Dispatch, More
<1>2. queue[1] \in Event
  BY <1>1
<1>3. queue' = [i \in 1 .. Len(queue) - 1 |-> queue[i + 1]]
  <2>1. \A i \in 1 .. Len(queue) - 1 : queue[IF i < Oldest THEN i ELSE i + 1] = queue[i + 1]
    BY DEF Oldest
  <2> QED
    BY <2>1 DEF Dispatch
<1>4. \A i \in 1 .. Len(queue) - 1 : queue[i + 1] \in Event
  BY <1>1
<1>5. queue' \in Seq(Event) /\ Len(queue') = Len(queue) - 1
  <2>1. Len(queue) - 1 \in Nat
    BY <1>1
  <2>2. queue' \in [1 .. Len(queue) - 1 -> Event]
    BY <1>3, <1>4
  <2> QED
    BY <2>1, <2>2
<1>6. \A i \in 1 .. Len(queue') : queue'[i] = queue[i + 1]
  BY <1>3, <1>5
<1>7. pending' = pending - 1
  BY <1>1 DEF Dispatch
<1>8. TypeOK'
  <2>1. Handle(queue[1].e) /\ queue[1].e \in Kinds
    BY <1>2 DEF Dispatch, Oldest, Event
  <2>2. /\ selected' \in Rows \cup {Nobody} /\ exit' \in BOOLEAN
        /\ active' \in Apps \cup {"launcher"} /\ launch' \in Apps \cup {""}
    BY <2>1, HandleType DEF ShellInv
  <2> QED
    <3>1. Len(queue') <= Capacity /\ pending' \in 0 .. Capacity
      BY <1>1, <1>5, <1>7
    <3>2. UNCHANGED <<next, dropped, phase, running>> /\ TypeOK
      BY DEF ShellInv, Dispatch
    <3> QED
      BY <1>5, <2>2, <3>1, <3>2 DEF TypeOK
<1>9. Counted'
  BY <1>1, <1>5, <1>7 DEF Counted
<1>10. InOrder'
  <2>1. next' = next
    BY DEF Dispatch
  <2>2. ASSUME NEW i \in 1 .. Len(queue')
        PROVE  queue'[i].n = (next' - 1 - Len(queue') + i + Modulus) % Modulus
    <3>1. i + 1 \in 1 .. Len(queue)
      BY <1>1, <1>5
    <3>2. queue[i + 1].n = (next - 1 - Len(queue) + (i + 1) + Modulus) % Modulus
      BY <3>1 DEF ShellInv, InOrder
    <3>3. next - 1 - Len(queue) + (i + 1) + Modulus = next' - 1 - Len(queue') + i + Modulus
      BY <1>1, <1>5, <2>1 DEF Number
    <3> QED
      BY <1>6, <3>2, <3>3
  <2> QED
    BY <2>2 DEF InOrder
<1> QED
  BY <1>8, <1>9, <1>10 DEF ShellInv

\* The steps that leave the queue and the numbers alone.
LEMMA QuietInv ==
  ASSUME ShellInv, UNCHANGED <<queue, next>>, TypeOK', Counted'
  PROVE  ShellInv'
  BY DEF ShellInv, InOrder

LEMMA FrameType == TypeOK /\ Frame => TypeOK'
<1> SUFFICES ASSUME TypeOK, Frame PROVE TypeOK'
  OBVIOUS
<1>1. \A i \in 0 .. Len(Registry) - 1 : Registry[i + 1] \in Apps
  BY DEF Apps, Registry
<1>2. launch' \in Apps \cup {""} /\ selected' \in Rows \cup {Nobody}
  <2>1. CASE Tapped /\ launch' = Registry[selected + 1] /\ selected' = Nobody
    BY <1>1, <2>1 DEF Tapped
  <2>2. CASE Leaving /\ launch' = "" /\ UNCHANGED selected
    BY <2>2 DEF TypeOK
  <2>3. CASE UNCHANGED <<launch, selected>>
    BY <2>3 DEF TypeOK
  <2> QED
    BY <2>1, <2>2, <2>3 DEF Frame
<1> QED
  BY <1>2 DEF TypeOK, Frame, inputVars

LEMMA NextInv == ShellInv /\ [Next]_vars => ShellInv'
<1> SUFFICES ASSUME ShellInv, [Next]_vars PROVE ShellInv'
  OBVIOUS
<1>1. CASE Post
  BY <1>1, PostInv
<1>2. CASE PostRefused
  <2>1. TypeOK' /\ Counted'
    <3>1. dropped' \in 0 .. MaxDrops
      <4>1. dropped \in 0 .. MaxDrops /\ dropped < MaxDrops /\ dropped' = dropped + 1
        BY <1>2 DEF ShellInv, TypeOK, PostRefused
      <4> QED
        BY <4>1, ShellAssumption
    <3>2. UNCHANGED <<queue, next, phase, pending, appVars, running>>
      BY <1>2 DEF PostRefused
    <3> QED
      BY <3>1, <3>2 DEF ShellInv, TypeOK, Counted, appVars
  <2> QED
    BY <1>2, <2>1, QuietInv DEF PostRefused
<1>3. CASE Tick
  <2>1. TypeOK' /\ Counted'
    <3>1. UNCHANGED <<queue, dropped, next, appVars, running>> /\ phase' = "dispatch" /\ TypeOK
      BY <1>3 DEF ShellInv, Tick, inputVars
    <3>2. pending' = Len(queue) /\ Len(queue) \in Nat /\ Len(queue) <= Capacity /\ Capacity \in Nat
      BY <1>3, <3>1, QueueType DEF Tick
    <3>3. pending' \in 0 .. Capacity
      BY <3>2
    <3>4. Len(queue') = Len(queue) /\ pending' <= Len(queue')
      BY <3>1, <3>2
    <3> QED
      BY <3>1, <3>3, <3>4 DEF TypeOK, Counted, appVars
  <2> QED
    BY <1>3, <2>1, QuietInv DEF Tick, inputVars
<1>4. CASE Dispatch
  BY <1>4, DispatchInv
<1>5. CASE Frame
  <2>1. TypeOK' /\ Counted'
    BY <1>5, FrameType DEF ShellInv, Counted, Frame
  <2> QED
    BY <1>5, <2>1, QuietInv DEF Frame, inputVars
<1>6. CASE Switch
  <2>1. active' \in Apps \cup {"launcher"} /\ selected' \in Rows \cup {Nobody}
    BY <1>6 DEF ShellInv, TypeOK, Switch, appVars
  <2>2. launch' \in Apps \cup {""} /\ exit' \in BOOLEAN
    BY <1>6 DEF ShellInv, TypeOK, Switch, appVars
  <2>3. TypeOK' /\ Counted'
    BY <1>6, <2>1, <2>2 DEF ShellInv, TypeOK, Counted, Switch, inputVars
  <2> QED
    BY <1>6, <2>3, QuietInv DEF Switch, inputVars
<1>7. CASE Stop
  <2>1. TypeOK' /\ Counted'
    BY <1>7 DEF ShellInv, TypeOK, Counted, Stop, inputVars, appVars
  <2> QED
    BY <1>7, <2>1, QuietInv DEF Stop, inputVars
<1>8. CASE Signal
  <2>1. TypeOK' /\ Counted'
    BY <1>8 DEF ShellInv, TypeOK, Counted, Signal, inputVars, appVars
  <2> QED
    BY <1>8, <2>1, QuietInv DEF Signal, inputVars
<1>9. CASE UNCHANGED vars
  <2>1. TypeOK' /\ Counted'
    BY <1>9 DEF ShellInv, TypeOK, Counted, vars, inputVars, appVars
  <2> QED
    BY <1>9, <2>1, QuietInv DEF vars, inputVars
<1> QED
  BY <1>1, <1>2, <1>3, <1>4, <1>5, <1>6, <1>7, <1>8, <1>9 DEF Next, UiLoop

\* Whatever drivers post and the user taps, the invariant holds.
THEOREM Invariance == Spec => []ShellInv
  BY InitInv, NextInv, PTL DEF Spec

\* The queue never holds more than its capacity, and the loop, the apps and the
\* launcher are in one of their states.
THEOREM TypeCorrect == Spec => []TypeOK
<1>1. ShellInv => TypeOK
  BY DEF ShellInv
<1> QED
  BY Invariance, <1>1, PTL

\* Drivers may post between any two steps of the loop: the queue holds the last
\* accepted events, in order and without a gap.
THEOREM OrderKept == Spec => []InOrder
<1>1. ShellInv => InOrder
  BY DEF ShellInv
<1> QED
  BY Invariance, <1>1, PTL

\* dispatchPending() finds an event for each it counted at the tick, although drivers
\* post meanwhile.
THEOREM NeverPopsEmpty == Spec => [](phase = "dispatch" /\ pending > 0 => queue # <<>>)
<1>1. ShellInv => (phase = "dispatch" /\ pending > 0 => queue # <<>>)
  BY QueueType DEF ShellInv, Counted
<1> QED
  BY Invariance, <1>1, PTL
=============================================================================
