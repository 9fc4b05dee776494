-------------------------------- MODULE Shell --------------------------------
(***************************************************************************)
(* The shell: driver threads that post input, the bounded EventQueue, the  *)
(* UI loop of the composition root and the apps it switches between.       *)
(*                                                                         *)
(*   services/appfw/src/EventQueue.cpp, apps/launcher/src/main.cpp,        *)
(*   apps/launcher/src/LauncherApp.cpp, apps/settings/src/SettingsApp.cpp, *)
(*   apps/engineering_scout/src/EngineeringScoutApp.cpp (its input)        *)
(*                                                                         *)
(* What the apps draw is left out.  Accepted events carry a number, modulo *)
(* Modulus, so that drivers may post for ever.                             *)
(***************************************************************************)
EXTENDS Integers, Sequences

CONSTANTS
  Capacity,  \* of the queue (128 in the code)
  Modulus,   \* of the event numbers
  MaxDrops   \* bound on the events the full queue refuses

ASSUME ShellAssumption ==
  /\ Capacity \in Nat \ {0}
  /\ Modulus \in Nat /\ Modulus > Capacity
  /\ MaxDrops \in Nat

VARIABLES
  queue, dropped,  \* events_ and droppedCount_
  next,            \* number of the next accepted event
  phase,           \* where the UI loop is
  pending,         \* events dispatchPending() still has to deliver
  active,          \* the active app
  selected,        \* the launcher's selectedIndex_
  exit,            \* exitRequested_ of the active app
  launch,          \* pendingLaunch: an id, or "" for none
  running          \* g_running

inputVars == <<queue, dropped, next>>
appVars   == <<active, selected, exit, launch>>
vars == <<inputVars, phase, pending, appVars, running>>

\* The registry, in order of registration; an app's row on the launcher.
Registry == <<"settings", "scout">>
Apps     == {Registry[i] : i \in 1 .. Len(Registry)}
Rows     == 0 .. Len(Registry)
Nobody   == -1

\* Taps end with Up; the other touch events, and releases, are ignored.  Button
\* 1 is the one the Scout app reloads on.
Kinds  == [k : {"up"}, row : Rows] \cup [k : {"press"}, button : {0, 1}] \cup [k : {"other"}]
Number == 0 .. Modulus - 1
Event  == [n : Number, e : Kinds]

TypeOK ==
  /\ queue \in Seq(Event) /\ Len(queue) <= Capacity
  /\ dropped \in 0 .. MaxDrops /\ next \in Number
  /\ phase \in {"tick", "dispatch", "switch", "stopped"}
  /\ pending \in 0 .. Capacity
  /\ active \in Apps \cup {"launcher"}
  /\ selected \in Rows \cup {Nobody}
  /\ exit \in BOOLEAN /\ running \in BOOLEAN
  /\ launch \in Apps \cup {""}

Init ==
  /\ queue = <<>> /\ dropped = 0 /\ next = 0
  /\ phase = "tick" /\ pending = 0
  /\ active = "launcher" /\ selected = Nobody /\ exit = FALSE
  /\ launch = "" /\ running = TRUE

-----------------------------------------------------------------------------
(* Driver threads                                                          *)

\* (OneTooMany: the queue holds one event more.)
OneTooMany == Len(queue) > Capacity
Full       == Len(queue) >= Capacity

Post ==
  /\ ~Full
  /\ \E e \in Kinds : queue' = Append(queue, [n |-> next, e |-> e])
  /\ next' = (next + 1) % Modulus
  /\ UNCHANGED <<dropped, phase, pending, appVars, running>>

PostRefused ==
  /\ Full /\ dropped < MaxDrops
  /\ dropped' = dropped + 1
  /\ UNCHANGED <<queue, next, phase, pending, appVars, running>>

-----------------------------------------------------------------------------
(* The UI loop: dispatchPending(), onFrame(), the switch                   *)

Tick ==
  /\ phase = "tick" /\ running
  /\ pending' = Len(queue) /\ phase' = "dispatch"
  /\ UNCHANGED <<inputVars, appVars, running>>

\* onTouch() and onButton() of the active app.
Handle(e) ==
  /\ selected' = IF active = "launcher" /\ e.k = "up" THEN e.row ELSE selected
  /\ exit' = \/ exit
             \/ active = "settings" /\ e.k = "press"
             \/ active = "scout" /\ e.k = "press" /\ e.button # 1
  /\ UNCHANGED <<active, launch>>

\* The events that were there at the tick.  (UntilEmpty: it goes on while there
\* are any.  AllButOne: it stops one short.)
UntilEmpty == queue # <<>>
AllButOne  == pending > 1
More       == pending > 0

\* (Newest: pop_back() for pop_front().)
Newest == Len(queue)
Oldest == 1

Dispatch ==
  /\ phase = "dispatch" /\ More
  /\ pending' = IF pending > 0 THEN pending - 1 ELSE 0
  /\ Handle(queue[Oldest].e)
  /\ queue' = [i \in 1 .. Len(queue) - 1 |-> queue[IF i < Oldest THEN i ELSE i + 1]]
  /\ UNCHANGED <<dropped, next, phase, running>>

\* A row of the launcher that was tapped starts its app; an app that was asked
\* to exit requests the empty id.
Tapped  == active = "launcher" /\ selected \in 0 .. Len(Registry) - 1
Leaving == active # "launcher" /\ exit

Frame ==
  /\ phase = "dispatch" /\ ~More
  /\ phase' = "switch"
  /\ \/ Tapped /\ launch' = Registry[selected + 1] /\ selected' = Nobody
     \/ Leaving /\ launch' = "" /\ UNCHANGED selected
     \/ ~Tapped /\ ~Leaving /\ UNCHANGED <<launch, selected>>
  /\ UNCHANGED <<inputVars, pending, active, exit, running>>

\* onStop(), then onStart() of the next app, the launcher for an id that is not
\* registered; the loop sleeps and goes round.
Switch ==
  /\ phase = "switch" /\ phase' = "tick"
  /\ \/ launch = "" /\ UNCHANGED appVars
     \/ /\ launch # "" /\ launch' = "" /\ exit' = FALSE
        /\ active' = IF launch \in Apps THEN launch ELSE "launcher"
        /\ selected' = IF launch \in Apps THEN selected ELSE Nobody
  /\ UNCHANGED <<inputVars, pending, running>>

\* SIGINT or SIGTERM; the loop sees it at its next turn.
Signal ==
  /\ running /\ running' = FALSE
  /\ UNCHANGED <<inputVars, phase, pending, appVars>>

Stop ==
  /\ phase = "tick" /\ ~running /\ phase' = "stopped"
  /\ UNCHANGED <<inputVars, pending, appVars, running>>

UiLoop == Tick \/ Dispatch \/ Frame \/ Switch \/ Stop

Next == Post \/ PostRefused \/ UiLoop \/ Signal

Spec == Init /\ [][Next]_vars

\* The UI thread runs; drivers and the user need not do anything.
FairSpec == Spec /\ WF_vars(UiLoop)

-----------------------------------------------------------------------------
(* Properties                                                              *)

\* Events are delivered in the order in which they were accepted and none is
\* lost or invented between: the queue always holds the last ones accepted.
InOrder == \A i \in 1 .. Len(queue) :
             queue[i].n = (next - 1 - Len(queue) + i + Modulus) % Modulus

\* However fast the drivers post, the UI loop comes round to draw a frame.
FramesGoOn == []<>(phase = "switch" \/ ~running)

\* An event the queue accepted reaches the active app.
Delivered == \A k \in Number :
               (\E i \in 1 .. Len(queue) : queue[i].n = k)
                 ~> (\A i \in 1 .. Len(queue) : queue[i].n # k) \/ ~running

\* "Any button press exits back to the launcher": an app that was asked to exit
\* is left for the launcher.
ExitGoesHome == exit ~> active = "launcher" \/ ~running
=============================================================================
