----------------------------- MODULE MCDisplay -----------------------------
(* A small instance of DrmDisplay: a panel of three by two pixels, an axis *)
(* whose readings overshoot it, and a monitor beside or without the panel. *)
EXTENDS DrmDisplay

Mode(w, h, hz, p) == [width |-> w, height |-> h, hz |-> hz, preferred |-> p]
Connector(t, c, m) == [type |-> t, connected |-> c, modes |-> m]

Monitor == Connector("DP", TRUE, <<Mode(5, 4, 60, FALSE), Mode(4, 3, 60, TRUE)>>)
Panel   == Connector("DSI", TRUE, <<Mode(3, 2, 60, TRUE)>>)
Unlit   == Connector("DSI", TRUE, <<>>)

MCOutputs == {<<Monitor, Panel>>, <<Unlit, Monitor>>, <<>>}

MCDraws == [rects |-> {<<-1, 0, 1, 1>>, <<1, 1, 5, 3>>},
            ends  |-> {<<-1, 1>>, <<2, 0>>},
            glyph |-> {<<0, 0>>, <<1, 1>>}]

\* The renderer, the input thread and the CRTC share nothing: a run looks at the
\* drawing of a program that is not touched, or at the touches of one that draws
\* nothing and found a dark panel or a console.
OneHalf == \/ /\ stale = {} /\ dirtyRect \in {Clean, Whole}
              /\ "touch" \in held => savedCrtc \in {"none", "console"}
           \/ "touch" \notin held /\ ~ finger /\ device = 0
=============================================================================
