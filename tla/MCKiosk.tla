------------------------------ MODULE MCKiosk ------------------------------
(* A small instance of Kiosk: two webcams.  The first has a node that      *)
(* offers nothing measurable before the one that does, the second has no   *)
(* mode of the validated size.                                             *)
EXTENDS Kiosk

M(f, w) == [format |-> f, width |-> w]

TwoWebcams == { << <<M("mjpeg", 640)>>, <<M("mjpeg", 640), M("yuyv", 1280), M("yuyv", 640)>> >>,
                << <<M("yuyv", 320)>> >> }

\* Widths and heights of panels and monitors; each is used both ways.
Sides        == {<<320, 240>>, <<640, 480>>, <<800, 480>>, <<1024, 600>>, <<1280, 400>>,
                 <<1280, 720>>, <<1280, 800>>, <<1280, 1024>>, <<1920, 480>>, <<1920, 1080>>,
                 <<3840, 2160>>, <<480, 480>>}
AllDisplays  == Sides \cup {<<d[2], d[1]>> : d \in Sides}
=============================================================================
