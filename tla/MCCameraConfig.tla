--------------------------- MODULE MCCameraConfig ---------------------------
(* Four machines.  In the first a virtual camera, one that is known, and its *)
(* microphone, with the same name and an alternative name of its own; in the *)
(* second a camera with more formats; in the third two names with one slug,  *)
(* one of them with raw formats only; in the last a camera without a format  *)
(* that is of use.                                                           *)
EXTENDS CameraConfig

F(codec, w, h) == [codec |-> codec, w |-> w, h |-> h]

Cam(name, alt, formats) == [kind |-> "video", name |-> name, alt |-> alt, formats |-> formats]
Mic == [kind |-> "audio", name |-> <<"a">>, alt |-> "wave", formats |-> <<>>]
Obs == Cam(<<"o", "v">>, "", <<>>)

MCMachines ==
  {<<Obs, Cam(<<"a">>, "usb", <<F("mjpeg", 640, 480), F("yuyv422", 320, 240)>>), Mic>>,
   <<Cam(<<"b">>, "pci", <<F("yuyv422", 320, 240), F("mjpeg", 1280, 720),
                            F("h264", 1280, 720), F("mjpeg", 1280, 720)>>),
     [Mic EXCEPT !.kind = "none"]>>,
   <<Cam(<<"c", "(">>, "", <<F("yuyv422", 1280, 720), F("yuyv422", 320, 240)>>),
     Cam(<<"c">>, "", <<F("mjpeg", 320, 240)>>)>>,
   <<Mic, Cam(<<"b">>, "", <<F("h264", 1280, 720)>>)>>}

MCKnown == "usb" :> [mode |-> "passthrough_h264", w |-> 1280, h |-> 720]
MCVirtual == {<<"o", "v">>}
MCFiles == {<<>>, [mode |-> "junk", w |-> 320]}
MCSizes == {<<>>, [w |-> 320]}
MCStatic == {[w |-> 640, h |-> 480], [w |-> 1280, h |-> 720]}
=============================================================================
