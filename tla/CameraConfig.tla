---------------------------- MODULE CameraConfig ----------------------------
(***************************************************************************)
(* Which input of a camera ffmpeg is told to open: enumeration             *)
(* (camera_enum.cpp, camera_formats.cpp), the sources of a configuration   *)
(* and their order (main.cpp, known_cameras.cpp, camera_probe.cpp), the    *)
(* command line (camera_config.cpp) and the two dropdowns of the host      *)
(* (CameraInfo.cs, MainWindow.xaml.cs).                                    *)
(*                                                                         *)
(* A name is a sequence of characters, for two of them may have one slug   *)
(* and so one override file.  A configuration, an override and an update   *)
(* are functions from fields to values, partial for the last two: what is  *)
(* not set is not in the domain.  fps goes the way of width and height     *)
(* and is left out.  Cameras have different names here (Supervisor has the *)
(* ones that do not), so that the list of slots is a function; a list of   *)
(* formats is sorted and has no repeats, and is the set of them.           *)
(***************************************************************************)
EXTENDS Integers, SequencesExt

CONSTANTS
  Machines,   \* what may be plugged in, in the order ffmpeg lists it
  AlNum,      \* the characters a slug keeps
  Virtual,    \* names with "virtual" in them
  Usb,        \* alternative names with a USB vendor and product
  Known,      \* config/known-cameras.json: configurations by vendor and product
  Files,      \* override files as they may be found at first
  ClientModes, Sizes,  \* modes and sizes, also partial ones, other clients ask for
  Static,     \* Resolutions.All
  MaxSets     \* bound: changes of a camera

\* Fields of a configuration but for "enabled", and those of a size.
Fields == {"mode", "w", "h"}
Dims == {"w", "h"}

Mjpeg == "transcode_mjpeg_to_h264"
RawMode == "transcode_raw_to_h264"
UiModes == {Mjpeg, RawMode}
Modes == UiModes \cup {"passthrough_mjpeg", "passthrough_h264", "transcode_raw_to_mjpeg"}

\* compressed before raw, then by name
Codecs == <<"h264", "mjpeg", "nv12", "yuyv422">>
Format == [codec : Range(Codecs), w : Nat, h : Nat]

\* f, and g where f says nothing; TLC has this without a definition to prove with.
Over(f, g) == [x \in DOMAIN f \cup DOMAIN g |-> IF x \in DOMAIN f THEN f[x] ELSE g[x]]

CamerasOf(m) == {m[i] : i \in {i \in DOMAIN m : m[i].kind = "video"}}

ASSUME CameraConfigAssumption ==
  /\ MaxSets \in Nat
  /\ \A m \in Machines :
       /\ Len(m) \in Nat \ {0} /\ DOMAIN m = 1..Len(m)
       /\ \A i \in DOMAIN m : m[i].kind \in {"video", "audio", "none"} /\ m[i].formats \in Seq(Format)
       /\ \A i, j \in DOMAIN m :
            {m[i].kind, m[j].kind} = {"video"} /\ m[i].name = m[j].name => i = j
  /\ \A v \in DOMAIN Known : DOMAIN Known[v] = Fields
  /\ \A f \in Files : DOMAIN f \subseteq Fields \cup {"enabled"}
  /\ ClientModes \subseteq Modes
  /\ \A size \in Sizes : DOMAIN size \subseteq Dims
  /\ \A size \in Static : DOMAIN size = Dims

VARIABLES
  machine,    \* what is or will be plugged in
  plugged,    \* how many of them are
  files,      \* override files by slug; no file and an empty one mean the same
  up,         \* the supervisor runs
  slots,      \* its cameras by name, or those of the last run
  row,        \* the modes the host shows
  sets,       \* changes so far
  unsaved,    \* history: names with a change that did not reach the disk
  fits        \* history: names whose mode and size come from their own formats

vars == <<machine, plugged, files, up, slots, row, sets, unsaved, fits>>

-----------------------------------------------------------------------------
(* Enumeration.                                                            *)

\* Runs of other characters become one dash, none at the end.
Slug(name) ==
  LET Add(out, c) == CASE c \in AlNum -> Append(out, c)
                       [] out # <<>> /\ Last(out) = "-" -> out
                       [] OTHER -> Append(out, "-")
      s == FoldLeft(Add, <<>>, name)
  IN  IF s # <<>> /\ Last(s) = "-" THEN Front(s) ELSE s

\* What ffmpeg prints: for each device its line and its alternative name's, or,
\* if it has none, a line that is neither.
DeviceLine(d) == [kind |-> d.kind, text |-> d.name]
AltLine(d) == [kind |-> IF d.alt = "" THEN "other" ELSE "alt", text |-> d.alt]
Listing ==
  [k \in 1..(2 * plugged) |->
     LET d == machine[(k + 1) \div 2] IN IF k % 2 = 1 THEN DeviceLine(d) ELSE AltLine(d)]

\* An alternative name belongs to the device before it, of whatever kind.
AttachAlways(st, line) ==                           \* mutant
  CASE line.kind = "video" ->
         [out |-> Append(st.out, [name |-> line.text, alt |-> ""]), last |-> TRUE]
    [] line.kind = "alt" /\ st.out # <<>> -> [st EXCEPT !.out[Len(st.out)].alt = line.text]
    [] OTHER -> st
Attach(st, line) ==
  CASE line.kind = "video" ->
         [out |-> Append(st.out, [name |-> line.text, alt |-> ""]), last |-> TRUE]
    [] line.kind = "alt" /\ st.last ->
         [out |-> [st.out EXCEPT ![Len(st.out)] = [name |-> @.name, alt |-> line.text]],
          last |-> FALSE]
    [] line.kind \in {"audio", "none"} -> [st EXCEPT !.last = FALSE]
    [] OTHER -> st

\* The loop over the lines: what it has after each of them.
Parsing(lines) ==
  LET st[k \in 0..Len(lines)] ==
        IF k = 0 THEN [out |-> <<>>, last |-> FALSE] ELSE Attach(st[k - 1], lines[k])
  IN  st
ParseFfmpegDshowList(lines) == Parsing(lines)[Len(lines)].out

VidPid(alt) == IF alt \in Usb THEN alt ELSE ""

EnumerateCameras ==
  {[name |-> d.name, vidpid |-> VidPid(d.alt)] :
     d \in {d \in Range(ParseFfmpegDshowList(Listing)) : d.name \notin Virtual}}

RawCodecs == {"nv12", "yuyv422"}
Raw(f) == f.codec \in RawCodecs
Place(c) == CHOOSE i \in DOMAIN Codecs : Codecs[i] = c
Before(f, g) ==
  LET F == <<Place(f.codec), f.w, f.h>>
      G == <<Place(g.codec), g.w, g.h>>
  IN  \E i \in 1..3 : F[i] < G[i] /\ \A j \in 1..(i - 1) : F[j] = G[j]

\* The device's own lines may come in any order and more than once.
EnumerateFormats(d) == Range(d.formats)

-----------------------------------------------------------------------------
(* Modes and the configuration.                                            *)

\* What the command line asks the device for.
BuildFFmpegArgs(c) ==
  [codec |-> CASE c.mode = "passthrough_h264" -> "h264"
               [] c.mode \in {RawMode, "transcode_raw_to_mjpeg"} -> "yuyv422"
               [] OTHER -> "mjpeg",
   w |-> c.w, h |-> c.h]

\* The largest of a set; the first where several are the largest.
Area(f) == f.w * f.h
Largest(fs) == CHOOSE f \in fs :
  \A g \in fs \ {f} : Area(g) < Area(f) \/ (Area(g) = Area(f) /\ Before(f, g))

\* Of the formats with one of the codecs the one of 640x480, else the largest no
\* wider and no higher, else the largest.  A sequence of at most one.
PickBest(formats, codecs) ==
  LET fs == {f \in formats : f.codec \in codecs}
      exact == {f \in fs : f.w = 640 /\ f.h = 480}
      small == {f \in fs : f.w <= 640 /\ f.h <= 480}
  IN  CASE exact # {} -> <<Largest(exact)>>
        [] exact = {} /\ small # {} -> <<Largest(small)>>
        [] OTHER -> IF fs = {} THEN <<>> ELSE <<Largest(fs)>>

PickDefaultFromFormats(formats) ==
  LET mjpeg == PickBest(formats, {"mjpeg"})
      raw == PickBest(formats, RawCodecs)
  IN  CASE mjpeg # <<>> -> [mode |-> Mjpeg, w |-> mjpeg[1].w, h |-> mjpeg[1].h]
        [] mjpeg = <<>> /\ raw # <<>> -> [mode |-> RawMode, w |-> raw[1].w, h |-> raw[1].h]
        [] OTHER -> [mode |-> Mjpeg, w |-> 640, h |-> 480]

\* LoadOverride: a mode it does not know is as good as none.
LoadOverride(slug) ==
  LET f == files[slug]
  IN  Restrict(f, {k \in DOMAIN f : k = "mode" => f[k] \in Modes})

KnownFor(vidpid) == vidpid \in DOMAIN Known /\ Known[vidpid].mode \in Modes

Base(vidpid, formats) ==
  IF KnownFor(vidpid) THEN Known[vidpid] ELSE PickDefaultFromFormats(formats)

\* Per field: the override, the known camera, the smart pick; new cameras are
\* enabled.  A mode the dropdown does not have becomes the one for mjpeg.
Resolve(name, vidpid, formats) ==
  LET cfg == Over(LoadOverride(Slug(name)), Over(Base(vidpid, formats), [enabled |-> TRUE]))
  IN  [cfg EXCEPT !.mode = IF @ \in UiModes THEN @ ELSE Mjpeg]

\* SaveOverride: what is there is read and overlaid, the file truncated and
\* written when it is closed; nobody looks at the outcome.
SaveOverrideNoMerge(name, update) ==                \* mutant
  \/ files' = [files EXCEPT ![Slug(name)] = update] /\ UNCHANGED unsaved
  \/ files' \in {files, [files EXCEPT ![Slug(name)] = <<>>]} /\ unsaved' = unsaved \cup {name}
SaveOverride(name, update) ==
  \/ /\ files' = [files EXCEPT ![Slug(name)] = Over(update, LoadOverride(Slug(name)))]
     /\ UNCHANGED unsaved
  \/ /\ files' \in {files, [files EXCEPT ![Slug(name)] = <<>>]}
     /\ unsaved' = unsaved \cup {name}

-----------------------------------------------------------------------------
Cfg(s) == [mode |-> s.mode, w |-> s.w, h |-> s.h, enabled |-> s.enabled]
Cameras == CamerasOf(machine)
NamesOf(ds) == {d.name : d \in ds}
Device(n) == CHOOSE d \in Cameras : d.name = n

\* No other camera writes this one's override file.
OwnFile(n) == \A m \in NamesOf(Cameras) : m # n => Slug(m) # Slug(n)

Init ==
  /\ machine \in Machines /\ plugged \in 1..Len(machine)
  /\ files \in [{Slug(n) : n \in NamesOf(Cameras)} -> Files]
  /\ up = FALSE /\ slots = <<>> /\ row = <<>> /\ sets = 0 /\ unsaved = {} /\ fits = {}

\* A slot for each device; the format listing may come back empty.
NewSlots(devices, listed) ==
  [n \in NamesOf(devices) |->
     LET d == CHOOSE d \in devices : d.name = n
         fs == IF n \in listed THEN EnumerateFormats(Device(n)) ELSE {}
     IN  Over([vidpid |-> d.vidpid, formats |-> fs], Resolve(n, d.vidpid, fs))]

\* A new slot's mode and size come from its formats if nothing else decides
\* them and one of them is of use, or as before if all three are on the disk.
FitsAnew(n, s) ==
  LET ov == DOMAIN LoadOverride(Slug(n)) \ {"enabled"}
  IN  \/ ov = {} /\ ~KnownFor(s.vidpid) /\ \E f \in s.formats : f.codec # "h264"
      \/ /\ ov = Fields /\ n \in fits \ unsaved /\ OwnFile(n)
         /\ files[Slug(n)].mode \in UiModes

Adds(old, devices) ==
  /\ devices # {}
  /\ \E listed \in SUBSET NamesOf(devices) :
       LET new == NewSlots(devices, listed)
       IN  /\ slots' = Over(new, old)
           /\ fits' = (fits \cap DOMAIN old) \cup {n \in DOMAIN new : FitsAnew(n, new[n])}
  /\ row' = [n \in DOMAIN slots' |-> slots'[n].mode]
  /\ UNCHANGED <<machine, plugged, files, sets>>

Starts ==
  /\ ~up /\ up' = TRUE
  /\ Adds(<<>>, EnumerateCameras) /\ unsaved' = {}

\* Re-enumeration finds new cameras.
Discovers ==
  /\ up /\ Adds(slots, {d \in EnumerateCameras : d.name \notin DOMAIN slots})
  /\ UNCHANGED <<up, unsaved>>

Plugs ==
  /\ plugged < Len(machine) /\ plugged' = plugged + 1
  /\ UNCHANGED <<machine, files, up, slots, row, sets, unsaved, fits>>

Dies ==
  /\ up /\ up' = FALSE
  /\ UNCHANGED <<machine, plugged, files, slots, row, sets, unsaved, fits>>

\* The handlers of set-mode and set-stream-enabled.
Set(n, update) ==
  /\ up /\ sets < MaxSets /\ sets' = sets + 1
  /\ slots' = [slots EXCEPT ![n] = Over(update, @)]
  /\ SaveOverride(n, update)
  /\ UNCHANGED <<machine, plugged, up, row>>

\* Any client, any mode, a size or none.
SetMode(n, m, size) ==
  /\ Set(n, Over([mode |-> m], size)) /\ fits' = fits \ {n}

SetStreamEnabled(n, want) == Set(n, [enabled |-> want]) /\ UNCHANGED fits

-----------------------------------------------------------------------------
(* The host.                                                               *)

\* Sizes offered for the mode the row shows.
AvailableResolutionsUnfiltered(formats, m) ==       \* mutant
  {[w |-> f.w, h |-> f.h] : f \in formats}
AvailableResolutions(formats, m) ==
  LET Fits(f) == CASE m \in {Mjpeg, "passthrough_mjpeg"} -> f.codec = "mjpeg"
                   [] m = "passthrough_h264" -> f.codec = "h264"
                   [] OTHER -> Raw(f)
  IN  {[w |-> f.w, h |-> f.h] : f \in {g \in formats : Fits(g)}}

\* The row hears of a change.
RowFollows(n) ==
  /\ up /\ row' = [row EXCEPT ![n] = slots[n].mode]
  /\ row' # row
  /\ UNCHANGED <<machine, plugged, files, up, slots, sets, unsaved, fits>>

\* The mode dropdown leaves the size as it is.
PicksMode(n, m) == m # row[n] /\ SetMode(n, m, <<>>)

\* The other sends the size with the mode the row shows; if there is nothing to
\* offer, it has a fixed list.
PicksResolution(n) ==
  LET offered == AvailableResolutions(slots[n].formats, row[n])
  IN  \E size \in (IF offered = {} THEN Static ELSE offered) :
        /\ Set(n, Over([mode |-> row[n]], size))
        /\ fits' = IF offered = {} THEN fits \ {n} ELSE fits \cup {n}

-----------------------------------------------------------------------------
Next ==
  \/ Starts \/ Discovers \/ Plugs \/ Dies
  \/ \E n \in DOMAIN slots :
       \/ RowFollows(n) \/ PicksResolution(n)
       \/ \E m \in UiModes : PicksMode(n, m)
       \/ \E m \in ClientModes, size \in Sizes : SetMode(n, m, size)
       \/ \E want \in BOOLEAN : SetStreamEnabled(n, want)

Spec == Init /\ [][Next]_vars

-----------------------------------------------------------------------------
(* Properties.                                                             *)

\* A camera is looked up under its own vendor and product, whatever devices of
\* whatever kind ffmpeg lists around it (camera_enum.cpp:21-26).
OwnIdentity == \A n \in DOMAIN slots : slots[n].vidpid = VidPid(Device(n).alt)

\* The camera has what ffmpeg is told to open.
Opens(n, c) ==
  LET in == BuildFFmpegArgs(c)
  IN  \E f \in Range(Device(n).formats) :
        f.w = in.w /\ f.h = in.h /\ (f.codec = in.codec \/ (Raw(f) /\ Raw(in)))

\* Where mode and size were picked from the camera's formats, by the supervisor
\* for a new camera or by the user in the resolution dropdown, ffmpeg is told to
\* open something the camera has, also after restarts and whatever else was
\* saved; for raw modes, something it has in some pixel format: yuyv422 is what
\* is asked for (main.cpp:399-408; CameraInfo.cs:72-76; MainWindow.xaml:347-355).
PicksCanBeOpened == up => \A n \in DOMAIN slots \cap fits : Opens(n, slots[n])

\* A restart, or a crash and a restart, brings every camera up as it was, field
\* by field, wherever each comes from; but for modes the dropdown does not have,
\* changes that were not saved, formats that are listed differently, and names
\* that share a slug (main.cpp:415-438; camera_probe.cpp:76-92).
RestartKeepsAll == [][Starts =>
  \A n \in DOMAIN slots \cap DOMAIN slots' :
    LET old == slots[n]
        new == slots'[n]
    IN  n \notin unsaved /\ OwnFile(n) /\ old.formats = new.formats
          /\ old.mode \in UiModes
        => Cfg(new) = Cfg(old)]_vars

=============================================================================
