------------------------- MODULE CameraConfig_proofs -------------------------
(* Proofs about CameraConfig, for any machines, profiles, files and sizes   *)
(* its assumptions allow.                                                   *)
EXTENDS CameraConfig, FiniteSetTheorems, FunctionTheorems, WellFoundedInduction, TLAPS

\* What there is: slots, rows and files are of cameras of the machine, and have
\* the fields a configuration or an override has.
SlotFields == Fields \cup {"enabled", "vidpid", "formats"}
TypeOK ==
  /\ machine \in Machines /\ plugged \in 1..Len(machine)
  /\ DOMAIN files = {Slug(n) : n \in NamesOf(Cameras)}
  /\ \A s \in DOMAIN files : DOMAIN files[s] \subseteq Fields \cup {"enabled"}
  /\ DOMAIN slots \subseteq NamesOf(Cameras) /\ DOMAIN row = DOMAIN slots
  /\ \A n \in DOMAIN slots :
       /\ DOMAIN slots[n] = SlotFields
       /\ slots[n].mode \in Modes /\ row[n] \in Modes
       /\ slots[n].formats \subseteq Range(Device(n).formats)
  /\ fits \subseteq DOMAIN slots

\* A slot is what its override, its profile and its formats make of it; a mode
\* the dropdown does not have becomes the one for mjpeg.
Keeps(s, ov) ==
  LET base == Base(s["vidpid"], s["formats"])
      m == IF "mode" \in DOMAIN ov THEN ov["mode"] ELSE base["mode"]
  IN  /\ \A k \in {"w", "h"} : s[k] = IF k \in DOMAIN ov THEN ov[k] ELSE base[k]
      /\ s["enabled"] = IF "enabled" \in DOMAIN ov THEN ov["enabled"] ELSE TRUE
      /\ s["mode"] \in UiModes => s["mode"] = IF m \in UiModes THEN m ELSE Mjpeg

\* So is every slot at all times, unless a change of it was not saved.
KeepInv ==
  \A n \in DOMAIN slots \ unsaved : OwnFile(n) => Keeps(slots[n], LoadOverride(Slug(n)))

\* One of the formats is what a configuration asks for.
Has(formats, c) ==
  LET in == BuildFFmpegArgs(c)
  IN  \E f \in formats : f.w = in.w /\ f.h = in.h /\ (f.codec = in.codec \/ (Raw(f) /\ Raw(in)))

\* Mode and size that were picked from a camera's formats ask for one of them, in
\* the slot and, if all three are there, in the file.
FormatsOf(n) == Range(Device(n).formats)
FitInv ==
  /\ \A n \in fits : Has(FormatsOf(n), slots[n])
  /\ \A n \in fits \ unsaved :
       LET ov == LoadOverride(Slug(n))
       IN  OwnFile(n) /\ Fields \subseteq DOMAIN ov /\ ov["mode"] \in UiModes
             => Has(FormatsOf(n), ov)

-----------------------------------------------------------------------------
(* Induction, as the existence of a least counterexample.                    *)

LEMMA LeastNat ==
  ASSUME NEW T, T \subseteq Nat, T # {}
  PROVE \E x \in T : \A y \in T : x <= y
<1> DEFINE R == OpToRel(<, Nat)
<1>1. IsWellFoundedOn(R, Nat)
  BY NatLessThanWellFounded, Zenon
<1>2. PICK x \in T : \A y \in T : <<y, x>> \notin R
  BY <1>1, WFMin, Zenon
<1>3. \A y \in T : ~(y < x)
  BY <1>2 DEF OpToRel
<1> QED
  BY <1>3

\* A set that has 0 and with each number below n the next has all up to n.
LEMMA UpTo ==
  ASSUME NEW n \in Nat, NEW S, 0 \in S, \A k \in 1..n : k - 1 \in S => k \in S
  PROVE  0..n \subseteq S
<1> DEFINE T == {k \in 0..n : k \notin S}
<1>1. SUFFICES ASSUME T # {} PROVE FALSE
  OBVIOUS
<1>2. PICK x \in T : \A y \in T : x <= y
  <2>1. T \subseteq Nat
    OBVIOUS
  <2> QED
    BY <1>1, <2>1, LeastNat
<1>3. x \in 1..n
  BY <1>2
<1>4. x - 1 \in 0..n /\ ~(x <= x - 1)
  BY <1>3
<1>5. x - 1 \in S
  BY <1>2, <1>4
<1> QED
  BY <1>2, <1>3, <1>5

-----------------------------------------------------------------------------
(* The parser.                                                               *)

Nobody == [out |-> <<>>, last |-> FALSE]

\* Parsing does what its equation says.
LEMMA ParsingStep ==
  ASSUME NEW lines, Len(lines) \in Nat
  PROVE  /\ Parsing(lines)[0] = Nobody
         /\ \A k \in 1..Len(lines) : Parsing(lines)[k] = Attach(Parsing(lines)[k - 1], lines[k])
<1> DEFINE n == Len(lines)
           Step(g, m) == [k \in 0..m |-> IF k = 0 THEN Nobody ELSE Attach(g[k - 1], lines[k])]
           S == {m \in 0..n : \E g : g = Step(g, m)}
<1>1. 0 \in S
  <2> DEFINE g == [k \in 0..0 |-> Nobody]
  <2>1. g = Step(g, 0)
    OBVIOUS
  <2>2. \E h : h = Step(h, 0)
    BY <2>1
  <2>3. 0 \in 0..n
    OBVIOUS
  <2> QED
    BY <2>2, <2>3
<1>2. ASSUME NEW m \in 1..n, m - 1 \in S
      PROVE  m \in S
  <2>1. PICK h : h = Step(h, m - 1)
    BY <1>2
  <2> DEFINE g == [k \in 0..m |-> IF k = m THEN Attach(h[m - 1], lines[m]) ELSE h[k]]
  <2>2. g = Step(g, m)
    <3>1. \A k \in 0..m : g[k] = Step(g, m)[k]
      <4> SUFFICES ASSUME NEW k \in 0..m
                   PROVE  g[k] = IF k = 0 THEN Nobody ELSE Attach(g[k - 1], lines[k])
        OBVIOUS
      <4>1. CASE k = m
        BY <4>1
      <4>2. CASE k # m
        <5>1. k \in 0..(m - 1) /\ g[k] = h[k]
          BY <4>2
        <5>2. k # 0 => g[k - 1] = h[k - 1]
          BY <4>2
        <5>3. h[k] = IF k = 0 THEN Nobody ELSE Attach(h[k - 1], lines[k])
          BY <2>1, <5>1
        <5> QED
          BY <5>1, <5>2, <5>3
      <4> QED
        BY <4>1, <4>2
    <3> QED
      BY <3>1
  <2>3. \E f : f = Step(f, m)
    BY <2>2
  <2> QED
    BY <2>3
<1>3. n \in S
  <2>1. n \in Nat /\ n \in 0..n
    OBVIOUS
  <2>2. \A m \in 1..n : m - 1 \in S => m \in S
    BY <1>2, Zenon
  <2> HIDE DEF S, n
  <2>3. 0..n \subseteq S
    BY <1>1, <2>1, <2>2, UpTo, Zenon
  <2> QED
    BY <2>1, <2>3, Zenon
<1>4. PICK g : g = Step(g, n)
  BY <1>3
<1>5. Parsing(lines) = CHOOSE f : f = Step(f, n)
  BY DEF Parsing, Nobody
<1>6. Parsing(lines) = Step(Parsing(lines), n)
  BY <1>4, <1>5
<1> QED
  BY <1>6

\* A camera of the machine as the parser is to list it.
Entries == {[name |-> c.name, alt |-> c.alt] : c \in Cameras}

Replaced(t, n, y) == [t EXCEPT ![n] = y]

LEMMA LastReplaced ==
  ASSUME NEW S, NEW s \in Seq(S), NEW x, NEW y
  PROVE  /\ Append(s, x)[Len(Append(s, x))] = x
         /\ Replaced(Append(s, x), Len(Append(s, x)), y) = Append(s, y)
<1> DEFINE t == Append(s, x)
           u == Append(s, y)
           n == Len(s) + 1
           v == [t EXCEPT ![n] = y]
<1>1. /\ n \in Nat \ {0} /\ Len(t) = n /\ DOMAIN t = 1..n /\ DOMAIN u = 1..n
      /\ t[n] = x /\ u[n] = y /\ \A k \in 1..n : k # n => t[k] = u[k]
  OBVIOUS
<1>2. t \in Seq(S \cup {x, y}) /\ u \in Seq(S \cup {x, y})
  OBVIOUS
<1> HIDE DEF t, u, n
<1>3. t = [k \in 1..n |-> t[k]] /\ u = [k \in 1..n |-> u[k]]
  BY <1>1, <1>2
<1>4. v = u
  BY <1>1, <1>3
<1>5. Replaced(t, Len(t), y) = u
  BY <1>1, <1>4, Zenon DEF Replaced
<1> QED
  BY <1>1, <1>5 DEF t, u

\* The two lines of a device leave a list of cameras a list of cameras.
LEMMA DeviceListed ==
  ASSUME NEW st \in [out : Seq(Entries), last : BOOLEAN], NEW d \in Range(machine),
         d.kind \in {"video", "audio", "none"}
  PROVE  Attach(Attach(st, DeviceLine(d)), AltLine(d)) \in [out : Seq(Entries), last : BOOLEAN]
<1> DEFINE line == DeviceLine(d)
           alt == AltLine(d)
           out == st.out
<1>0. /\ line.kind = d.kind /\ line.text = d.name /\ alt.text = d.alt
      /\ alt.kind = IF d.alt = "" THEN "other" ELSE "alt"
      /\ out \in Seq(Entries) /\ st.last \in BOOLEAN
  BY DEF DeviceLine, AltLine
<1>a. ASSUME NEW s \in Seq(Entries), NEW b \in BOOLEAN
      PROVE  [out |-> s, last |-> b] \in [out : Seq(Entries), last : BOOLEAN]
  OBVIOUS
<1>b. \A s \in Seq(Entries), e \in Entries : Append(s, e) \in Seq(Entries)
  OBVIOUS
<1> HIDE DEF line, alt, out
<1>1. CASE d.kind = "video"
  <2> DEFINE x == [name |-> d.name, alt |-> ""]
             y == [name |-> d.name, alt |-> d.alt]
             t == Append(out, x)
             u == Append(out, y)
             n == Len(t)
  <2>1. y \in Entries /\ x.name = d.name
    BY <1>1 DEF Entries, Cameras, CamerasOf, Range
  <2>2. Attach(st, line) = [out |-> t, last |-> TRUE]
    BY <1>0, <1>1 DEF Attach, out
  <2>3. t[n] = x /\ Replaced(t, n, y) = u
    <3> HIDE DEF x, y
    <3>1. out \in Seq(Entries)
      BY <1>0
    <3>2. Replaced(Append(out, x), Len(Append(out, x)), y) = Append(out, y)
      BY <3>1, LastReplaced, SMT
    <3>3. Append(out, x)[Len(Append(out, x))] = x
      BY <3>1, LastReplaced, Zenon
    <3> QED
      BY <3>2, <3>3
  <2>4. CASE d.alt # ""
    <3> DEFINE v == [t EXCEPT ![n] = [name |-> @.name, alt |-> alt.text]]
    <3>1. v = [t EXCEPT ![n] = [name |-> t[n].name, alt |-> alt.text]]
      BY Zenon
    <3>2. [name |-> t[n].name, alt |-> alt.text] = y
      BY <1>0, <2>1, <2>3
    <3>3. v = u
      BY <2>3, <3>1, <3>2, Zenon DEF Replaced
    <3>4. Attach(Attach(st, line), alt) = [out |-> v, last |-> FALSE]
      <4> HIDE DEF t
      <4> QED
        BY <1>0, <2>2, <2>4 DEF Attach
    <3>5. u \in Seq(Entries)
      <4> HIDE DEF y
      <4> QED
        BY <1>0, <2>1, <1>b, Zenon
    <3> QED
      BY <1>a, <3>3, <3>4, <3>5, Zenon DEF line, alt
  <2>5. CASE d.alt = ""
    <3>1. Attach(Attach(st, line), alt) = [out |-> t, last |-> TRUE]
      <4> HIDE DEF t
      <4> QED
        BY <1>0, <2>2, <2>5 DEF Attach
    <3>2. x = y
      BY <2>5
    <3>3. t \in Seq(Entries)
      <4> HIDE DEF x, y
      <4> QED
        BY <1>0, <2>1, <1>b, <3>2, Zenon
    <3> QED
      BY <1>a, <3>1, <3>3, Zenon DEF line, alt
  <2> QED
    BY <2>4, <2>5
<1>2. CASE d.kind \in {"audio", "none"}
  <2> DEFINE quiet == [st EXCEPT !.last = FALSE]
  <2>1. Attach(st, line) = quiet
    BY <1>0, <1>2 DEF Attach
  <2>2. quiet \in [out : Seq(Entries), last : BOOLEAN] /\ ~quiet.last
    OBVIOUS
  <2> HIDE DEF quiet
  <2>3. Attach(quiet, alt) = quiet
    BY <1>0, <2>2 DEF Attach
  <2> QED
    BY <2>1, <2>2, <2>3 DEF line, alt
<1> QED
  BY <1>1, <1>2

LEMMA MachineTyped ==
  ASSUME TypeOK
  PROVE  /\ Len(machine) \in Nat \ {0} /\ DOMAIN machine = 1..Len(machine)
         /\ plugged \in Nat /\ plugged <= Len(machine)
         /\ \A i \in DOMAIN machine : /\ machine[i].kind \in {"video", "audio", "none"}
                                      /\ machine[i].formats \in Seq(Format)
BY CameraConfigAssumption DEF TypeOK

LEMMA ListingTyped ==
  ASSUME TypeOK
  PROVE  /\ Len(Listing) = 2 * plugged
         /\ \A i \in 1..plugged : /\ Listing[2 * i - 1] = DeviceLine(machine[i])
                                 /\ Listing[2 * i] = AltLine(machine[i])
<1>1. plugged \in Nat /\ 2 * plugged \in Nat
  BY MachineTyped
<1>2. /\ Len(Listing) = 2 * plugged
      /\ \A k \in 1..(2 * plugged) :
           Listing[k] = IF k % 2 = 1 THEN DeviceLine(machine[(k + 1) \div 2])
                        ELSE AltLine(machine[(k + 1) \div 2])
  BY <1>1 DEF Listing
<1>3. ASSUME NEW i \in 1..plugged
      PROVE  Listing[2 * i - 1] = DeviceLine(machine[i]) /\ Listing[2 * i] = AltLine(machine[i])
  <2> DEFINE a == 2 * i - 1
             b == 2 * i
  <2>1. /\ a \in 1..(2 * plugged) /\ b \in 1..(2 * plugged)
        /\ (a + 1) \div 2 = i /\ (b + 1) \div 2 = i /\ a % 2 = 1 /\ b % 2 # 1
    BY <1>1
  <2> HIDE DEF a, b
  <2>2. Listing[a] = DeviceLine(machine[i]) /\ Listing[b] = AltLine(machine[i])
    BY <1>2, <2>1
  <2> QED
    BY <2>2 DEF a, b
<1> QED
  BY <1>2, <1>3

\* Whatever devices of whatever kind there are, every device listed is a camera
\* with its own alternative name.
LEMMA ListedAreCameras ==
  ASSUME TypeOK
  PROVE  ParseFfmpegDshowList(Listing) \in Seq(Entries)
<1> DEFINE st == Parsing(Listing)
           Good == [out : Seq(Entries), last : BOOLEAN]
           S == {i \in 0..plugged : st[2 * i] \in Good}
<1>1. /\ plugged \in Nat /\ Len(Listing) \in Nat /\ Len(Listing) = 2 * plugged
      /\ st[0] = Nobody /\ \A k \in 1..(2 * plugged) : st[k] = Attach(st[k - 1], Listing[k])
  <2>1. plugged \in Nat /\ Len(Listing) = 2 * plugged
    BY MachineTyped, ListingTyped
  <2>2. Len(Listing) \in Nat
    BY <2>1
  <2> QED
    BY <2>1, <2>2, ParsingStep
<1> HIDE DEF st
<1>2. 0 \in S
  <2>1. <<>> \in Seq(Entries)
    OBVIOUS
  <2>2. Nobody \in Good
    BY <2>1 DEF Nobody
  <2> QED
    BY <1>1, <2>2
<1>3. ASSUME NEW i \in 1..plugged, i - 1 \in S
      PROVE  i \in S
  <2>1. /\ 2 * i - 1 \in 1..(2 * plugged) /\ 2 * i \in 1..(2 * plugged)
        /\ (2 * i) - 1 - 1 = 2 * (i - 1) /\ i \in 0..plugged
    BY <1>1
  <2>2. st[2 * i] = Attach(Attach(st[2 * (i - 1)], Listing[2 * i - 1]), Listing[2 * i])
    BY <1>1, <2>1
  <2>3. machine[i] \in Range(machine) /\ machine[i].kind \in {"video", "audio", "none"}
    <3>1. i \in DOMAIN machine
      BY <1>1, MachineTyped
    <3> QED
      BY <3>1, MachineTyped DEF Range
  <2>4. st[2 * (i - 1)] \in Good
    BY <1>3
  <2>5. st[2 * i] \in Good
    <3>1. st[2 * i] = Attach(Attach(st[2 * (i - 1)], DeviceLine(machine[i])), AltLine(machine[i]))
      BY <2>2, ListingTyped
    <3> QED
      BY <2>3, <2>4, <3>1, DeviceListed, Zenon
  <2> QED
    BY <2>1, <2>5
<1>4. plugged \in S
  <2>1. 0..plugged \subseteq S
    BY <1>1, <1>2, <1>3, UpTo
  <2> QED
    BY <1>1, <2>1
<1> QED
  BY <1>1, <1>4 DEF ParseFfmpegDshowList, st

-----------------------------------------------------------------------------
(* Cameras, and what a new slot is.                                          *)

\* Of two functions laid over one another.
LEMMA OverIs ==
  ASSUME NEW f, NEW g
  PROVE  /\ DOMAIN Over(f, g) = DOMAIN f \cup DOMAIN g
         /\ \A x \in DOMAIN f : Over(f, g)[x] = f[x]
         /\ \A x \in DOMAIN g \ DOMAIN f : Over(f, g)[x] = g[x]
BY DEF Over

\* No two cameras have one name.
LEMMA DeviceIsCamera ==
  ASSUME TypeOK
  PROVE  /\ \A c \in Cameras : Device(c.name) = c
         /\ \A n \in NamesOf(Cameras) : Device(n) \in Cameras /\ Device(n).name = n
         /\ \A c \in Cameras : c.formats \in Seq(Format)
<1>1. ASSUME NEW c \in Cameras, NEW d \in Cameras, c.name = d.name
      PROVE  c = d
  <2>1. PICK i \in DOMAIN machine : c = machine[i] /\ machine[i].kind = "video"
    BY DEF Cameras, CamerasOf
  <2>2. PICK j \in DOMAIN machine : d = machine[j] /\ machine[j].kind = "video"
    BY DEF Cameras, CamerasOf
  <2>3. i = j
    <3>1. {machine[i].kind, machine[j].kind} = {"video"} /\ machine[i].name = machine[j].name
      BY <1>1, <2>1, <2>2
    <3>2. machine \in Machines
      BY DEF TypeOK
    <3> QED
      BY <3>1, <3>2, CameraConfigAssumption
  <2> QED
    BY <2>1, <2>2, <2>3
<1>2. ASSUME NEW n \in NamesOf(Cameras)
      PROVE  Device(n) \in Cameras /\ Device(n).name = n
  BY DEF NamesOf, Device
<1>3. ASSUME NEW c \in Cameras
      PROVE  Device(c.name) = c /\ c.formats \in Seq(Format)
  <2>1. c.name \in NamesOf(Cameras)
    BY DEF NamesOf
  <2>2. PICK i \in DOMAIN machine : c = machine[i]
    BY DEF Cameras, CamerasOf
  <2> QED
    BY <1>1, <1>2, <2>1, <2>2, MachineTyped
<1> QED
  BY <1>2, <1>3

\* What is enumerated is a camera with its own vendor and product.
LEMMA EnumeratedIsCamera ==
  ASSUME TypeOK, NEW e \in EnumerateCameras
  PROVE  e.name \in NamesOf(Cameras) /\ e.vidpid = VidPid(Device(e.name).alt)
<1>1. PICK d \in Range(ParseFfmpegDshowList(Listing)) :
        e = [name |-> d.name, vidpid |-> VidPid(d.alt)]
  BY DEF EnumerateCameras
<1>2. d \in Entries
  BY ListedAreCameras DEF Range
<1>3. PICK c \in Cameras : d = [name |-> c.name, alt |-> c.alt]
  BY <1>2 DEF Entries
<1>4. Device(c.name) = c /\ c.name \in NamesOf(Cameras)
  BY DeviceIsCamera DEF NamesOf
<1> QED
  BY <1>1, <1>3, <1>4

\* A slot that was made now: the formats are the camera's or none.
NewSlot(n, s) ==
  \E fs \in SUBSET Range(Device(n).formats) :
    LET vidpid == VidPid(Device(n).alt)
    IN  s = Over([vidpid |-> vidpid, formats |-> fs], Resolve(n, vidpid, fs))

LEMMA NewSlotsAreNew ==
  ASSUME TypeOK, NEW devices \in SUBSET EnumerateCameras, NEW listed
  PROVE  /\ DOMAIN NewSlots(devices, listed) = NamesOf(devices)
         /\ NamesOf(devices) \subseteq NamesOf(Cameras)
         /\ \A n \in NamesOf(devices) : NewSlot(n, NewSlots(devices, listed)[n])
<1>1. DOMAIN NewSlots(devices, listed) = NamesOf(devices)
  BY DEF NewSlots
<1>2. NamesOf(devices) \subseteq NamesOf(Cameras)
  <2>1. \A d \in devices : d.name \in NamesOf(Cameras)
    BY EnumeratedIsCamera
  <2> QED
    BY <2>1 DEF NamesOf
<1>3. ASSUME NEW n \in NamesOf(devices)
      PROVE  NewSlot(n, NewSlots(devices, listed)[n])
  <2> DEFINE d == CHOOSE d \in devices : d.name = n
             fs == IF n \in listed THEN EnumerateFormats(Device(n)) ELSE {}
  <2>1. d \in devices /\ d.name = n
    BY DEF NamesOf
  <2>2. NewSlots(devices, listed)[n]
          = Over([vidpid |-> d.vidpid, formats |-> fs], Resolve(n, d.vidpid, fs))
    BY DEF NewSlots
  <2>3. fs \in SUBSET Range(Device(n).formats)
    BY DEF EnumerateFormats
  <2> HIDE DEF d, fs
  <2>4. d.vidpid = VidPid(Device(n).alt)
    BY <2>1, EnumeratedIsCamera
  <2> QED
    BY <2>2, <2>3, <2>4 DEF NewSlot
<1> QED
  BY <1>1, <1>2, <1>3

-----------------------------------------------------------------------------
(* Where a configuration comes from.                                         *)

All == Fields \cup {"enabled"}

LEMMA FieldsAre == Fields = {"mode", "w", "h"} /\ All = {"mode", "w", "h", "enabled"}
BY DEF Fields, All

\* What an override says is what is in its file, a mode only if it is one.
LEMMA LoadIs ==
  ASSUME NEW s, DOMAIN files[s] \subseteq All
  PROVE  /\ DOMAIN LoadOverride(s) = {k \in DOMAIN files[s] : k = "mode" => files[s][k] \in Modes}
         /\ DOMAIN LoadOverride(s) \subseteq All
         /\ \A k \in DOMAIN LoadOverride(s) : LoadOverride(s)[k] = files[s][k]
         /\ "mode" \in DOMAIN LoadOverride(s) => LoadOverride(s)["mode"] \in Modes
BY DEF LoadOverride, Restrict

\* A known camera and the smart pick both say all.
LEMMA BaseIs ==
  ASSUME NEW vidpid, NEW formats
  PROVE  DOMAIN Base(vidpid, formats) = Fields /\ Base(vidpid, formats)["mode"] \in Modes
<1>1. CASE KnownFor(vidpid)
  BY <1>1, CameraConfigAssumption DEF KnownFor, Base
<1>2. CASE ~KnownFor(vidpid)
  <2> DEFINE mjpeg == PickBest(formats, {"mjpeg"})
             raw == PickBest(formats, RawCodecs)
             p == PickDefaultFromFormats(formats)
  <2>1. \/ p = [mode |-> Mjpeg, w |-> mjpeg[1].w, h |-> mjpeg[1].h]
        \/ p = [mode |-> RawMode, w |-> raw[1].w, h |-> raw[1].h]
        \/ p = [mode |-> Mjpeg, w |-> 640, h |-> 480]
    BY DEF PickDefaultFromFormats
  <2>2. DOMAIN p = {"mode", "w", "h"} /\ p["mode"] \in {Mjpeg, RawMode}
    <3> HIDE DEF p
    <3> QED
      BY <2>1
  <2>3. Base(vidpid, formats) = p
    BY <1>2 DEF Base
  <2> QED
    BY <2>2, <2>3, FieldsAre DEF Modes, UiModes
<1> QED
  BY <1>1, <1>2

\* Field by field: the override's, else the base's; enabled unless it says so; a
\* mode the dropdown does not have becomes Mjpeg.
Resolves(r, ov, base) ==
  LET m == IF "mode" \in DOMAIN ov THEN ov["mode"] ELSE base["mode"]
  IN  /\ DOMAIN r = All
      /\ \A k \in {"w", "h"} : r[k] = IF k \in DOMAIN ov THEN ov[k] ELSE base[k]
      /\ r["enabled"] = IF "enabled" \in DOMAIN ov THEN ov["enabled"] ELSE TRUE
      /\ r["mode"] = IF m \in UiModes THEN m ELSE Mjpeg

LEMMA ResolveIs ==
  ASSUME NEW n, NEW vidpid, NEW formats, DOMAIN files[Slug(n)] \subseteq All
  PROVE  Resolves(Resolve(n, vidpid, formats), LoadOverride(Slug(n)), Base(vidpid, formats))
<1> DEFINE on == [enabled |-> TRUE]
           ov == LoadOverride(Slug(n))
           base == Base(vidpid, formats)
           r == Resolve(n, vidpid, formats)
           low == Over(base, on)
           cfg == Over(ov, low)
<1>1. DOMAIN ov \subseteq All /\ DOMAIN base = Fields
  BY LoadIs, BaseIs
<1>2. DOMAIN on = {"enabled"} /\ on["enabled"] = TRUE
  OBVIOUS
<1>5. r = [cfg EXCEPT !["mode"] = IF cfg["mode"] \in UiModes THEN cfg["mode"] ELSE Mjpeg]
  BY DEF Resolve
<1> HIDE DEF on, ov, base, r
<1>3. /\ DOMAIN low = All /\ low["enabled"] = TRUE
      /\ \A k \in Fields : low[k] = base[k]
  <2>1. /\ DOMAIN low = DOMAIN base \cup DOMAIN on
        /\ \A x \in DOMAIN base : low[x] = base[x]
        /\ \A x \in DOMAIN on \ DOMAIN base : low[x] = on[x]
    BY OverIs, Zenon
  <2> HIDE DEF low
  <2> QED
    BY <1>1, <1>2, <2>1, FieldsAre
<1> HIDE DEF low
<1>4. /\ DOMAIN cfg = All
      /\ \A k \in All : cfg[k] = IF k \in DOMAIN ov THEN ov[k] ELSE low[k]
  <2>1. /\ DOMAIN cfg = DOMAIN ov \cup DOMAIN low
        /\ \A x \in DOMAIN ov : cfg[x] = ov[x]
        /\ \A x \in DOMAIN low \ DOMAIN ov : cfg[x] = low[x]
    BY OverIs, Zenon
  <2> HIDE DEF cfg
  <2> QED
    BY <1>1, <1>3, <2>1
<1> HIDE DEF cfg
<1>6. /\ DOMAIN r = All
      /\ \A k \in All : k # "mode" => r[k] = cfg[k]
      /\ r["mode"] = IF cfg["mode"] \in UiModes THEN cfg["mode"] ELSE Mjpeg
  BY <1>4, <1>5, FieldsAre
<1>7. Resolves(r, ov, base)
  BY <1>3, <1>4, <1>6, FieldsAre DEF Resolves
<1> QED
  BY <1>7 DEF ov, base, r

LEMMA FilesTyped ==
  ASSUME TypeOK, NEW n \in NamesOf(Cameras)
  PROVE  Slug(n) \in DOMAIN files /\ DOMAIN files[Slug(n)] \subseteq All
BY DEF TypeOK, All

\* A slot made now has all fields, the camera's own vendor and product, and what
\* Resolve says.
LEMMA NewSlotIs ==
  ASSUME TypeOK, NEW n \in NamesOf(Cameras), NEW s, NewSlot(n, s)
  PROVE  /\ DOMAIN s = SlotFields
         /\ s["vidpid"] = VidPid(Device(n).alt)
         /\ s["formats"] \subseteq Range(Device(n).formats)
         /\ \A k \in All : s[k] = Resolve(n, s["vidpid"], s["formats"])[k]
         /\ s["mode"] \in UiModes
<1> DEFINE v == VidPid(Device(n).alt)
<1>1. PICK fs \in SUBSET Range(Device(n).formats) :
        s = Over([vidpid |-> v, formats |-> fs], Resolve(n, v, fs))
  BY DEF NewSlot
<1> DEFINE own == [vidpid |-> v, formats |-> fs]
           r == Resolve(n, v, fs)
<1>2. DOMAIN own = {"vidpid", "formats"} /\ own["vidpid"] = v /\ own["formats"] = fs
  OBVIOUS
<1> HIDE DEF own, v
<1>3. DOMAIN r = All /\ r["mode"] \in UiModes
  <2>1. DOMAIN files[Slug(n)] \subseteq All
    BY FilesTyped
  <2>2. DOMAIN r = All /\ (r["mode"] \in UiModes \/ r["mode"] = Mjpeg)
    <3>1. Resolves(r, LoadOverride(Slug(n)), Base(v, fs))
      BY <2>1, ResolveIs, Zenon
    <3> HIDE DEF r
    <3> QED
      BY <3>1 DEF Resolves
  <2> QED
    BY <2>2 DEF UiModes
<1> HIDE DEF r
<1>4. s = Over(own, r)
  BY <1>1 DEF own, r
<1>5. /\ DOMAIN s = {"vidpid", "formats"} \cup All
      /\ s["vidpid"] = v /\ s["formats"] = fs /\ \A k \in All : s[k] = r[k]
  BY <1>2, <1>3, <1>4, OverIs, FieldsAre
<1>6. r = Resolve(n, s["vidpid"], s["formats"])
  BY <1>5 DEF r
<1>7. SlotFields = {"vidpid", "formats"} \cup All /\ "mode" \in All
  BY FieldsAre DEF SlotFields, Fields
<1> QED
  BY <1>3, <1>5, <1>6, <1>7 DEF v

-----------------------------------------------------------------------------
(* What each kind of step does.                                              *)

\* New slots and, after a re-enumeration, those there were.
LEMMA AddsIs ==
  ASSUME TypeOK, NEW old \in {<<>>, slots}, NEW devices \in SUBSET EnumerateCameras,
         NamesOf(devices) \cap DOMAIN old = {}, Adds(old, devices)
  PROVE  /\ \A n \in DOMAIN slots' :
              \/ /\ n \in NamesOf(Cameras) /\ NewSlot(n, slots'[n])
                 /\ n \in fits' => FitsAnew(n, slots'[n])
              \/ /\ old = slots /\ n \in DOMAIN slots /\ slots'[n] = slots[n]
                 /\ n \in fits' => n \in fits
         /\ fits' \subseteq DOMAIN slots'
         /\ DOMAIN row' = DOMAIN slots' /\ \A n \in DOMAIN slots' : row'[n] = slots'[n].mode
         /\ UNCHANGED <<machine, plugged, files>>
<1>1. PICK listed \in SUBSET NamesOf(devices) :
        LET new == NewSlots(devices, listed)
        IN  /\ slots' = Over(new, old)
            /\ fits' = (fits \cap DOMAIN old) \cup {n \in DOMAIN new : FitsAnew(n, new[n])}
  BY DEF Adds
<1> DEFINE new == NewSlots(devices, listed)
<1>2. /\ DOMAIN new = NamesOf(devices)
      /\ \A n \in DOMAIN new : n \in NamesOf(Cameras) /\ NewSlot(n, new[n])
  BY NewSlotsAreNew
<1> HIDE DEF new
<1>3. /\ slots' = Over(new, old)
      /\ fits' = (fits \cap DOMAIN old) \cup {n \in DOMAIN new : FitsAnew(n, new[n])}
  BY <1>1 DEF new
<1>4. /\ DOMAIN slots' = DOMAIN new \cup DOMAIN old
      /\ \A n \in DOMAIN new : slots'[n] = new[n]
      /\ \A n \in DOMAIN old \ DOMAIN new : slots'[n] = old[n]
  <2>1. /\ DOMAIN Over(new, old) = DOMAIN new \cup DOMAIN old
        /\ \A n \in DOMAIN new : Over(new, old)[n] = new[n]
        /\ \A n \in DOMAIN old \ DOMAIN new : Over(new, old)[n] = old[n]
    BY OverIs, Zenon
  <2> QED
    BY <1>3, <2>1, Zenon
<1>5. DOMAIN old # {} => old = slots
  OBVIOUS
<1>6. ASSUME NEW n \in DOMAIN slots'
      PROVE  \/ /\ n \in NamesOf(Cameras) /\ NewSlot(n, slots'[n])
                /\ n \in fits' => FitsAnew(n, slots'[n])
             \/ /\ old = slots /\ n \in DOMAIN slots /\ slots'[n] = slots[n]
                /\ n \in fits' => n \in fits
  <2>1. CASE n \in DOMAIN new
    <3>1. n \notin DOMAIN old
      BY <1>2, <2>1
    <3>2. slots'[n] = new[n]
      BY <1>4, <2>1
    <3>3. n \in fits' => FitsAnew(n, new[n])
      BY <1>3, <3>1, Zenon
    <3> QED
      BY <1>2, <2>1, <3>2, <3>3, Zenon
  <2>2. CASE n \notin DOMAIN new
    <3>1. n \in DOMAIN old /\ old = slots
      BY <1>4, <1>5, <2>2, Zenon
    <3>2. slots'[n] = slots[n]
      BY <1>4, <2>2, <3>1, Zenon
    <3>3. n \in fits' => n \in fits
      BY <1>3, <2>2, Zenon
    <3> QED
      BY <3>1, <3>2, <3>3, Zenon
  <2> QED
    BY <2>1, <2>2
<1>7. fits' \subseteq DOMAIN slots'
  BY <1>3, <1>4
<1>8. /\ DOMAIN row' = DOMAIN slots' /\ \A n \in DOMAIN slots' : row'[n] = slots'[n].mode
      /\ UNCHANGED <<machine, plugged, files>>
  BY DEF Adds
<1> QED
  BY <1>6, <1>7, <1>8, Zenon

LEMMA AddsAtStart ==
  ASSUME Starts
  PROVE  /\ <<>> \in {<<>>, slots} /\ EnumerateCameras \in SUBSET EnumerateCameras
         /\ NamesOf(EnumerateCameras) \cap DOMAIN <<>> = {} /\ Adds(<<>>, EnumerateCameras)
         /\ unsaved' = {}
BY DEF Starts

LEMMA AddsLater ==
  ASSUME Discovers
  PROVE  \E devices \in SUBSET EnumerateCameras :
           /\ NamesOf(devices) \cap DOMAIN slots = {} /\ Adds(slots, devices)
           /\ unsaved' = unsaved
<1> DEFINE devices == {d \in EnumerateCameras : d.name \notin DOMAIN slots}
<1>1. Adds(slots, devices) /\ unsaved' = unsaved
  BY DEF Discovers
<1>2. NamesOf(devices) \cap DOMAIN slots = {} /\ devices \in SUBSET EnumerateCameras
  BY DEF NamesOf
<1> QED
  BY <1>1, <1>2

\* What a client may ask for.
Update(u) == DOMAIN u \subseteq All /\ ("mode" \in DOMAIN u => u["mode"] \in Modes)

\* One slot and one file change, the file perhaps not as it should.
LEMMA SetIs ==
  ASSUME TypeOK, NEW n \in DOMAIN slots, NEW u, Update(u), Set(n, u)
  PROVE  /\ DOMAIN slots' = DOMAIN slots /\ slots'[n] = Over(u, slots[n])
         /\ \A m \in DOMAIN slots : m # n => slots'[m] = slots[m]
         /\ DOMAIN files' = DOMAIN files
         /\ \A s \in DOMAIN files : s # Slug(n) => files'[s] = files[s]
         /\ \/ unsaved' = unsaved /\ files'[Slug(n)] = Over(u, LoadOverride(Slug(n)))
            \/ unsaved' = unsaved \cup {n}
         /\ DOMAIN files'[Slug(n)] \subseteq All
         /\ UNCHANGED <<machine, plugged, row>>
<1> DEFINE s == Slug(n)
           saved == Over(u, LoadOverride(s))
<1>1. s \in DOMAIN files /\ DOMAIN files[s] \subseteq All
  <2>1. n \in NamesOf(Cameras)
    BY DEF TypeOK
  <2> QED
    BY <2>1, FilesTyped
<1>2. DOMAIN saved \subseteq All
  <2>1. DOMAIN LoadOverride(s) \subseteq All
    BY <1>1, LoadIs
  <2>2. DOMAIN saved = DOMAIN u \cup DOMAIN LoadOverride(s)
    BY OverIs, Zenon
  <2> QED
    BY <2>1, <2>2 DEF Update
<1>3. /\ slots' = [slots EXCEPT ![n] = Over(u, @)]
      /\ \/ files' = [files EXCEPT ![s] = saved] /\ unsaved' = unsaved
         \/ files' \in {files, [files EXCEPT ![s] = <<>>]} /\ unsaved' = unsaved \cup {n}
      /\ UNCHANGED <<machine, plugged, row>>
  BY DEF Set, SaveOverride
<1> HIDE DEF s, saved
<1>4. /\ DOMAIN slots' = DOMAIN slots /\ slots'[n] = Over(u, slots[n])
      /\ \A m \in DOMAIN slots : m # n => slots'[m] = slots[m]
  BY <1>3
<1>5. DOMAIN <<>> = {}
  OBVIOUS
<1>6. /\ DOMAIN files' = DOMAIN files
      /\ \A q \in DOMAIN files : q # s => files'[q] = files[q]
      /\ \/ unsaved' = unsaved /\ files'[s] = saved
         \/ unsaved' = unsaved \cup {n}
      /\ DOMAIN files'[s] \subseteq All
  <2>1. CASE files' = [files EXCEPT ![s] = saved] /\ unsaved' = unsaved
    BY <1>1, <1>2, <2>1
  <2>2. CASE files' = files /\ unsaved' = unsaved \cup {n}
    BY <1>1, <2>2
  <2>3. CASE files' = [files EXCEPT ![s] = <<>>] /\ unsaved' = unsaved \cup {n}
    <3>1. DOMAIN files'[s] = {}
      BY <1>1, <1>5, <2>3, Zenon
    <3> QED
      BY <1>1, <2>3, <3>1
  <2> QED
    BY <1>3, <2>1, <2>2, <2>3
<1> QED
  BY <1>3, <1>4, <1>6 DEF s, saved

\* A size that is offered, with the mode it is offered for, is of a format.
LEMMA OfferedIsHad ==
  ASSUME NEW formats, NEW m \in Modes, NEW size \in AvailableResolutions(formats, m),
         NEW u, u["mode"] = m, u["w"] = size["w"], u["h"] = size["h"]
  PROVE  Has(formats, u)
<1> DEFINE Fits(f) == CASE m \in {Mjpeg, "passthrough_mjpeg"} -> f.codec = "mjpeg"
                        [] m = "passthrough_h264" -> f.codec = "h264"
                        [] OTHER -> Raw(f)
           in == BuildFFmpegArgs(u)
<1>1. PICK f \in {g \in formats : Fits(g)} : size = [w |-> f.w, h |-> f.h]
  BY Zenon DEF AvailableResolutions
<1>2. in.w = f.w /\ in.h = f.h
  <2>1. size["w"] = f.w /\ size["h"] = f.h
    BY <1>1
  <2>2. in.w = u["w"] /\ in.h = u["h"]
    BY DEF BuildFFmpegArgs
  <2> QED
    BY <2>1, <2>2
<1>3. f.codec = in.codec \/ (Raw(f) /\ Raw(in))
  <2>0. Fits(f)
    BY <1>1, Zenon
  <2>1. CASE m \in {Mjpeg, "passthrough_mjpeg"}
    <3>1. f.codec = "mjpeg"
      BY <2>0, <2>1 DEF Mjpeg
    <3>2. in.codec = "mjpeg"
      BY <2>1 DEF BuildFFmpegArgs, Mjpeg, RawMode
    <3> QED
      BY <3>1, <3>2
  <2>2. CASE m = "passthrough_h264"
    <3>1. f.codec = "h264"
      BY <2>0, <2>2 DEF Mjpeg
    <3>2. in.codec = "h264"
      BY <2>2 DEF BuildFFmpegArgs, RawMode
    <3> QED
      BY <3>1, <3>2
  <2>3. CASE m \in {RawMode, "transcode_raw_to_mjpeg"}
    <3>1. Raw(f)
      BY <2>0, <2>3 DEF Mjpeg, RawMode
    <3>2. in.codec = "yuyv422"
      BY <2>3 DEF BuildFFmpegArgs, RawMode
    <3> QED
      BY <3>1, <3>2 DEF Raw, RawCodecs
  <2> QED
    BY <2>1, <2>2, <2>3 DEF Modes, UiModes
<1>4. f \in formats
  BY <1>1
<1> HIDE DEF in
<1>5. \E g \in formats : g.w = in.w /\ g.h = in.h /\ (g.codec = in.codec \/ (Raw(g) /\ Raw(in)))
  BY <1>2, <1>3, <1>4
<1> QED
  BY <1>5 DEF Has, in

\* A change of one camera: by any client, of whether it is enabled, or of its
\* size by the dropdown.
Change(n, u) ==
  /\ Update(u) /\ Set(n, u)
  /\ \/ fits' = fits \ {n}
     \/ fits' = fits /\ DOMAIN u = {"enabled"}
     \/ fits' = fits \cup {n} /\ DOMAIN u = Fields /\ Has(slots[n].formats, u)

HasModeAndSize(u, m, size) ==
  /\ Update(u) /\ DOMAIN u = {"mode"} \cup DOMAIN size /\ u["mode"] = m
  /\ \A k \in DOMAIN size : u[k] = size[k]

LEMMA ModeAndSize ==
  ASSUME NEW m \in Modes, NEW size, DOMAIN size \subseteq Dims
  PROVE  HasModeAndSize(Over([mode |-> m], size), m, size)
<1> DEFINE f == [mode |-> m]
           u == Over(f, size)
<1>1. DOMAIN f = {"mode"} /\ f["mode"] = m
  OBVIOUS
<1>2. /\ DOMAIN u = DOMAIN f \cup DOMAIN size
      /\ \A k \in DOMAIN f : u[k] = f[k]
      /\ \A k \in DOMAIN size \ DOMAIN f : u[k] = size[k]
  BY OverIs, Zenon
<1> HIDE DEF u, f
<1>3. /\ DOMAIN u = {"mode"} \cup DOMAIN size /\ u["mode"] = m
      /\ \A k \in DOMAIN size : u[k] = size[k]
  BY <1>1, <1>2 DEF Dims
<1>4. Update(u)
  BY <1>3, FieldsAre DEF Update, Dims
<1>5. HasModeAndSize(u, m, size)
  BY <1>3, <1>4 DEF HasModeAndSize
<1> QED
  BY <1>5 DEF u, f

LEMMA SetModeIsChange ==
  ASSUME NEW n, NEW m \in Modes, NEW size, DOMAIN size \subseteq Dims, SetMode(n, m, size)
  PROVE  \E u : Change(n, u)
<1> DEFINE u == Over([mode |-> m], size)
<1>1. Update(u)
  BY ModeAndSize, Zenon DEF HasModeAndSize
<1>2. Set(n, u) /\ fits' = fits \ {n}
  BY DEF SetMode
<1>3. Change(n, u)
  BY <1>1, <1>2, Zenon DEF Change
<1> QED
  BY <1>3, Zenon

LEMMA SetStreamEnabledIsChange ==
  ASSUME NEW n, NEW want, SetStreamEnabled(n, want)
  PROVE  \E u : Change(n, u)
<1> DEFINE u == [enabled |-> want]
<1>1. DOMAIN u = {"enabled"}
  OBVIOUS
<1>2. Set(n, u) /\ fits' = fits
  BY DEF SetStreamEnabled
<1> HIDE DEF u
<1>3. Update(u)
  BY <1>1, FieldsAre DEF Update
<1>4. Change(n, u)
  BY <1>1, <1>2, <1>3, Zenon DEF Change
<1> QED
  BY <1>4, Zenon

LEMMA PicksResolutionIsChange ==
  ASSUME NEW n, row[n] \in Modes, PicksResolution(n)
  PROVE  \E u : Change(n, u)
<1> DEFINE offered == AvailableResolutions(slots[n].formats, row[n])
<1>1. PICK size \in (IF offered = {} THEN Static ELSE offered) :
        /\ Set(n, Over([mode |-> row[n]], size))
        /\ fits' = IF offered = {} THEN fits \ {n} ELSE fits \cup {n}
  BY DEF PicksResolution
<1> DEFINE u == Over([mode |-> row[n]], size)
<1>2. DOMAIN size = Dims
  <2>1. CASE offered = {}
    BY <1>1, <2>1, CameraConfigAssumption
  <2>2. CASE offered # {}
    <3>1. size \in offered
      BY <1>1, <2>2
    <3>2. \E f : size = [w |-> f.w, h |-> f.h]
      BY <3>1, Zenon DEF AvailableResolutions
    <3> QED
      BY <3>2 DEF Dims
  <2> QED
    BY <2>1, <2>2
<1>3. /\ Update(u) /\ DOMAIN u = {"mode"} \cup Dims /\ u["mode"] = row[n]
      /\ \A k \in Dims : u[k] = size[k]
  <2>1. DOMAIN size \subseteq Dims
    BY <1>2
  <2>2. HasModeAndSize(u, row[n], size)
    BY <2>1, ModeAndSize, Zenon
  <2> HIDE DEF u
  <2> QED
    BY <1>2, <2>2 DEF HasModeAndSize
<1>4. Set(n, u)
  BY <1>1
<1> HIDE DEF u
<1>5. DOMAIN u = Fields
  BY <1>3 DEF Dims, Fields
<1>6. CASE offered = {}
  <2>1. fits' = fits \ {n}
    BY <1>1, <1>6
  <2>2. Change(n, u)
    BY <1>3, <1>4, <2>1, Zenon DEF Change
  <2> QED
    BY <2>2, Zenon
<1>7. CASE offered # {}
  <2>1. fits' = fits \cup {n} /\ size \in offered
    BY <1>1, <1>7
  <2>2. u["w"] = size["w"] /\ u["h"] = size["h"]
    BY <1>3 DEF Dims
  <2>3. Has(slots[n].formats, u)
    BY <1>3, <2>1, <2>2, OfferedIsHad, Zenon
  <2>4. Change(n, u)
    BY <1>3, <1>4, <1>5, <2>1, <2>3, Zenon DEF Change
  <2> QED
    BY <2>4, Zenon
<1> QED
  BY <1>6, <1>7

\* Every step starts, discovers, changes a camera or leaves the configurations.
LEMMA StepIs ==
  ASSUME TypeOK, Next
  PROVE  \/ Starts \/ Discovers
         \/ \E n \in DOMAIN slots : \E u : Change(n, u)
         \/ /\ UNCHANGED <<machine, files, slots, unsaved, fits>>
            /\ plugged' \in 1..Len(machine)
            /\ row' = row \/ \E n \in DOMAIN slots : row' = [row EXCEPT ![n] = slots[n].mode]
<1>1. plugged \in 1..Len(machine) /\ Len(machine) \in Nat
  BY MachineTyped DEF TypeOK
<1>2. CASE Plugs
  <2>1. plugged' \in 1..Len(machine)
    BY <1>1, <1>2 DEF Plugs
  <2> QED
    BY <1>2, <2>1, Zenon DEF Plugs
<1>3. CASE Dies
  <2>1. plugged' \in 1..Len(machine)
    BY <1>1, <1>3 DEF Dies
  <2> QED
    BY <1>3, <2>1, Zenon DEF Dies
<1>4. ASSUME NEW n \in DOMAIN slots, RowFollows(n)
      PROVE  /\ UNCHANGED <<machine, files, slots, unsaved, fits>>
             /\ plugged' \in 1..Len(machine)
             /\ row' = [row EXCEPT ![n] = slots[n].mode]
  BY <1>1, <1>4 DEF RowFollows
<1>5. ASSUME NEW n \in DOMAIN slots, PicksResolution(n)
      PROVE  \E u : Change(n, u)
  <2>1. row[n] \in Modes
    BY DEF TypeOK
  <2> QED
    BY <1>5, <2>1, PicksResolutionIsChange, Zenon
<1>6. ASSUME NEW n, NEW m \in UiModes, PicksMode(n, m)
      PROVE  \E u : Change(n, u)
  <2>1. SetMode(n, m, <<>>) /\ m \in Modes
    BY <1>6 DEF PicksMode, Modes
  <2>2. DOMAIN <<>> \subseteq Dims
    OBVIOUS
  <2> QED
    BY <2>1, <2>2, SetModeIsChange, Zenon
<1>7. ASSUME NEW n, NEW m \in ClientModes, NEW size \in Sizes, SetMode(n, m, size)
      PROVE  \E u : Change(n, u)
  <2>1. m \in Modes /\ DOMAIN size \subseteq Dims
    BY CameraConfigAssumption
  <2> QED
    BY <1>7, <2>1, SetModeIsChange, Zenon
<1>8. ASSUME NEW n, NEW want \in BOOLEAN, SetStreamEnabled(n, want)
      PROVE  \E u : Change(n, u)
  BY <1>8, SetStreamEnabledIsChange, Zenon
<1> QED
  BY <1>2, <1>3, <1>4, <1>5, <1>6, <1>7, <1>8, Zenon DEF Next

-----------------------------------------------------------------------------
(* Types.                                                                    *)

\* While the machine is the same, so are its cameras.
LEMMA SameMachine ==
  ASSUME UNCHANGED machine
  PROVE  /\ Cameras' = Cameras
         /\ \A n : Device(n)' = Device(n)
         /\ \A n : OwnFile(n)' <=> OwnFile(n)
<1>1. Cameras' = Cameras
  BY DEF Cameras
<1>2. ASSUME NEW n
      PROVE  Device(n)' = Device(n)
  BY <1>1 DEF Device
<1>3. ASSUME NEW n
      PROVE  OwnFile(n)' <=> OwnFile(n)
  BY <1>1 DEF OwnFile
<1> QED
  BY <1>1, <1>2, <1>3

SlotOK(n) ==
  /\ DOMAIN slots[n] = SlotFields
  /\ slots[n].mode \in Modes /\ row[n] \in Modes
  /\ slots[n].formats \subseteq Range(Device(n).formats)

LEMMA SlotsTyped ==
  ASSUME TypeOK
  PROVE  \A n \in DOMAIN slots : n \in NamesOf(Cameras) /\ SlotOK(n)
BY DEF TypeOK, SlotOK

LEMMA AddsTyped ==
  ASSUME TypeOK, NEW old \in {<<>>, slots}, NEW devices \in SUBSET EnumerateCameras,
         NamesOf(devices) \cap DOMAIN old = {}, Adds(old, devices)
  PROVE  TypeOK'
<1>1. /\ \A n \in DOMAIN slots' : \/ n \in NamesOf(Cameras) /\ NewSlot(n, slots'[n])
                                  \/ n \in DOMAIN slots /\ slots'[n] = slots[n]
      /\ fits' \subseteq DOMAIN slots'
      /\ DOMAIN row' = DOMAIN slots' /\ \A n \in DOMAIN slots' : row'[n] = slots'[n].mode
      /\ machine' = machine /\ plugged' = plugged /\ files' = files
  BY AddsIs, Zenon
<1>2. Cameras' = Cameras /\ \A n : Device(n)' = Device(n)
  BY <1>1, SameMachine
<1>3. ASSUME NEW n \in DOMAIN slots'
      PROVE  /\ n \in NamesOf(Cameras) /\ DOMAIN slots'[n] = SlotFields
             /\ slots'[n].mode \in Modes
             /\ slots'[n].formats \subseteq Range(Device(n).formats)
  <2>1. CASE n \in NamesOf(Cameras) /\ NewSlot(n, slots'[n])
    <3>1. /\ DOMAIN slots'[n] = SlotFields /\ slots'[n].mode \in UiModes
          /\ slots'[n].formats \subseteq Range(Device(n).formats)
      BY <2>1, NewSlotIs, Zenon
    <3> QED
      BY <2>1, <3>1 DEF Modes
  <2>2. CASE n \in DOMAIN slots /\ slots'[n] = slots[n]
    BY <2>2, SlotsTyped DEF SlotOK
  <2> QED
    BY <1>1, <2>1, <2>2
<1>4. machine' \in Machines /\ plugged' \in 1..Len(machine')
  BY <1>1 DEF TypeOK
<1>5. /\ DOMAIN files' = {Slug(n) : n \in NamesOf(Cameras')}
      /\ \A s \in DOMAIN files' : DOMAIN files'[s] \subseteq Fields \cup {"enabled"}
  BY <1>1, <1>2 DEF TypeOK
<1>6. DOMAIN slots' \subseteq NamesOf(Cameras')
  BY <1>2, <1>3
<1>7. \A n \in DOMAIN slots' :
        /\ DOMAIN slots'[n] = SlotFields
        /\ slots'[n].mode \in Modes /\ row'[n] \in Modes
        /\ slots'[n].formats \subseteq Range(Device(n)'.formats)
  BY <1>1, <1>2, <1>3
<1> QED
  BY <1>1, <1>4, <1>5, <1>6, <1>7 DEF TypeOK

LEMMA ChangeTyped ==
  ASSUME TypeOK, NEW n \in DOMAIN slots, NEW u, Change(n, u)
  PROVE  TypeOK'
<1>1. Update(u) /\ Set(n, u)
  BY DEF Change
<1>2. /\ DOMAIN slots' = DOMAIN slots /\ slots'[n] = Over(u, slots[n])
      /\ \A m \in DOMAIN slots : m # n => slots'[m] = slots[m]
      /\ DOMAIN files' = DOMAIN files
      /\ \A s \in DOMAIN files : s # Slug(n) => files'[s] = files[s]
      /\ DOMAIN files'[Slug(n)] \subseteq All
      /\ machine' = machine /\ plugged' = plugged /\ row' = row
  BY <1>1, SetIs, Zenon
<1>3. Cameras' = Cameras /\ \A m : Device(m)' = Device(m)
  BY <1>2, SameMachine
<1>4. /\ DOMAIN slots'[n] = DOMAIN u \cup DOMAIN slots[n]
      /\ \A k \in DOMAIN u : slots'[n][k] = u[k]
      /\ \A k \in DOMAIN slots[n] \ DOMAIN u : slots'[n][k] = slots[n][k]
  <2>1. /\ DOMAIN Over(u, slots[n]) = DOMAIN u \cup DOMAIN slots[n]
        /\ \A k \in DOMAIN u : Over(u, slots[n])[k] = u[k]
        /\ \A k \in DOMAIN slots[n] \ DOMAIN u : Over(u, slots[n])[k] = slots[n][k]
    BY OverIs, Zenon
  <2> QED
    BY <1>2, <2>1, Zenon
<1>5. SlotOK(n)
  BY SlotsTyped
<1>6. /\ DOMAIN slots'[n] = SlotFields /\ slots'[n]["mode"] \in Modes
      /\ slots'[n]["formats"] = slots[n]["formats"]
  <2>1. SlotFields = All \cup {"vidpid", "formats"}
    BY DEF SlotFields, All
  <2>2. DOMAIN u \subseteq All /\ ("mode" \in DOMAIN u => u["mode"] \in Modes)
    BY <1>1 DEF Update
  <2>3. DOMAIN slots[n] = SlotFields /\ slots[n]["mode"] \in Modes
    BY <1>5 DEF SlotOK
  <2> QED
    BY <1>4, <2>1, <2>2, <2>3, FieldsAre
<1>7. machine' \in Machines /\ plugged' \in 1..Len(machine')
  BY <1>2 DEF TypeOK
<1>8. /\ DOMAIN files' = {Slug(m) : m \in NamesOf(Cameras')}
      /\ \A s \in DOMAIN files' : DOMAIN files'[s] \subseteq Fields \cup {"enabled"}
  BY <1>2, <1>3 DEF TypeOK, All
<1>9. DOMAIN slots' \subseteq NamesOf(Cameras') /\ DOMAIN row' = DOMAIN slots'
  BY <1>2, <1>3 DEF TypeOK
<1>10. ASSUME NEW m \in DOMAIN slots'
       PROVE  /\ DOMAIN slots'[m] = SlotFields
              /\ slots'[m].mode \in Modes /\ row'[m] \in Modes
              /\ slots'[m].formats \subseteq Range(Device(m)'.formats)
  <2>1. SlotOK(m)
    BY <1>2, SlotsTyped
  <2>2. CASE m = n
    BY <1>2, <1>3, <1>6, <2>1, <2>2 DEF SlotOK
  <2>3. CASE m # n
    BY <1>2, <1>3, <2>1, <2>3 DEF SlotOK
  <2> QED
    BY <2>2, <2>3
<1>11. fits' \subseteq DOMAIN slots'
  BY <1>2 DEF Change, TypeOK
<1> QED
  BY <1>7, <1>8, <1>9, <1>10, <1>11 DEF TypeOK

LEMMA TypeOKStep ==
  ASSUME TypeOK, [Next]_vars
  PROVE  TypeOK'
<1>1. CASE Starts
  BY <1>1, AddsAtStart, AddsTyped, Zenon
<1>2. CASE Discovers
  <2>1. slots \in {<<>>, slots}
    OBVIOUS
  <2> QED
    BY <1>2, <2>1, AddsLater, AddsTyped, Zenon
<1>3. CASE \E n \in DOMAIN slots : \E u : Change(n, u)
  BY <1>3, ChangeTyped, Zenon
<1>4. CASE /\ UNCHANGED <<machine, files, slots, unsaved, fits>>
           /\ plugged' \in 1..Len(machine)
           /\ row' = row \/ \E n \in DOMAIN slots : row' = [row EXCEPT ![n] = slots[n].mode]
  <2>1. Cameras' = Cameras /\ \A n : Device(n)' = Device(n)
    BY <1>4, SameMachine
  <2>2. DOMAIN row' = DOMAIN slots /\ \A n \in DOMAIN slots : row'[n] \in Modes
    BY <1>4 DEF TypeOK
  <2>3. /\ machine' = machine /\ files' = files /\ slots' = slots /\ fits' = fits
        /\ plugged' \in 1..Len(machine)
    BY <1>4
  <2> QED
    BY <2>1, <2>2, <2>3 DEF TypeOK
<1>5. CASE UNCHANGED vars
  <2>1. /\ machine' = machine /\ plugged' = plugged /\ files' = files /\ slots' = slots
        /\ row' = row /\ fits' = fits
    BY <1>5 DEF vars
  <2>2. Cameras' = Cameras /\ \A n : Device(n)' = Device(n)
    BY <2>1, SameMachine
  <2> QED
    BY <2>1, <2>2 DEF TypeOK
<1> QED
  BY <1>1, <1>2, <1>3, <1>4, <1>5, StepIs, Zenon

LEMMA InitTyped ==
  ASSUME Init
  PROVE  TypeOK
<1>1. DOMAIN <<>> = {}
  OBVIOUS
<1>2. machine \in Machines /\ plugged \in 1..Len(machine)
  BY DEF Init
<1>3. /\ DOMAIN files = {Slug(n) : n \in NamesOf(Cameras)}
      /\ \A s \in DOMAIN files : files[s] \in Files
  BY DEF Init
<1>4. \A s \in DOMAIN files : DOMAIN files[s] \subseteq Fields \cup {"enabled"}
  BY <1>3, CameraConfigAssumption
<1>5. DOMAIN slots = {} /\ DOMAIN row = {} /\ fits = {}
  BY <1>1 DEF Init
<1> QED
  BY <1>2, <1>3, <1>4, <1>5 DEF TypeOK

\* A slot is of a camera that there is, has every field, formats that the camera
\* has, and a mode there is, and so has its row (known_cameras.cpp:28-37,
\* main.cpp:415-438).
THEOREM CameraConfigTypeOK == Spec => []TypeOK
<1>1. Init => TypeOK
  BY InitTyped
<1>2. TypeOK /\ [Next]_vars => TypeOK'
  BY TypeOKStep
<1> QED
  BY <1>1, <1>2, PTL DEF Spec

-----------------------------------------------------------------------------
(* A camera is looked up under its own vendor and product.                   *)

LEMMA MachineStays ==
  ASSUME TypeOK, [Next]_vars
  PROVE  machine' = machine
<1>1. CASE Starts
  BY <1>1, AddsAtStart, AddsIs, Zenon
<1>2. CASE Discovers
  <2>1. slots \in {<<>>, slots}
    OBVIOUS
  <2> QED
    BY <1>2, <2>1, AddsLater, AddsIs, Zenon
<1>3. ASSUME NEW n \in DOMAIN slots, NEW u, Change(n, u)
      PROVE  machine' = machine
  BY <1>3, SetIs, Zenon DEF Change
<1>4. CASE UNCHANGED vars
  BY <1>4 DEF vars
<1> QED
  BY <1>1, <1>2, <1>3, <1>4, StepIs, Zenon

LEMMA OwnIdentityStep ==
  ASSUME TypeOK, OwnIdentity, [Next]_vars
  PROVE  OwnIdentity'
<1> DEFINE Own(n) == slots'[n]["vidpid"] = VidPid(Device(n).alt)
<1>0. \A n : Device(n)' = Device(n)
  BY MachineStays, SameMachine
<1>1. SUFFICES \A n \in DOMAIN slots' : Own(n)
  BY <1>0 DEF OwnIdentity
<1>2. ASSUME NEW old \in {<<>>, slots}, NEW devices \in SUBSET EnumerateCameras,
             NamesOf(devices) \cap DOMAIN old = {}, Adds(old, devices)
      PROVE  \A n \in DOMAIN slots' : Own(n)
  <2> SUFFICES ASSUME NEW n \in DOMAIN slots'
               PROVE  Own(n)
    OBVIOUS
  <2>1. \/ n \in NamesOf(Cameras) /\ NewSlot(n, slots'[n])
        \/ n \in DOMAIN slots /\ slots'[n] = slots[n]
    BY <1>2, AddsIs, Zenon
  <2>2. CASE n \in NamesOf(Cameras) /\ NewSlot(n, slots'[n])
    BY <2>2, NewSlotIs, Zenon
  <2>3. CASE n \in DOMAIN slots /\ slots'[n] = slots[n]
    BY <2>3 DEF OwnIdentity
  <2> QED
    BY <2>1, <2>2, <2>3
<1>3. ASSUME NEW n \in DOMAIN slots, NEW u, Change(n, u)
      PROVE  \A m \in DOMAIN slots' : Own(m)
  <2> SUFFICES ASSUME NEW m \in DOMAIN slots'
               PROVE  Own(m)
    OBVIOUS
  <2>1. Update(u) /\ Set(n, u)
    BY <1>3 DEF Change
  <2>2. /\ DOMAIN slots' = DOMAIN slots /\ slots'[n] = Over(u, slots[n])
        /\ \A p \in DOMAIN slots : p # n => slots'[p] = slots[p]
    BY <2>1, SetIs, Zenon
  <2>3. slots[m]["vidpid"] = VidPid(Device(m).alt) /\ DOMAIN slots[n] = SlotFields
    BY <2>2, SlotsTyped DEF OwnIdentity, SlotOK
  <2>4. CASE m = n
    <3>1. "vidpid" \in DOMAIN slots[n] \ DOMAIN u
      BY <2>1, <2>3, FieldsAre DEF Update, SlotFields
    <3>2. \A k \in DOMAIN slots[n] \ DOMAIN u : Over(u, slots[n])[k] = slots[n][k]
      BY OverIs, Zenon
    <3> QED
      BY <2>2, <2>3, <2>4, <3>1, <3>2
  <2>5. CASE m # n
    BY <2>2, <2>3, <2>5
  <2> QED
    BY <2>4, <2>5
<1>4. CASE slots' = slots
  BY <1>4 DEF OwnIdentity
<1>5. CASE Starts
  BY <1>2, <1>5, AddsAtStart, Zenon
<1>6. CASE Discovers
  <2>1. slots \in {<<>>, slots}
    OBVIOUS
  <2> QED
    BY <1>2, <1>6, <2>1, AddsLater, Zenon
<1> QED
  BY <1>3, <1>4, <1>5, <1>6, StepIs, Zenon DEF vars

\* Whatever devices of whatever kind ffmpeg lists around it and in whatever order,
\* with an alternative name or without, a camera is looked up under the vendor and
\* product of its own (camera_enum.cpp:21-54): no microphone's and no neighbour's.
THEOREM IdentityAlways == Spec => []OwnIdentity
<1>1. Init => OwnIdentity
  <2>1. DOMAIN <<>> = {}
    OBVIOUS
  <2> QED
    BY <2>1 DEF Init, OwnIdentity
<1>2. TypeOK /\ OwnIdentity /\ [Next]_vars => OwnIdentity'
  BY OwnIdentityStep
<1> QED
  BY <1>1, <1>2, CameraConfigTypeOK, PTL DEF Spec

-----------------------------------------------------------------------------
(* A restart brings every camera up as it was.                               *)

LEMMA NewSlotKeeps ==
  ASSUME TypeOK, NEW n \in NamesOf(Cameras), NEW s, NewSlot(n, s)
  PROVE  Keeps(s, LoadOverride(Slug(n)))
<1> DEFINE v == s["vidpid"]
           fs == s["formats"]
           ov == LoadOverride(Slug(n))
           base == Base(v, fs)
           r == Resolve(n, v, fs)
           m == IF "mode" \in DOMAIN ov THEN ov["mode"] ELSE base["mode"]
<1>1. \A k \in All : s[k] = r[k]
  BY NewSlotIs, Zenon
<1>2. Resolves(r, ov, base)
  <2>1. DOMAIN files[Slug(n)] \subseteq All
    BY FilesTyped
  <2> QED
    BY <2>1, ResolveIs, Zenon
<1> HIDE DEF r, ov, base
<1>3. /\ \A k \in {"w", "h"} : s[k] = IF k \in DOMAIN ov THEN ov[k] ELSE base[k]
      /\ s["enabled"] = IF "enabled" \in DOMAIN ov THEN ov["enabled"] ELSE TRUE
      /\ s["mode"] \in UiModes => s["mode"] = IF m \in UiModes THEN m ELSE Mjpeg
  BY <1>1, <1>2, FieldsAre DEF Resolves
<1> QED
  BY <1>3, Zenon DEF Keeps, ov, base

\* The same change of a slot and of its override.
LEMMA ChangeKeeps ==
  ASSUME NEW s, NEW ov, NEW u, NEW t, NEW new, Keeps(s, ov), Update(u),
         DOMAIN s = SlotFields, t = Over(u, s),
         DOMAIN new = DOMAIN u \cup DOMAIN ov,
         \A k \in DOMAIN new : new[k] = IF k \in DOMAIN u THEN u[k] ELSE ov[k]
  PROVE  Keeps(t, new)
<1> DEFINE base == Base(s["vidpid"], s["formats"])
           m == IF "mode" \in DOMAIN ov THEN ov["mode"] ELSE base["mode"]
           p == IF "mode" \in DOMAIN new THEN new["mode"] ELSE base["mode"]
<1>1. /\ \A k \in {"w", "h"} : s[k] = IF k \in DOMAIN ov THEN ov[k] ELSE base[k]
      /\ s["enabled"] = IF "enabled" \in DOMAIN ov THEN ov["enabled"] ELSE TRUE
      /\ s["mode"] \in UiModes => s["mode"] = IF m \in UiModes THEN m ELSE Mjpeg
  BY Zenon DEF Keeps
<1>2. /\ \A k \in DOMAIN u : t[k] = u[k]
      /\ \A k \in SlotFields \ DOMAIN u : t[k] = s[k]
  <2>1. /\ \A k \in DOMAIN u : Over(u, s)[k] = u[k]
        /\ \A k \in DOMAIN s \ DOMAIN u : Over(u, s)[k] = s[k]
    BY OverIs, Zenon
  <2> QED
    BY <2>1, Zenon
<1>3. /\ t["vidpid"] = s["vidpid"] /\ t["formats"] = s["formats"]
      /\ DOMAIN u \subseteq {"mode", "w", "h", "enabled"}
  <2>1. DOMAIN u \subseteq {"mode", "w", "h", "enabled"}
    BY FieldsAre DEF Update
  <2>2. "vidpid" \in SlotFields \ DOMAIN u /\ "formats" \in SlotFields \ DOMAIN u
    BY <2>1 DEF SlotFields
  <2> QED
    BY <1>2, <2>1, <2>2
<1>4. {"mode", "w", "h", "enabled"} \subseteq SlotFields
  BY FieldsAre DEF SlotFields, Fields
<1> HIDE DEF base
<1>5. \A k \in {"w", "h"} : t[k] = IF k \in DOMAIN new THEN new[k] ELSE base[k]
  BY <1>1, <1>2, <1>4
<1>6. t["enabled"] = IF "enabled" \in DOMAIN new THEN new["enabled"] ELSE TRUE
  BY <1>1, <1>2, <1>4
<1>7. t["mode"] \in UiModes => t["mode"] = IF p \in UiModes THEN p ELSE Mjpeg
  <2>1. CASE "mode" \in DOMAIN u
    <3>1. t["mode"] = u["mode"] /\ p = u["mode"]
      BY <1>2, <2>1
    <3> QED
      BY <3>1
  <2>2. CASE "mode" \notin DOMAIN u
    <3>1. t["mode"] = s["mode"] /\ p = m
      BY <1>2, <1>4, <2>2
    <3> QED
      BY <1>1, <3>1, Zenon
  <2> QED
    BY <2>1, <2>2
<1>8. base = Base(t["vidpid"], t["formats"])
  BY <1>3 DEF base
<1> QED
  BY <1>5, <1>6, <1>7, <1>8, Zenon DEF Keeps

\* Two slots that one override, one profile and the same formats make.
LEMMA KeepsDetermine ==
  ASSUME NEW s, NEW t, NEW ov, Keeps(s, ov), Keeps(t, ov), s["vidpid"] = t["vidpid"],
         s["formats"] = t["formats"], s["mode"] \in UiModes, t["mode"] \in UiModes
  PROVE  Cfg(s) = Cfg(t)
<1> DEFINE base == Base(s["vidpid"], s["formats"])
           m == IF "mode" \in DOMAIN ov THEN ov["mode"] ELSE base["mode"]
           M == IF m \in UiModes THEN m ELSE Mjpeg
<1>1. /\ \A k \in {"w", "h"} : s[k] = IF k \in DOMAIN ov THEN ov[k] ELSE base[k]
      /\ s["enabled"] = IF "enabled" \in DOMAIN ov THEN ov["enabled"] ELSE TRUE
      /\ s["mode"] = M
  BY Zenon DEF Keeps
<1>2. /\ \A k \in {"w", "h"} : t[k] = IF k \in DOMAIN ov THEN ov[k] ELSE base[k]
      /\ t["enabled"] = IF "enabled" \in DOMAIN ov THEN ov["enabled"] ELSE TRUE
      /\ t["mode"] = M
  BY Zenon DEF Keeps
<1> HIDE DEF base, M
<1>3. s["w"] = t["w"] /\ s["h"] = t["h"] /\ s["enabled"] = t["enabled"] /\ s["mode"] = t["mode"]
  BY <1>1, <1>2
<1> QED
  BY <1>3, Zenon DEF Cfg

\* What is read after a step.
LEMMA LoadedNext ==
  ASSUME NEW s, DOMAIN files'[s] \subseteq All
  PROVE  /\ files'[s] = files[s] => LoadOverride(s)' = LoadOverride(s)
         /\ ("mode" \in DOMAIN files'[s] => files'[s]["mode"] \in Modes)
              => /\ DOMAIN LoadOverride(s)' = DOMAIN files'[s]
                 /\ \A k \in DOMAIN files'[s] : LoadOverride(s)'[k] = files'[s][k]
<1>1. ASSUME files'[s] = files[s]
      PROVE  LoadOverride(s)' = LoadOverride(s)
  BY <1>1 DEF LoadOverride
<1>2. ASSUME "mode" \in DOMAIN files'[s] => files'[s]["mode"] \in Modes
      PROVE  /\ DOMAIN LoadOverride(s)' = DOMAIN files'[s]
             /\ \A k \in DOMAIN files'[s] : LoadOverride(s)'[k] = files'[s][k]
  BY <1>2 DEF LoadOverride, Restrict
<1> QED
  BY <1>1, <1>2

\* A step that changes no file and adds slots.
LEMMA AddsKeep ==
  ASSUME TypeOK, KeepInv, NEW old \in {<<>>, slots}, NEW devices \in SUBSET EnumerateCameras,
         NamesOf(devices) \cap DOMAIN old = {}, Adds(old, devices),
         DOMAIN old # {} => unsaved' = unsaved
  PROVE  KeepInv'
<1>1. /\ \A n \in DOMAIN slots' :
           \/ n \in NamesOf(Cameras) /\ NewSlot(n, slots'[n])
           \/ old = slots /\ n \in DOMAIN slots /\ slots'[n] = slots[n]
      /\ machine' = machine /\ files' = files
  BY AddsIs, Zenon
<1>2. \A n : OwnFile(n)' <=> OwnFile(n)
  BY <1>1, SameMachine
<1>3. \A n : LoadOverride(Slug(n))' = LoadOverride(Slug(n))
  BY <1>1 DEF LoadOverride
<1>4. ASSUME NEW n \in DOMAIN slots' \ unsaved', OwnFile(n)
      PROVE  Keeps(slots'[n], LoadOverride(Slug(n)))
  <2>1. CASE n \in NamesOf(Cameras) /\ NewSlot(n, slots'[n])
    BY <2>1, NewSlotKeeps, Zenon
  <2>2. CASE old = slots /\ n \in DOMAIN slots /\ slots'[n] = slots[n]
    <3>1. n \in DOMAIN slots \ unsaved
      BY <1>4, <2>2
    <3>2. Keeps(slots[n], LoadOverride(Slug(n)))
      BY <1>4, <3>1 DEF KeepInv
    <3> QED
      BY <2>2, <3>2
  <2> QED
    BY <1>1, <2>1, <2>2
<1> QED
  BY <1>2, <1>3, <1>4 DEF KeepInv

\* What the disk has after a change that is saved, and for the others.
LEMMA ChangeOnDisk ==
  ASSUME TypeOK, NEW n \in DOMAIN slots, NEW u, Change(n, u), NEW m \in DOMAIN slots, OwnFile(m)
  PROVE  /\ m # n => LoadOverride(Slug(m))' = LoadOverride(Slug(m))
         /\ unsaved' = unsaved \/ unsaved' = unsaved \cup {n}
         /\ (m = n /\ n \notin unsaved')
              => LET ov == LoadOverride(Slug(n))
                     new == LoadOverride(Slug(n))'
                 IN  /\ DOMAIN new = DOMAIN u \cup DOMAIN ov
                     /\ \A k \in DOMAIN new : new[k] = IF k \in DOMAIN u THEN u[k] ELSE ov[k]
<1>0. Update(u) /\ Set(n, u)
  BY DEF Change
<1>1. /\ DOMAIN files' = DOMAIN files
      /\ \A s \in DOMAIN files : s # Slug(n) => files'[s] = files[s]
      /\ \/ unsaved' = unsaved /\ files'[Slug(n)] = Over(u, LoadOverride(Slug(n)))
         \/ unsaved' = unsaved \cup {n}
      /\ DOMAIN files'[Slug(n)] \subseteq All
  BY <1>0, SetIs, Zenon
<1>2. n \in NamesOf(Cameras) /\ m \in NamesOf(Cameras)
  BY SlotsTyped
<1>3. ASSUME m # n
      PROVE  LoadOverride(Slug(m))' = LoadOverride(Slug(m))
  <2>1. Slug(m) # Slug(n)
    BY <1>2, <1>3 DEF OwnFile
  <2>2. files'[Slug(m)] = files[Slug(m)]
    BY <1>1, <1>2, <2>1, FilesTyped
  <2> QED
    BY <2>2 DEF LoadOverride
<1>4. ASSUME m = n, n \notin unsaved'
      PROVE  LET ov == LoadOverride(Slug(n))
                 new == LoadOverride(Slug(n))'
             IN  /\ DOMAIN new = DOMAIN u \cup DOMAIN ov
                 /\ \A k \in DOMAIN new : new[k] = IF k \in DOMAIN u THEN u[k] ELSE ov[k]
  <2> DEFINE s == Slug(n)
             ov == LoadOverride(s)
             f == files'[s]
  <2>1. f = Over(u, ov)
    BY <1>1, <1>4
  <2>2. DOMAIN files[s] \subseteq All
    BY <1>2, FilesTyped
  <2>3. DOMAIN ov \subseteq All /\ ("mode" \in DOMAIN ov => ov["mode"] \in Modes)
    BY <2>2, LoadIs, Zenon
  <2>4. DOMAIN u \subseteq All /\ ("mode" \in DOMAIN u => u["mode"] \in Modes)
    BY <1>0 DEF Update
  <2>5. /\ DOMAIN f = DOMAIN u \cup DOMAIN ov
        /\ \A k \in DOMAIN u : f[k] = u[k]
        /\ \A k \in DOMAIN ov \ DOMAIN u : f[k] = ov[k]
    <3>1. /\ DOMAIN Over(u, ov) = DOMAIN u \cup DOMAIN ov
          /\ \A k \in DOMAIN u : Over(u, ov)[k] = u[k]
          /\ \A k \in DOMAIN ov \ DOMAIN u : Over(u, ov)[k] = ov[k]
      BY OverIs, Zenon
    <3> QED
      BY <2>1, <3>1, Zenon
  <2>6. "mode" \in DOMAIN f => f["mode"] \in Modes
    <3> HIDE DEF f, ov
    <3> QED
      BY <2>3, <2>4, <2>5
  <2>7. /\ DOMAIN LoadOverride(s)' = DOMAIN f
        /\ \A k \in DOMAIN f : LoadOverride(s)'[k] = f[k]
    BY <2>6 DEF LoadOverride, Restrict
  <2> DEFINE new == LoadOverride(s)'
  <2>8. DOMAIN new = DOMAIN f /\ \A k \in DOMAIN f : new[k] = f[k]
    BY <2>7
  <2> HIDE DEF new, ov, f
  <2>9. /\ DOMAIN new = DOMAIN u \cup DOMAIN ov
        /\ \A k \in DOMAIN new : new[k] = IF k \in DOMAIN u THEN u[k] ELSE ov[k]
    BY <2>5, <2>8
  <2> QED
    BY <2>9, Zenon DEF new, ov, f
<1>5. unsaved' = unsaved \/ unsaved' = unsaved \cup {n}
  BY <1>1
<1> QED
  BY <1>3, <1>4, <1>5, Zenon

LEMMA ChangeInKeepInv ==
  ASSUME TypeOK, KeepInv, NEW n \in DOMAIN slots, NEW u, Change(n, u)
  PROVE  KeepInv'
<1>0. Update(u) /\ Set(n, u)
  BY DEF Change
<1>1. /\ DOMAIN slots' = DOMAIN slots /\ slots'[n] = Over(u, slots[n])
      /\ \A m \in DOMAIN slots : m # n => slots'[m] = slots[m]
      /\ machine' = machine
  BY <1>0, SetIs, Zenon
<1>2. \A m : OwnFile(m)' <=> OwnFile(m)
  BY <1>1, SameMachine
<1>3. ASSUME NEW m \in DOMAIN slots, m \notin unsaved', OwnFile(m)
      PROVE  Keeps(slots'[m], LoadOverride(Slug(m))')
  <2>1. m \notin unsaved
    BY <1>3, ChangeOnDisk
  <2>2. Keeps(slots[m], LoadOverride(Slug(m)))
    BY <1>3, <2>1 DEF KeepInv
  <2>3. CASE m # n
    <3>1. LoadOverride(Slug(m))' = LoadOverride(Slug(m))
      BY <1>3, <2>3, ChangeOnDisk, Zenon
    <3> QED
      BY <1>1, <2>2, <2>3, <3>1, Zenon
  <2>4. CASE m = n
    <3> DEFINE ov == LoadOverride(Slug(n))
               new == LoadOverride(Slug(n))'
               s == slots[n]
               t == slots'[n]
    <3>1. /\ DOMAIN new = DOMAIN u \cup DOMAIN ov
          /\ \A k \in DOMAIN new : new[k] = IF k \in DOMAIN u THEN u[k] ELSE ov[k]
      BY <1>3, <2>4, ChangeOnDisk, Zenon
    <3>2. DOMAIN s = SlotFields
      BY SlotsTyped DEF SlotOK
    <3>3. t = Over(u, s) /\ Keeps(s, ov)
      BY <1>1, <2>2, <2>4
    <3> HIDE DEF ov, new, s, t
    <3>4. Keeps(t, new)
      BY <1>0, <3>1, <3>2, <3>3, ChangeKeeps
    <3> QED
      BY <2>4, <3>4, Zenon DEF new, t
  <2> QED
    BY <2>3, <2>4
<1> QED
  BY <1>1, <1>2, <1>3 DEF KeepInv

LEMMA KeepInvStep ==
  ASSUME TypeOK, KeepInv, [Next]_vars
  PROVE  KeepInv'
<1>1. CASE Starts
  <2>1. DOMAIN <<>> = {}
    OBVIOUS
  <2> QED
    BY <1>1, <2>1, AddsAtStart, AddsKeep, Zenon
<1>2. CASE Discovers
  <2>1. slots \in {<<>>, slots}
    OBVIOUS
  <2> QED
    BY <1>2, <2>1, AddsLater, AddsKeep, Zenon
<1>3. CASE \E n \in DOMAIN slots : \E u : Change(n, u)
  BY <1>3, ChangeInKeepInv, Zenon
<1>4. CASE UNCHANGED <<machine, files, slots, unsaved>>
  <2>1. \A n : OwnFile(n)' <=> OwnFile(n)
    BY <1>4, SameMachine
  <2>2. \A n : LoadOverride(Slug(n))' = LoadOverride(Slug(n))
    BY <1>4 DEF LoadOverride
  <2> QED
    BY <1>4, <2>1, <2>2 DEF KeepInv
<1> QED
  BY <1>1, <1>2, <1>3, <1>4, StepIs, Zenon DEF vars

LEMMA CameraConfigKeeps == Spec => []KeepInv
<1>1. Init => KeepInv
  <2>1. DOMAIN <<>> = {}
    OBVIOUS
  <2> QED
    BY <2>1 DEF Init, KeepInv
<1>2. TypeOK /\ KeepInv /\ [Next]_vars => KeepInv'
  BY KeepInvStep
<1> QED
  BY <1>1, <1>2, CameraConfigTypeOK, PTL DEF Spec

\* What a restart may not do: the step RestartKeepsAll is about.
RestartKeeps ==
  Starts =>
    \A n \in DOMAIN slots \cap DOMAIN slots' :
      LET old == slots[n]
          new == slots'[n]
      IN  n \notin unsaved /\ OwnFile(n) /\ old.formats = new.formats
            /\ old.mode \in UiModes
          => Cfg(new) = Cfg(old)

LEMMA RestartStep ==
  ASSUME TypeOK, OwnIdentity, KeepInv
  PROVE  RestartKeeps
<1> SUFFICES ASSUME Starts, NEW n \in DOMAIN slots \cap DOMAIN slots', n \notin unsaved,
                    OwnFile(n), slots[n]["formats"] = slots'[n]["formats"],
                    slots[n]["mode"] \in UiModes
             PROVE  Cfg(slots'[n]) = Cfg(slots[n])
  BY DEF RestartKeeps
<1>1. n \in NamesOf(Cameras) /\ NewSlot(n, slots'[n])
  <2>1. <<>> # slots
    OBVIOUS
  <2>2. \/ n \in NamesOf(Cameras) /\ NewSlot(n, slots'[n])
        \/ <<>> = slots
    BY AddsAtStart, AddsIs, Zenon
  <2> QED
    BY <2>1, <2>2
<1>2. Keeps(slots[n], LoadOverride(Slug(n)))
  BY DEF KeepInv
<1>3. Keeps(slots'[n], LoadOverride(Slug(n)))
  BY <1>1, NewSlotKeeps, Zenon
<1>4. slots'[n]["vidpid"] = slots[n]["vidpid"] /\ slots'[n]["mode"] \in UiModes
  <2>1. slots'[n]["vidpid"] = VidPid(Device(n).alt) /\ slots'[n]["mode"] \in UiModes
    BY <1>1, NewSlotIs, Zenon
  <2>2. slots[n]["vidpid"] = VidPid(Device(n).alt)
    BY DEF OwnIdentity
  <2> QED
    BY <2>1, <2>2
<1> QED
  BY <1>2, <1>3, <1>4, KeepsDetermine, Zenon

\* A restart, or a crash and a restart, brings every camera up as it was, field by
\* field, wherever each comes from (main.cpp:415-438, known_cameras.cpp:67-96,
\* camera_probe.cpp:76-92), but for the exceptions the property names.
THEOREM RestartKeepsAlways == Spec => RestartKeepsAll
<1>1. TypeOK /\ OwnIdentity /\ KeepInv /\ [Next]_vars => [RestartKeeps]_vars
  BY RestartStep
<1>2. [][RestartKeeps]_vars => RestartKeepsAll
  BY PTL DEF RestartKeepsAll, RestartKeeps
<1> QED
  BY <1>1, <1>2, CameraConfigTypeOK, IdentityAlways, CameraConfigKeeps, PTL DEF Spec

-----------------------------------------------------------------------------
(* The largest format, and what is picked of them.                           *)

LEMMA PlaceIs ==
  ASSUME NEW c \in Range(Codecs)
  PROVE  Place(c) \in 1..4 /\ Codecs[Place(c)] = c
<1>1. DOMAIN Codecs = 1..4
  BY DEF Codecs
<1>2. \E i \in DOMAIN Codecs : Codecs[i] = c
  BY DEF Range
<1>3. Place(c) \in DOMAIN Codecs /\ Codecs[Place(c)] = c
  BY <1>2, Zenon DEF Place
<1> QED
  BY <1>1, <1>3

\* The order is lexicographic.
LEMMA BeforeIs ==
  ASSUME NEW f, NEW g
  PROVE  Before(f, g) <=>
           \/ Place(f.codec) < Place(g.codec)
           \/ Place(f.codec) = Place(g.codec) /\ f.w < g.w
           \/ Place(f.codec) = Place(g.codec) /\ f.w = g.w /\ f.h < g.h
<1> DEFINE F == <<Place(f.codec), f.w, f.h>>
           G == <<Place(g.codec), g.w, g.h>>
<1>1. /\ F[1] = Place(f.codec) /\ F[2] = f.w /\ F[3] = f.h
      /\ G[1] = Place(g.codec) /\ G[2] = g.w /\ G[3] = g.h
  OBVIOUS
<1>2. Before(f, g) <=> \E i \in 1..3 : F[i] < G[i] /\ \A j \in 1..(i - 1) : F[j] = G[j]
  BY DEF Before
<1> HIDE DEF F, G
<1>3. (\E i \in 1..3 : F[i] < G[i] /\ \A j \in 1..(i - 1) : F[j] = G[j])
        <=> \/ F[1] < G[1]
            \/ F[1] = G[1] /\ F[2] < G[2]
            \/ F[1] = G[1] /\ F[2] = G[2] /\ F[3] < G[3]
  OBVIOUS
<1> QED
  BY <1>1, <1>2, <1>3

Bigger(f, g) == Area(g) < Area(f) \/ (Area(g) = Area(f) /\ Before(f, g))

\* Of two formats one comes first, and the order is transitive.
LEMMA BiggerIsOrder ==
  ASSUME NEW f \in Format, NEW g \in Format
  PROVE  /\ f # g => Bigger(f, g) \/ Bigger(g, f)
         /\ \A h \in Format : Bigger(f, g) /\ Bigger(g, h) => Bigger(f, h)
<1> DEFINE P(x) == Place(x.codec)
           A(x) == Area(x)
<1>1. \A x \in Format : P(x) \in Nat /\ x.w \in Nat /\ x.h \in Nat /\ A(x) \in Int
  <2> SUFFICES ASSUME NEW x \in Format
               PROVE  P(x) \in Nat /\ x.w \in Nat /\ x.h \in Nat /\ A(x) \in Int
    OBVIOUS
  <2>1. x.codec \in Range(Codecs) /\ x.w \in Nat /\ x.h \in Nat
    BY DEF Format
  <2>2. P(x) \in Nat
    BY <2>1, PlaceIs
  <2>3. A(x) \in Int
    BY <2>1 DEF Area
  <2> QED
    BY <2>1, <2>2, <2>3
<1>2. P(f) = P(g) /\ f.w = g.w /\ f.h = g.h => f = g
  <2>1. f.codec \in Range(Codecs) /\ g.codec \in Range(Codecs)
    BY DEF Format
  <2>2. P(f) = P(g) => f.codec = g.codec
    BY <2>1, PlaceIs, Zenon
  <2> HIDE DEF P
  <2> QED
    BY <2>2 DEF Format
<1>3. ASSUME NEW x \in Format, NEW y \in Format
      PROVE  Bigger(x, y) <=>
               \/ A(y) < A(x)
               \/ /\ A(y) = A(x)
                  /\ \/ P(x) < P(y)
                     \/ P(x) = P(y) /\ x.w < y.w
                     \/ P(x) = P(y) /\ x.w = y.w /\ x.h < y.h
  BY BeforeIs DEF Bigger
<1> HIDE DEF P, A
<1>4. f # g => Bigger(f, g) \/ Bigger(g, f)
  BY <1>1, <1>2, <1>3
<1>5. ASSUME NEW h \in Format, Bigger(f, g), Bigger(g, h)
      PROVE  Bigger(f, h)
  BY <1>1, <1>3, <1>5
<1> QED
  BY <1>4, <1>5

\* Finitely many formats have a largest.
LEMMA LargestIsOne ==
  ASSUME NEW S, IsFiniteSet(S), S \subseteq Format, S # {}
  PROVE  Largest(S) \in S
<1> DEFINE Top(Q, f) == \A g \in Q \ {f} : Bigger(f, g)
           Bad == {Q \in SUBSET S : Q # {} /\ \A f \in Q : ~Top(Q, f)}
           T == {k \in Nat : \E Q \in Bad : Cardinality(Q) = k}
<1>1. \A Q \in SUBSET S : IsFiniteSet(Q) /\ Cardinality(Q) \in Nat
  BY FS_Subset, FS_CardinalityType
<1>2. ASSUME T # {}
      PROVE  FALSE
  <2>1. PICK k \in T : \A l \in T : k <= l
    BY <1>2, LeastNat
  <2>2. PICK Q \in Bad : Cardinality(Q) = k
    OBVIOUS
  <2>3. PICK x \in Q : TRUE
    OBVIOUS
  <2> DEFINE R == Q \ {x}
  <2>4. Cardinality(R) \in Nat /\ Cardinality(R) < k /\ R \in SUBSET S
    <3>1. IsFiniteSet(Q) /\ Q \in SUBSET S /\ k \in Nat
      BY <1>1
    <3>2. Cardinality(R) = Cardinality(Q) - 1
      BY <2>3, <3>1, FS_RemoveElement
    <3>3. Cardinality(R) \in Nat /\ R \in SUBSET S
      BY <1>1, <3>1
    <3> QED
      BY <2>2, <3>1, <3>2, <3>3
  <2>5. R \notin Bad
    <3>1. R \in Bad => Cardinality(R) \in T
      BY <2>4
    <3>2. k \in Nat /\ \A l \in T : k <= l
      BY <2>1
    <3> HIDE DEF T, Bad, R
    <3> QED
      BY <2>4, <3>1, <3>2
  <2>6. CASE R = {}
    <3>1. Top(Q, x)
      BY <2>6
    <3> QED
      BY <2>2, <2>3, <3>1
  <2>7. CASE R # {}
    <3>1. PICK y \in R : Top(R, y)
      BY <2>4, <2>5, <2>7
    <3>2. x \in Format /\ y \in Format /\ x # y /\ y \in Q /\ \A g \in Q : g \in Format
      BY <2>2, <2>3, <3>1
    <3>3. CASE Bigger(y, x)
      <4>1. Top(Q, y)
        BY <3>1, <3>3
      <4> QED
        BY <2>2, <3>2, <4>1
    <3>4. CASE Bigger(x, y)
      <4>1. ASSUME NEW g \in Q \ {x}
            PROVE  Bigger(x, g)
        <5>1. CASE g = y
          BY <3>4, <5>1
        <5>2. CASE g # y
          <6>1. Bigger(y, g)
            BY <3>1, <4>1, <5>2
          <6> QED
            BY <3>2, <3>4, <6>1, BiggerIsOrder
        <5> QED
          BY <5>1, <5>2
      <4> QED
        BY <2>2, <2>3, <4>1
    <3> QED
      BY <3>2, <3>3, <3>4, BiggerIsOrder
  <2> QED
    BY <2>6, <2>7
<1>3. \E f \in S : Top(S, f)
  <2>1. S \in Bad => Cardinality(S) \in T
    BY <1>1
  <2>2. S \notin Bad
    BY <1>2, <2>1
  <2> QED
    BY <2>2
<1>4. Largest(S) = CHOOSE f \in S : Top(S, f)
  BY DEF Largest, Bigger
<1> HIDE DEF Top
<1> QED
  BY <1>3, <1>4

\* What is picked is one of the formats, with one of the codecs, if there is one.
LEMMA PickBestIsOne ==
  ASSUME NEW formats, IsFiniteSet(formats), formats \subseteq Format, NEW codecs
  PROVE  \/ PickBest(formats, codecs) = <<>> /\ \A f \in formats : f.codec \notin codecs
         \/ \E f \in formats : f.codec \in codecs /\ PickBest(formats, codecs) = <<f>>
<1> DEFINE fs == {f \in formats : f.codec \in codecs}
           exact == {f \in fs : f.w = 640 /\ f.h = 480}
           small == {f \in fs : f.w <= 640 /\ f.h <= 480}
           p == PickBest(formats, codecs)
<1>1. p = CASE exact # {} -> <<Largest(exact)>>
            [] exact = {} /\ small # {} -> <<Largest(small)>>
            [] OTHER -> IF fs = {} THEN <<>> ELSE <<Largest(fs)>>
  BY DEF PickBest
<1>2. \A Q \in SUBSET fs : Q # {} => Largest(Q) \in fs
  <2> SUFFICES ASSUME NEW Q \in SUBSET fs, Q # {}
               PROVE  Largest(Q) \in Q
    OBVIOUS
  <2>1. Q \in SUBSET formats /\ Q \subseteq Format
    OBVIOUS
  <2>2. IsFiniteSet(Q)
    BY <2>1, FS_Subset
  <2> HIDE DEF fs
  <2> QED
    BY <2>1, <2>2, LargestIsOne
<1>3. exact \in SUBSET fs /\ small \in SUBSET fs /\ fs \in SUBSET fs
  OBVIOUS
<1> HIDE DEF p, exact, small
<1>4. (\E f \in fs : p = <<f>>) \/ (p = <<>> /\ fs = {})
  <2>1. CASE exact # {}
    <3>1. p = <<Largest(exact)>>
      BY <1>1, <2>1, Zenon
    <3> HIDE DEF fs
    <3> QED
      BY <1>2, <1>3, <2>1, <3>1
  <2>2. CASE exact = {} /\ small # {}
    <3>1. p = <<Largest(small)>>
      BY <1>1, <2>2, Zenon
    <3> HIDE DEF fs
    <3> QED
      BY <1>2, <1>3, <2>2, <3>1
  <2>3. CASE exact = {} /\ small = {}
    <3> HIDE DEF fs
    <3>1. p = IF fs = {} THEN <<>> ELSE <<Largest(fs)>>
      BY <1>1, <2>3, Zenon
    <3>2. CASE fs = {}
      BY <3>1, <3>2
    <3>3. CASE fs # {}
      BY <1>2, <1>3, <3>1, <3>3
    <3> QED
      BY <3>2, <3>3
  <2> QED
    BY <2>1, <2>2, <2>3
<1> QED
  BY <1>4 DEF p

\* The smart pick asks for a format there is, unless h264 is all there is.
LEMMA PickDefaultIsHad ==
  ASSUME NEW formats, IsFiniteSet(formats), formats \subseteq Format,
         \E f \in formats : f.codec # "h264"
  PROVE  Has(formats, PickDefaultFromFormats(formats))
<1> DEFINE mjpeg == PickBest(formats, {"mjpeg"})
           raw == PickBest(formats, RawCodecs)
           p == PickDefaultFromFormats(formats)
           in == BuildFFmpegArgs(p)
<1>1. /\ mjpeg # <<>> => p = [mode |-> Mjpeg, w |-> mjpeg[1].w, h |-> mjpeg[1].h]
      /\ mjpeg = <<>> /\ raw # <<>> => p = [mode |-> RawMode, w |-> raw[1].w, h |-> raw[1].h]
  <2> DEFINE x == [mode |-> Mjpeg, w |-> mjpeg[1].w, h |-> mjpeg[1].h]
             y == [mode |-> RawMode, w |-> raw[1].w, h |-> raw[1].h]
             z == [mode |-> Mjpeg, w |-> 640, h |-> 480]
  <2>1. p = CASE mjpeg # <<>> -> x [] mjpeg = <<>> /\ raw # <<>> -> y [] OTHER -> z
    BY DEF PickDefaultFromFormats
  <2> HIDE DEF p, x, y, z, mjpeg, raw
  <2>2. (mjpeg # <<>> => p = x) /\ (mjpeg = <<>> /\ raw # <<>> => p = y)
    BY <2>1, Zenon
  <2> QED
    BY <2>2 DEF x, y
<1>2. in.w = p["w"] /\ in.h = p["h"]
  BY DEF BuildFFmpegArgs
<1>3. /\ p["mode"] = Mjpeg => in.codec = "mjpeg"
      /\ p["mode"] = RawMode => in.codec = "yuyv422"
  <2>1. ASSUME p["mode"] = Mjpeg
        PROVE  in.codec = "mjpeg"
    <3> HIDE DEF p
    <3> QED
      BY <2>1 DEF BuildFFmpegArgs, Mjpeg, RawMode
  <2>2. ASSUME p["mode"] = RawMode
        PROVE  in.codec = "yuyv422"
    <3> HIDE DEF p
    <3> QED
      BY <2>2 DEF BuildFFmpegArgs, RawMode
  <2> QED
    BY <2>1, <2>2
<1> HIDE DEF p, mjpeg, raw, in
<1>4. CASE \E f \in formats : f.codec \in {"mjpeg"} /\ mjpeg = <<f>>
  <2>1. PICK f \in formats : f.codec = "mjpeg" /\ mjpeg = <<f>>
    BY <1>4
  <2>2. mjpeg # <<>> /\ mjpeg[1] = f
    BY <2>1
  <2>3. p = [mode |-> Mjpeg, w |-> f.w, h |-> f.h]
    BY <1>1, <2>2
  <2>4. p["mode"] = Mjpeg /\ p["w"] = f.w /\ p["h"] = f.h
    BY <2>3
  <2>5. f.w = in.w /\ f.h = in.h /\ f.codec = in.codec
    BY <1>2, <1>3, <2>1, <2>4
  <2> QED
    BY <2>5, Zenon DEF Has, in, p
<1>5. CASE /\ mjpeg = <<>> /\ \A f \in formats : f.codec \notin {"mjpeg"}
           /\ \E f \in formats : f.codec \in RawCodecs /\ raw = <<f>>
  <2>1. PICK f \in formats : f.codec \in RawCodecs /\ raw = <<f>>
    BY <1>5
  <2>2. raw # <<>> /\ raw[1] = f
    BY <2>1
  <2>3. p = [mode |-> RawMode, w |-> f.w, h |-> f.h]
    BY <1>1, <1>5, <2>2
  <2>4. p["mode"] = RawMode /\ p["w"] = f.w /\ p["h"] = f.h
    BY <2>3
  <2>5. f.w = in.w /\ f.h = in.h /\ Raw(f) /\ Raw(in)
    BY <1>2, <1>3, <2>1, <2>4 DEF Raw, RawCodecs
  <2> QED
    BY <2>5, Zenon DEF Has, in, p
<1>6. ~(/\ \A f \in formats : f.codec \notin {"mjpeg"}
        /\ \A f \in formats : f.codec \notin RawCodecs)
  <2>1. PICK f \in formats : f.codec # "h264"
    OBVIOUS
  <2>2. f.codec \in Range(Codecs)
    BY DEF Format
  <2>3. Range(Codecs) = {"h264", "mjpeg", "nv12", "yuyv422"}
    <3>1. Codecs \in [1..4 -> {"h264", "mjpeg", "nv12", "yuyv422"}]
      BY DEF Codecs
    <3>2. Codecs[1] = "h264" /\ Codecs[2] = "mjpeg" /\ Codecs[3] = "nv12" /\ Codecs[4] = "yuyv422"
      BY DEF Codecs
    <3> QED
      BY <3>1, <3>2 DEF Range
  <2> QED
    BY <2>1, <2>2, <2>3 DEF RawCodecs
<1> QED
  BY <1>4, <1>5, <1>6, PickBestIsOne DEF mjpeg, raw

-----------------------------------------------------------------------------
(* What was picked from a camera's formats can be opened.                    *)

LEMMA HasSame ==
  ASSUME NEW formats, NEW c, NEW d, Has(formats, c),
         c["mode"] = d["mode"], c["w"] = d["w"], c["h"] = d["h"]
  PROVE  Has(formats, d)
<1>1. BuildFFmpegArgs(c) = BuildFFmpegArgs(d)
  BY DEF BuildFFmpegArgs
<1> QED
  BY <1>1 DEF Has

LEMMA HasMore ==
  ASSUME NEW formats, NEW more, formats \subseteq more, NEW c, Has(formats, c)
  PROVE  Has(more, c)
BY DEF Has

LEMMA FormatsFinite ==
  ASSUME TypeOK, NEW n \in NamesOf(Cameras), NEW fs, fs \subseteq FormatsOf(n)
  PROVE  IsFiniteSet(fs) /\ fs \subseteq Format
<1> DEFINE s == Device(n).formats
<1>1. s \in Seq(Format)
  BY DeviceIsCamera
<1> HIDE DEF s
<1>2. s \in [1..Len(s) -> Format] /\ Len(s) \in Nat
  BY <1>1
<1>3. Range(s) \subseteq Format /\ s \in Surjection(1..Len(s), Range(s))
  BY <1>2, Fun_RangeProperties
<1>4. IsFiniteSet(1..Len(s))
  BY <1>2, FS_Interval
<1>5. IsFiniteSet(Range(s))
  BY <1>3, <1>4, FS_Surjection
<1>6. fs \in SUBSET Range(s)
  BY DEF FormatsOf, s
<1> QED
  BY <1>3, <1>5, <1>6, FS_Subset

\* A new slot that is to fit does, and what the disk has of it.
LEMMA AnewFits ==
  ASSUME TypeOK, FitInv, NEW n \in NamesOf(Cameras), NEW s, NewSlot(n, s), FitsAnew(n, s)
  PROVE  /\ Has(FormatsOf(n), s)
         /\ LET ov == LoadOverride(Slug(n))
            IN  OwnFile(n) /\ Fields \subseteq DOMAIN ov /\ ov["mode"] \in UiModes
                  => Has(FormatsOf(n), ov)
<1> DEFINE ov == LoadOverride(Slug(n))
           base == Base(s["vidpid"], s["formats"])
           m == IF "mode" \in DOMAIN ov THEN ov["mode"] ELSE base["mode"]
<1>1. /\ \A k \in {"w", "h"} : s[k] = IF k \in DOMAIN ov THEN ov[k] ELSE base[k]
      /\ s["mode"] \in UiModes => s["mode"] = IF m \in UiModes THEN m ELSE Mjpeg
  BY NewSlotKeeps, Zenon DEF Keeps
<1>2. s["mode"] \in UiModes /\ s["formats"] \subseteq FormatsOf(n)
  BY NewSlotIs, Zenon DEF FormatsOf
<1>3. \/ /\ DOMAIN ov \ {"enabled"} = {} /\ ~KnownFor(s["vidpid"])
         /\ \E f \in s["formats"] : f.codec # "h264"
      \/ /\ DOMAIN ov \ {"enabled"} = Fields /\ n \in fits \ unsaved /\ OwnFile(n)
         /\ files[Slug(n)]["mode"] \in UiModes
  BY DEF FitsAnew
<1>4. CASE /\ DOMAIN ov \ {"enabled"} = {} /\ ~KnownFor(s["vidpid"])
           /\ \E f \in s["formats"] : f.codec # "h264"
  <2> DEFINE fs == s["formats"]
             p == PickDefaultFromFormats(fs)
  <2>1. Has(fs, p)
    BY <1>2, <1>4, FormatsFinite, PickDefaultIsHad
  <2>2. base = p
    BY <1>4 DEF Base
  <2>3. p["mode"] \in UiModes
    <3>1. \/ p = [mode |-> Mjpeg, w |-> PickBest(fs, {"mjpeg"})[1].w, h |-> PickBest(fs, {"mjpeg"})[1].h]
          \/ p = [mode |-> RawMode, w |-> PickBest(fs, RawCodecs)[1].w, h |-> PickBest(fs, RawCodecs)[1].h]
          \/ p = [mode |-> Mjpeg, w |-> 640, h |-> 480]
      BY DEF PickDefaultFromFormats
    <3> HIDE DEF p
    <3> QED
      BY <3>1 DEF UiModes
  <2> HIDE DEF ov, base, p
  <2>4. "mode" \notin DOMAIN ov /\ "w" \notin DOMAIN ov /\ "h" \notin DOMAIN ov
    BY <1>4
  <2>5. s["w"] = p["w"] /\ s["h"] = p["h"] /\ s["mode"] = p["mode"]
    BY <1>1, <1>2, <2>2, <2>3, <2>4
  <2>6. Has(fs, s)
    BY <2>1, <2>5, HasSame, Zenon
  <2>7. Has(FormatsOf(n), s)
    BY <1>2, <2>6, HasMore, Zenon
  <2>8. ~(Fields \subseteq DOMAIN ov)
    BY <2>4 DEF Fields
  <2> QED
    BY <2>7, <2>8, Zenon DEF ov
<1>5. CASE /\ DOMAIN ov \ {"enabled"} = Fields /\ n \in fits \ unsaved /\ OwnFile(n)
           /\ files[Slug(n)]["mode"] \in UiModes
  <2>1. Fields \subseteq DOMAIN ov
    BY <1>5
  <2>2. ov["mode"] = files[Slug(n)]["mode"]
    <3>1. DOMAIN files[Slug(n)] \subseteq All
      BY FilesTyped
    <3>2. \A k \in DOMAIN ov : ov[k] = files[Slug(n)][k]
      BY <3>1, LoadIs, Zenon
    <3> QED
      BY <2>1, <3>2 DEF Fields
  <2>3. Has(FormatsOf(n), ov)
    BY <1>5, <2>1, <2>2 DEF FitInv
  <2> HIDE DEF ov, base
  <2>4. s["w"] = ov["w"] /\ s["h"] = ov["h"] /\ s["mode"] = ov["mode"]
    BY <1>1, <1>2, <1>5, <2>1, <2>2 DEF Fields
  <2>5. Has(FormatsOf(n), s)
    BY <2>3, <2>4, HasSame, Zenon
  <2> QED
    BY <2>3, <2>5, Zenon DEF ov
<1> QED
  BY <1>3, <1>4, <1>5

LEMMA AddsFit ==
  ASSUME TypeOK, FitInv, NEW old \in {<<>>, slots}, NEW devices \in SUBSET EnumerateCameras,
         NamesOf(devices) \cap DOMAIN old = {}, Adds(old, devices),
         DOMAIN old # {} => unsaved' = unsaved
  PROVE  FitInv'
<1> DEFINE OnDisk(n) == LET ov == LoadOverride(Slug(n))
                        IN  OwnFile(n) /\ Fields \subseteq DOMAIN ov /\ ov["mode"] \in UiModes
                              => Has(FormatsOf(n), ov)
<1>1. /\ \A n \in DOMAIN slots' :
           \/ /\ n \in NamesOf(Cameras) /\ NewSlot(n, slots'[n])
              /\ n \in fits' => FitsAnew(n, slots'[n])
           \/ /\ old = slots /\ n \in DOMAIN slots /\ slots'[n] = slots[n]
              /\ n \in fits' => n \in fits
      /\ fits' \subseteq DOMAIN slots'
      /\ machine' = machine /\ files' = files
  BY AddsIs, Zenon
<1>2. \A n : (OwnFile(n)' <=> OwnFile(n)) /\ Device(n)' = Device(n)
  BY <1>1, SameMachine
<1>3. \A n : FormatsOf(n)' = FormatsOf(n)
  BY <1>2 DEF FormatsOf
<1>4. \A n : LoadOverride(Slug(n))' = LoadOverride(Slug(n))
  BY <1>1 DEF LoadOverride
<1>5. ASSUME NEW n \in fits'
      PROVE  Has(FormatsOf(n), slots'[n]) /\ (n \notin unsaved' => OnDisk(n))
  <2>0. n \in DOMAIN slots'
    BY <1>1
  <2>1. CASE n \in NamesOf(Cameras) /\ NewSlot(n, slots'[n]) /\ FitsAnew(n, slots'[n])
    BY <2>1, AnewFits, Zenon
  <2>2. CASE old = slots /\ n \in DOMAIN slots /\ slots'[n] = slots[n] /\ n \in fits
    <3>1. Has(FormatsOf(n), slots'[n])
      BY <2>2 DEF FitInv
    <3>2. unsaved' = unsaved
      BY <2>2
    <3>3. n \notin unsaved' => OnDisk(n)
      BY <2>2, <3>2 DEF FitInv
    <3> QED
      BY <3>1, <3>3
  <2> QED
    BY <1>1, <2>0, <2>1, <2>2
<1> QED
  BY <1>2, <1>3, <1>4, <1>5 DEF FitInv

LEMMA ChangeInFitInv ==
  ASSUME TypeOK, FitInv, NEW n \in DOMAIN slots, NEW u, Change(n, u)
  PROVE  FitInv'
<1> DEFINE OnDisk(m) == LET ov == LoadOverride(Slug(m))'
                        IN  OwnFile(m) /\ Fields \subseteq DOMAIN ov /\ ov["mode"] \in UiModes
                              => Has(FormatsOf(m), ov)
<1>0. Update(u) /\ Set(n, u)
  BY DEF Change
<1>1. /\ DOMAIN slots' = DOMAIN slots /\ slots'[n] = Over(u, slots[n])
      /\ \A m \in DOMAIN slots : m # n => slots'[m] = slots[m]
      /\ machine' = machine
  BY <1>0, SetIs, Zenon
<1>2. \A m : (OwnFile(m)' <=> OwnFile(m)) /\ Device(m)' = Device(m)
  BY <1>1, SameMachine
<1>3. \A m : FormatsOf(m)' = FormatsOf(m)
  BY <1>2 DEF FormatsOf
<1>4. fits \subseteq DOMAIN slots
  BY DEF TypeOK
<1>5. unsaved' = unsaved \/ unsaved' = unsaved \cup {n}
  BY <1>0, SetIs, Zenon
<1>6. ASSUME NEW m \in fits, m # n
      PROVE  Has(FormatsOf(m), slots'[m]) /\ (m \notin unsaved' => OnDisk(m))
  <2>1. m \in DOMAIN slots
    BY <1>4
  <2>2. Has(FormatsOf(m), slots'[m])
    BY <1>1, <1>6, <2>1 DEF FitInv
  <2>3. ASSUME m \notin unsaved', OwnFile(m)
        PROVE  OnDisk(m)
    <3>1. LoadOverride(Slug(m))' = LoadOverride(Slug(m))
      BY <1>6, <2>1, <2>3, ChangeOnDisk, Zenon
    <3>2. m \notin unsaved
      BY <1>5, <2>3
    <3> QED
      BY <2>3, <3>1, <3>2 DEF FitInv
  <2> QED
    BY <2>2, <2>3
<1> DEFINE s == slots[n]
           t == slots'[n]
           ov == LoadOverride(Slug(n))
           new == LoadOverride(Slug(n))'
<1>7. /\ \A k \in DOMAIN u : t[k] = u[k]
      /\ \A k \in DOMAIN s \ DOMAIN u : t[k] = s[k]
  <2>1. /\ \A k \in DOMAIN u : Over(u, s)[k] = u[k]
        /\ \A k \in DOMAIN s \ DOMAIN u : Over(u, s)[k] = s[k]
    BY OverIs, Zenon
  <2> QED
    BY <1>1, <2>1, Zenon
<1>8. ASSUME n \notin unsaved', OwnFile(n)
      PROVE  /\ DOMAIN new = DOMAIN u \cup DOMAIN ov
             /\ \A k \in DOMAIN new : new[k] = IF k \in DOMAIN u THEN u[k] ELSE ov[k]
  BY <1>8, ChangeOnDisk, Zenon
<1>9. DOMAIN s = SlotFields /\ s["formats"] \subseteq FormatsOf(n)
  BY SlotsTyped DEF SlotOK, FormatsOf
<1>10. ASSUME DOMAIN u = {"enabled"}, n \in fits
       PROVE  Has(FormatsOf(n), t) /\ (n \notin unsaved' => OnDisk(n))
  <2>1. Has(FormatsOf(n), s)
    BY <1>10 DEF FitInv
  <2>2. s["mode"] = t["mode"] /\ s["w"] = t["w"] /\ s["h"] = t["h"]
    <3> HIDE DEF s, t
    <3>1. {"mode", "w", "h"} \subseteq DOMAIN s \ DOMAIN u
      BY <1>9, <1>10 DEF SlotFields, Fields
    <3> QED
      BY <1>7, <3>1
  <2>3. Has(FormatsOf(n), t)
    BY <2>1, <2>2, HasSame, Zenon
  <2>4. ASSUME n \notin unsaved', OwnFile(n), Fields \subseteq DOMAIN new, new["mode"] \in UiModes
        PROVE  Has(FormatsOf(n), new)
    <3>1. Fields \subseteq DOMAIN ov /\ \A k \in Fields : new[k] = ov[k]
      <4> HIDE DEF ov, new
      <4> QED
        BY <1>8, <1>10, <2>4 DEF Fields
    <3>2. ov["mode"] = new["mode"] /\ ov["w"] = new["w"] /\ ov["h"] = new["h"]
      BY <3>1 DEF Fields
    <3>3. n \notin unsaved
      BY <1>5, <2>4
    <3>4. Has(FormatsOf(n), ov)
      <4>1. ov["mode"] \in UiModes
        BY <2>4, <3>2, Zenon
      <4> QED
        BY <1>10, <2>4, <3>1, <3>3, <4>1 DEF FitInv
    <3> QED
      BY <3>2, <3>4, HasSame, Zenon
  <2> QED
    BY <2>3, <2>4, Zenon
<1>11. ASSUME DOMAIN u = Fields, Has(slots[n].formats, u)
       PROVE  Has(FormatsOf(n), t) /\ (n \notin unsaved' => OnDisk(n))
  <2>1. Has(FormatsOf(n), u)
    BY <1>9, <1>11, HasMore, Zenon
  <2>2. u["mode"] = t["mode"] /\ u["w"] = t["w"] /\ u["h"] = t["h"]
    BY <1>7, <1>11 DEF Fields
  <2>3. Has(FormatsOf(n), t)
    BY <2>1, <2>2, HasSame, Zenon
  <2>4. ASSUME n \notin unsaved', OwnFile(n)
        PROVE  Has(FormatsOf(n), new)
    <3>1. u["mode"] = new["mode"] /\ u["w"] = new["w"] /\ u["h"] = new["h"]
      <4> HIDE DEF ov, new
      <4> QED
        BY <1>8, <1>11, <2>4 DEF Fields
    <3> QED
      BY <2>1, <3>1, HasSame, Zenon
  <2> QED
    BY <2>3, <2>4, Zenon
<1>12. \A m \in fits' : Has(FormatsOf(m), slots'[m]) /\ (m \notin unsaved' => OnDisk(m))
  <2>1. \/ fits' = fits \ {n}
        \/ fits' = fits /\ DOMAIN u = {"enabled"}
        \/ fits' = fits \cup {n} /\ DOMAIN u = Fields /\ Has(slots[n].formats, u)
    BY DEF Change
  <2> HIDE DEF OnDisk
  <2>2. CASE fits' = fits \ {n}
    BY <1>6, <2>2
  <2>3. CASE fits' = fits /\ DOMAIN u = {"enabled"}
    BY <1>6, <1>10, <2>3
  <2>4. CASE fits' = fits \cup {n} /\ DOMAIN u = Fields /\ Has(slots[n].formats, u)
    BY <1>6, <1>11, <2>4
  <2> QED
    BY <2>1, <2>2, <2>3, <2>4
<1> QED
  BY <1>2, <1>3, <1>12 DEF FitInv

LEMMA FitInvStep ==
  ASSUME TypeOK, FitInv, [Next]_vars
  PROVE  FitInv'
<1>1. CASE Starts
  <2>1. DOMAIN <<>> = {}
    OBVIOUS
  <2> QED
    BY <1>1, <2>1, AddsAtStart, AddsFit, Zenon
<1>2. CASE Discovers
  <2>1. slots \in {<<>>, slots}
    OBVIOUS
  <2> QED
    BY <1>2, <2>1, AddsLater, AddsFit, Zenon
<1>3. CASE \E n \in DOMAIN slots : \E u : Change(n, u)
  BY <1>3, ChangeInFitInv, Zenon
<1>4. CASE UNCHANGED <<machine, files, slots, unsaved, fits>>
  <2>1. \A n : (OwnFile(n)' <=> OwnFile(n)) /\ FormatsOf(n)' = FormatsOf(n)
    BY <1>4, SameMachine DEF FormatsOf
  <2>2. \A n : LoadOverride(Slug(n))' = LoadOverride(Slug(n))
    BY <1>4 DEF LoadOverride
  <2> QED
    BY <1>4, <2>1, <2>2 DEF FitInv
<1> QED
  BY <1>1, <1>2, <1>3, <1>4, StepIs, Zenon DEF vars

LEMMA CameraConfigFits == Spec => []FitInv
<1>1. Init => FitInv
  BY DEF Init, FitInv
<1>2. TypeOK /\ FitInv /\ [Next]_vars => FitInv'
  BY FitInvStep
<1> QED
  BY <1>1, <1>2, CameraConfigTypeOK, PTL DEF Spec

\* Where mode and size come from the camera's formats, by the smart pick
\* (main.cpp:218-267) or by the resolution dropdown (CameraInfo.cs:72-76), ffmpeg is
\* told to open something the camera has (main.cpp:399-408), through every restart.
THEOREM PicksAlwaysOpen == Spec => []PicksCanBeOpened
<1>1. FitInv => PicksCanBeOpened
  BY DEF FitInv, PicksCanBeOpened, Opens, Has, FormatsOf
<1> QED
  BY <1>1, CameraConfigFits, PTL
=============================================================================
