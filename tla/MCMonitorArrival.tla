-------------------------- MODULE MCMonitorArrival --------------------------
(* A display that arrives twice, and two that are there for their settings:  *)
(* the keys of d2 begin with the prefix of d1, those of d3 do not.  The last *)
(* place that was written to is never one of d1.                             *)
EXTENDS MonitorArrival, TLC

CONSTANTS d1, d2, d3, p1, p2, q1, e1

Full(refresh) == Mode(1920, 1080, refresh)
Small == Mode(400, 250, 60000)

Request(d, mode, restricted) ==
    [display |-> d, mode |-> mode, restricted |-> restricted, retain |-> d = d1]
MCDescriptors == {Request(d1, Full(59940), FALSE), Request(d1, Full(59940), TRUE)}

MCEdidOf == [x \in Displays \X {r.mode : r \in MCDescriptors} |-> e1]
MCTimingOf == [e \in {e1} |-> Full(59939)]
MCCovers == {<<d, d>> : d \in Displays} \cup {<<d1, d2>>}

Used(d, scaling, profile) == [display |-> d, scaling |-> scaling, profile |-> profile]
MCFirstPlaces ==
    {p1 :> Used(d1, 1, "calibrated") @@ p2 :> Unused @@ q1 :> Used(d3, 2, "calibrated"),
     p1 :> Unused @@ p2 :> Used(d2, 2, "none") @@ q1 :> Used(d3, 1, "calibrated"),
     p1 :> Used(d1, 1, "none") @@ p2 :> Used(d2, 2, "calibrated") @@ q1 :> Used(d3, 2, "none")}
MCFirstAges == p1 :> 2 @@ p2 :> 1 @@ q1 :> 0

(* The lists themselves, for the modes of some requests: each can be found in its list,  *)
(* no two modes look alike in their rates, a restricted list has one resolution, and in  *)
(* any other the defaults come first and in order.                                       *)
Requests == {Full(59940), Full(60000), Small, Mode(7000, 4000, 144000), Mode(320, 200, 1)}
ASSUME ListsWellFormed ==
    \A mode \in Requests, restricted \in BOOLEAN :
        LET list == ModeShapes(mode, restricted)  modes == ToSet(list.modes) IN
        /\ list.preferred = mode /\ mode \in modes
        /\ Cardinality({<<m.width, m.height, Frequency(m)>> : m \in modes}) = Len(list.modes)
        /\ IF restricted THEN \A m \in modes : m.width = mode.width /\ m.height = mode.height
           ELSE IsPrefix(DefaultModes, list.modes)
=============================================================================
