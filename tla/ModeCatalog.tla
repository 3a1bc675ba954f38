---------------------------- MODULE ModeCatalog ----------------------------
(***************************************************************************)
(* The modes that the Windows driver offers for a monitor                  *)
(* (src/driver/windows_driver_modes.cpp): a list of default modes to which *)
(* the requested mode, its scaled sizes and its multiplied rates are       *)
(* added, or which is cut down to the requested resolution; and the store  *)
(* of the modes registered under an EDID, with their references.           *)
(*                                                                         *)
(* A mode is its width, height and refresh rate in millihertz: the totals  *)
(* and the pixel rate of a ModeShape follow from these three.              *)
(***************************************************************************)
EXTENDS Integers, Sequences, SequencesExt

CONSTANTS
    MaxValue,           \* the largest 32-bit number, scaled down
    NoMode

Mode(width, height, refresh) == [width |-> width, height |-> height, refresh |-> refresh]

\* kDefaultWindowsDriverModes
DefaultModes ==
    LET at(width, height, hertz) ==
            [i \in DOMAIN hertz |-> Mode(width, height, 1000 * hertz[i])]
        common == <<30, 60, 72, 90, 120, 144, 240>>
    IN  FlattenSeq(<<at(800, 600, common), at(1280, 720, <<30, 60, 72, 90, 120, 144>>),
                     at(1366, 768, common), at(1920, 1080, common), at(2560, 1440, common),
                     at(3840, 2160, common), at(5120, 1440, <<30, 60, 120, 144, 175, 240, 480>>)>>)

ScalePercents == <<100, 50, 75, 125, 150>>  \* kPreferredModeScalePercent

MinWidth == 320
MaxWidth == 7680
MinHeight == 200
MaxHeight == 4320
MinRefresh == 1

\* scaled_mode_shape gives a mode for these only.
Offerable(m) ==
    /\ m.width \in MinWidth..MaxWidth
    /\ m.height \in MinHeight..MaxHeight
    /\ m.refresh >= MinRefresh

Clamp(n) == IF n > MaxValue THEN MaxValue ELSE n

ScaledMode(base, percent, refresh) ==
    Mode((base.width * percent) \div 100, (base.height * percent) \div 100, refresh)

AppendUnique(modes, m) == IF m \in ToSet(modes) THEN modes ELSE Append(modes, m)

\* Requested timings come after the defaults and never displace one: a whole rate
\* is found before a fractional one next to it.
AppendVariants(modes, preferred) ==
    LET scaled(percent) ==
            [i \in 1..3 |-> ScaledMode(preferred, percent, Clamp(preferred.refresh * <<1, 2, 4>>[i]))]
        variants == FlattenSeq([i \in DOMAIN ScalePercents |-> scaled(ScalePercents[i])])
    IN  AppendUnique(FoldLeft(AppendUnique, modes, SelectSeq(variants, Offerable)), preferred)

DefaultPreferred ==
    LET fullHd == Mode(1920, 1080, 60000) IN
    IF fullHd \in ToSet(DefaultModes) THEN fullHd ELSE DefaultModes[1]

\* The list and the mode in it that is preferred.  An invalid or missing mode is
\* never the reason for an empty list.
ModeShapes(preferred, restricted) ==
    LET sameSize(m) == m.width = preferred.width /\ m.height = preferred.height
        none == preferred = NoMode \/ (restricted /\ ~Offerable(preferred))
        all == AppendVariants(DefaultModes, preferred)
    IN  IF none THEN [modes |-> DefaultModes, preferred |-> DefaultPreferred]
        ELSE [modes |-> IF restricted THEN AppendUnique(SelectSeq(all, sameSize), preferred) ELSE all,
              preferred |-> preferred]

\* A rate as the operating system sees it, in hertz and in lowest terms.
Frequency(m) ==
    LET refresh == IF m.refresh > 1 THEN m.refresh ELSE 1
        divides(k) == refresh % k = 0 /\ 1000 % k = 0
        divisor == CHOOSE k \in 1..1000 : divides(k) /\ \A j \in (k + 1)..1000 : ~divides(j)
    IN  <<Clamp(refresh \div divisor), 1000 \div divisor>>

-----------------------------------------------------------------------------
(* WindowsDriverRegisteredModeStore.                                       *)

NoEntry == [references |-> 0, mode |-> NoMode, restricted |-> FALSE]

Registrable(entry, mode, restricted) ==
    /\ mode.width # 0 /\ mode.height # 0 /\ mode.refresh # 0
    /\ entry.references # 0 => entry.mode = mode /\ entry.restricted = restricted

Registered(entry, mode, restricted) ==
    [references |-> entry.references + 1, mode |-> mode, restricted |-> restricted]

UnregisteredForAll(entry) == NoEntry
Unregistered(entry) ==
    IF entry.references <= 1 THEN NoEntry ELSE [entry EXCEPT !.references = @ - 1]
=============================================================================
