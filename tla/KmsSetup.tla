------------------------------- MODULE KmsSetup -------------------------------
(***************************************************************************)
(* How the constructor of hwc_context chooses a connector, a CRTC and a    *)
(* mode, and with it the rate of the VsyncThread.  The code probes the     *)
(* connectors one by one, and asks again for the one it settles for; a     *)
(* monitor may be plugged or unplugged between two probes.                 *)
(***************************************************************************)
EXTENDS Integers, Sequences, FiniteSetsExt

CONSTANTS
    MaxConnectors,  \* bound of the model
    CrtcCount,      \* resources->count_crtcs
    Encoders,       \* sets of possible CRTCs, or NoEncoder
    NoEncoder,
    ModeLists,      \* the modes a connector may have, in the kernel's order
    ModeRequests,   \* values of debug.drm.mode, or NoRequest
    ForceRequests,  \* values of debug.drm.mode.force, or NoRequest
    StrayRates,     \* what an unassigned refresh rate may hold
    DefaultRate,    \* 60 Hz
    NoRequest,
    NoOutput,
    IntMax,         \* INT_MAX
    ShortMax,       \* UINT16_MAX
    Second,         \* 1e9 ns
    MaxPlugs        \* bound of the model on plugging and unplugging

ModeType == [h : Int, v : Int, preferred : BOOLEAN, refresh : Int]
Outputs == [connector : 1..MaxConnectors, crtc : 1..CrtcCount, mode : ModeType]

ASSUME CrtcAssumption == CrtcCount \in Nat /\ MaxConnectors \in Nat
ASSUME EncoderAssumption == \A e \in Encoders \ {NoEncoder} : e \subseteq 1..CrtcCount
ASSUME ModeAssumption ==
    ModeLists \subseteq Seq([h : Nat, v : Nat, preferred : BOOLEAN, refresh : Nat])
ASSUME RequestAssumption ==
    /\ ModeRequests \ {NoRequest} \subseteq [x : Int, y : Int]
    /\ ForceRequests \ {NoRequest} \subseteq [x : Int, y : Int, rate : Int]
ASSUME OutputAssumption == NoOutput \notin Outputs
ASSUME RateAssumption == StrayRates \subseteq Nat /\ DefaultRate \in Nat \ {0}
ASSUME WidthAssumption ==
    /\ IntMax \in Nat \ {0} /\ ShortMax \in Nat /\ Second \in 1..IntMax
    /\ MaxPlugs \in Nat

VARIABLES
    connectors,     \* the hardware; probe |-> FALSE if the kernel has no answer for it
    connection,     \* what a monitor does to it
    debugMode, forceMode,   \* the two properties
    active,         \* primary_output.active
    output,         \* the rest of primary_output, NoOutput until it is assigned
    used_crtcs,
    lastValidConnectorIndex,
    i,              \* connector to probe next
    pc,             \* loop of init_kms, or how it ended
    fps,
    plugs,
    active0         \* ghost: what active held before the constructor

config == <<connectors, debugMode, forceMode, active0>>
vars == <<config, connection, active, output, used_crtcs, lastValidConnectorIndex, i, pc, fps,
          plugs>>

Connectors == DOMAIN connectors
States == {"connected", "disconnected", "unknown"}

\* The kernel gives a connected connector at least one mode, a disconnected one none.
MayBe(c, state) == state = "connected" => c.modes # <<>>
Modes(c) == IF connection[c] = "disconnected" THEN <<>> ELSE connectors[c].modes

ConnectorType == [probe : BOOLEAN, hdmi : BOOLEAN, encoder : Encoders, modes : ModeLists]

Init ==
    /\ connectors \in UNION {[1..n -> ConnectorType] : n \in 0..MaxConnectors}
    /\ connection \in [Connectors -> States]
    /\ \A c \in Connectors : MayBe(connectors[c], connection[c])
    /\ debugMode \in ModeRequests
    /\ forceMode \in ForceRequests
    /\ active \in BOOLEAN                \* uninitialised
    /\ active0 = active
    /\ output = NoOutput
    /\ used_crtcs = {}
    /\ lastValidConnectorIndex = 0       \* -1 in the code, which counts from 0
    /\ i = 1
    /\ pc = "fetch"
    /\ fps = DefaultRate
    /\ plugs = 0

Plug ==
    /\ pc \in {"fetch", "scan", "enforce"}
    /\ plugs < MaxPlugs                  \* bound
    /\ plugs' = plugs + 1
    /\ \E c \in Connectors, state \in States :
           /\ MayBe(connectors[c], state)
           /\ connection' = [connection EXCEPT ![c] = state]
    /\ UNCHANGED <<config, active, output, used_crtcs, lastValidConnectorIndex, i, pc, fps>>

-----------------------------------------------------------------------------
(* find_mode.                                                              *)

\* Signed arithmetic between -IntMax - 1 and IntMax, wrapping as it does in the build.
Wrap(n) == ((n + IntMax + 1) % (2 * (IntMax + 1))) - IntMax - 1

\* (mutant) Only the width counts.
DistanceOfWidth(mode, x, y) == Wrap((mode.h - x) * (mode.h - x))

Distance(mode, x, y) == Wrap((mode.h - x) * (mode.h - x) + (mode.v - y) * (mode.v - y))

\* rint(n / 8) * 8: to the nearest multiple, halfway to the even one.
RoundToCell(n) ==
    LET q == n \div 8  r == n % 8
    IN 8 * (IF r > 4 \/ (r = 4 /\ q % 2 = 1) THEN q + 1 ELSE q)

\* The assignment of an int to a uint16_t.
StoreShort(n) == n % (ShortMax + 1)

\* generate_mode, without its timings.  The rate goes through a float into a
\* uint32_t, and on ARM a negative one ends at 0.  (That a float rounds numbers
\* above 2^24 is left out.)
GenerateMode(h, v, rate) ==
    [h |-> StoreShort(RoundToCell(h)), v |-> StoreShort(v), preferred |-> FALSE,
     refresh |-> IF rate < 0 THEN 0 ELSE rate]

\* debug.drm.mode hides debug.drm.mode.force, and a forced mode needs a rate.
Forced == debugMode = NoRequest /\ forceMode # NoRequest
              /\ forceMode.x # 0 /\ forceMode.y # 0 /\ forceMode.rate # 0
Resolution ==
    IF debugMode # NoRequest THEN debugMode
    ELSE IF forceMode # NoRequest THEN [x |-> forceMode.x, y |-> forceMode.y]
    ELSE [x |-> 0, y |-> 0]
Sized == Resolution.x # 0 /\ Resolution.y # 0

\* The null pointer; a forced mode may have size 0, but not this one.
NoMode == [h |-> -1, v |-> -1, preferred |-> FALSE, refresh |-> 0]

\* One round of the loop of find_mode: best is the mode found so far and its
\* distance.  At a distance of 0 the loop is left.
Nearer(best, mode) ==
    LET tmp == IF Sized THEN Distance(mode, Resolution.x, Resolution.y)
               ELSE IF mode.preferred THEN 0 ELSE best.dist
    IN IF best.dist # 0 /\ tmp < best.dist THEN [mode |-> mode, dist |-> tmp] ELSE best

\* The best of the first n modes, for each n.
Best(modes) ==
    LET best[n \in 0..Len(modes)] ==
            IF n = 0 THEN [mode |-> NoMode, dist |-> IntMax] ELSE Nearer(best[n - 1], modes[n])
    IN best

ClosestMode(modes) == Best(modes)[Len(modes)].mode

\* (mutant) The fallback to the first mode is lost.
FindModeWithoutFallback(modes) ==
    IF Forced THEN GenerateMode(Resolution.x, Resolution.y, forceMode.rate) ELSE ClosestMode(modes)

\* &modes[0] is null when there are no modes.
FindMode(modes) ==
    IF Forced THEN GenerateMode(Resolution.x, Resolution.y, forceMode.rate)
    ELSE IF ClosestMode(modes) = NoMode /\ modes # <<>> THEN modes[1]
    ELSE ClosestMode(modes)

-----------------------------------------------------------------------------
(* init_with_connector.                                                    *)

\* First CRTC of the encoder that is not used, CrtcCount + 1 if there is none.
FreeCrtc(c) ==
    LET free == {n \in 1..CrtcCount : n \in connectors[c].encoder \ used_crtcs}
    IN IF free = {} THEN CrtcCount + 1 ELSE Min(free)

Works(c) == connectors[c].encoder # NoEncoder /\ FreeCrtc(c) <= CrtcCount

\* The bit is set also when no CRTC was found.
InitWithConnector(c) ==
    /\ used_crtcs' = IF connectors[c].encoder = NoEncoder THEN used_crtcs
                     ELSE used_crtcs \cup {FreeCrtc(c)}
    /\ output' = IF Works(c)
                 THEN [connector |-> c, crtc |-> FreeCrtc(c), mode |-> FindMode(Modes(c))]
                 ELSE output

\* find_mode reads through the null pointer to log the mode.
NullMode(c) == Works(c) /\ FindMode(Modes(c)) = NoMode

-----------------------------------------------------------------------------
(* init_kms.                                                               *)

\* hw_get_module, gralloc_drm_create or drmModeGetResources fails, and so does the
\* constructor, which only logs it.
SetupFails ==
    /\ pc = "fetch" /\ i = 1
    /\ pc' = "failed"
    /\ UNCHANGED <<config, connection, active, output, used_crtcs, lastValidConnectorIndex, i,
                   fps, plugs>>

\* One round of fetch_connector(HDMIA); the connector found counts as active
\* whether or not it could be set up.
FetchConnector ==
    /\ pc = "fetch"
    /\ IF i \notin Connectors
       THEN /\ pc' = (IF active THEN "ready" ELSE "scan")
            /\ i' = 1
            /\ UNCHANGED <<active, output, used_crtcs>>
       ELSE IF connectors[i].probe /\ connectors[i].hdmi /\ connection[i] = "connected"
       THEN /\ InitWithConnector(i)
            /\ active' = TRUE
            /\ pc' = (IF NullMode(i) THEN "crashed" ELSE "ready")
            /\ UNCHANGED i
       ELSE /\ i' = i + 1
            /\ UNCHANGED <<active, output, used_crtcs, pc>>
    /\ UNCHANGED <<config, connection, lastValidConnectorIndex, fps, plugs>>

\* (mutant) The loop goes on after a connector was set up.
ScanConnectorGoesOn ==
    /\ pc = "scan"
    /\ IF i \notin Connectors
       THEN /\ pc' = (IF lastValidConnectorIndex > 0 THEN "enforce" ELSE "failed")
            /\ UNCHANGED <<output, used_crtcs, lastValidConnectorIndex, i>>
       ELSE /\ lastValidConnectorIndex' = (IF connectors[i].probe THEN i ELSE lastValidConnectorIndex)
            /\ IF connectors[i].probe /\ connection[i] = "connected"
               THEN InitWithConnector(i) ELSE UNCHANGED <<output, used_crtcs>>
            /\ i' = i + 1
            /\ UNCHANGED pc
    /\ UNCHANGED <<config, connection, active, fps, plugs>>

\* One round of the loop over all connectors, which ends with the first one
\* that can be set up; after the last, one without a monitor is enforced.
ScanConnector ==
    /\ pc = "scan"
    /\ IF i \notin Connectors
       THEN /\ pc' = (IF lastValidConnectorIndex > 0 THEN "enforce" ELSE "failed")
            /\ UNCHANGED <<output, used_crtcs, lastValidConnectorIndex, i>>
       ELSE /\ lastValidConnectorIndex' = (IF connectors[i].probe THEN i ELSE lastValidConnectorIndex)
            /\ IF connectors[i].probe /\ connection[i] = "connected"
               THEN /\ InitWithConnector(i)
                    /\ pc' = (IF NullMode(i) THEN "crashed" ELSE IF Works(i) THEN "ready" ELSE pc)
               ELSE UNCHANGED <<output, used_crtcs, pc>>
            /\ i' = i + 1
    /\ UNCHANGED <<config, connection, active, fps, plugs>>

\* The connector is probed again, and the result of its setup ignored.  If the
\* kernel has no answer this time, its encoder is read through a null pointer.
Enforce ==
    /\ pc = "enforce"
    /\ \/ /\ InitWithConnector(lastValidConnectorIndex)
          /\ pc' = (IF NullMode(lastValidConnectorIndex) THEN "crashed" ELSE "ready")
       \/ /\ pc' = "lost"
          /\ UNCHANGED <<output, used_crtcs>>
    /\ UNCHANGED <<config, connection, active, lastValidConnectorIndex, i, fps, plugs>>

\* The constructor takes the rate from primary_output, assigned or not.
Construct ==
    /\ pc = "ready"
    /\ fps' \in (IF output = NoOutput THEN StrayRates ELSE {output.mode.refresh})
    /\ pc' = "done"
    /\ UNCHANGED <<config, connection, active, output, used_crtcs, lastValidConnectorIndex, i,
                   plugs>>

\* int(1e9 / fps) of Hwc2Device: infinity becomes INT_MAX on ARM.
VsyncPeriod(rate) == IF rate = 0 THEN IntMax ELSE Second \div rate

Next == Plug \/ SetupFails \/ FetchConnector \/ ScanConnector \/ Enforce \/ Construct

Spec == Init /\ [][Next]_vars

-----------------------------------------------------------------------------
(* Properties.                                                             *)

TypeOK ==
    /\ \A c \in Connectors : connectors[c] \in ConnectorType
    /\ connection \in [Connectors -> States]
    /\ debugMode \in ModeRequests
    /\ forceMode \in ForceRequests
    /\ active \in BOOLEAN
    /\ output \in Outputs \cup {NoOutput}
    /\ used_crtcs \subseteq 1..CrtcCount + 1
    /\ lastValidConnectorIndex \in {0} \cup Connectors
    /\ i \in 1..Len(connectors) + 1
    /\ pc \in {"fetch", "scan", "enforce", "ready", "done", "failed", "crashed", "lost"}
    /\ fps \in Int
    /\ plugs \in 0..MaxPlugs

\* What the loops are to choose, by itself: a connected HDMI connector first,
\* whether it can be driven or not, then the first connected one that can, then
\* the last of all.  A stray value in active hides all but the first kind.
Connected == {c \in Connectors : connectors[c].probe /\ connection[c] = "connected"}
Drivable(c) == connectors[c].encoder \notin {NoEncoder, {}}
Reference ==
    LET hdmi == {c \in Connected : connectors[c].hdmi}
        good == {c \in Connected : Drivable(c)}
        all == {c \in Connectors : connectors[c].probe}
    IN IF hdmi # {} THEN Min(hdmi)
       ELSE IF active0 \/ all = {} THEN 0
       ELSE IF good # {} THEN Min(good) ELSE Max(all)

\* If no monitor was plugged or unplugged meanwhile, the output is set up with the
\* connector of the reference choice and the first CRTC it can have, and is left
\* uninitialised only when there is no such connector or it cannot be driven.
ConnectorChoice ==
    pc \in {"ready", "crashed"} /\ plugs = 0 =>
        IF Reference = 0 \/ ~Drivable(Reference) THEN output = NoOutput
        ELSE /\ output # NoOutput
             /\ output.connector = Reference
             /\ output.crtc = Min(connectors[Reference].encoder)

\* The mode is the first of those nearest to the size asked for, or the first
\* preferred one, or the first: whatever is plugged during the setup.  It holds
\* unless a square overflows.  And the vsync period is at least 1 ns and at most a
\* second, or else the kernel gave the mode chosen no rate between 1 Hz and 1 GHz,
\* or the rate that the forced mode asks for (which may be negative) is not one.
NearestMode ==
    /\ pc = "done" /\ output # NoOutput /\ VsyncPeriod(fps) \notin 1..Second =>
        \/ Forced /\ forceMode.rate \notin 1..Second
        \/ /\ ~Forced
           /\ \E n \in DOMAIN connectors[output.connector].modes :
                  LET mode == connectors[output.connector].modes[n]
                  IN  output.mode = mode /\ mode.refresh \notin 1..Second
    /\ pc = "ready" /\ output # NoOutput /\ ~Forced =>
        LET modes == connectors[output.connector].modes
            d(n) == (modes[n].h - Resolution.x) * (modes[n].h - Resolution.x)
                        + (modes[n].v - Resolution.y) * (modes[n].v - Resolution.y)
            preferred == {n \in DOMAIN modes : modes[n].preferred}
        IN IF Sized
           THEN (\A n \in DOMAIN modes : d(n) < IntMax) =>
                    \E n \in DOMAIN modes :
                        /\ output.mode = modes[n]
                        /\ \A k \in DOMAIN modes : d(n) <= d(k)
                        /\ \A k \in 1..(n - 1) : d(n) < d(k)
           ELSE output.mode = modes[IF preferred = {} THEN 1 ELSE Min(preferred)]

\* The process dies of a null mode or of a null connector only when a connector
\* is enforced: never, unless a monitor came or went meanwhile, if some connected
\* connector can be driven.  A forced mode saves it from the null mode.
CrashOnlyEnforced ==
    /\ pc = "crashed" => ~Forced
    /\ pc \in {"crashed", "lost"} /\ plugs = 0 => \A c \in Connected : ~Drivable(c)
=============================================================================
