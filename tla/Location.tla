----------------------------- MODULE Location -----------------------------
(***************************************************************************)
(* Where the position comes from and what of it goes on the air: the gpsd  *)
(* and UART readers (hal/location), MeshPositionResolver and the GPS       *)
(* settings. gpsd is read in the event loop; the UART is read in a thread, *)
(* between any two steps of the loop. A position is a number, 0 for none.  *)
(***************************************************************************)
EXTENDS Integers

CONSTANTS
    Spots,          \* where the receiver may be
    Pins,           \* registered coordinates that may be saved, 0 for none
    Qualities,      \* min_fix_quality
    Modes,          \* the modes a receiver reports: 1 none, 2 2D, 3 3D
    MaxReports,
    MaxDrops,
    MaxPuts,
    MaxBackoff

VARIABLES
    source,         \* source_name of the LocationSource that was built
    quality,        \* min_fix_quality
    link,           \* the reader: "down", "up", "ended" (thread only), "waiting"
    connected,
    fix,            \* _latest_fix
    mode,           \* UartSource._mode
    backoff,        \* in seconds
    pin,            \* device.latitude and longitude
    mesh,           \* transmit.position: [from, precision]
    resolving,      \* resolve() has found a live fix and will read it
    sent,           \* the last POSITION sent
    reports, drops, puts,
    trusted,        \* history: the last position a receiver reported with a fix
    asserted        \* history: resolve() found no fix after all

vars == << source, quality, link, connected, fix, mode, backoff, pin, mesh, resolving, sent,
           reports, drops, puts, trusted, asserted >>

NoFix == [is |-> "none", mode |-> 0, pos |-> 0]
Precisions == {"exact", "approximate", "none", "typo"}
InitialBackoff == 1

TypeOK ==
    /\ source \in {"static", "gpsd", "uart"} /\ quality \in Qualities
    /\ link \in {"down", "up", "ended", "waiting"} /\ connected \in BOOLEAN
    /\ fix \in {NoFix} \cup [is : {"fix"}, mode : Modes, pos : Spots \cup {0}]
    /\ backoff \in InitialBackoff .. MaxBackoff
    /\ pin \in Pins
    /\ mesh \in [from : {"static", "live"}, precision : Precisions]
    /\ sent \in [of : {"none", "pin", "live"}, pos : Spots \cup Pins, exact : BOOLEAN]

Init ==
    /\ source \in {"static", "gpsd", "uart"}
    /\ quality \in (IF source = "gpsd" THEN Qualities ELSE {1})
    /\ link = "down" /\ connected = FALSE
    /\ fix = NoFix /\ mode = 1 /\ backoff = InitialBackoff
    /\ pin = 0
    /\ mesh \in [from : {"live"}, precision : {"typo", "approximate"}]
    /\ resolving = FALSE
    /\ sent = [of |-> "none", pos |-> 0, exact |-> FALSE]
    /\ reports = 0 /\ drops = 0 /\ puts = 0
    /\ trusted = 0 /\ asserted = FALSE

\* resolve() has no await: what is of the loop waits for it, the thread does not.
LoopFree == ~resolving

-----------------------------------------------------------------------------
(* One session of the reader: gpsd in the loop, the UART in the thread.    *)
Connect ==
    /\ source # "static" /\ link = "down"
    /\ source = "gpsd" => LoopFree
    /\ link' = "up" /\ connected' = TRUE
    /\ UNCHANGED << source, quality, fix, mode, backoff, pin, mesh, resolving, sent,
                    reports, drops, puts, trusted, asserted >>

(* The back-off doubles up to its cap; only a clean end resets it.         *)
NextBackoff(clean) ==
    LET b == IF clean THEN InitialBackoff ELSE backoff
    IN IF 2 * b > MaxBackoff THEN MaxBackoff ELSE 2 * b

(* The session ends: gpsd closes (clean), or an exception.                 *)
GpsdDrops(clean) ==
    /\ source = "gpsd" /\ LoopFree /\ drops < MaxDrops /\ drops' = drops + 1
    /\ link \in {"up", "down"} /\ (clean => link = "up")
    /\ link' = "waiting" /\ connected' = FALSE
    /\ backoff' = NextBackoff(clean)
    /\ UNCHANGED << source, quality, fix, mode, pin, mesh, resolving, sent,
                    reports, puts, trusted, asserted >>

(* The serial port fails or cannot be opened: the thread ends, the loop    *)
(* learns of it in LoopNotices.                                            *)
ThreadEnds ==
    /\ source = "uart" /\ drops < MaxDrops /\ drops' = drops + 1
    /\ link \in {"up", "down"}
    /\ link' = "ended"
    /\ UNCHANGED << source, quality, connected, fix, mode, backoff, pin, mesh, resolving, sent,
                    reports, puts, trusted, asserted >>

LoopNotices ==
    /\ link = "ended" /\ LoopFree
    /\ link' = "waiting" /\ connected' = FALSE
    /\ UNCHANGED << source, quality, fix, mode, backoff, pin, mesh, resolving, sent,
                    reports, drops, puts, trusted, asserted >>

(* The wait of the reader loop times out.                                  *)
WaitOver ==
    /\ link = "waiting" /\ LoopFree
    /\ link' = "down"
    /\ UNCHANGED << source, quality, connected, fix, mode, backoff, pin, mesh, resolving, sent,
                    reports, drops, puts, trusted, asserted >>

-----------------------------------------------------------------------------
HasPosition(f) == f.mode >= 2 /\ f.pos # 0

Fix(m, p) == [is |-> "fix", mode |-> m, pos |-> p]

(* GpsdSource._handle_tpv: a mode below the configured one does not        *)
(* replace a fix; a report without a fix has no coordinates.               *)
Tpv(m, p) ==
    /\ source = "gpsd" /\ link = "up" /\ LoopFree
    /\ reports < MaxReports /\ reports' = reports + 1
    /\ m < 2 <=> p = 0
    /\ fix' = IF m < quality
                THEN IF fix = NoFix THEN Fix(m, 0) ELSE fix
                ELSE Fix(m, p)
    /\ trusted' = IF m < 2 \/ m < quality THEN trusted ELSE p
    /\ UNCHANGED << source, quality, link, connected, mode, backoff, pin, mesh, resolving, sent,
                    drops, puts, asserted >>

(* UartSource._handle_gga: coordinates of a sentence with a fix.           *)
Gga(p) ==
    /\ source = "uart" /\ link = "up"
    /\ reports < MaxReports /\ reports' = reports + 1
    /\ fix' = IF p = 0 THEN fix ELSE Fix(IF mode >= 2 THEN mode ELSE 2, p)
    /\ trusted' = IF p = 0 THEN trusted ELSE p
    /\ UNCHANGED << source, quality, link, connected, mode, backoff, pin, mesh, resolving, sent,
                    drops, puts, asserted >>

(* UartSource._handle_gsa: the mode goes into the fix at once.             *)
Gsa(m) ==
    /\ source = "uart" /\ link = "up"
    /\ reports < MaxReports /\ reports' = reports + 1
    /\ mode' = m
    /\ fix' = IF fix = NoFix THEN fix ELSE Fix(m, fix.pos)
    /\ UNCHANGED << source, quality, link, connected, backoff, pin, mesh, resolving, sent,
                    drops, puts, trusted, asserted >>

-----------------------------------------------------------------------------
\* get_status() of the gpsd source.
StatusOfGpsd == IF connected THEN fix ELSE NoFix

\* get_status() of the UART source, with a fix in the same cases.
StatusOfUart == IF connected THEN fix ELSE NoFix

StatusFix == IF source = "uart" THEN StatusOfUart ELSE StatusOfGpsd

LiveFixAvailable == source # "static" /\ HasPosition(StatusFix)

SkipsValidation(precision) == precision

(* resolve(): an unknown precision counts as approximate.                  *)
ValidPrecision(precision) == IF precision = "typo" THEN "approximate" ELSE precision

\* LocationPrivacy.apply: no coordinates, rounded ones, or the exact ones.
Broadcast(of, pos, precision) ==
    sent' = IF precision = "none" THEN sent
                                  ELSE [of |-> of, pos |-> pos, exact |-> precision # "approximate"]

(* MeshPositionResolver.resolve for the registered pin.                    *)
SendPin ==
    /\ LoopFree /\ mesh.from = "static" /\ pin # 0
    /\ Broadcast("pin", pin, "exact")
    /\ UNCHANGED << source, quality, link, connected, fix, mode, backoff, pin, mesh, resolving,
                    reports, drops, puts, trusted, asserted >>

(* resolve() for the live position asks for the status twice.              *)
FindLive ==
    /\ LoopFree /\ mesh.from = "live" /\ LiveFixAvailable
    /\ resolving' = TRUE
    /\ UNCHANGED << source, quality, link, connected, fix, mode, backoff, pin, mesh, sent,
                    reports, drops, puts, trusted, asserted >>

SendLive ==
    /\ resolving /\ resolving' = FALSE
    /\ IF StatusFix = NoFix
         THEN asserted' = TRUE /\ UNCHANGED sent
         ELSE /\ Broadcast("live", StatusFix.pos, ValidPrecision(mesh.precision))
              /\ UNCHANGED asserted
    /\ UNCHANGED << source, quality, link, connected, fix, mode, backoff, pin, mesh,
                    reports, drops, puts, trusted >>

(* update_gps: the pin and the mesh settings at once, the source only      *)
(* after a restart. Live needs another source than static in the request.  *)
PutGps(src, p, from, precision) ==
    /\ LoopFree /\ puts < MaxPuts /\ puts' = puts + 1
    /\ precision \in Precisions \ {"typo"}
    /\ (src = "static") => p # 0
    /\ pin' = IF p # 0 THEN p ELSE pin
    /\ IF src = "static" /\ from = "live"
         THEN mesh' = [mesh EXCEPT !.from = "static"]   \* refused, but changed in memory
         ELSE mesh' = [from |-> from, precision |-> precision]
    /\ UNCHANGED << source, quality, link, connected, fix, mode, backoff, resolving, sent,
                    reports, drops, trusted, asserted >>

ReaderStep == Connect \/ LoopNotices \/ WaitOver

Next ==
    \/ ReaderStep \/ SendLive \/ ThreadEnds \/ SendPin \/ FindLive
    \/ \E clean \in BOOLEAN : GpsdDrops(clean)
    \/ \E m \in Modes, p \in Spots \cup {0} : Tpv(m, p)
    \/ \E p \in Spots \cup {0} : Gga(p)
    \/ \E m \in Modes : Gsa(m)
    \/ \E src \in {"static", "gpsd"}, p \in Pins, from \in {"static", "live"}, precision \in Precisions :
          PutGps(src, p, from, precision)

Spec == Init /\ [][Next]_vars /\ SF_vars(ReaderStep) /\ WF_vars(SendLive)

-----------------------------------------------------------------------------
(* A live position on the air is one the receiver reported while it had a  *)
(* fix of the required quality, and the latest of those when it was sent:  *)
(* a report without a fix, a new session or a mode that arrives apart from *)
(* its coordinates does not bring back an earlier one or none at all.      *)
LiveIsLatest ==
    [][sent' # sent /\ sent'.of = "live" => sent'.pos = trusted /\ trusted # 0]_vars

(* Exact coordinates of the receiver leave only when the precision in      *)
(* force says exact; a spelling the code does not know is not exact.       *)
ExactOnlyWhenAsked ==
    [][sent' # sent /\ sent'.of = "live" /\ sent'.exact => mesh.precision = "exact"]_vars

(* The fix that resolve() has just seen is still there when it reads it,   *)
(* although the UART thread runs in between: the assertion cannot fail,    *)
(* and the broadcaster's loop does not end by it.                          *)
FixStays == ~asserted

(* A live source is never without its receiver for good: however a session *)
(* ends, the reader connects again.                                        *)
ComesBack == []<>(source = "static" \/ link = "up")
=============================================================================
