--------------------------- MODULE ConcentratorHal ---------------------------
(***************************************************************************)
(* Who talks to the SX1302, and when: src/hal/sx1302_wrapper.py with its   *)
(* lock, the capture source's start and restart, and the worker threads    *)
(* that transmit (TxService), read the capture RAM or run a spectral scan. *)
(* The event loop is one actor; each worker is another.  The lock is held  *)
(* across steps by a capture only, every other holder's call is one step.  *)
(***************************************************************************)
EXTENDS Integers

CONSTANTS
    Senders,        \* worker threads inside TxService
    MaxHalRestarts  \* bound: restarts of the concentrator

VARIABLES
    scanner,   \* which of the two measuring services the board has
    chip,      \* between lgw_start and lgw_stop
    page,      \* the register page the chip's addresses select
    tuned,     \* the service channel has the Meshtastic sync word
    emitting,  \* a packet is scheduled or on the air
    started,   \* _started
    running,   \* the source's _running
    reader,    \* its packets() loop has not ended
    halLock,   \* _hal_lock
    main,      \* where the event loop is inside a restart
    paging,    \* the event loop waits for the lock to send a page
    sender,    \* where each transmitting thread is
    scan,      \* where the measuring thread is
    restarts,
    \* history: which calls met the chip stopped, or on the other page
    offChip, offPage

vars == << scanner, chip, page, tuned, emitting, started, running, reader,
           halLock, main, paging, sender, scan, restarts, offChip, offPage >>

Init ==
    /\ scanner \in {"capture", "spectral"}
    /\ chip = TRUE /\ page = 0 /\ tuned = TRUE /\ emitting = FALSE
    /\ started = TRUE /\ running = TRUE /\ reader = TRUE
    /\ halLock = FALSE /\ main = "idle" /\ paging = FALSE
    /\ sender = [t \in Senders |-> "idle"]
    /\ scan = "idle" /\ restarts = 0
    /\ offChip = {} /\ offPage = {}

(* A call into the HAL that touches registers.                             *)
Touch(call) ==
    /\ offChip' = IF chip THEN offChip ELSE offChip \cup {call}
    /\ offPage' = IF page = 0 THEN offPage ELSE offPage \cup {call}

NoTouch == UNCHANGED << offChip, offPage >>

LoopFree == main \in {"idle", "quiet"} /\ ~paging

-----------------------------------------------------------------------------
(* The event loop.                                                         *)

PollRegardless ==
    /\ LoopFree /\ reader
    /\ \/ ~running /\ reader' = FALSE /\ NoTouch
       \/ running /\ started /\ Touch("receive") /\ UNCHANGED reader
    /\ UNCHANGED << scanner, chip, page, tuned, emitting, started, running,
                    halLock, main, paging, sender, scan, restarts >>

(* One round of packets(): it ends for good once _running is down, and     *)
(* skips the poll while another thread has the lock.                       *)
Poll ==
    /\ LoopFree /\ reader
    /\ \/ ~running /\ reader' = FALSE /\ NoTouch
       \/ /\ running /\ started /\ ~halLock
          /\ Touch("receive") /\ UNCHANGED reader
    /\ UNCHANGED << scanner, chip, page, tuned, emitting, started, running,
                    halLock, main, paging, sender, scan, restarts >>

RestartBegins ==
    /\ main = "idle" /\ ~paging /\ restarts < MaxHalRestarts
    /\ main' = "quiet" /\ running' = FALSE /\ restarts' = restarts + 1
    /\ UNCHANGED << scanner, chip, page, tuned, emitting, started, reader,
                    halLock, paging, sender, scan >>
    /\ NoTouch

(* After the pause: lgw_stop under the lock, unless an earlier restart     *)
(* failed and nothing is started.                                          *)
WrapperStop ==
    /\ main = "quiet" /\ ~paging
    /\ started => ~halLock
    /\ main' = "reset" /\ started' = FALSE /\ chip' = FALSE
    /\ emitting' = FALSE
    /\ UNCHANGED << scanner, page, tuned, running, reader, halLock, paging,
                    sender, scan, restarts >>
    /\ NoTouch

(* load, reset and configure; the lgw_*_setconf calls fill in structures,  *)
(* and one that fails ends the restart.                                    *)
Configure(ok) ==
    /\ main = "reset"
    /\ main' = IF ok THEN "start" ELSE "idle"
    /\ page' = 0 /\ tuned' = FALSE
    /\ UNCHANGED << scanner, chip, emitting, started, running, reader,
                    halLock, paging, sender, scan, restarts >>
    /\ NoTouch

(* lgw_start, under the lock.  A failure raises.                           *)
WrapperStart(ok) ==
    /\ main = "start" /\ ~halLock
    /\ chip' = ok /\ main' = IF ok THEN "flag" ELSE "idle"
    /\ UNCHANGED << scanner, page, tuned, emitting, started, running, reader,
                    halLock, paging, sender, scan, restarts >>
    /\ NoTouch

(* _started is raised after the lock was given back.                       *)
RaiseStarted ==
    /\ main = "flag"
    /\ main' = "sync" /\ started' = TRUE
    /\ UNCHANGED << scanner, chip, page, tuned, emitting, running, reader,
                    halLock, paging, sender, scan, restarts >>
    /\ NoTouch

(* Two register writes without the lock, the transmit sync word, _running. *)
SetSyncword ==
    /\ main = "sync"
    /\ tuned' = (chip /\ page = 0)
    /\ main' = "idle" /\ running' = TRUE
    /\ Touch("syncword")
    /\ UNCHANGED << scanner, chip, page, emitting, started, reader, halLock,
                    paging, sender, scan, restarts >>

(* The pager's route calls send_fsk_packet on the event loop, which stands *)
(* still until the lock is free.                                           *)
PageBegins ==
    /\ LoopFree /\ started
    /\ paging' = TRUE
    /\ UNCHANGED << scanner, chip, page, tuned, emitting, started, running,
                    reader, halLock, main, sender, scan, restarts >>
    /\ NoTouch

PageSent ==
    /\ paging /\ ~halLock
    /\ paging' = FALSE /\ emitting' = TRUE
    /\ Touch("page")
    /\ UNCHANGED << scanner, chip, page, tuned, started, running, reader,
                    halLock, main, sender, scan, restarts >>

-----------------------------------------------------------------------------
(* The transmitting threads.                                               *)

(* get_tx_status, before and after a send: under the lock, whatever        *)
(* _started says.                                                          *)
TxStatus(t) ==
    /\ sender[t] = "idle" /\ ~halLock
    /\ Touch("status")
    /\ UNCHANGED << scanner, chip, page, tuned, emitting, started, running,
                    reader, halLock, main, paging, sender, scan, restarts >>

(* send looks at _started before it takes the lock.                        *)
SendChecked(t) ==
    /\ sender[t] = "idle" /\ started
    /\ sender' = [sender EXCEPT ![t] = "checked"]
    /\ UNCHANGED << scanner, chip, page, tuned, emitting, started, running,
                    reader, halLock, main, paging, scan, restarts >>
    /\ NoTouch

Send(t) ==
    /\ sender[t] = "checked" /\ ~halLock
    /\ sender' = [sender EXCEPT ![t] = "idle"]
    /\ emitting' = (emitting \/ chip)
    /\ Touch("send")
    /\ UNCHANGED << scanner, chip, page, tuned, started, running, reader,
                    halLock, main, paging, scan, restarts >>

TxDone ==
    /\ emitting /\ emitting' = FALSE
    /\ UNCHANGED << scanner, chip, page, tuned, started, running, reader,
                    halLock, main, paging, sender, scan, restarts >>
    /\ NoTouch

-----------------------------------------------------------------------------
(* The measuring thread.                                                   *)

(* The service's loop hands one capture or scan to a worker at a time; a   *)
(* stopped service leaves the one it handed over to itself.                *)
Submit ==
    /\ LoopFree /\ scan = "idle"
    /\ scan' = "submitted"
    /\ NoTouch
    /\ UNCHANGED << scanner, chip, page, tuned, emitting, started, running,
                    reader, halLock, main, paging, sender, restarts >>

(* The worker finds the concentrator stopped, or the transmitter busy.     *)
SkipMeasurement ==
    /\ scan = "submitted" /\ (scanner = "capture" => ~halLock)
    /\ ~started \/ (scanner = "capture" /\ emitting)
    /\ scan' = "idle"
    /\ NoTouch
    /\ UNCHANGED << scanner, chip, page, tuned, emitting, started, running,
                    reader, halLock, main, paging, sender, restarts >>

(* capture_ram_snapshot takes the lock, looks at _started and at the       *)
(* transmitter, and keeps the lock; otherwise it gives up at once.         *)
CaptureBegins ==
    /\ scan = "submitted" /\ scanner = "capture" /\ ~halLock
    /\ started /\ ~emitting
    /\ halLock' = TRUE /\ scan' = "capturing"
    /\ Touch("capture")
    /\ UNCHANGED << scanner, chip, page, tuned, emitting, started, running,
                    reader, main, paging, sender, restarts >>

(* The capture completes and its RAM is selected, or it does not and the   *)
(* snapshot fails.                                                         *)
CaptureCompletes(complete) ==
    /\ scan = "capturing"
    /\ scan' = IF complete THEN "paged" ELSE "idle"
    /\ page' = IF complete THEN 1 ELSE page
    /\ halLock' = complete
    /\ UNCHANGED << scanner, chip, tuned, emitting, started, running, reader,
                    main, paging, sender, restarts >>
    /\ NoTouch

(* lgw_mem_rb returned, well or not: the page is put back, the lock too.   *)
CaptureRead ==
    /\ scan = "paged"
    /\ scan' = "idle" /\ page' = 0 /\ halLock' = FALSE
    /\ UNCHANGED << scanner, chip, tuned, emitting, started, running, reader,
                    main, paging, sender, restarts >>
    /\ NoTouch

(* run_spectral_scan: one look at _started, then start, status and read    *)
(* without the lock.                                                       *)
ScanBegins ==
    /\ scan = "submitted" /\ scanner = "spectral" /\ started
    /\ scan' = "scanning"
    /\ NoTouch
    /\ UNCHANGED << scanner, chip, page, tuned, emitting, started, running,
                    reader, halLock, main, paging, sender, restarts >>

ScanCalls(last) ==
    /\ scan = "scanning"
    /\ scan' = IF last THEN "idle" ELSE scan
    /\ Touch("scan")
    /\ UNCHANGED << scanner, chip, page, tuned, emitting, started, running,
                    reader, halLock, main, paging, sender, restarts >>

-----------------------------------------------------------------------------
MainStep ==
    \/ RaiseStarted \/ SetSyncword \/ PageSent
    \/ \E ok \in BOOLEAN : Configure(ok) \/ WrapperStart(ok)

CaptureStep ==
    CaptureRead \/ \E complete \in BOOLEAN : CaptureCompletes(complete)

Next ==
    \/ MainStep \/ WrapperStop \/ CaptureStep
    \/ Poll \/ RestartBegins \/ PageBegins
    \/ \E t \in Senders : TxStatus(t) \/ SendChecked(t) \/ Send(t)
    \/ TxDone
    \/ Submit \/ SkipMeasurement \/ CaptureBegins \/ ScanBegins
    \/ \E last \in BOOLEAN : ScanCalls(last)

Spec ==
    /\ Init /\ [][Next]_vars
    /\ WF_vars(MainStep) /\ SF_vars(WrapperStop) /\ WF_vars(CaptureStep)

-----------------------------------------------------------------------------
Calls == {"receive", "syncword", "page", "status", "send", "capture", "scan"}

(* Types of the wrapper's and the source's fields and of the actors'       *)
(* positions.                                                              *)
TypeOK ==
    /\ scanner \in {"capture", "spectral"} /\ page \in {0, 1}
    /\ {chip, tuned, emitting, started, running, reader, halLock, paging}
          \subseteq BOOLEAN
    /\ main \in {"idle", "quiet", "reset", "start", "flag", "sync"}
    /\ sender \in [Senders -> {"idle", "checked"}]
    /\ scan \in {"idle", "submitted", "capturing", "paged", "scanning"}
    /\ restarts \in 0 .. MaxHalRestarts
    /\ offChip \subseteq Calls /\ offPage \subseteq Calls

(* While a capture has the register page turned, no other call reaches a   *)
(* register, with one exception: the sync word a restart writes without    *)
(* the lock.                                                               *)
PageRespected == offPage \subseteq {"syncword"}

(* Polls, pages and captures only ever reach a started chip.  A send that  *)
(* looked at _started before the restart, a status query and a spectral    *)
(* scan under way do not look again.                                       *)
UsedWhileStarted == offChip \subseteq {"send", "status", "scan"}

(* A capture never records a transmission of our own.                      *)
CaptureQuiet == scan = "capturing" => ~emitting

(* A source that says it runs listens on Meshtastic's sync word, unless    *)
(* the write went to the other page; else it would be deaf with every      *)
(* light green.                                                            *)
RunningIsTuned == (running /\ "syncword" \notin offPage) => tuned

(* The event loop comes out of every restart and of every page it sends,   *)
(* whatever the thread that has the lock meets.                            *)
LoopReturns == []<>(main = "idle" /\ ~paging)
=============================================================================
