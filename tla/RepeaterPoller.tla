---------------------------- MODULE RepeaterPoller ---------------------------
(***************************************************************************)
(* The repeater poller, src/transmit/repeater_poller.py, over              *)
(* MeshCoreTxClient.poll_repeater and add_contact of                       *)
(* src/transmit/meshcore_tx_client.py.                                     *)
(*                                                                         *)
(* The companion keeps a roster of contacts.  A reset of the companion     *)
(* wipes it; a repeater returns to it by an advertisement over the air or  *)
(* because the poller re-injects the record it has cached.  The state and  *)
(* the cache of the poller are files, rewritten in place, so a crash in    *)
(* the middle of a write leaves a file that does not load.                 *)
(***************************************************************************)
EXTENDS Integers, FiniteSets

CONSTANTS
    Repeaters,       \* the configured repeaters, polled in some order
    POLL_ATTEMPTS,
    Shapes,          \* what fetch_all_neighbours may bring: "none", "dict", "list"
    MaxResets,       \* bound: resets and losses of the companion
    MaxMisses,       \* bound: polls a repeater does not answer
    MaxCrashes       \* bound: crashes of the service

VARIABLES
    poller,          \* where _loop() is suspended
    todo,            \* repeaters left in this round
    current,         \* the repeater being polled, or "none"
    attempt,         \* of _poll_one()
    result,          \* the last answer of poll_repeater()
    latest,          \* self.latest: what the dashboard shows of each repeater
    cache,           \* self._contact_cache: repeaters with a record
    stateFile, cacheFile,  \* what is on disk
    torn,            \* files being rewritten: "state", "cache"
    known,           \* repeaters whose status a state file has held
    reachable,       \* the companion is connected
    roster,          \* contacts the companion knows
    restamped,       \* a neighbour report was stored by a poll that had none
    resets, silent, crashes

rvars == << poller, todo, current, attempt, result, latest, cache, stateFile, cacheFile, torn, known,
            reachable, roster, restamped, resets, silent, crashes >>

None == "none"
NoEntry == [ok |-> FALSE, status |-> FALSE, neighbours |-> "none"]
NoLatest == [r \in Repeaters |-> NoEntry]
Answer(ok, error, neighbours) == [ok |-> ok, error |-> error, neighbours |-> neighbours]
NotAttempted == Answer(FALSE, "not attempted", "none")

Init ==
    /\ poller = "off" /\ todo = {} /\ current = None /\ attempt = 0
    /\ result = NotAttempted
    /\ latest = NoLatest /\ cache = {} /\ stateFile = NoLatest /\ cacheFile = {}
    /\ torn = {} /\ known = {}
    /\ reachable = FALSE /\ roster = {}
    /\ restamped = FALSE /\ resets = 0 /\ silent = 0 /\ crashes = 0

companion == << reachable, roster, resets >>
files == << stateFile, cacheFile, torn, known >>

-----------------------------------------------------------------------------
(* start(), after __init__ loaded both files; a file that does not parse   *)
(* counts as empty.                                                        *)
Start ==
    /\ poller = "off"
    /\ latest' = IF "state" \in torn THEN NoLatest ELSE stateFile
    /\ known' = IF "state" \in torn THEN {} ELSE known
    /\ cache' = IF "cache" \in torn THEN {} ELSE cacheFile
    /\ poller' = "waiting"
    /\ UNCHANGED << todo, current, attempt, result, stateFile, cacheFile, torn, companion, restamped, silent, crashes >>

(* _wait_for_connected() (bounded) and the grace period are over, or the   *)
(* interval is: the next round.                                            *)
NextRound ==
    /\ poller \in {"waiting", "interval"}
    /\ poller' = "between" /\ todo' = Repeaters
    /\ UNCHANGED << current, attempt, result, latest, cache, files, companion, restamped, silent, crashes >>

(* _poll_round(): the next repeater, or the interval.                      *)
PollNext ==
    /\ poller = "between"
    /\ IF todo = {}
       THEN poller' = "interval" /\ UNCHANGED << todo, current, attempt, result >>
       ELSE /\ \E r \in todo : current' = r /\ todo' = todo \ {r}
            /\ attempt' = 1 /\ result' = NotAttempted
            /\ poller' = "polling"
    /\ UNCHANGED << latest, cache, files, companion, restamped, silent, crashes >>

(* poll_repeater(): what it finds, and what the repeater answers.          *)
Answers ==
    IF ~ reachable THEN {Answer(FALSE, "not connected", "none")}
    ELSE IF current \notin roster THEN {Answer(FALSE, "not in roster", "none")}
    ELSE {Answer(FALSE, "login failed", "none")}
         \cup {Answer(FALSE, "no status", n) : n \in Shapes}
         \cup {Answer(TRUE, "", n) : n \in Shapes}

Unanswered(a) == a.error \in {"login failed", "no status"}

(* The answer carries the roster's record: kept even of a failed poll.     *)
HasContact(a) == a.error \notin {"not connected", "not in roster"}

(* One attempt; with a record, the cache file is being rewritten.          *)
Poll ==
    /\ poller = "polling"
    /\ \E a \in Answers :
         /\ Unanswered(a) => silent < MaxMisses
         /\ silent' = silent + (IF Unanswered(a) THEN 1 ELSE 0)
         /\ result' = a
         /\ IF HasContact(a)
            THEN cache' = cache \cup {current} /\ torn' = torn \cup {"cache"}
            ELSE UNCHANGED << cache, torn >>
    /\ poller' = "polled"
    /\ UNCHANGED << todo, current, attempt, latest, stateFile, cacheFile, known, companion, restamped, crashes >>

(* After the attempt: the cache file is whole again.  Then the loop ends,  *)
(* re-injects the cached record, or retries after a pause.                 *)
AfterPoll ==
    /\ poller = "polled"
    /\ IF HasContact(result) THEN cacheFile' = cache /\ torn' = torn \ {"cache"}
       ELSE UNCHANGED << cacheFile, torn >>
    /\ IF result.ok THEN poller' = "merge"
       ELSE IF result.error = "not in roster" /\ current \in cache THEN poller' = "injecting"
       ELSE poller' = IF attempt < POLL_ATTEMPTS THEN "retry" ELSE "merge"
    /\ UNCHANGED << todo, current, attempt, result, latest, cache, stateFile, known, companion,
                    restamped, silent, crashes >>

(* add_contact(); accepted, the next attempt follows without a pause.      *)
Inject ==
    /\ poller = "injecting"
    /\ IF reachable
       THEN /\ roster' = roster \cup {current}
            /\ attempt' = attempt + (IF attempt < POLL_ATTEMPTS THEN 1 ELSE 0)
            /\ poller' = IF attempt < POLL_ATTEMPTS THEN "polling" ELSE "merge"
       ELSE /\ poller' = IF attempt < POLL_ATTEMPTS THEN "retry" ELSE "merge"
            /\ UNCHANGED << roster, attempt >>
    /\ UNCHANGED << todo, current, result, latest, cache, files, reachable, resets,
                    restamped, silent, crashes >>

Retry ==
    /\ poller = "retry"
    /\ attempt' = attempt + 1 /\ poller' = "polling"
    /\ UNCHANGED << todo, current, result, latest, cache, files, companion, restamped, silent, crashes >>

(* A slip: a failed poll blanks what was known.                            *)
MergedAfresh(prev, a) ==
    [ok |-> a.ok, status |-> a.ok, neighbours |-> a.neighbours]

(* The entry of the dashboard: what the poll did not bring is kept         *)
(* (telemetry like status).                                                *)
Merged(prev, a) ==
    [ok |-> a.ok, status |-> a.ok \/ prev.status,
     neighbours |-> IF a.neighbours # "none" THEN a.neighbours ELSE prev.neighbours]

Merge ==
    /\ poller = "merge"
    /\ latest' = [latest EXCEPT ![current] = Merged(@, result)]
    /\ torn' = torn \cup {"state"}
    /\ poller' = "saving"
    /\ UNCHANGED << todo, current, attempt, result, cache, stateFile, cacheFile, known, companion, restamped, silent, crashes >>

(* _store_neighbour_reports() takes this poll's own answer.                *)
Stored(a) == a.neighbours = "dict"

(* _save_state() is done; a good poll is stored.  A neighbour list that is *)
(* not a dict raises in _store_neighbour_reports(), which nothing catches: *)
(* the loop's task ends.                                                   *)
Save ==
    /\ poller = "saving"
    /\ stateFile' = latest /\ torn' = torn \ {"state"}
    /\ known' = {r \in Repeaters : latest[r].status}
    /\ restamped' = (restamped \/ (result.ok /\ Stored(result) /\ result.neighbours = "none"))
    /\ poller' = IF result.ok /\ result.neighbours = "list" THEN "died" ELSE "between"
    /\ current' = None
    /\ UNCHANGED << todo, attempt, result, latest, cache, cacheFile, companion, silent, crashes >>

(* stop() cancels the loop at one of its awaits; no write is in progress.  *)
Stop ==
    /\ poller \in {"waiting", "interval", "between", "polling", "injecting", "retry"}
    /\ poller' = "stopped"
    /\ UNCHANGED << todo, current, attempt, result, latest, cache, files, companion, restamped, silent, crashes >>

(* The service dies; what it held in memory is gone.                       *)
Crash ==
    /\ crashes < MaxCrashes /\ poller \notin {"off", "stopped"}
    /\ crashes' = crashes + 1
    /\ poller' = "off" /\ todo' = {} /\ current' = None /\ attempt' = 0
    /\ result' = NotAttempted /\ latest' = NoLatest /\ cache' = {}
    /\ UNCHANGED << files, companion, restamped, silent >>

(* The companion: lost, reconnected by a reset that wipes the roster; a    *)
(* repeater's advertisement.                                               *)
CompanionLost ==
    /\ reachable /\ resets < MaxResets /\ poller # "off"
    /\ reachable' = FALSE /\ resets' = resets + 1
    /\ UNCHANGED << poller, todo, current, attempt, result, latest, cache, files, roster,
                    restamped, silent, crashes >>

CompanionReset ==
    /\ ~ reachable /\ poller # "off"
    /\ reachable' = TRUE /\ roster' = {}
    /\ UNCHANGED << poller, todo, current, attempt, result, latest, cache, files, resets,
                    restamped, silent, crashes >>

Advert ==
    /\ reachable /\ poller # "off"
    /\ \E r \in Repeaters \ roster : roster' = roster \cup {r}
    /\ UNCHANGED << poller, todo, current, attempt, result, latest, cache, files, reachable,
                    resets, restamped, silent, crashes >>

-----------------------------------------------------------------------------
Loop == NextRound \/ PollNext \/ Poll \/ AfterPoll \/ Inject \/ Retry \/ Merge \/ Save

Next == Start \/ Loop \/ Stop \/ Crash \/ CompanionLost \/ CompanionReset \/ Advert

(* The loop's sleeps end; the companion's source reconnects                *)
(* (MeshcoreCompanion, Recovers); a repeater may stay silent on the air.   *)
Fairness == WF_rvars(Loop) /\ WF_rvars(CompanionReset)

Spec == Init /\ [][Next]_rvars /\ Fairness

-----------------------------------------------------------------------------
TypeOK ==
    /\ poller \in {"off", "waiting", "interval", "between", "polling", "polled",
                   "injecting", "retry", "merge", "saving", "stopped", "died"}
    /\ todo \subseteq Repeaters /\ current \in Repeaters \cup {None}
    /\ attempt \in 0..POLL_ATTEMPTS
    /\ \A r \in Repeaters : latest[r].status \in BOOLEAN
    /\ cache \subseteq Repeaters /\ roster \subseteq Repeaters
    /\ reachable \in BOOLEAN /\ restamped \in BOOLEAN

(* What the dashboard knew of a repeater is never blanked: a failed poll   *)
(* keeps the last good values, and so does a crash, unless it hits the     *)
(* rewriting of the state file itself.                                     *)
KnownKept == poller # "off" => \A r \in known : latest[r].status

(* A neighbour report is stored once, with the time of the poll that       *)
(* brought it, never again from the merged entry.                          *)
NotRestamped == ~ restamped

(* A repeater whose record was ever seen is polled successfully again      *)
(* after a companion reset, without waiting for its advertisement, once    *)
(* companion and repeater answer.                                          *)
PolledAgain ==
    \A r \in Repeaters :
        []<>(\/ latest[r].ok \/ poller \in {"off", "stopped", "died"}
             \/ r \notin cache \/ silent < MaxMisses)
==============================================================================
