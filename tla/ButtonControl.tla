--------------------------- MODULE ButtonControl ---------------------------
(***************************************************************************)
(* The button on the case (hardware/button_control.py): a short press      *)
(* announces the box on every radio, a long one restarts the service.  The *)
(* event loop polls the pin, at intervals that nothing bounds when the     *)
(* loop is busy, and a restart begins with a new controller while the      *)
(* button may still be down.                                               *)
(***************************************************************************)
EXTENDS Integers

CONSTANTS
    Hold,             \* hold_time_s in units of the debounce time
    Cooldown,         \* advert_cooldown_s in the same units
    Radios,           \* the radios of the advert sequence
    MaxAdverts        \* bound on advert sequences at once

VARIABLES
    pressed, held,    \* the button, and for how long it has been down
    armed,            \* _armed
    since,            \* the age of _pressed_at
    longFired,        \* _long_fired
    cool,             \* what is left until _cooldown_until
    spawned,          \* systemctl restart was started
    adverts,          \* the advert sequences' tasks, under way or ended
    fired,            \* history: restarts asked for by this press
    unseen,           \* history: a release that no tick has seen
    early,            \* history: a restart was asked for by a shorter press
    quiet, tooSoon    \* history: units since the last advert; one came early

vars == << pressed, held, armed, since, longFired, cool, spawned, adverts, fired, unseen, early, quiet, tooSoon >>

None == -1
Least(a, b) == IF a < b THEN a ELSE b
Tasks == 1 .. MaxAdverts
NoAdvert == [done |-> FALSE, todo |-> {}, tried |-> {}]

TypeOK ==
    /\ pressed \in BOOLEAN /\ held \in 0 .. Hold
    /\ armed \in BOOLEAN /\ since \in None .. Hold /\ longFired \in BOOLEAN
    /\ cool \in 0 .. Cooldown /\ spawned \in BOOLEAN
    /\ adverts \in [Tasks -> [done : BOOLEAN, todo : SUBSET Radios, tried : SUBSET Radios]]
    /\ fired \in 0 .. 2 /\ quiet \in 0 .. Cooldown
    /\ unseen \in BOOLEAN /\ early \in BOOLEAN /\ tooSoon \in BOOLEAN

Init ==
    /\ pressed \in BOOLEAN /\ held = 0
    /\ armed = FALSE /\ since = None /\ longFired = FALSE
    /\ cool = 0 /\ spawned = FALSE /\ adverts = [i \in Tasks |-> NoAdvert]
    /\ fired = 0 /\ unseen = FALSE /\ early = FALSE
    /\ quiet = Cooldown /\ tooSoon = FALSE

-----------------------------------------------------------------------------
(* The hand on the button, and time.                                       *)

Press ==
    /\ ~ pressed
    /\ pressed' = TRUE /\ held' = 0 /\ fired' = 0
    /\ UNCHANGED << armed, since, longFired, cool, spawned, adverts, unseen, early, quiet, tooSoon >>

Release ==
    /\ pressed
    /\ pressed' = FALSE /\ held' = 0
    /\ unseen' = (unseen \/ since # None)
    /\ UNCHANGED << armed, since, longFired, cool, spawned, adverts, fired, early, quiet, tooSoon >>

Passes ==
    /\ held' = IF pressed THEN Least(held + 1, Hold) ELSE 0
    /\ since' = IF since = None THEN None ELSE Least(since + 1, Hold)
    /\ cool' = IF cool = 0 THEN 0 ELSE cool - 1
    /\ quiet' = Least(quiet + 1, Cooldown)
    /\ UNCHANGED << pressed, armed, longFired, spawned, adverts, fired, unseen, early, tooSoon >>

-----------------------------------------------------------------------------
(* _tick, by what the pin says and what the controller knows.              *)

TickDisarmed ==
    /\ ~ armed
    /\ armed' = ~ pressed
    /\ UNCHANGED << pressed, held, since, longFired, cool, spawned, adverts, fired, unseen, early, quiet, tooSoon >>

TickPressed ==
    /\ armed /\ pressed /\ since = None
    /\ since' = 0 /\ longFired' = FALSE /\ unseen' = FALSE
    /\ UNCHANGED << pressed, held, armed, cool, spawned, adverts, fired, early, quiet, tooSoon >>

TickHeld ==
    /\ armed /\ pressed /\ since = Hold /\ ~ longFired
    /\ longFired' = TRUE /\ spawned' = TRUE
    /\ fired' = fired + 1
    /\ early' = (early \/ (~ unseen /\ held < Hold))
    /\ UNCHANGED << pressed, held, armed, since, cool, adverts, unseen, quiet, tooSoon >>

(* The reset at a release.                                                 *)
Forget == None

(* _cooldown_until after an advert.                                        *)
NextCooldown == Cooldown

(* _short_press unless it was long or bounced; in the cooldown it only     *)
(* blinks.  The sequence is a task of its own, and an older one that is    *)
(* slow may still run.                                                     *)
TickReleased ==
    /\ armed /\ ~ pressed /\ since # None
    /\ since' = Forget /\ longFired' = FALSE /\ unseen' = FALSE
    /\ IF ~ longFired /\ since >= 1 /\ cool = 0
       THEN /\ \E i \in Tasks :
                 /\ adverts[i].todo = {}
                 /\ adverts' = [adverts EXCEPT ![i] = [done |-> FALSE, todo |-> Radios, tried |-> {}]]
            /\ cool' = NextCooldown /\ quiet' = 0
            /\ tooSoon' = (tooSoon \/ quiet < Cooldown)
       ELSE UNCHANGED << adverts, cool, quiet, tooSoon >>
    /\ UNCHANGED << pressed, held, armed, spawned, fired, early >>

-----------------------------------------------------------------------------
(* advert_all_radios: one radio after the other, whether it fails or not.  *)
AfterError(todo, r) == todo \ {r}

Advert(i, r) ==
    /\ r \in adverts[i].todo
    /\ \E rest \in {adverts[i].todo \ {r}, AfterError(adverts[i].todo, r)} :
         adverts' = [adverts EXCEPT ![i] = [done |-> rest = {}, todo |-> rest, tried |-> @.tried \cup {r}]]
    /\ UNCHANGED << pressed, held, armed, since, longFired, cool, spawned, fired, unseen, early, quiet, tooSoon >>

-----------------------------------------------------------------------------
(* restart_service and systemd.                                            *)

(* _armed of a new controller.                                             *)
Starts == FALSE

Restart ==
    /\ spawned' = FALSE
    /\ armed' = Starts /\ since' = None /\ longFired' = FALSE /\ cool' = 0
    /\ adverts' = [i \in Tasks |-> NoAdvert] /\ unseen' = FALSE /\ quiet' = Cooldown
    /\ UNCHANGED << pressed, held, fired, early, tooSoon >>

SpawnFails ==
    /\ spawned /\ spawned' = FALSE
    /\ UNCHANGED << pressed, held, armed, since, longFired, cool, adverts, fired, unseen, early, quiet, tooSoon >>

Next ==
    \/ Press \/ Release \/ Passes
    \/ TickDisarmed \/ TickPressed \/ TickHeld \/ TickReleased
    \/ \E i \in Tasks, r \in Radios : Advert(i, r)
    \/ Restart \/ SpawnFails

Spec == Init /\ [][Next]_vars

-----------------------------------------------------------------------------
(* A press asks for one restart at most, however long it lasts and however *)
(* often the service is restarted meanwhile: a stuck button does not keep  *)
(* the service restarting.                                                 *)
OneRestartPerPress == fired <= 1

(* A restart is asked for only by a press that has lasted hold_time_s: two *)
(* short presses do not add up, unless the release between them fell       *)
(* between two polls.                                                      *)
RestartNeedsHold == ~ early

(* Announcements are at least the cooldown apart while the service runs,   *)
(* whatever presses, long presses and refused presses come between.        *)
AdvertsSpaced == ~ tooSoon

(* A sequence that has ended has tried every radio: one that fails does    *)
(* not silence the others.                                                 *)
AdvertTriesAll ==
    \A i \in Tasks : adverts[i].done => adverts[i].tried = Radios
=============================================================================
