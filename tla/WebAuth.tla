------------------------------- MODULE WebAuth -------------------------------
(***************************************************************************)
(* Sign-in to the dashboard: AuthService and LockoutTracker                *)
(* (src/api/auth/auth_service.py, lockout_tracker.py), the session tokens  *)
(* (jwt_session.py) and their start-up (auth_bootstrap.py).                *)
(*                                                                         *)
(* Passwords, the signing secret and the session version live in memory    *)
(* and in the web_auth section of local.yaml.  A handler changes memory    *)
(* first and then saves; the save may fail, and a restart reads the file.  *)
(* Every handler runs without an await, so two of them do not mix.         *)
(***************************************************************************)
EXTENDS Integers, FiniteSets

CONSTANTS
    Passwords,      \* passwords the policy accepts
    MaxAttempts, DefaultAttempts, \* the lockout's possible limits, and the first
    MaxChanges,     \* bound: setups, password changes and logout_all calls
    MaxTokens,      \* bound: tokens issued
    MaxStarts       \* bound: starts of the service

VARIABLES
    auth,       \* what the service holds: hashes, secret, session version, limit
    saved,      \* the same, as local.yaml has it
    secrets,    \* secrets generated so far
    tokens,     \* tokens handed out: who, secret, version, epoch
    epoch,      \* how often all sessions were ended
    failures, lock, \* the lockout tracker's count and lock
    tries,      \* wrong passwords looked at since the user was last let in or released
    trust,      \* FALSE once a save failed: memory and file may differ
    changes, starts

avars == << auth, saved, secrets, tokens, epoch, failures, lock, tries, trust,
            changes, starts >>

Users == {"admin", "viewer"}
NoPassword == "no password"
NoSecret == 0
Nobody == "nobody"

Init ==
    /\ auth = [hash |-> [u \in Users |-> NoPassword], secret |-> 1, version |-> 1,
               limit |-> DefaultAttempts]
    /\ saved = [auth EXCEPT !.secret = NoSecret]
    /\ secrets = 1 /\ tokens = {} /\ epoch = 0
    /\ failures = [u \in Users |-> 0] /\ lock = [u \in Users |-> "open"]
    /\ tries = [u \in Users |-> 0] /\ trust = TRUE /\ changes = 0 /\ starts = 1

SetUp == auth.hash["admin"] # NoPassword

-----------------------------------------------------------------------------
(* jwt_session.issue and verify.                                           *)
Issue(u) ==
    /\ Cardinality(tokens) < MaxTokens
    /\ tokens' = tokens \cup {[who |-> u, secret |-> auth'.secret, version |-> auth'.version,
                               epoch |-> epoch']}

Verifies(t) == t.secret = auth.secret /\ t.version = auth.version

(* _persist: the section is written with the changed fields and the user,  *)
(* if there is one, gets a new token; or the save raises.                  *)
Persist(new, u) ==
    \/ /\ saved' = new
       /\ IF u = Nobody THEN UNCHANGED tokens ELSE Issue(u)
       /\ UNCHANGED trust
    \/ /\ UNCHANGED << saved, tokens >>
       /\ trust' = FALSE

Change == changes < MaxChanges /\ changes' = changes + 1

(* complete_setup, refused once there is a password; the secret that was   *)
(* made at start is saved with it.                                         *)
CompleteSetup ==
    /\ Change /\ ~SetUp /\ UNCHANGED epoch
    /\ \E p \in Passwords :
        /\ auth' = [auth EXCEPT !.hash["admin"] = p]
        /\ Persist([saved EXCEPT !.hash["admin"] = p, !.secret = auth.secret], "admin")
    /\ UNCHANGED << secrets, failures, lock, tries, starts >>

(* A slip: the secret stays.                                               *)
ChangeKeepsSecret(u) ==
    /\ Change /\ auth.hash[u] # NoPassword /\ epoch' = epoch + 1
    /\ \E p \in Passwords :
        /\ auth' = [auth EXCEPT !.hash[u] = p]
        /\ Persist([saved EXCEPT !.hash[u] = p], u)
    /\ UNCHANGED << secrets, failures, lock, tries, starts >>

(* change_password by a session of that user, with the current password: a *)
(* new hash and a new secret, which ends every session.                    *)
ChangePassword(u) ==
    /\ Change /\ auth.hash[u] # NoPassword /\ epoch' = epoch + 1
    /\ \E t \in tokens : t.who = u /\ Verifies(t)
    /\ secrets' = secrets + 1
    /\ \E p \in Passwords :
        /\ auth' = [auth EXCEPT !.hash[u] = p, !.secret = secrets']
        /\ Persist([saved EXCEPT !.hash[u] = p, !.secret = secrets'], u)
    /\ UNCHANGED << failures, lock, tries, starts >>

(* logout_all_sessions.                                                    *)
LogoutAll ==
    /\ Change
    /\ \E t \in tokens : t.who = "admin" /\ Verifies(t)
    /\ auth' = [auth EXCEPT !.version = @ + 1]
    /\ Persist([saved EXCEPT !.version = auth'.version], Nobody)
    /\ epoch' = epoch + 1
    /\ UNCHANGED << secrets, failures, lock, tries, starts >>

(* setup_viewer and clear_viewer: no session ends.                         *)
ViewerSet ==
    /\ Change
    /\ \E t \in tokens : t.who = "admin" /\ Verifies(t)
    /\ \E p \in Passwords \cup {NoPassword} :
        /\ auth' = [auth EXCEPT !.hash["viewer"] = p]
        /\ Persist([saved EXCEPT !.hash["viewer"] = p], Nobody)
    /\ UNCHANGED << secrets, epoch, failures, lock, tries, starts >>

-----------------------------------------------------------------------------
(* remaining_seconds at the start of login(): an expired lock is removed   *)
(* together with its failures.                                             *)
CountBefore(u) == IF lock[u] = "expired" THEN 0 ELSE failures[u]

(* register_failure: the failure that reaches the threshold locks.         *)
Locks(n) == n >= auth.limit

LoginFails(u) ==
    /\ SetUp /\ lock[u] # "locked"
    /\ failures' = [failures EXCEPT ![u] = CountBefore(u) + 1]
    /\ lock' = [lock EXCEPT ![u] = IF Locks(failures'[u]) THEN "locked" ELSE "open"]
    /\ tries' = [tries EXCEPT ![u] = (IF lock[u] = "expired" THEN 0 ELSE @) + 1]
    /\ UNCHANGED << auth, saved, secrets, tokens, epoch, trust, changes, starts >>

LoginSucceeds(u) ==
    /\ SetUp /\ lock[u] # "locked" /\ auth.hash[u] # NoPassword
    /\ failures' = [failures EXCEPT ![u] = 0] /\ lock' = [lock EXCEPT ![u] = "open"]
    /\ tries' = [tries EXCEPT ![u] = 0]
    /\ UNCHANGED << auth, epoch >> /\ Issue(u)
    /\ UNCHANGED << saved, secrets, trust, changes, starts >>

(* The cooldown runs out.                                                  *)
CooldownEnds(u) ==
    /\ lock[u] = "locked"
    /\ lock' = [lock EXCEPT ![u] = "expired"]
    /\ UNCHANGED << auth, saved, secrets, tokens, epoch, failures, tries, trust,
                    changes, starts >>

(* update_lockout_config: counted failures and running cooldowns stay.     *)
Reconfigure ==
    /\ Change
    /\ \E t \in tokens : t.who = "admin" /\ Verifies(t)
    /\ \E m \in MaxAttempts \ {auth.limit} :
        /\ auth' = [auth EXCEPT !.limit = m]
        /\ Persist([saved EXCEPT !.limit = m], Nobody)
    /\ UNCHANGED << secrets, epoch, failures, lock, tries, starts >>

(* build_auth_subsystem: what the file has; a secret of its own if there   *)
(* is none.  The lockout starts afresh.                                    *)
Restart ==
    /\ starts < MaxStarts /\ starts' = starts + 1
    /\ secrets' = IF saved.secret = NoSecret THEN secrets + 1 ELSE secrets
    /\ auth' = [saved EXCEPT !.secret = IF @ = NoSecret THEN secrets' ELSE @]
    /\ failures' = [u \in Users |-> 0] /\ lock' = [u \in Users |-> "open"]
    /\ tries' = [u \in Users |-> 0]
    /\ UNCHANGED << saved, tokens, epoch, trust, changes >>

Next ==
    \/ CompleteSetup \/ LogoutAll \/ ViewerSet \/ Reconfigure \/ Restart
    \/ \E u \in Users : \/ ChangePassword(u) \/ LoginFails(u) \/ LoginSucceeds(u)
                        \/ CooldownEnds(u)

Spec == Init /\ [][Next]_avars

-----------------------------------------------------------------------------
Hashes == [Users -> Passwords \cup {NoPassword}]

TypeOK ==
    /\ auth \in [hash : Hashes, secret : 1 .. secrets, version : 1 .. MaxChanges + 1,
                limit : MaxAttempts]
    /\ saved \in [hash : Hashes, secret : 0 .. secrets, version : 1 .. MaxChanges + 1,
                limit : MaxAttempts]
    /\ secrets \in 1 .. MaxChanges + MaxStarts
    /\ \A t \in tokens : t.who \in Users /\ t.epoch \in 0 .. epoch
    /\ epoch \in 0 .. MaxChanges
    /\ failures \in [Users -> Nat] /\ tries \in [Users -> Nat]
    /\ lock \in [Users -> {"open", "locked", "expired"}]
    /\ trust \in BOOLEAN /\ changes \in 0 .. MaxChanges /\ starts \in 1 .. MaxStarts

(* A token handed out before a password change or a logout of all sessions *)
(* never verifies again, not after a restart either, as long as every save *)
(* succeeded (change_password: "invalidates every other outstanding        *)
(* session").                                                              *)
SessionsEnded == trust => \A t \in tokens : Verifies(t) => t.epoch = epoch

(* Once the dashboard is set up, a restart brings back the same passwords, *)
(* secret, version and limit, so nobody is signed out by it.               *)
RestartKeeps == trust /\ SetUp => saved = auth

(* Between two releases of a user, no more wrong passwords are looked at   *)
(* than the largest threshold in force, whatever is reconfigured meanwhile.*)
AttemptsBounded == \A u \in Users : \A m \in MaxAttempts :
                        (\A k \in MaxAttempts : k <= m) => tries[u] <= m

(* Ended sessions stay ended, a restart changes nothing, and a wrong       *)
(* password is looked at a bounded number of times.                        *)
SignInHolds == SessionsEnded /\ RestartKeeps /\ AttemptsBounded

==============================================================================
