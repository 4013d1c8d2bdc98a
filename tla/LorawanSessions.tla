--------------------------- MODULE LorawanSessions ---------------------------
(***************************************************************************)
(* What the gateway can read of LoRaWAN devices it only overhears:         *)
(* src/decode/lorawan_decoder.py (the joins, the data frames),             *)
(* lorawan_keystore.py, lorawan_crypto.py, the device list of              *)
(* src/api/routes/lorawan_config_routes.py and its loading at start-up in  *)
(* src/coordinator.py.  An accept does not say whom it answers, so it is   *)
(* taken for the answer to the join request heard last, if that is recent. *)
(* Devices and their network are outside; each may be heard or missed.     *)
(***************************************************************************)
EXTENDS Integers

CONSTANTS
    Devices, RootKeys, Addrs,
    FirstKeys,     \* the root keys the devices are registered with at first
    Lists,         \* device lists an operator may save
    MaxJoins,      \* bound: join requests sent
    MaxPuts,       \* bound: changes of the device list, and of a device's keys
    MaxRestarts    \* bound: restarts of the service

VARIABLES
    \* the devices and their network
    realKey,       \* the root keys a device was registered with
    asked,         \* the DevNonce of its unanswered join request, 0 if none
    session,       \* its session: address, keys, and whether FCnt went past 16 bits
    joins,
    \* the service
    devices,       \* config.lorawan.devices
    devicesDisk,   \* the same in local.yaml
    rootKeys,      \* _root_keys and _payload_fields of the key store
    sessionKeys,   \* _session_keys and _dev_addr_eui
    lastJoin,      \* _last_join_request, and whether it is recent
    puts, restarts,
    \* history: what became of the last join with an address ("heard" whole;
    \* "doubtful": crossed by another one, or missed after one that was heard;
    \* "unheard"); the devices whose removal did not reach the key store
    standing, leftover

vars == << realKey, asked, session, joins, devices, devicesDisk, rootKeys,
           sessionKeys, lastJoin, puts, restarts, standing, leftover >>

None == [is |-> "none"]
Root(k, f) == [is |-> "keys", key |-> k, fields |-> f]
Roots == { Root(k, f) : k \in RootKeys, f \in BOOLEAN }
AppSKey(k, joinNonce, devNonce) == [key |-> k, join |-> joinNonce, dev |-> devNonce]

Init ==
    /\ realKey = FirstKeys
    /\ asked = [d \in Devices |-> 0] /\ joins = 0
    /\ session = [d \in Devices |-> None]
    /\ devices = [d \in Devices |-> None] /\ devicesDisk = devices
    /\ rootKeys = devices
    /\ sessionKeys = [a \in Addrs |-> None] /\ lastJoin = None
    /\ puts = 0 /\ restarts = 0
    /\ standing = [a \in Addrs |-> "unheard"] /\ leftover = {}

-----------------------------------------------------------------------------
(* The key store.                                                          *)

(* add_device(): a field list is stored, never taken away.                 *)
AddDevice(old, new) ==
    IF new = None THEN old
    ELSE IF old # None /\ ~new.fields THEN Root(new.key, old.fields)
    ELSE new

(* Mutant: the first session of an address is kept.                        *)
SetFirstSession(keys, a, skey, dev) ==
    IF keys[a] # None THEN keys
    ELSE [keys EXCEPT ![a] = [is |-> "session", skey |-> skey, dev |-> dev]]

(* set_session_key(): a new session for an address replaces the old one.   *)
SetSessionKey(keys, a, skey, dev) ==
    [keys EXCEPT ![a] = [is |-> "session", skey |-> skey, dev |-> dev]]

-----------------------------------------------------------------------------
(* _decode_join_request(): the request is remembered.                      *)
Remember(d, nonce) == [is |-> "join", dev |-> d, nonce |-> nonce, recent |-> TRUE]

(* decrypt_join_accept() and derive_app_skey(), for an accept of device d  *)
(* that is taken for lastJoin's: with another device's keys the fields are *)
(* noise, and the noise names some address.                                *)
InstallAccept(d, a, nonce) ==
    LET guess == lastJoin.dev
        root == rootKeys[guess]
    IN  IF root.key = realKey[d]
        THEN sessionKeys' = SetSessionKey(sessionKeys, a,
                                AppSKey(root.key, nonce, lastJoin.nonce), guess)
        ELSE \E noise \in Addrs :
                sessionKeys' = SetSessionKey(sessionKeys, noise,
                                    AppSKey(root.key, 0, lastJoin.nonce), guess)

(* _decode_join_accept(): only an accept that is attributed to a recent    *)
(* request of a device with configured keys is decrypted.                  *)
DecodeJoinAccept(d, a, nonce) ==
    IF lastJoin # None /\ lastJoin.recent /\ rootKeys[lastJoin.dev] # None
    THEN InstallAccept(d, a, nonce)
    ELSE UNCHANGED sessionKeys

(* A device asks to join; a request may be repeated with a new nonce.      *)
JoinRequest(d) ==
    /\ joins < MaxJoins
    /\ joins' = joins + 1 /\ asked' = [asked EXCEPT ![d] = joins']
    /\ \/ lastJoin' = Remember(d, joins')
       \/ UNCHANGED lastJoin
    /\ UNCHANGED << realKey, session, devices, devicesDisk, rootKeys, sessionKeys,
                    puts, restarts, standing, leftover >>

(* The request heard last is recent and of a device on the list; it is the *)
(* one device d is waiting to have answered, and the list has d's keys.    *)
Attributed == lastJoin # None /\ lastJoin.recent /\ rootKeys[lastJoin.dev] # None
OwnJoin(d) ==
    /\ Attributed
    /\ lastJoin.dev = d /\ lastJoin.nonce = asked[d] /\ rootKeys[d].key = realKey[d]

(* The network answers within its receive windows, so a request whose      *)
(* answer is still to come is recent.  The address may be one the device   *)
(* or another device had before.                                           *)
JoinAccept(d, a) ==
    /\ asked[d] # 0
    /\ \A e \in Devices \ {d} : session[e] # None => session[e].addr # a
    /\ session' = [session EXCEPT ![d] =
                     [is |-> "session", addr |-> a, rolled |-> FALSE,
                      skey |-> AppSKey(realKey[d], asked[d], asked[d])]]
    /\ asked' = [asked EXCEPT ![d] = 0]
    /\ \/ /\ DecodeJoinAccept(d, a, asked[d])
          /\ standing' = [b \in Addrs |->
                CASE b = a /\ OwnJoin(d) -> "heard"
                  [] b = a /\ ~OwnJoin(d) /\ (Attributed \/ sessionKeys[a] # None)
                       -> "doubtful"
                  [] b # a /\ ~OwnJoin(d) /\ Attributed
                       /\ sessionKeys'[b] # sessionKeys[b] -> "doubtful"
                  [] OTHER -> standing[b]]
       \/ /\ standing' = IF sessionKeys[a] = None THEN standing
                          ELSE [standing EXCEPT ![a] = "doubtful"]
          /\ UNCHANGED sessionKeys
    /\ UNCHANGED << realKey, joins, devices, devicesDisk, rootKeys, lastJoin, puts,
                    restarts, leftover >>

(* Ten seconds go by after the request heard last; a request nobody        *)
(* answered is given up.                                                   *)
WindowPasses ==
    /\ lastJoin # None /\ lastJoin.recent
    /\ lastJoin' = [lastJoin EXCEPT !.recent = FALSE]
    /\ asked' = [d \in Devices |-> IF asked[d] <= lastJoin.nonce THEN 0 ELSE asked[d]]
    /\ UNCHANGED << realKey, session, joins, devices, devicesDisk, rootKeys,
                    sessionKeys, puts, restarts, standing, leftover >>

-----------------------------------------------------------------------------
(* _decode_data_up() changes nothing; this is what it shows of a frame of  *)
(* device d.  One with an application port is decrypted when its address   *)
(* has a session; decrypt_frm_payload() extends the 16-bit counter with    *)
(* zeros.                                                                  *)
Shown(d, port) ==
    LET s == session[d]
        k == sessionKeys[s.addr]
    IN  IF port = 0 \/ k = None THEN "closed"
        ELSE IF k.skey = s.skey /\ ~s.rolled THEN "plain" ELSE "noise"

(* A session outlives 65536 frames.                                        *)
CounterRolls(d) ==
    /\ session[d] # None /\ ~session[d].rolled
    /\ session' = [session EXCEPT ![d].rolled = TRUE]
    /\ UNCHANGED << realKey, asked, joins, devices, devicesDisk, rootKeys,
                    sessionKeys, lastJoin, puts, restarts, standing, leftover >>

(* A device is registered anew with other root keys.                       *)
Register(d, k) ==
    /\ puts < MaxPuts /\ realKey[d] # k
    /\ realKey' = [realKey EXCEPT ![d] = k] /\ puts' = puts + 1
    /\ UNCHANGED << asked, session, joins, devices, devicesDisk, rootKeys,
                    sessionKeys, lastJoin, restarts, standing, leftover >>

-----------------------------------------------------------------------------
(* update_lorawan_config(): the list replaces the old one in memory, is    *)
(* saved, and then each of its devices is added to the key store.          *)
PutDevices(list, saved) ==
    /\ devices' = list
    /\ IF saved
       THEN /\ devicesDisk' = list
            /\ rootKeys' = [d \in Devices |-> AddDevice(rootKeys[d], list[d])]
       ELSE UNCHANGED << devicesDisk, rootKeys >>

UpdateDevices(list, saved) ==
    /\ puts < MaxPuts
    /\ PutDevices(list, saved)
    /\ puts' = puts + 1
    /\ leftover' = IF ~saved THEN leftover
                   ELSE { d \in Devices :
                            \/ list[d] = None /\ rootKeys[d] # None
                            \/ /\ list[d] # None /\ rootKeys[d] # None
                               /\ rootKeys[d].fields /\ ~list[d].fields }
    /\ UNCHANGED << realKey, asked, session, joins, sessionKeys, lastJoin,
                    restarts, standing >>

(* A restart forgets every session and reads the list again.               *)
Restart ==
    /\ restarts < MaxRestarts
    /\ restarts' = restarts + 1
    /\ devices' = devicesDisk /\ rootKeys' = devicesDisk /\ leftover' = {}
    /\ sessionKeys' = [a \in Addrs |-> None] /\ lastJoin' = None
    /\ standing' = [a \in Addrs |-> "unheard"]
    /\ UNCHANGED << realKey, asked, session, joins, devicesDisk, puts >>

Next ==
    \/ \E d \in Devices : JoinRequest(d)
    \/ \E d \in Devices, a \in Addrs : JoinAccept(d, a)
    \/ WindowPasses
    \/ \E d \in Devices : CounterRolls(d)
    \/ \E d \in Devices, k \in RootKeys : Register(d, k)
    \/ \E list \in Lists, saved \in BOOLEAN : UpdateDevices(list, saved)
    \/ Restart

Spec == Init /\ [][Next]_vars

-----------------------------------------------------------------------------
TypeOK ==
    /\ realKey \in [Devices -> RootKeys]
    /\ asked \in [Devices -> 0 .. MaxJoins]
    /\ { devices, devicesDisk, rootKeys } \subseteq [Devices -> Roots \cup {None}]
    /\ \A a \in Addrs : sessionKeys[a] # None => sessionKeys[a].dev \in Devices
    /\ standing \in [Addrs -> {"unheard", "heard", "doubtful"}]
    /\ leftover \subseteq Devices

(* A device whose join was overheard, request and accept in time and with  *)
(* its keys on the list, is read from then on, and rightly, until its      *)
(* counter rolls over: whatever joins of others came in between, and       *)
(* whatever was done to the list.                                          *)
HeardJoinReads ==
    \A d \in Devices :
        session[d] # None /\ ~session[d].rolled /\ standing[session[d].addr] = "heard"
            => Shown(d, 1) = "plain"

(* A device whose join was not overheard is not read: noise is shown for   *)
(* a device's data only where two joins crossed within the ten seconds or  *)
(* a later join with the same address was missed.                          *)
UnheardStaysClosed ==
    \A d \in Devices :
        session[d] # None /\ standing[session[d].addr] = "unheard"
            => Shown(d, 1) = "closed"

(* The keys in use are those a restart would read from the file, but for   *)
(* the devices and field lists that were taken off the list since the      *)
(* start: these stay until then.                                           *)
ListInUse ==
    \A d \in Devices \ leftover : rootKeys[d] = devicesDisk[d]
=============================================================================
