----------------------------- MODULE ChannelSync -----------------------------
(***************************************************************************)
(* MeshCoreTxClient.sync_channels of src/transmit/meshcore_tx_client.py:   *)
(* the channels configured at the Meshpoint are written to the companion's *)
(* channel slots.  A sync runs as a task of its own, after every connect   *)
(* (src/api/server.py) and after every edit of the channel list            *)
(* (src/api/routes/config_routes.py); nothing keeps two apart.             *)
(***************************************************************************)
EXTENDS Integers, Sequences, FiniteSets

CONSTANTS
    Channels,     \* channel names; each has one key
    Lists,        \* lists of channels an operator may save
    Unusable,     \* those whose key is not 16 hex-encoded bytes
    MaxSlots,     \* MESHCORE_MAX_DEVICE_SLOTS
    Syncs,        \* sync tasks that may be alive at a time
    MaxEdits,     \* bound: edits of the channel list
    MaxMisses     \* bound: commands the companion does not answer

Empty == "empty"
Public == "public"
Device == 0..(MaxSlots - 1)
Foreign == "foreign"    \* a channel set on the companion by other means
Contents == Channels \cup {Empty, Public, Foreign}

VARIABLES
    channelKeys,  \* config.meshcore.channel_keys, in order
    slots,        \* the companion's slots
    stage,        \* of each sync: "idle", "read", "write" or "clear"
    position,     \* the slot it is at
    desired,      \* the list it was started with
    seen,         \* the slots it has read, a prefix of the device's
    exact,        \* the last sync had the companion to itself and no misses
    edits, lost

cvars == << channelKeys, slots, stage, position, desired, seen, exact, edits, lost >>

Init ==
    /\ channelKeys = << >>
    /\ slots = [i \in Device |-> IF i = 0 THEN Public
                                ELSE IF i = MaxSlots - 1 THEN Foreign ELSE Empty]
    /\ stage = [t \in Syncs |-> "idle"] /\ position = [t \in Syncs |-> 0]
    /\ desired = [t \in Syncs |-> << >>] /\ seen = [t \in Syncs |-> << >>]
    /\ exact = FALSE /\ edits = 0 /\ lost = 0

FirstOf(list, n) == [i \in {j \in DOMAIN list : j <= n} |-> list[i]]

Alone(t) == \A u \in Syncs \ {t} : stage[u] = "idle"

-----------------------------------------------------------------------------
(* A task for sync_channels() is created; at most MAX_USER_CHANNELS.       *)
Begin(t, keys) ==
    /\ stage[t] = "idle"
    /\ stage' = [stage EXCEPT ![t] = "read"]
    /\ position' = [position EXCEPT ![t] = 0]
    /\ desired' = [desired EXCEPT ![t] = FirstOf(keys, MaxSlots - 1)]
    /\ seen' = [seen EXCEPT ![t] = << >>]
    /\ exact' = Alone(t)
    /\ UNCHANGED << slots, lost >>

(* update_meshcore_channels(): the list is replaced, then synced.          *)
Edit(t) ==
    /\ edits < MaxEdits /\ edits' = edits + 1
    /\ channelKeys' \in Lists
    /\ Begin(t, channelKeys')

(* _on_companion_connected().                                              *)
Reconnect(t) ==
    /\ edits < MaxEdits /\ edits' = edits + 1
    /\ Begin(t, channelKeys)
    /\ UNCHANGED channelKeys

(* get_channel(i).  An error or a timeout ends the probing.                *)
ReadSlot(t) ==
    /\ stage[t] = "read" /\ position[t] < MaxSlots
    /\ seen' = [seen EXCEPT ![t] = Append(@, slots[position[t]])]
    /\ position' = [position EXCEPT ![t] = @ + 1]
    /\ UNCHANGED << channelKeys, slots, stage, desired, exact, edits, lost >>

Miss == lost < MaxMisses /\ lost' = lost + 1 /\ exact' = FALSE

ReadFails(t) ==
    /\ stage[t] = "read" /\ position[t] < MaxSlots
    /\ Miss
    /\ stage' = [stage EXCEPT ![t] = "write"]
    /\ position' = [position EXCEPT ![t] = 1]
    /\ UNCHANGED << channelKeys, slots, desired, seen, edits >>

ReadDone(t) ==
    /\ stage[t] = "read" /\ position[t] = MaxSlots
    /\ stage' = [stage EXCEPT ![t] = "write"]
    /\ position' = [position EXCEPT ![t] = 1]
    /\ UNCHANGED << channelKeys, slots, desired, seen, exact, edits, lost >>

(* device_slots.get(slot): what the task believes is in a slot.            *)
Believed(t, slot) == IF slot + 1 \in DOMAIN seen[t] THEN seen[t][slot + 1] ELSE Empty

(* "slot = user_idx + 1"; user_idx counts from zero, i from one.           *)
SlotOf(i) == i

(* One entry of the list: skipped when its key is unusable or the slot was *)
(* seen to hold it, else set_channel(), which the companion may miss.      *)
WriteSlot(t) ==
    LET i == position[t]
        slot == SlotOf(i)
    IN  /\ stage[t] = "write" /\ i <= Len(desired[t])
        /\ position' = [position EXCEPT ![t] = i + 1]
        /\ IF desired[t][i] \in Unusable \/ Believed(t, slot) = desired[t][i]
           THEN UNCHANGED << slots, lost, exact >>
           ELSE \/ slots' = [slots EXCEPT ![slot] = desired[t][i]] /\ UNCHANGED << lost, exact >>
                \/ Miss /\ UNCHANGED slots
        /\ UNCHANGED << channelKeys, stage, desired, seen, edits >>

(* A slip: the clearing begins one slot late.                              *)
FirstClearLate(t) == 2 + Len(desired[t])

FirstClear(t) == 1 + Len(desired[t])

WriteDone(t) ==
    /\ stage[t] = "write" /\ position[t] > Len(desired[t])
    /\ stage' = [stage EXCEPT ![t] = "clear"]
    /\ position' = [position EXCEPT ![t] = FirstClear(t)]
    /\ UNCHANGED << channelKeys, slots, desired, seen, exact, edits, lost >>

(* One of the slots behind the list, as far as they were read.             *)
ClearSlot(t) ==
    LET slot == position[t]
    IN  /\ stage[t] = "clear" /\ slot < MaxSlots /\ slot + 1 \in DOMAIN seen[t]
        /\ position' = [position EXCEPT ![t] = slot + 1]
        /\ IF Believed(t, slot) = Empty THEN UNCHANGED << slots, lost, exact >>
           ELSE \/ slots' = [slots EXCEPT ![slot] = Empty] /\ UNCHANGED << lost, exact >>
                \/ Miss /\ UNCHANGED slots
        /\ UNCHANGED << channelKeys, stage, desired, seen, edits >>

SyncDone(t) ==
    /\ stage[t] = "clear"
    /\ position[t] >= MaxSlots \/ position[t] + 1 \notin DOMAIN seen[t]
    /\ stage' = [stage EXCEPT ![t] = "idle"]
    /\ UNCHANGED << channelKeys, slots, position, desired, seen, exact, edits, lost >>

SyncStep(t) ==
    \/ ReadSlot(t) \/ ReadFails(t) \/ ReadDone(t) \/ WriteSlot(t)
    \/ WriteDone(t) \/ ClearSlot(t) \/ SyncDone(t)

Next == \E t \in Syncs : Edit(t) \/ Reconnect(t) \/ SyncStep(t)

Spec == Init /\ [][Next]_cvars

-----------------------------------------------------------------------------
TypeOK ==
    /\ channelKeys \in Lists \cup {<< >>}
    /\ slots \in [Device -> Contents]
    /\ stage \in [Syncs -> {"idle", "read", "write", "clear"}]
    /\ position \in [Syncs -> 0..(MaxSlots + 1)]
    /\ exact \in BOOLEAN /\ edits \in 0..MaxEdits /\ lost \in 0..MaxMisses

(* "Slot 0 is reserved for Public": no list, however long, and no clearing *)
(* reaches it.                                                             *)
PublicUntouched == slots[0] = Public

(* "device channel_idx matches the Messages tab": when the syncs are over  *)
(* and the last one had the companion to itself and every answer, slot i   *)
(* holds the i-th configured channel and no slot behind the list keeps an  *)
(* old one, whatever earlier syncs, overlapping or cut short, left behind. *)
Mirrored ==
    (exact /\ \A t \in Syncs : stage[t] = "idle") =>
        \A i \in 1..(MaxSlots - 1) :
            IF i <= Len(channelKeys)
            THEN channelKeys[i] \in Unusable \/ slots[i] = channelKeys[i]
            ELSE slots[i] = Empty

(* Public is never written, and an undisturbed sync leaves the slots as    *)
(* configured.                                                             *)
SlotsMirrored == PublicUntouched /\ Mirrored

==============================================================================
