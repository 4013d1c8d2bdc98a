-------------------------- MODULE DirectMessages --------------------------
(***************************************************************************)
(* Direct messages with one Meshtastic peer: which keys each side holds of *)
(* the other, and whether what is sent can be read (crypto_service.py,     *)
(* meshtastic_decoder.py, meshtastic_builder.py, keypair.py). Keys are     *)
(* numbers; a ciphertext is the pair of keys it was made from, and opens   *)
(* for whoever holds the other halves of both. The channel is one whose    *)
(* key both sides have.                                                    *)
(***************************************************************************)
EXTENDS Integers

CONSTANTS
    MaxResets,      \* times the peer generates a new pair
    MaxPairs,       \* pairs of our own, over all starts
    MaxStarts,      \* restarts of the service
    MaxHeard,       \* packets of the peer
    MaxFailures     \* database writes that fail

VARIABLES
    peerKey,        \* the peer's pair
    peerHas,        \* our public key as the peer knows it, 0 for none
    file,           \* keys.yaml: the number of a pair, Missing or Torn
    pair,           \* the pair in use, 0 when loading failed
    pairs,          \* pairs generated so far
    cache,          \* CryptoService._public_keys for the peer, 0 for none
    db,             \* nodes.public_key of the peer, 0 for NULL
    updating,       \* the NodeInfo between upsert() and register: its key, or 0
    request,        \* the last message read from the peer: "none", "pki", "channel"
    starts,
    heard,
    failures,
    announced,      \* history: the last key of the peer that was stored
    unread,         \* history: a message was not read although its keys were at hand
    garbled         \* history: a message of ours was not readable although the keys were known

vars == << peerKey, peerHas, file, pair, pairs, cache, db, updating, request,
           starts, heard, failures, announced, unread, garbled >>

Keys == 0 .. MaxResets + 1
Pairs == 0 .. MaxPairs
Missing == 0
Torn == -1

TypeOK ==
    /\ peerKey \in Keys \ {0} /\ cache \in Keys /\ db \in Keys
    /\ updating \in Keys /\ announced \in Keys
    /\ peerHas \in Pairs /\ pair \in Pairs /\ pairs \in Pairs
    /\ file \in Pairs \cup {Torn}
    /\ request \in {"none", "pki", "channel"}
    /\ unread \in BOOLEAN /\ garbled \in BOOLEAN

-----------------------------------------------------------------------------
(* _load_public_key_from_db and lookup_public_key: the row is asked when   *)
(* the cache has nothing.                                                  *)
LookupCacheOnly(c, d) == c

Lookup(c, d) == IF c # 0 THEN c ELSE d

(* refresh_public_key_from_db: the cached key is dropped first.            *)
Refresh(d) == Lookup(0, d)

(* KeypairStore.load_or_create: a missing file is made, a torn one is an   *)
(* error that leaves the service without a pair.                           *)
LoadPair ==
    /\ file = Missing => pairs < MaxPairs
    /\ IF file = Missing
         THEN /\ pairs' = pairs + 1 /\ file' = pairs + 1 /\ pair' = pairs + 1
         ELSE /\ UNCHANGED << pairs, file >>
              /\ pair' = IF file = Torn THEN 0 ELSE file

Init ==
    /\ peerKey = 1 /\ peerHas = 0
    /\ file = 1 /\ pair = 1 /\ pairs = 1
    /\ cache = 0 /\ db = 0 /\ updating = 0 /\ request = "none"
    /\ starts = 0 /\ heard = 0 /\ failures = 0
    /\ announced = 0 /\ unread = FALSE /\ garbled = FALSE

(* _bootstrap_pki and _hydrate_public_keys.                                *)
Restart ==
    /\ starts < MaxStarts /\ starts' = starts + 1
    /\ LoadPair
    /\ cache' = db
    /\ updating' = 0 /\ request' = "none"
    /\ UNCHANGED << peerKey, peerHas, db, heard, failures, announced, unread, garbled >>

(* keys.yaml is replaced without being flushed to the card: a power cut    *)
(* may leave it empty; a reinstallation leaves none.                       *)
LoseFile(f) ==
    /\ f \in {Missing, Torn} /\ file # f
    /\ file' = f
    /\ UNCHANGED << peerKey, peerHas, pair, pairs, cache, db, updating, request,
                    starts, heard, failures, announced, unread, garbled >>

-----------------------------------------------------------------------------
PeerResets ==
    /\ peerKey <= MaxResets
    /\ peerKey' = peerKey + 1 /\ peerHas' = 0
    /\ UNCHANGED << file, pair, pairs, cache, db, updating, request,
                    starts, heard, failures, announced, unread, garbled >>

(* send_nodeinfo: our public key goes along when there is one.             *)
SendNodeInfo ==
    /\ pair # 0 /\ peerHas' = pair
    /\ UNCHANGED << peerKey, file, pair, pairs, cache, db, updating, request,
                    starts, heard, failures, announced, unread, garbled >>

(* NodeRepository.upsert: COALESCE(excluded.public_key, nodes.public_key). *)
Upsert(k) == IF k # 0 THEN k ELSE db

PipelineFree == updating = 0 /\ heard < MaxHeard

(* _store_packet and _update_node for a NodeInfo, or for another packet of *)
(* the peer (k = 0): the row first. When the database fails the cache is   *)
(* not reached either.                                                     *)
HearNode(k, fails) ==
    /\ PipelineFree /\ heard' = heard + 1
    /\ fails => failures < MaxFailures
    /\ IF fails
         THEN /\ failures' = failures + 1
              /\ UNCHANGED << db, updating, announced >>
         ELSE /\ db' = Upsert(k)
              /\ updating' = k
              /\ announced' = IF k # 0 THEN k ELSE announced
              /\ UNCHANGED failures
    /\ UNCHANGED << peerKey, peerHas, file, pair, pairs, cache, request, starts, unread, garbled >>

Register ==
    /\ updating # 0
    /\ cache' = updating /\ updating' = 0
    /\ UNCHANGED << peerKey, peerHas, file, pair, pairs, db, request,
                    starts, heard, failures, announced, unread, garbled >>

-----------------------------------------------------------------------------
\* decrypt_pki_payload: the peer used its pair and the key it has of ours.
Opens(key, sound) == sound /\ key = peerKey /\ peerHas = pair

(* MeshtasticDecoder.decode for a PKI message: the cached key, then the    *)
(* stored one; a frame damaged on the air opens with none.                 *)
HearPki(sound) ==
    LET key == Lookup(cache, db)
        again == key # 0 /\ pair # 0 /\ ~Opens(key, sound)
        read == pair # 0 /\ (Opens(key, sound) \/ (again /\ Opens(Refresh(db), sound)))
    IN /\ PipelineFree /\ heard' = heard + 1
       /\ peerHas # 0
       /\ cache' = IF again THEN Refresh(db) ELSE key
       /\ request' = IF read THEN "pki" ELSE request
       /\ unread' = (unread \/ (~read /\ sound /\ pair # 0 /\ peerHas = pair /\ peerKey \in {cache, db}))
       /\ UNCHANGED << peerKey, peerHas, file, pair, pairs, db, updating,
                       starts, failures, announced, garbled >>

(* A peer that has no key of ours uses the channel; the loop over          *)
(* get_all_keys() finds the channel's key.                                 *)
HearChannel ==
    /\ PipelineFree /\ heard' = heard + 1
    /\ peerHas = 0
    /\ request' = "channel"
    /\ UNCHANGED << peerKey, peerHas, file, pair, pairs, cache, db, updating,
                    starts, failures, announced, unread, garbled >>

-----------------------------------------------------------------------------
(* build_text_message and build_routing_ack: hash 0 whenever a key of the  *)
(* recipient was passed.                                                   *)
OnAirHash(recipient) == IF recipient # 0 THEN "zero" ELSE "channel"

\* _encrypt_payload.
Encrypted(recipient) ==
    IF recipient # 0 /\ pair # 0 THEN [is |-> "pki", from |-> pair, to |-> recipient]
                                 ELSE [is |-> "channel", from |-> 0, to |-> 0]

(* The peer's firmware: hash 0 is a PKI message, another hash a channel.   *)
PeerReads(recipient) ==
    LET c == Encrypted(recipient)
    IN IF OnAirHash(recipient) = "zero"
         THEN c.is = "pki" /\ c.from = peerHas /\ c.to = peerKey
         ELSE c.is = "channel"

Sent(recipient) ==
    garbled' = (garbled \/ (/\ ~PeerReads(recipient)
                            /\ \/ recipient = 0
                               \/ recipient = peerKey /\ pair # 0 /\ peerHas = pair))

(* _send_meshtastic to the peer: PKI whenever its key is known.            *)
SendText ==
    LET key == Lookup(cache, db)
    IN /\ cache' = key
       /\ Sent(key)
       /\ UNCHANGED << peerKey, peerHas, file, pair, pairs, db, updating, request,
                       starts, heard, failures, announced, unread >>

(* send_routing_ack, and the traceroute and telemetry replies: PKI when    *)
(* the request was; without the key of the peer there is no reply.         *)
SendReply ==
    LET key == Lookup(cache, db)
        found == IF key = 0 THEN Refresh(db) ELSE key
    IN /\ request # "none"
       /\ IF request = "channel"
            THEN Sent(0) /\ UNCHANGED cache
            ELSE /\ cache' = found
                 /\ IF found = 0 THEN UNCHANGED garbled ELSE Sent(found)
       /\ request' = "none"
       /\ UNCHANGED << peerKey, peerHas, file, pair, pairs, db, updating,
                       starts, heard, failures, announced, unread >>

Next ==
    \/ Restart \/ PeerResets \/ SendNodeInfo \/ Register
    \/ \E f \in {Missing, Torn} : LoseFile(f)
    \/ \E k \in {0, peerKey}, fails \in BOOLEAN : HearNode(k, fails)
    \/ \E sound \in BOOLEAN : HearPki(sound)
    \/ HearChannel \/ SendText \/ SendReply

Spec == Init /\ [][Next]_vars

-----------------------------------------------------------------------------
(* The last key of the peer that was stored is the one that is looked up,  *)
(* through packets without a key, messages that do not open, restarts and  *)
(* writes that fail: only the moment between the row and the cache differs.*)
KeyRemembered ==
    db = announced /\ (updating = 0 => Lookup(cache, db) = announced)

(* A sound message of the peer is read whenever its key is in the cache or *)
(* in the database and it was encrypted for the pair in use.               *)
AtHandIsRead == ~unread

(* What is sent to the peer is readable there when each side has the       *)
(* other's key, or when we have no key of the peer: whichever caches, rows *)
(* and restarts came before. Left out are a peer that lacks our key and a  *)
(* service without a pair of its own, which marks what it encrypts for the *)
(* channel as PKI.                                                         *)
SentReadable == ~garbled
=============================================================================
