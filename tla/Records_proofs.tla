---------------------------- MODULE Records_proofs ---------------------------
(***************************************************************************)
(* Proofs about components of MCRecords: the pager's outbox, the settings, *)
(* sign-in, the channel slots, the LoRaWAN sessions, the chat, the         *)
(* terminal, and start-up and shutdown.  The components share no variable; *)
(* each has an inductive invariant of its own, which holds in the          *)
(* behaviours that are about it.                                           *)
(***************************************************************************)
EXTENDS MCRecords, FiniteSetTheorems, WellFoundedInduction, TLAPS

-----------------------------------------------------------------------------
(***************************************************************************)
(* One component at a time: while a behaviour is about a component, its    *)
(* steps are that component's.                                             *)
(***************************************************************************)
LEMMA EachInit ==
  Init => /\ Channel!Init /\ Pager!Init /\ Setting!Init /\ Auth!Init
          /\ Message!Init /\ Lorawan!Init /\ Shell!Init /\ Lifespan!Init
BY DEF Init

LEMMA PagerAlone ==
  ASSUME [Next]_vars
  PROVE  part' = part /\ (part = "pager" => [Pager!Next]_pagerVars)
<1>1. CASE Next
  BY <1>1, Zenon DEF Next
<1>2. CASE UNCHANGED vars
  BY <1>2 DEF vars
<1>3. QED
  BY <1>1, <1>2

LEMMA SettingAlone ==
  ASSUME [Next]_vars
  PROVE  part' = part /\ (part = "settings" => [Setting!Next]_settingVars)
<1>1. CASE Next
  BY <1>1, Zenon DEF Next
<1>2. CASE UNCHANGED vars
  BY <1>2 DEF vars
<1>3. QED
  BY <1>1, <1>2

LEMMA AuthAlone ==
  ASSUME [Next]_vars
  PROVE  part' = part /\ (part = "auth" => [Auth!Next]_authVars)
<1>1. CASE Next
  BY <1>1, Zenon DEF Next
<1>2. CASE UNCHANGED vars
  BY <1>2 DEF vars
<1>3. QED
  BY <1>1, <1>2

LEMMA ChannelAlone ==
  ASSUME [Next]_vars
  PROVE  part' = part /\ (part = "channels" => [Channel!Next]_channelVars)
<1>1. CASE Next
  BY <1>1, Zenon DEF Next
<1>2. CASE UNCHANGED vars
  BY <1>2 DEF vars
<1>3. QED
  BY <1>1, <1>2

LEMMA MessageAlone ==
  ASSUME [Next]_vars
  PROVE  part' = part /\ (part = "messages" => [Message!Next]_messageVars)
<1>1. CASE Next
  BY <1>1, Zenon DEF Next
<1>2. CASE UNCHANGED vars
  BY <1>2 DEF vars
<1>3. QED
  BY <1>1, <1>2

LEMMA ShellAlone ==
  ASSUME [Next]_vars
  PROVE  part' = part /\ (part = "terminal" => [Shell!Next]_terminalVars)
<1>1. CASE Next
  BY <1>1, Zenon DEF Next
<1>2. CASE UNCHANGED vars
  BY <1>2 DEF vars
<1>3. QED
  BY <1>1, <1>2

LEMMA LifespanAlone ==
  ASSUME [Next]_vars
  PROVE  part' = part /\ (part = "lifespan" => [Lifespan!Next]_lifespanVars)
<1>1. CASE Next
  BY <1>1, Zenon DEF Next
<1>2. CASE UNCHANGED vars
  BY <1>2 DEF vars
<1>3. QED
  BY <1>1, <1>2

LEMMA LorawanAlone ==
  ASSUME [Next]_vars
  PROVE  part' = part /\ (part = "lorawan" => [Lorawan!Next]_lorawanVars)
<1>1. CASE Next
  BY <1>1, Zenon DEF Next
<1>2. CASE UNCHANGED vars
  BY <1>2 DEF vars
<1>3. QED
  BY <1>1, <1>2

-----------------------------------------------------------------------------
(***************************************************************************)
(* The pager.  Beside the property itself the invariant says who may have  *)
(* a row: only a page that is on the air has a row, and one that is past   *)
(* the insert has one unless it was pruned or undone.  What is being       *)
(* matched or waits as an acknowledgement was heard by a pager.            *)
(***************************************************************************)
PastInsert == {"inserted", "done"}

PagerInv ==
    /\ Pager!TypeOK
    /\ Pager!NoFalseAck /\ Pager!AckAccounted
    /\ acks \subseteq heard
    /\ \A p \in heard : send[p] \notin {"idle", "refused"}
    /\ \A p \in Pages :
        /\ disk[p] # "none" => send[p] \notin {"idle", "refused"}
        /\ send[p] = "aired" => table[p] = "none"
        /\ send[p] \in PastInsert /\ table[p] = "none" => p \in pruned \cup undone
    /\ matching # Pager!NoPage => matching \in heard /\ send[matching] \in PastInsert

LEMMA PagerInit ==
  ASSUME PagerAssumption
  PROVE  Pager!Init => PagerInv
<1> SUFFICES ASSUME Pager!Init PROVE PagerInv
  OBVIOUS
<1>1. Pager!TypeOK
  BY DEF PagerAssumption, Pager!Init, Pager!TypeOK, Pager!Row
<1>2. QED
  BY <1>1 DEF PagerInv, Pager!Init, Pager!NoFalseAck, Pager!AckAccounted, PastInsert

(* The invariant, read for one page.                                       *)
Right(p) ==
    /\ table[p] = "acked" \/ disk[p] = "acked" => p \in heard
    /\ table[p] # "none" => send[p] \notin {"idle", "refused"}
    /\ p \in handled => table[p] = "acked" \/ matching = p \/ p \in early \cup pruned \cup undone
    /\ p \in acks => p \in heard
    /\ p \in heard => send[p] \notin {"idle", "refused"}
    /\ disk[p] # "none" => send[p] \notin {"idle", "refused"}
    /\ send[p] = "aired" => table[p] = "none"
    /\ send[p] \in PastInsert /\ table[p] = "none" => p \in pruned \cup undone
    /\ matching = p => p \in heard /\ send[p] \in PastInsert

LEMMA PagerInvIsRight ==
  ASSUME PagerAssumption
  PROVE  PagerInv <=> Pager!TypeOK /\ \A p \in Pages : Right(p)
<1>1. ASSUME PagerInv PROVE Pager!TypeOK /\ \A p \in Pages : Right(p)
  BY <1>1 DEF PagerAssumption, PagerInv, Right, Pager!TypeOK, Pager!NoFalseAck, Pager!AckAccounted
<1>2. ASSUME Pager!TypeOK, \A p \in Pages : Right(p) PROVE PagerInv
  BY <1>2 DEF PagerInv, Right, Pager!TypeOK, Pager!NoFalseAck, Pager!AckAccounted
<1>3. QED
  BY <1>1, <1>2

LEMMA PagerNext ==
  ASSUME PagerAssumption, Pager!TypeOK, \A p \in Pages : Right(p), Pager!Next
  PROVE  Pager!TypeOK' /\ \A p \in Pages : Right(p)'
<1>1. ASSUME NEW p \in Pages, Pager!Transmit(p)
      PROVE  Pager!TypeOK' /\ \A q \in Pages : Right(q)'
  BY <1>1 DEF Pager!Transmit, Pager!TypeOK, Right, PastInsert
<1>2. ASSUME NEW p \in Pages, Pager!InsertRow(p)
      PROVE  Pager!TypeOK' /\ \A q \in Pages : Right(q)'
  BY <1>2 DEF Pager!InsertRow, Pager!TypeOK, Right, PastInsert, Pager!Row
<1>3. ASSUME NEW p \in Pages, Pager!CommitRow(p)
      PROVE  Pager!TypeOK' /\ \A q \in Pages : Right(q)'
  BY <1>3 DEF Pager!CommitRow, Pager!TypeOK, Right, PastInsert, Pager!Row
<1>4. ASSUME NEW p \in Pages, Pager!PagerAccepts(p)
      PROVE  Pager!TypeOK' /\ \A q \in Pages : Right(q)'
  BY <1>4 DEF Pager!PagerAccepts, Pager!TypeOK, Right, PastInsert
<1>5. ASSUME NEW p \in Pages, Pager!FetchRow(p)
      PROVE  Pager!TypeOK' /\ \A q \in Pages : Right(q)'
  BY <1>5 DEF Pager!FetchRow, Pager!TypeOK, Right, PastInsert, Pager!RowFound, Pager!Row, PagerAssumption
<1>6. ASSUME NEW p \in Pages, Pager!Cleanup(p)
      PROVE  Pager!TypeOK' /\ \A q \in Pages : Right(q)'
  BY <1>6 DEF Pager!Cleanup, Pager!TypeOK, Right, PastInsert, Pager!Row
<1>7. ASSUME Pager!UpdateStatus
      PROVE  Pager!TypeOK' /\ \A q \in Pages : Right(q)'
  BY <1>7 DEF Pager!UpdateStatus, Pager!TypeOK, Right, PastInsert, Pager!Row, PagerAssumption
<1>8. ASSUME Pager!OtherCommit
      PROVE  Pager!TypeOK' /\ \A q \in Pages : Right(q)'
  BY <1>8 DEF Pager!OtherCommit, Pager!TypeOK, Right, PastInsert
<1>9. ASSUME Pager!Restart
      PROVE  Pager!TypeOK' /\ \A q \in Pages : Right(q)'
  BY <1>9 DEF Pager!Restart, Pager!TypeOK, Right, PastInsert, Pager!Row, PagerAssumption
<1>10. QED
  BY <1>1, <1>2, <1>3, <1>4, <1>5, <1>6, <1>7, <1>8, <1>9 DEF Pager!Next

(* The outbox of the pager tells the truth: through restarts, pruning and  *)
(* acknowledgements at any moment, "acked" is shown only for a page a      *)
(* pager accepted, and a processed acknowledgement shows unless it came    *)
(* early, was pruned or undone.                                            *)
THEOREM OutboxTrue == Spec => []PagesAccounted
<1> USE PagerAssumption
<1>1. Pager!Init => PagerInv
  BY PagerInit
<1>2. PagerInv /\ [Pager!Next]_pagerVars => PagerInv'
  <2>1. ASSUME PagerInv, Pager!Next PROVE PagerInv'
    <3>1. Pager!TypeOK /\ \A p \in Pages : Right(p)
      BY <2>1, PagerInvIsRight
    <3>2. Pager!TypeOK' /\ \A p \in Pages : Right(p)'
      BY <2>1, <3>1, PagerNext
    <3>3. QED
      BY <3>2 DEF PagerInv, Right, Pager!TypeOK, Pager!NoFalseAck, Pager!AckAccounted
  <2>2. ASSUME PagerInv, UNCHANGED pagerVars PROVE PagerInv'
    BY <2>2 DEF PagerInv, pagerVars, Pager!TypeOK, Pager!NoFalseAck, Pager!AckAccounted
  <2>3. QED
    BY <2>1, <2>2
<1>3. PagerInv => Pager!PagesAccounted
  BY DEF PagerInv, Pager!PagesAccounted
<1> DEFINE Kept == part = "pager" => PagerInv
<1>4. Init => Kept
  BY <1>1, EachInit
<1>5. Kept /\ [Next]_vars => Kept'
  BY <1>2, PagerAlone
<1>6. Kept => PagesAccounted
  BY <1>3 DEF PagesAccounted
<1> HIDE DEF Kept
<1>7. QED
  BY <1>4, <1>5, <1>6, PTL DEF Spec

-----------------------------------------------------------------------------
(***************************************************************************)
(* The settings.  What an answer leaves unsaid is in the sets of exceptions*)
(* the moment it is left unsaid, so the three properties are inductive once*)
(* the snapshot is added that the wizard holds while it asks.              *)
(***************************************************************************)
(* What the wizard read is as promised, but for what was not when it read  *)
(* it, or was saved since.                                                 *)
Snapshot ==
    wizard.is = "asking" =>
        /\ wizard = [is |-> "asking", base |-> wizard.base, mt |-> wizard.mt,
                     mc |-> wizard.mc, since |-> wizard.since]
        /\ \A f \in Setting!Fields :
              f \in halfway \/ f \in wizard.since \/ wizard.base[f] = promised[f]

(* The three parts, with the type of one flag and the wizard's snapshot.   *)
SettingInv ==
    /\ told \in BOOLEAN /\ Setting!Durable /\ Setting!RestartHonest /\ Setting!KeysInUse
    /\ Snapshot

(* What is saved while the wizard asks is noted: the fields of d may       *)
(* change, no other.                                                       *)
LEMMA NotedStep ==
  ASSUME Snapshot, NEW d, Setting!Noted(d), halfway \ d \subseteq halfway',
         \A f \in Setting!Fields \ d : promised'[f] = promised[f]
  PROVE  Snapshot'
<1>1. CASE wizard.is = "asking"
  <2>1. /\ wizard' = [wizard EXCEPT !.since = wizard.since \cup d]
        /\ wizard = [is |-> "asking", base |-> wizard.base, mt |-> wizard.mt,
                     mc |-> wizard.mc, since |-> wizard.since]
    BY <1>1 DEF Setting!Noted, Snapshot
  <2>2. wizard' = [is |-> "asking", base |-> wizard.base, mt |-> wizard.mt,
                   mc |-> wizard.mc, since |-> wizard.since \cup d]
    BY <2>1
  <2>3. /\ wizard'.is = "asking" /\ wizard'.base = wizard.base /\ wizard'.mt = wizard.mt
        /\ wizard'.mc = wizard.mc /\ wizard'.since = wizard.since \cup d
    BY <2>2
  <2>4. ASSUME NEW f \in Setting!Fields
        PROVE  f \in halfway' \/ f \in wizard'.since \/ wizard'.base[f] = promised'[f]
    <3>1. f \in halfway \/ f \in wizard.since \/ wizard.base[f] = promised[f]
      BY <1>1 DEF Snapshot
    <3>2. QED
      BY <2>3, <3>1
  <2>5. \A f \in Setting!Fields :
           f \in halfway' \/ f \in wizard'.since \/ wizard'.base[f] = promised'[f]
    BY <2>4
  <2>6. QED
    BY <2>2, <2>3, <2>5 DEF Snapshot, Setting!Fields
<1>2. CASE wizard.is # "asking"
  BY <1>2 DEF Setting!Noted, Snapshot
<1>3. QED
  BY <1>1, <1>2

(* Nothing is saved, or a field is written that was not promised.          *)
LEMMA SnapshotStep ==
  ASSUME Snapshot, wizard' = wizard, promised' = promised, halfway \subseteq halfway'
  PROVE  Snapshot'
BY DEF Snapshot, Setting!Fields

(* A request whose answer either flags the restart, or names the field     *)
(* among the silent ones, or leaves the field as it was.                   *)
LEMMA AnswerStep ==
  ASSUME SettingInv, NEW new, NEW first, NEW flag \in BOOLEAN, NEW silent,
         Setting!Answer(new, first, flag, silent),
         \A f \in Setting!ReadAtStart \cap DOMAIN new :
            flag \/ f \in silent \/ (new[f] = conf[f] /\ f \notin unsaved)
  PROVE  SettingInv'
<1>1. /\ conf' = Setting!With(conf, new) /\ inUse' = inUse
      /\ UNCHANGED << mt, mc, mtDisk, mcDisk, crypto, dropped, keysFailed >>
  BY DEF Setting!Answer
<1>2. Setting!KeysInUse'
  BY <1>1 DEF SettingInv, Setting!KeysInUse, Setting!Loaded
<1>3. Setting!ReadAtStart \subseteq Setting!Fields
  BY DEF Setting!ReadAtStart
<1>4. \A f \in Setting!Fields : conf'[f] = IF f \in DOMAIN new THEN new[f] ELSE conf[f]
  BY <1>1 DEF Setting!With
<1>5. CASE /\ file' = Setting!Saved(new) /\ promised' = Setting!With(promised, new)
           /\ unsaved' = unsaved \ DOMAIN new /\ halfway' = halfway \ DOMAIN new
           /\ told' = (told \/ flag)
           /\ quiet' = quiet \cup {f \in silent \cap DOMAIN new : conf'[f] # inUse[f]}
           /\ Setting!Noted(DOMAIN new)
  <2>1. Setting!Durable'
    BY <1>5 DEF SettingInv, Setting!Durable, Setting!Saved, Setting!With, Setting!Fields
  <2>2. told' \in BOOLEAN
    BY <1>5
  <2>3. ASSUME NEW f \in Setting!ReadAtStart
        PROVE  inUse'[f] = conf'[f] \/ told' \/ f \in unsaved' \/ f \in quiet'
    <3>1. inUse[f] = conf[f] \/ told \/ f \in unsaved \/ f \in quiet
      BY DEF SettingInv, Setting!RestartHonest
    <3>2. CASE told \/ f \in quiet
      BY <1>5, <3>2
    <3>3. CASE f \notin DOMAIN new /\ ~told /\ f \notin quiet
      BY <1>1, <1>3, <1>4, <1>5, <3>1, <3>3
    <3>4. CASE f \in DOMAIN new /\ ~told /\ f \notin quiet
      <4>1. CASE flag
        BY <1>5, <4>1
      <4>2. CASE f \in silent
        BY <1>1, <1>5, <3>4, <4>2
      <4>3. CASE new[f] = conf[f] /\ f \notin unsaved
        BY <1>1, <1>3, <1>4, <3>1, <3>4, <4>3
      <4>4. QED
        BY <3>4, <4>1, <4>2, <4>3
    <3>5. QED
      BY <3>2, <3>3, <3>4
  <2>4. Setting!RestartHonest'
    BY <2>3 DEF Setting!RestartHonest, Setting!ReadAtStart, Setting!Fields
  <2>5. Snapshot'
    <3>1. \A f \in Setting!Fields \ DOMAIN new : promised'[f] = promised[f]
      BY <1>5 DEF Setting!With
    <3>2. halfway \ DOMAIN new \subseteq halfway'
      BY <1>5
    <3>3. Snapshot
      BY DEF SettingInv
    <3>4. QED
      BY <1>5, <3>1, <3>2, <3>3, NotedStep
  <2>6. QED
    BY <1>2, <2>1, <2>2, <2>4, <2>5 DEF SettingInv
<1>6. CASE /\ \E written \in {<< >>, first} :
                 file' = Setting!Saved(written) /\ halfway' = halfway \cup DOMAIN written
           /\ unsaved' = unsaved \cup DOMAIN new
           /\ UNCHANGED << promised, told, quiet, wizard >>
  <2>1. PICK written : file' = Setting!Saved(written) /\ halfway' = halfway \cup DOMAIN written
    BY <1>6
  <2>2. Setting!Durable'
    BY <1>6, <2>1 DEF SettingInv, Setting!Durable, Setting!Saved, Setting!With, Setting!Fields
  <2>3. ASSUME NEW f \in Setting!ReadAtStart
        PROVE  inUse'[f] = conf'[f] \/ told' \/ f \in unsaved' \/ f \in quiet'
    <3>1. inUse[f] = conf[f] \/ told \/ f \in unsaved \/ f \in quiet
      BY DEF SettingInv, Setting!RestartHonest
    <3>2. QED
      BY <1>1, <1>3, <1>4, <1>6, <3>1
  <2>4. Setting!RestartHonest'
    BY <2>3 DEF Setting!RestartHonest, Setting!ReadAtStart, Setting!Fields
  <2>5. told' \in BOOLEAN
    BY <1>6 DEF SettingInv
  <2>6. Snapshot'
    BY <1>6, <2>1, SnapshotStep DEF SettingInv
  <2>7. QED
    BY <1>2, <2>2, <2>4, <2>5, <2>6 DEF SettingInv
<1>7. QED
  BY <1>5, <1>6 DEF Setting!Answer

(* A request that is refused after some assignments.                       *)
LEMMA RejectedStep ==
  ASSUME SettingInv, NEW d, Setting!Rejected(d)
  PROVE  SettingInv'
<1>1. PICK v \in 0..1 : conf' = [f \in Setting!Fields |-> IF f \in d THEN v ELSE conf[f]]
  BY DEF Setting!Rejected
<1>2. /\ unsaved' = unsaved \cup d
      /\ UNCHANGED << file, inUse, mt, mc, mtDisk, mcDisk, crypto, promised, halfway,
                      told, quiet, dropped, keysFailed, wizard >>
  BY DEF Setting!Rejected
<1>3. told' \in BOOLEAN /\ Setting!Durable' /\ Setting!KeysInUse'
  BY <1>2 DEF SettingInv, Setting!Durable, Setting!KeysInUse, Setting!Loaded, Setting!Fields
<1>4. Setting!RestartHonest'
  BY <1>1, <1>2 DEF SettingInv, Setting!RestartHonest, Setting!ReadAtStart, Setting!Fields
<1>5. Snapshot'
  BY <1>2, SnapshotStep DEF SettingInv
<1>6. QED
  BY <1>3, <1>4, <1>5 DEF SettingInv

(* update_transmit, complete or ended by a value out of range.             *)
LEMMA TransmitStep ==
  ASSUME SettingInv, Setting!UpdateTransmit \/ Setting!UpdateTransmitRejected
  PROVE  SettingInv'
<1>1. CASE Setting!UpdateTransmit
  <2>1. PICK new \in UNION {[d -> 0..1] : d \in SUBSET {"enabled", "power", "duty", "rate"}} :
           Setting!Answer(new, [f \in DOMAIN new \ {"rate"} |-> new[f]],
                      DOMAIN new \cap {"enabled", "rate"} # {}, {"duty"})
    BY <1>1 DEF Setting!UpdateTransmit
  <2>2. DOMAIN new \subseteq {"enabled", "power", "duty", "rate"}
    BY <2>1
  <2>3. \A f \in Setting!ReadAtStart \cap DOMAIN new :
           (DOMAIN new \cap {"enabled", "rate"} # {}) \/ f \in {"duty"}
    BY <2>2 DEF Setting!ReadAtStart, Setting!Fields
  <2>4. QED
    BY <2>1, <2>3, AnswerStep
<1>2. CASE Setting!UpdateTransmitRejected
  BY <1>2, RejectedStep DEF Setting!UpdateTransmitRejected
<1>3. QED
  BY <1>1, <1>2

(* update_identity and update_dashboard.                                   *)
LEMMA IdentityStep ==
  ASSUME SettingInv, Setting!UpdateIdentity \/ Setting!UpdateDashboard
  PROVE  SettingInv'
<1>1. ASSUME NEW new \in UNION {[d -> 0..1] : d \in SUBSET {"name", "nodeId"}},
             Setting!Answer(new, << >>, "nodeId" \in DOMAIN new, {"name"})
      PROVE  SettingInv'
  <2>1. DOMAIN new \subseteq {"name", "nodeId"}
    BY <1>1
  <2> DEFINE flag == "nodeId" \in DOMAIN new
  <2>2. \A f \in Setting!ReadAtStart \cap DOMAIN new : flag \/ f \in {"name"}
    BY <2>1
  <2>3. flag \in BOOLEAN /\ Setting!Answer(new, << >>, flag, {"name"})
    BY <1>1
  <2> HIDE DEF flag
  <2>4. QED
    BY <2>2, <2>3, AnswerStep
<1>2. ASSUME NEW new \in UNION {[d -> 0..1] : d \in SUBSET {"terminal", "tiles"}},
             Setting!Answer(new, << >>, "terminal" \in DOMAIN new, {})
      PROVE  SettingInv'
  <2>1. DOMAIN new \subseteq {"terminal", "tiles"}
    BY <1>2
  <2> DEFINE flag == "terminal" \in DOMAIN new
  <2>2. \A f \in Setting!ReadAtStart \cap DOMAIN new : flag
    BY <2>1 DEF Setting!ReadAtStart
  <2>3. flag \in BOOLEAN /\ Setting!Answer(new, << >>, flag, {})
    BY <1>2
  <2> HIDE DEF flag
  <2>4. QED
    BY <2>2, <2>3, AnswerStep
<1>3. QED
  BY <1>1, <1>2, RejectedStep DEF Setting!UpdateIdentity, Setting!UpdateDashboard

(* update_relay and update_radio.                                          *)
LEMMA RelayAndRadioStep ==
  ASSUME SettingInv, Setting!UpdateRelay \/ Setting!UpdateRadio
  PROVE  SettingInv'
<1>1. ASSUME NEW v, Setting!Answer([f \in {"rate"} |-> v], << >>, FALSE, {"rate"})
      PROVE  SettingInv'
  <2> DEFINE new == [f \in {"rate"} |-> v]
  <2>1. \A f \in Setting!ReadAtStart \cap DOMAIN new :
           FALSE \/ f \in {"rate"} \/ (new[f] = conf[f] /\ f \notin unsaved)
    OBVIOUS
  <2>2. Setting!Answer(new, << >>, FALSE, {"rate"})
    BY <1>1
  <2> HIDE DEF new
  <2>3. QED
    BY <2>1, <2>2, AnswerStep
<1>2. ASSUME NEW new, Setting!Answer(new, << >>, Setting!RestartNeeded(new), unsaved)
      PROVE  SettingInv'
  <2>1. Setting!RestartNeeded(new) \in BOOLEAN
    BY DEF Setting!RestartNeeded
  <2>2. \A f \in Setting!ReadAtStart \cap DOMAIN new :
           Setting!RestartNeeded(new) \/ f \in unsaved \/ (new[f] = conf[f] /\ f \notin unsaved)
    BY DEF Setting!RestartNeeded
  <2>3. QED
    BY <1>2, <2>1, <2>2, AnswerStep
<1>3. ASSUME NEW r,
             Setting!Answer([f \in {"region", "frequency"} |-> r], << >>,
                        Setting!RestartNeeded([f \in {"region"} |-> r]),
                        unsaved \cup (IF r = conf["region"] THEN {"frequency"} ELSE {}))
      PROVE  SettingInv'
  <2> DEFINE new == [f \in {"region", "frequency"} |-> r]
  <2> DEFINE flag == Setting!RestartNeeded([f \in {"region"} |-> r])
  <2> DEFINE silent == unsaved \cup (IF r = conf["region"] THEN {"frequency"} ELSE {})
  <2>1. flag \in BOOLEAN /\ (~flag => r = conf["region"])
    BY DEF Setting!RestartNeeded
  <2>2. DOMAIN new = {"region", "frequency"} /\ new["region"] = r
    OBVIOUS
  <2>3. \A f \in Setting!ReadAtStart \cap DOMAIN new :
           flag \/ f \in silent \/ (new[f] = conf[f] /\ f \notin unsaved)
    <3> HIDE DEF flag, new
    <3>1. QED
      BY <2>1, <2>2
  <2>4. Setting!Answer(new, << >>, flag, silent)
    BY <1>3
  <2> HIDE DEF new, flag, silent
  <2>5. QED
    BY <2>1, <2>3, <2>4, AnswerStep
<1>4. QED
  BY <1>1, <1>2, <1>3 DEF Setting!UpdateRelay, Setting!UpdateRadio

(* update_channels: the name of channel 0 first, then the keys.            *)
LEMMA ChannelsStep ==
  ASSUME SettingInv, Setting!UpdateChannels
  PROVE  SettingInv'
<1>1. PICK p \in {<< >>} \cup [{"primary"} -> 0..1] :
        /\ conf' = Setting!With(conf, p)
        /\ \/ /\ unsaved' = unsaved \cup DOMAIN p
              /\ UNCHANGED << file, promised, halfway, quiet, mt, mtDisk, crypto, dropped,
                              keysFailed, wizard >>
           \/ \E a \in SUBSET ChannelNames :
              /\ file' = Setting!Saved(p)
              /\ mt' = a
              /\ \/ /\ mtDisk' = a
                    /\ crypto' = Setting!Loaded(a, {})
                    /\ dropped' = (mc # {})
                    /\ promised' = Setting!With(promised, p)
                    /\ unsaved' = unsaved \ DOMAIN p
                    /\ halfway' = halfway \ DOMAIN p
                    /\ quiet' = quiet \cup {f \in DOMAIN p : conf'[f] # inUse[f]}
                    /\ Setting!Noted(DOMAIN p)
                    /\ UNCHANGED keysFailed
                 \/ /\ keysFailed' = TRUE
                    /\ unsaved' = unsaved \cup DOMAIN p
                    /\ halfway' = halfway \cup DOMAIN p
                    /\ UNCHANGED << mtDisk, crypto, dropped, promised, quiet, wizard >>
  BY DEF Setting!UpdateChannels
<1>2. UNCHANGED << inUse, mc, mcDisk, told >>
  BY DEF Setting!UpdateChannels
<1>3. \A f \in Setting!Fields : conf'[f] = IF f \in DOMAIN p THEN p[f] ELSE conf[f]
  BY <1>1 DEF Setting!With
<1>4. told' \in BOOLEAN
  BY <1>2 DEF SettingInv
<1>5. Setting!KeysInUse'
  <2>1. \/ UNCHANGED << mt, crypto, dropped, keysFailed >>
        \/ crypto' = Setting!Loaded(mt', {}) /\ dropped' = (mc # {})
        \/ keysFailed'
    BY <1>1
  <2>2. CASE UNCHANGED << mt, crypto, dropped, keysFailed >>
    BY <1>2, <2>2 DEF SettingInv, Setting!KeysInUse, Setting!Loaded
  <2>3. CASE crypto' = Setting!Loaded(mt', {}) /\ dropped' = (mc # {})
    <3>1. CASE mc = {}
      BY <1>2, <2>3, <3>1 DEF Setting!KeysInUse, Setting!Loaded
    <3>2. CASE mc # {}
      BY <2>3, <3>2 DEF Setting!KeysInUse, Setting!Loaded
    <3>3. QED
      BY <3>1, <3>2
  <2>4. CASE keysFailed'
    BY <2>4 DEF Setting!KeysInUse
  <2>5. QED
    BY <2>1, <2>2, <2>3, <2>4
<1>6. ASSUME NEW f \in Setting!ReadAtStart
      PROVE  inUse'[f] = conf'[f] \/ told' \/ f \in unsaved' \/ f \in quiet'
  <2>1. f \in Setting!Fields /\ (inUse[f] = conf[f] \/ told \/ f \in unsaved \/ f \in quiet)
    BY DEF SettingInv, Setting!RestartHonest, Setting!ReadAtStart
  <2>2. CASE f \in DOMAIN p
    BY <1>1, <1>2, <2>2
  <2>3. CASE f \notin DOMAIN p
    BY <1>1, <1>2, <1>3, <2>1, <2>3
  <2>4. QED
    BY <2>2, <2>3
<1>7. Setting!RestartHonest'
  BY <1>6 DEF Setting!RestartHonest, Setting!ReadAtStart, Setting!Fields
<1>8. Setting!Durable'
  BY <1>1 DEF SettingInv, Setting!Durable, Setting!Saved, Setting!With, Setting!Fields
<1>9. Snapshot'
  <2>1. Snapshot
    BY DEF SettingInv
  <2>2. CASE wizard' = wizard /\ promised' = promised /\ halfway \subseteq halfway'
    BY <2>1, <2>2, SnapshotStep
  <2>3. CASE /\ promised' = Setting!With(promised, p) /\ halfway' = halfway \ DOMAIN p
             /\ Setting!Noted(DOMAIN p)
    <3>1. \A f \in Setting!Fields \ DOMAIN p : promised'[f] = promised[f]
      BY <2>3 DEF Setting!With
    <3>2. QED
      BY <2>1, <2>3, <3>1, NotedStep
  <2>4. QED
    BY <1>1, <2>2, <2>3
<1>10. QED
  BY <1>4, <1>5, <1>7, <1>8, <1>9 DEF SettingInv

(* The wizard: what it puts back was noted, or is what was promised.       *)
LEMMA WizardStep ==
  ASSUME SettingInv, Setting!StartSetup \/ Setting!FinishSetup \/ Setting!QuitSetup
  PROVE  SettingInv'
<1>1. UNCHANGED << conf, inUse, mt, mc, crypto, unsaved, told, quiet, dropped, keysFailed >>
  BY DEF Setting!StartSetup, Setting!FinishSetup, Setting!QuitSetup
<1>2. told' \in BOOLEAN /\ Setting!RestartHonest' /\ Setting!KeysInUse'
  BY <1>1 DEF SettingInv, Setting!RestartHonest, Setting!KeysInUse, Setting!Loaded,
              Setting!ReadAtStart, Setting!Fields
<1>3. CASE Setting!StartSetup
  <2>1. wizard' = [is |-> "asking", base |-> file, mt |-> mtDisk, mc |-> mcDisk, since |-> {}]
    BY <1>3 DEF Setting!StartSetup
  <2>2. UNCHANGED << file, promised, halfway >>
    BY <1>3 DEF Setting!StartSetup
  <2>3. \A f \in Setting!Fields : f \in halfway \/ file[f] = promised[f]
    BY DEF SettingInv, Setting!Durable
  <2>4. Setting!Durable'
    BY <2>2, <2>3 DEF Setting!Durable, Setting!Fields
  <2>5. Snapshot'
    BY <2>1, <2>2, <2>3 DEF Snapshot, Setting!Fields
  <2>6. QED
    BY <1>2, <2>4, <2>5 DEF SettingInv
<1>4. CASE Setting!FinishSetup
  <2>1. PICK region \in Setting!RegionAnswers, consent \in Setting!ConsentAnswers :
           /\ file' = Setting!Merged(region, consent)
           /\ promised' = Setting!With(Setting!With(promised, region), consent)
    BY <1>4 DEF Setting!FinishSetup
  <2>2. /\ wizard.is = "asking" /\ wizard'.is = "idle"
        /\ halfway' = (halfway \cup wizard.since) \ {"region", "toggle"}
    BY <1>4 DEF Setting!FinishSetup
  <2>3. DOMAIN region = {"region"} /\ DOMAIN consent = {"toggle"}
    BY <2>1 DEF Setting!RegionAnswers, Setting!ConsentAnswers
  <2>4. ASSUME NEW f \in Setting!Fields
        PROVE  f \in halfway' \/ file'[f] = promised'[f]
    <3>1. f \in halfway \/ f \in wizard.since \/ wizard.base[f] = promised[f]
      BY <2>2 DEF SettingInv, Snapshot
    <3>2. promised'[f] = IF f = "toggle" THEN consent["toggle"]
                         ELSE IF f = "region" THEN region["region"] ELSE promised[f]
      BY <2>1, <2>3 DEF Setting!With
    <3>3. file'[f] = IF f = "toggle" THEN consent["toggle"]
                     ELSE IF f = "region" THEN region["region"] ELSE wizard.base[f]
      BY <2>1, <2>3 DEF Setting!Merged, Setting!SameIdentity, Setting!With
    <3>4. QED
      BY <2>2, <3>1, <3>2, <3>3
  <2>5. Setting!Durable'
    BY <2>4 DEF Setting!Durable, Setting!Fields
  <2>6. Snapshot'
    BY <2>2 DEF Snapshot
  <2>7. QED
    BY <1>2, <2>5, <2>6 DEF SettingInv
<1>5. CASE Setting!QuitSetup
  <2>1. UNCHANGED << file, promised, halfway >> /\ wizard'.is = "idle"
    BY <1>5 DEF Setting!QuitSetup
  <2>2. Setting!Durable' /\ Snapshot'
    BY <2>1 DEF SettingInv, Setting!Durable, Setting!Fields, Snapshot
  <2>3. QED
    BY <1>2, <2>2 DEF SettingInv
<1>6. QED
  BY <1>3, <1>4, <1>5

(* The MeshCore channels, a restart and a crash in the middle of a save.   *)
LEMMA OtherSettingsSteps ==
  ASSUME SettingInv,
         Setting!UpdateMeshcoreChannels \/ Setting!Restart \/ Setting!CrashInSave
  PROVE  SettingInv'
<1> Snapshot'
  <2>1. wizard' = wizard /\ promised' = promised
    BY DEF Setting!UpdateMeshcoreChannels, Setting!Restart, Setting!CrashInSave
  <2>2. halfway \subseteq halfway' \/ halfway' = Setting!Fields
    BY DEF Setting!UpdateMeshcoreChannels, Setting!Restart, Setting!CrashInSave
  <2>3. CASE halfway \subseteq halfway'
    BY <2>1, <2>3, SnapshotStep DEF SettingInv
  <2>4. CASE halfway' = Setting!Fields
    BY <2>1, <2>4 DEF SettingInv, Snapshot, Setting!Fields
  <2>5. QED
    BY <2>2, <2>3, <2>4
<1>1. CASE Setting!UpdateMeshcoreChannels
  <2>1. UNCHANGED << conf, file, inUse, promised, halfway, unsaved, told, quiet >>
    BY <1>1 DEF Setting!UpdateMeshcoreChannels
  <2>2. told' \in BOOLEAN /\ Setting!Durable' /\ Setting!RestartHonest'
    BY <2>1 DEF SettingInv, Setting!Durable, Setting!RestartHonest, Setting!ReadAtStart, Setting!Fields
  <2>3. Setting!KeysInUse'
    BY <1>1 DEF SettingInv, Setting!KeysInUse, Setting!UpdateMeshcoreChannels
  <2>4. QED
    BY <2>2, <2>3 DEF SettingInv
<1>2. CASE Setting!Restart
  BY <1>2 DEF SettingInv, Setting!Restart, Setting!Durable, Setting!RestartHonest, Setting!KeysInUse,
              Setting!ReadAtStart, Setting!Fields
<1>3. CASE Setting!CrashInSave
  BY <1>3 DEF SettingInv, Setting!CrashInSave, Setting!Durable, Setting!RestartHonest, Setting!KeysInUse,
              Setting!ReadAtStart, Setting!Fields
<1>4. QED
  BY <1>1, <1>2, <1>3

(* The settings are honest for every sequence of requests, failed saves,   *)
(* restarts and crashes: the file holds what was promised, what waits for  *)
(* a restart was announced and the decoder has its keys, with the named    *)
(* exceptions.                                                             *)
THEOREM SettingsKept == Spec => []SettingsHonest
<1>1. ASSUME Setting!Init PROVE SettingInv
  <2>1. Setting!Durable /\ Setting!RestartHonest /\ Setting!KeysInUse
    BY <1>1 DEF Setting!Init, Setting!Durable, Setting!RestartHonest, Setting!KeysInUse
  <2>2. told \in BOOLEAN /\ wizard.is = "idle"
    BY <1>1 DEF Setting!Init
  <2>3. QED
    BY <2>1, <2>2 DEF SettingInv, Snapshot
<1>2. SettingInv /\ [Setting!Next]_settingVars => SettingInv'
  <2>1. ASSUME SettingInv, Setting!Next PROVE SettingInv'
    BY <2>1, TransmitStep, IdentityStep, RelayAndRadioStep, ChannelsStep, WizardStep,
       OtherSettingsSteps DEF Setting!Next
  <2>2. ASSUME SettingInv, UNCHANGED settingVars PROVE SettingInv'
    BY <2>2 DEF SettingInv, settingVars, Setting!Durable, Setting!RestartHonest, Setting!KeysInUse, Setting!Loaded,
                Setting!ReadAtStart, Setting!Fields, Snapshot
  <2>3. QED
    BY <2>1, <2>2
<1>3. SettingInv => Setting!SettingsHonest
  BY DEF SettingInv, Setting!SettingsHonest
<1> DEFINE Kept == part = "settings" => SettingInv
<1>4. Init => Kept
  BY <1>1, EachInit
<1>5. Kept /\ [Next]_vars => Kept'
  BY <1>2, SettingAlone
<1>6. Kept => SettingsHonest
  BY <1>3 DEF SettingsHonest
<1> HIDE DEF Kept
<1>7. QED
  BY <1>4, <1>5, <1>6, PTL DEF Spec

-----------------------------------------------------------------------------
(***************************************************************************)
(* Sign-in.  As long as every save succeeded, the file has what memory     *)
(* has, but for the secret before the set-up, when there is no token yet;  *)
(* and no token is ahead of the secret or version in force, so the next    *)
(* one of either is new to every token.                                    *)
(***************************************************************************)
Counted ==
    /\ auth.version <= authChanges + 1 /\ saved.version <= authChanges + 1
    /\ epoch <= authChanges /\ secrets <= authChanges + starts

TokensBehind ==
    \A t \in tokens :
        /\ t.secret \in 1 .. secrets /\ t.version \in Nat
        /\ trust /\ t.secret = auth.secret => t.version <= auth.version

FileInStep ==
    trust => IF Auth!SetUp THEN saved = auth
             ELSE saved = [auth EXCEPT !.secret = Auth!NoSecret] /\ tokens = {}

Limit(m) == \A k \in MaxAttempts : k <= m

LockedInTime ==
    \A u \in Auth!Users :
        /\ tries[u] = failures[u]
        /\ \A m \in MaxAttempts :
              Limit(m) => /\ failures[u] <= m
                          /\ lock[u] = "open" => failures[u] < m

AuthInv ==
    /\ Auth!TypeOK /\ Counted /\ TokensBehind /\ FileInStep /\ Auth!SessionsEnded /\ LockedInTime

Sign == [hash : Auth!Hashes, secret : Nat, version : Nat, limit : MaxAttempts]

(* The type invariant in terms of Sign, the form the steps use.            *)
LEMMA AuthSignType ==
  ASSUME AuthAssumption, Auth!TypeOK
  PROVE  /\ auth \in Sign /\ auth.secret \in 1 .. secrets /\ auth.version \in 1 .. MaxAuthChanges + 1
         /\ saved \in Sign /\ saved.secret \in 0 .. secrets /\ saved.version \in 1 .. MaxAuthChanges + 1
         /\ secrets \in Nat /\ authChanges \in Nat /\ epoch \in Nat /\ starts \in Nat
BY DEF AuthAssumption, Auth!TypeOK, Sign, Auth!Hashes

LEMMA AuthTypeOfSign ==
  ASSUME AuthAssumption, NEW n \in Nat, NEW low \in Nat, NEW a \in Sign,
         a.secret \in low .. n, a.version \in 1 .. MaxAuthChanges + 1
  PROVE  a \in [hash : Auth!Hashes, secret : low .. n, version : 1 .. MaxAuthChanges + 1,
                limit : MaxAttempts]
BY DEF AuthAssumption, Sign

(* A change that is saved, or whose save fails: memory is what the handler *)
(* made it, the file gets the same or nothing.                             *)
LEMMA AuthPersistStep ==
  ASSUME AuthAssumption, AuthInv, Auth!Change, NEW new \in Sign, NEW u \in Auth!Users \cup {Auth!Nobody},
         Auth!Persist(new, u), auth' \in Sign,
         secrets' \in {secrets, secrets + 1}, epoch' \in {epoch, epoch + 1},
         auth'.secret \in 1 .. secrets', new.secret \in 0 .. secrets',
         auth'.version \in 1 .. authChanges + 2, new.version \in 1 .. authChanges + 2,
         trust => new = auth' /\ Auth!SetUp',
         trust => \A t \in tokens : t.secret = auth'.secret =>
                      /\ t.version <= auth'.version
                      /\ t.version = auth'.version => t.epoch = epoch',
         UNCHANGED << failures, lock, tries, starts >>
  PROVE  AuthInv'
<1>1. /\ authChanges \in Nat /\ authChanges' \in Nat /\ authChanges < MaxAuthChanges /\ authChanges' = authChanges + 1
      /\ MaxAuthChanges \in Nat
  BY AuthSignType DEF Auth!Change, AuthAssumption, AuthInv
<1>2. /\ saved \in Sign /\ saved.secret \in 0 .. secrets /\ saved.version \in 1 .. MaxAuthChanges + 1
      /\ secrets \in Nat /\ epoch \in Nat /\ starts \in Nat
  BY AuthSignType DEF AuthInv
<1>3. secrets' \in Nat /\ epoch' \in Nat /\ secrets' >= secrets /\ epoch' >= epoch
  BY <1>2
<1>4. Counted'
  BY <1>1, <1>2, <1>3 DEF AuthInv, Counted, Auth!Persist, Sign
<1>5. trust' \in BOOLEAN /\ (trust' => trust)
  <2>1. trust \in BOOLEAN
    BY DEF AuthInv, Auth!TypeOK
  <2>2. trust' = trust \/ trust' = FALSE
    BY DEF Auth!Persist
  <2>3. CASE trust' = trust
    BY <2>1, <2>3
  <2>4. CASE trust' = FALSE
    BY <2>4
  <2>5. QED
    BY <2>2, <2>3, <2>4
<1>6. ASSUME NEW t \in tokens'
      PROVE  \/ t \in tokens
             \/ /\ t.who \in Auth!Users /\ t.secret = auth'.secret /\ t.version = auth'.version
                /\ t.epoch = epoch'
  BY <1>6 DEF Auth!Persist, Auth!Issue, Auth!Nobody
<1>7. Auth!TypeOK'
  <2>1. auth' \in [hash : Auth!Hashes, secret : 1 .. secrets', version : 1 .. MaxAuthChanges + 1,
                   limit : MaxAttempts]
    BY <1>1, <1>3, AuthTypeOfSign DEF Sign
  <2>2. saved' \in Sign /\ saved'.secret \in 0 .. secrets' /\ saved'.version \in 1 .. MaxAuthChanges + 1
    BY <1>1, <1>2, <1>3 DEF Auth!Persist, Sign
  <2>3. saved' \in [hash : Auth!Hashes, secret : 0 .. secrets', version : 1 .. MaxAuthChanges + 1,
                    limit : MaxAttempts]
    BY <1>1, <1>3, <2>2, AuthTypeOfSign DEF Sign
  <2>4. \A t \in tokens' : t.who \in Auth!Users /\ t.epoch \in 0 .. epoch'
    BY <1>2, <1>3, <1>6 DEF AuthInv, Auth!TypeOK
  <2>5. secrets' \in 1 .. MaxAuthChanges + MaxStarts /\ epoch' \in 0 .. MaxAuthChanges
    BY <1>1, <1>2, <1>3, <1>4 DEF Counted, AuthInv, Auth!TypeOK, AuthAssumption
  <2>6. QED
    BY <1>1, <1>5, <2>1, <2>3, <2>4, <2>5 DEF Auth!TypeOK, AuthInv, Auth!Hashes
<1>8. TokensBehind'
  <2>1. ASSUME NEW t \in tokens'
        PROVE  /\ t.secret \in 1 .. secrets' /\ t.version \in Nat
               /\ trust' /\ t.secret = auth'.secret => t.version <= auth'.version
    BY <1>2, <1>3, <1>5, <1>6, <2>1 DEF AuthInv, TokensBehind, Sign
  <2>2. QED
    BY <2>1 DEF TokensBehind
<1>9. FileInStep'
  BY <1>5 DEF Auth!Persist, FileInStep
<1>10. Auth!SessionsEnded'
  <2>1. ASSUME NEW t \in tokens', trust', t.secret = auth'.secret, t.version = auth'.version
        PROVE  t.epoch = epoch'
    BY <1>5, <1>6, <2>1
  <2>2. QED
    BY <2>1 DEF Auth!SessionsEnded, Auth!Verifies
<1>11. LockedInTime'
  BY DEF AuthInv, LockedInTime, Limit
<1>12. QED
  BY <1>4, <1>7, <1>8, <1>9, <1>10, <1>11 DEF AuthInv

(* A session that verifies is of this set-up: with the saves good there is *)
(* no token before it.                                                     *)
LEMMA AuthTokenMeansSetUp ==
  ASSUME AuthInv, trust, tokens # {}
  PROVE  Auth!SetUp /\ saved = auth
BY DEF AuthInv, FileInStep

LEMMA AuthSetupStep ==
  ASSUME AuthAssumption, AuthInv, Auth!CompleteSetup
  PROVE  AuthInv'
<1>1. PICK p \in Passwords :
         /\ auth' = [auth EXCEPT !.hash["admin"] = p]
         /\ Auth!Persist([saved EXCEPT !.hash["admin"] = p, !.secret = auth.secret], "admin")
  BY Zenon DEF Auth!CompleteSetup
<1> DEFINE new == [saved EXCEPT !.hash["admin"] = p, !.secret = auth.secret]
<1>2. /\ auth \in Sign /\ auth.secret \in 1 .. secrets /\ auth.version \in Nat \ {0}
      /\ saved \in Sign /\ saved.version \in Nat \ {0}
      /\ secrets \in Nat /\ authChanges \in Nat
      /\ auth.version <= authChanges + 1 /\ saved.version <= authChanges + 1
  BY AuthSignType DEF AuthInv, Counted
<1>3. /\ auth' \in Sign /\ auth'.secret = auth.secret /\ auth'.version = auth.version
      /\ auth'.hash["admin"] = p
  BY <1>1, <1>2 DEF Sign, Auth!Hashes, Auth!Users
<1>4. new \in Sign /\ new.secret = auth.secret /\ new.version = saved.version
  BY <1>2 DEF Sign, Auth!Hashes, Auth!Users
<1>5. ~ Auth!SetUp /\ secrets' = secrets /\ epoch' = epoch /\ Auth!Change
      /\ UNCHANGED << failures, lock, tries, starts >>
  BY DEF Auth!CompleteSetup
<1>6. trust => new = auth'
  BY <1>1, <1>2, <1>5 DEF AuthInv, FileInStep, Sign
<1>7. Auth!SetUp'
  BY <1>3 DEF Auth!SetUp, AuthAssumption
<1>8. trust => tokens = {}
  BY <1>5 DEF AuthInv, FileInStep
<1>9. /\ auth'.secret \in 1 .. secrets' /\ new.secret \in 0 .. secrets'
      /\ auth'.version \in 1 .. authChanges + 2 /\ new.version \in 1 .. authChanges + 2
  BY <1>2, <1>3, <1>4, <1>5
<1> HIDE DEF new
<1>10. Auth!Persist(new, "admin") /\ "admin" \in Auth!Users \cup {Auth!Nobody}
  BY <1>1 DEF new, Auth!Users
<1>11. QED
  BY <1>3, <1>4, <1>5, <1>6, <1>7, <1>8, <1>9, <1>10, AuthPersistStep

LEMMA AuthChangePasswordStep ==
  ASSUME AuthAssumption, AuthInv, NEW u \in Auth!Users, Auth!ChangePassword(u)
  PROVE  AuthInv'
<1>1. PICK p \in Passwords :
         /\ auth' = [auth EXCEPT !.hash[u] = p, !.secret = secrets']
         /\ Auth!Persist([saved EXCEPT !.hash[u] = p, !.secret = secrets'], u)
  BY Zenon DEF Auth!ChangePassword
<1> DEFINE new == [saved EXCEPT !.hash[u] = p, !.secret = secrets']
<1>2. /\ auth \in Sign /\ auth.version \in Nat \ {0}
      /\ saved \in Sign /\ saved.version \in Nat \ {0}
      /\ secrets \in Nat /\ authChanges \in Nat /\ epoch \in Nat
      /\ auth.version <= authChanges + 1 /\ saved.version <= authChanges + 1
  BY AuthSignType DEF AuthInv, Counted
<1>3. /\ tokens # {} /\ secrets' = secrets + 1 /\ epoch' = epoch + 1 /\ Auth!Change
      /\ UNCHANGED << failures, lock, tries, starts >>
  BY DEF Auth!ChangePassword
<1>4. /\ auth' \in Sign /\ auth'.secret = secrets' /\ auth'.version = auth.version
      /\ auth'.hash = [auth.hash EXCEPT ![u] = p]
  <2>1. auth.hash \in Auth!Hashes /\ [auth.hash EXCEPT ![u] = p] \in Auth!Hashes
    BY <1>2 DEF Sign, Auth!Hashes
  <2>2. secrets' \in Nat
    BY <1>2, <1>3
  <2>3. QED
    BY <1>1, <1>2, <2>1, <2>2 DEF Sign
<1>5. new \in Sign /\ new.secret = secrets' /\ new.version = saved.version
  <2>1. saved.hash \in Auth!Hashes /\ [saved.hash EXCEPT ![u] = p] \in Auth!Hashes
    BY <1>2 DEF Sign, Auth!Hashes
  <2>2. secrets' \in Nat
    BY <1>2, <1>3
  <2>3. QED
    BY <1>2, <2>1, <2>2 DEF Sign
<1>6. trust => new = auth'
  BY <1>1, <1>3, AuthTokenMeansSetUp
<1>7. trust => Auth!SetUp'
  BY <1>2, <1>3, <1>4, AuthTokenMeansSetUp DEF Auth!SetUp, AuthAssumption, Sign, Auth!Hashes, Auth!Users
<1>8. \A t \in tokens : t.secret # auth'.secret
  BY <1>2, <1>3, <1>4 DEF AuthInv, TokensBehind
<1>9. /\ auth'.secret \in 1 .. secrets' /\ new.secret \in 0 .. secrets'
      /\ auth'.version \in 1 .. authChanges + 2 /\ new.version \in 1 .. authChanges + 2
  BY <1>2, <1>3, <1>4, <1>5
<1> HIDE DEF new
<1>10. Auth!Persist(new, u) /\ u \in Auth!Users \cup {Auth!Nobody}
  BY <1>1 DEF new
<1>11. QED
  BY <1>3, <1>4, <1>5, <1>6, <1>7, <1>8, <1>9, <1>10, AuthPersistStep

LEMMA AuthLogoutAllStep ==
  ASSUME AuthAssumption, AuthInv, Auth!LogoutAll
  PROVE  AuthInv'
<1> DEFINE new == [saved EXCEPT !.version = auth'.version]
<1>1. /\ auth' = [auth EXCEPT !.version = @ + 1] /\ Auth!Persist(new, Auth!Nobody)
      /\ tokens # {} /\ secrets' = secrets /\ epoch' = epoch + 1 /\ Auth!Change
      /\ UNCHANGED << failures, lock, tries, starts >>
  BY DEF Auth!LogoutAll
<1>2. /\ auth \in Sign /\ auth.secret \in 1 .. secrets /\ auth.version \in Nat \ {0}
      /\ saved \in Sign /\ saved.secret \in 0 .. secrets
      /\ secrets \in Nat /\ authChanges \in Nat /\ auth.version <= authChanges + 1
  BY AuthSignType DEF AuthInv, Counted
<1>3. /\ auth' \in Sign /\ auth'.secret = auth.secret /\ auth'.version = auth.version + 1
      /\ auth'.hash = auth.hash
  BY <1>1, <1>2 DEF Sign
<1>4. new \in Sign /\ new.secret = saved.secret /\ new.version = auth'.version
  BY <1>2, <1>3 DEF Sign
<1>5. trust => new = auth' /\ Auth!SetUp'
  BY <1>1, <1>2, <1>3, AuthTokenMeansSetUp DEF Auth!SetUp, Sign
<1>6. trust => \A t \in tokens : t.secret = auth'.secret =>
                    t.version <= auth'.version /\ t.version # auth'.version
  BY <1>2, <1>3 DEF AuthInv, TokensBehind
<1>7. /\ auth'.secret \in 1 .. secrets' /\ new.secret \in 0 .. secrets'
      /\ auth'.version \in 1 .. authChanges + 2 /\ new.version \in 1 .. authChanges + 2
  BY <1>1, <1>2, <1>3, <1>4
<1> HIDE DEF new
<1>8. Auth!Nobody \in Auth!Users \cup {Auth!Nobody}
  OBVIOUS
<1>9. QED
  BY <1>1, <1>3, <1>4, <1>5, <1>6, <1>7, <1>8, AuthPersistStep

(* A change that leaves secret and version: no session ends.               *)
LEMMA AuthSettingStep ==
  ASSUME AuthAssumption, AuthInv, Auth!Change, tokens # {}, UNCHANGED << secrets, epoch >>,
         UNCHANGED << failures, lock, tries, starts >>,
         NEW new \in Sign, Auth!Persist(new, Auth!Nobody), auth' \in Sign,
         auth'.secret = auth.secret, auth'.version = auth.version,
         new.secret = saved.secret, new.version = saved.version,
         auth'.hash["admin"] = auth.hash["admin"],
         saved = auth => new = auth'
  PROVE  AuthInv'
<1>1. /\ auth \in Sign /\ auth.secret \in 1 .. secrets /\ auth.version \in Nat \ {0}
      /\ saved \in Sign /\ saved.secret \in 0 .. secrets /\ saved.version \in Nat \ {0}
      /\ secrets \in Nat /\ authChanges \in Nat
      /\ auth.version <= authChanges + 1 /\ saved.version <= authChanges + 1
  BY AuthSignType DEF AuthInv, Counted
<1>2. trust => new = auth' /\ Auth!SetUp'
  BY AuthTokenMeansSetUp DEF Auth!SetUp
<1>3. trust => \A t \in tokens : t.secret = auth'.secret =>
                    /\ t.version <= auth'.version
                    /\ t.version = auth'.version => t.epoch = epoch'
  BY <1>1 DEF AuthInv, TokensBehind, Auth!SessionsEnded, Auth!Verifies
<1>4. /\ auth'.secret \in 1 .. secrets' /\ new.secret \in 0 .. secrets'
      /\ auth'.version \in 1 .. authChanges + 2 /\ new.version \in 1 .. authChanges + 2
  BY <1>1
<1>5. Auth!Nobody \in Auth!Users \cup {Auth!Nobody}
  OBVIOUS
<1>6. QED
  BY <1>2, <1>3, <1>4, <1>5, AuthPersistStep

LEMMA AuthViewerStep ==
  ASSUME AuthAssumption, AuthInv, Auth!ViewerSet
  PROVE  AuthInv'
<1>1. PICK p \in Passwords \cup {Auth!NoPassword} :
         /\ auth' = [auth EXCEPT !.hash["viewer"] = p]
         /\ Auth!Persist([saved EXCEPT !.hash["viewer"] = p], Auth!Nobody)
  BY DEF Auth!ViewerSet
<1> DEFINE new == [saved EXCEPT !.hash["viewer"] = p]
<1>2. auth \in Sign /\ saved \in Sign
  BY AuthSignType DEF AuthInv
<1>3. /\ [auth.hash EXCEPT !["viewer"] = p] \in Auth!Hashes
      /\ [auth.hash EXCEPT !["viewer"] = p]["admin"] = auth.hash["admin"]
      /\ [saved.hash EXCEPT !["viewer"] = p] \in Auth!Hashes
  BY <1>2 DEF Sign, Auth!Hashes, Auth!Users
<1>4. /\ auth' \in Sign /\ auth'.secret = auth.secret /\ auth'.version = auth.version
      /\ auth'.hash["admin"] = auth.hash["admin"]
  BY <1>1, <1>2, <1>3 DEF Sign
<1>5. new \in Sign /\ new.secret = saved.secret /\ new.version = saved.version
  BY <1>2, <1>3 DEF Sign
<1>6. saved = auth => new = auth'
  BY <1>1
<1>7. /\ Auth!Change /\ tokens # {} /\ UNCHANGED << secrets, epoch >>
      /\ UNCHANGED << failures, lock, tries, starts >>
  BY DEF Auth!ViewerSet
<1> HIDE DEF new
<1>8. Auth!Persist(new, Auth!Nobody)
  BY <1>1 DEF new
<1>9. QED
  BY <1>4, <1>5, <1>6, <1>7, <1>8, AuthSettingStep

LEMMA AuthReconfigureStep ==
  ASSUME AuthAssumption, AuthInv, Auth!Reconfigure
  PROVE  AuthInv'
<1>1. PICK m \in MaxAttempts : auth' = [auth EXCEPT !.limit = m]
                               /\ Auth!Persist([saved EXCEPT !.limit = m], Auth!Nobody)
  BY DEF Auth!Reconfigure
<1> DEFINE new == [saved EXCEPT !.limit = m]
<1>2. auth \in Sign /\ saved \in Sign
  BY AuthSignType DEF AuthInv
<1>3. /\ auth' \in Sign /\ auth'.secret = auth.secret /\ auth'.version = auth.version
      /\ auth'.hash["admin"] = auth.hash["admin"]
  BY <1>1, <1>2 DEF Sign
<1>4. new \in Sign /\ new.secret = saved.secret /\ new.version = saved.version
  BY <1>2 DEF Sign
<1>5. saved = auth => new = auth'
  BY <1>1
<1>6. /\ Auth!Change /\ tokens # {} /\ UNCHANGED << secrets, epoch >>
      /\ UNCHANGED << failures, lock, tries, starts >>
  BY DEF Auth!Reconfigure
<1> HIDE DEF new
<1>7. Auth!Persist(new, Auth!Nobody)
  BY <1>1 DEF new
<1>8. QED
  BY <1>3, <1>4, <1>5, <1>6, <1>7, AuthSettingStep

(* The lockout: with the limits read from the same set at every failure, a *)
(* count below the largest is all that an open lock can stand for.         *)
LEMMA AuthLoginFailsStep ==
  ASSUME AuthAssumption, AuthInv, NEW u \in Auth!Users, Auth!LoginFails(u)
  PROVE  AuthInv'
<1>1. /\ failures \in [Auth!Users -> Nat] /\ tries \in [Auth!Users -> Nat]
      /\ lock \in [Auth!Users -> {"open", "locked", "expired"}]
      /\ auth.limit \in MaxAttempts /\ MaxAttempts \subseteq Nat \ {0}
  BY AuthSignType DEF AuthInv, Auth!TypeOK, AuthAssumption, Sign
<1> DEFINE n == Auth!CountBefore(u) + 1
<1>2. /\ lock[u] # "locked"
      /\ failures' = [failures EXCEPT ![u] = n]
      /\ tries' = [tries EXCEPT ![u] = (IF lock[u] = "expired" THEN 0 ELSE @) + 1]
  BY DEF Auth!LoginFails
<1>3. /\ lock' = [lock EXCEPT ![u] = IF failures'[u] >= auth.limit THEN "locked" ELSE "open"]
      /\ UNCHANGED << auth, saved, secrets, tokens, epoch, trust, authChanges, starts >>
  BY DEF Auth!LoginFails, Auth!Locks
<1>4. n \in Nat /\ n = (IF lock[u] = "expired" THEN 0 ELSE tries[u]) + 1
  BY <1>1 DEF Auth!CountBefore, AuthInv, LockedInTime
<1>5. ASSUME NEW m \in MaxAttempts, Limit(m) PROVE n <= m
  <2>1. m \in Nat \ {0}
    BY <1>1
  <2>2. lock[u] = "open" \/ lock[u] = "expired"
    BY <1>1, <1>2
  <2>3. CASE lock[u] = "open"
    <3>1. failures[u] < m
      BY <1>5, <2>3 DEF AuthInv, LockedInTime
    <3>2. n = failures[u] + 1
      BY <2>3 DEF Auth!CountBefore
    <3>3. QED
      BY <1>1, <2>1, <3>1, <3>2
  <2>4. CASE lock[u] = "expired"
    BY <2>1, <2>4 DEF Auth!CountBefore
  <2>5. QED
    BY <2>2, <2>3, <2>4
<1> HIDE DEF n
<1>6. LockedInTime'
  <2>1. ASSUME NEW v \in Auth!Users
        PROVE  /\ tries'[v] = failures'[v]
               /\ \A m \in MaxAttempts : Limit(m) =>
                     /\ failures'[v] <= m
                     /\ lock'[v] = "open" => failures'[v] < m
    <3>1. CASE v = u
      <4>1. tries'[v] = n /\ failures'[v] = n
        BY <1>1, <1>2, <1>4, <3>1
      <4>2. ASSUME NEW m \in MaxAttempts, Limit(m), lock'[v] = "open" PROVE n < m
        <5>1. ~ (n >= auth.limit) /\ auth.limit <= m
          BY <1>1, <1>3, <3>1, <4>1, <4>2 DEF Limit
        <5>2. n \in Nat /\ m \in Nat /\ auth.limit \in Nat
          BY <1>1, <1>4
        <5>3. QED
          BY <5>1, <5>2
      <4>3. QED
        BY <1>5, <4>1, <4>2
    <3>2. CASE v # u
      BY <1>1, <1>2, <1>3, <3>2 DEF AuthInv, LockedInTime
    <3>3. QED
      BY <3>1, <3>2
  <2>2. QED
    BY <2>1 DEF LockedInTime, Limit
<1>7. Auth!TypeOK'
  BY <1>1, <1>2, <1>3, <1>4 DEF AuthInv, Auth!TypeOK, Auth!Hashes
<1>8. Counted' /\ TokensBehind' /\ FileInStep' /\ Auth!SessionsEnded'
  BY <1>3 DEF AuthInv, Counted, TokensBehind, FileInStep, Auth!SetUp, Auth!SessionsEnded, Auth!Verifies
<1>9. QED
  BY <1>6, <1>7, <1>8 DEF AuthInv

LEMMA AuthLoginSucceedsStep ==
  ASSUME AuthAssumption, AuthInv, NEW u \in Auth!Users, Auth!LoginSucceeds(u)
  PROVE  AuthInv'
<1>1. /\ failures \in [Auth!Users -> Nat] /\ tries \in [Auth!Users -> Nat]
      /\ lock \in [Auth!Users -> {"open", "locked", "expired"}]
      /\ MaxAttempts \subseteq Nat \ {0}
  BY DEF AuthInv, Auth!TypeOK, AuthAssumption
<1>2. /\ Auth!SetUp /\ UNCHANGED << auth, saved, secrets, epoch, trust, authChanges, starts >>
      /\ tokens' = tokens \cup {[who |-> u, secret |-> auth.secret, version |-> auth.version,
                                 epoch |-> epoch]}
      /\ failures' = [failures EXCEPT ![u] = 0] /\ lock' = [lock EXCEPT ![u] = "open"]
      /\ tries' = [tries EXCEPT ![u] = 0]
  BY DEF Auth!LoginSucceeds, Auth!Issue
<1>3. /\ auth \in Sign /\ auth.secret \in 1 .. secrets /\ auth.version \in Nat
      /\ epoch \in Nat
  BY AuthSignType DEF AuthInv, Sign
<1>4. ASSUME NEW t \in tokens'
      PROVE  \/ t \in tokens
             \/ /\ t.who = u /\ t.secret = auth.secret /\ t.version = auth.version
                /\ t.epoch = epoch
  BY <1>2, <1>4
<1>5. Auth!TypeOK'
  <2>1. \A t \in tokens' : t.who \in Auth!Users /\ t.epoch \in 0 .. epoch'
    BY <1>2, <1>3, <1>4 DEF AuthInv, Auth!TypeOK
  <2>2. QED
    BY <1>1, <1>2, <2>1 DEF AuthInv, Auth!TypeOK, Auth!Hashes
<1>6. TokensBehind'
  <2>1. ASSUME NEW t \in tokens'
        PROVE  /\ t.secret \in 1 .. secrets /\ t.version \in Nat
               /\ trust /\ t.secret = auth.secret => t.version <= auth.version
    BY <1>3, <1>4, <2>1 DEF AuthInv, TokensBehind
  <2>2. QED
    BY <1>2, <2>1 DEF TokensBehind
<1>7. Auth!SessionsEnded'
  <2>1. ASSUME NEW t \in tokens', trust, t.secret = auth.secret, t.version = auth.version
        PROVE  t.epoch = epoch
    BY <1>4, <2>1 DEF AuthInv, Auth!SessionsEnded, Auth!Verifies
  <2>2. QED
    BY <1>2, <2>1 DEF Auth!SessionsEnded, Auth!Verifies
<1>8. LockedInTime'
  BY <1>1, <1>2 DEF AuthInv, LockedInTime, Limit
<1>9. Counted' /\ FileInStep'
  BY <1>2 DEF AuthInv, Counted, FileInStep, Auth!SetUp
<1>10. QED
  BY <1>5, <1>6, <1>7, <1>8, <1>9 DEF AuthInv

(* A restart reads the file, which is what memory was.                     *)
LEMMA AuthRestartStep ==
  ASSUME AuthAssumption, AuthInv, Auth!Restart
  PROVE  AuthInv'
<1>1. /\ auth \in Sign /\ auth.secret \in 1 .. secrets
      /\ saved \in Sign /\ saved.secret \in 0 .. secrets
      /\ saved.version \in 1 .. MaxAuthChanges + 1
      /\ secrets \in Nat /\ authChanges \in Nat /\ starts \in Nat /\ epoch \in Nat
      /\ MaxAttempts \subseteq Nat \ {0} /\ MaxStarts \in Nat /\ MaxAuthChanges \in Nat
  BY AuthSignType DEF AuthInv, AuthAssumption
<1>2. /\ starts < MaxStarts /\ starts' = starts + 1
      /\ secrets' = (IF saved.secret = 0 THEN secrets + 1 ELSE secrets)
      /\ auth' = [saved EXCEPT !.secret = IF saved.secret = 0 THEN secrets' ELSE saved.secret]
      /\ failures' = [u \in Auth!Users |-> 0] /\ lock' = [u \in Auth!Users |-> "open"]
      /\ tries' = [u \in Auth!Users |-> 0]
      /\ UNCHANGED << saved, tokens, epoch, trust, authChanges >>
  BY DEF Auth!Restart, Auth!NoSecret
<1>3. /\ secrets' \in Nat /\ secrets' >= secrets /\ secrets' <= secrets + 1
      /\ auth' \in Sign /\ auth'.secret \in 1 .. secrets'
      /\ auth'.version = saved.version /\ auth'.hash = saved.hash
      /\ saved.secret # 0 => auth' = saved
  <2>1. secrets' \in Nat /\ secrets' >= secrets /\ secrets' <= secrets + 1
    BY <1>1, <1>2
  <2>2. CASE saved.secret = 0
    <3>1. auth' = [saved EXCEPT !.secret = secrets'] /\ secrets' = secrets + 1
      BY <1>2, <2>2
    <3>2. QED
      BY <1>1, <2>1, <2>2, <3>1 DEF Sign
  <2>3. CASE saved.secret # 0
    <3>1. auth' = [saved EXCEPT !.secret = saved.secret] /\ secrets' = secrets
      BY <1>2, <2>3
    <3>2. auth' = saved
      BY <1>1, <3>1 DEF Sign
    <3>3. QED
      BY <1>1, <2>3, <3>1, <3>2
  <2>4. QED
    BY <2>2, <2>3
<1>4. Counted'
  BY <1>1, <1>2, <1>3 DEF AuthInv, Counted, Sign
<1>5. Auth!TypeOK'
  <2>1. auth' \in [hash : Auth!Hashes, secret : 1 .. secrets', version : 1 .. MaxAuthChanges + 1,
                   limit : MaxAttempts]
    BY <1>1, <1>3, AuthTypeOfSign
  <2>2. saved' \in [hash : Auth!Hashes, secret : 0 .. secrets', version : 1 .. MaxAuthChanges + 1,
                    limit : MaxAttempts]
    <3>1. saved.secret \in 0 .. secrets'
      BY <1>1, <1>3
    <3>2. QED
      BY <1>1, <1>2, <1>3, <3>1, AuthTypeOfSign
  <2>3. secrets' \in 1 .. MaxAuthChanges + MaxStarts /\ starts' \in 1 .. MaxStarts
    BY <1>1, <1>2, <1>3, <1>4 DEF Counted, AuthInv, Auth!TypeOK
  <2>4. /\ failures' \in [Auth!Users -> Nat] /\ tries' \in [Auth!Users -> Nat]
        /\ lock' \in [Auth!Users -> {"open", "locked", "expired"}]
    BY <1>2
  <2>5. QED
    BY <1>2, <2>1, <2>2, <2>3, <2>4 DEF AuthInv, Auth!TypeOK, Auth!Hashes
<1>6. trust /\ tokens # {} => auth' = auth
  BY <1>1, <1>3, AuthTokenMeansSetUp
<1>7. TokensBehind'
  BY <1>1, <1>2, <1>3, <1>6 DEF AuthInv, TokensBehind
<1>8. Auth!SessionsEnded'
  BY <1>2, <1>6 DEF AuthInv, Auth!SessionsEnded, Auth!Verifies
<1>9. FileInStep'
  <2>1. CASE trust /\ Auth!SetUp
    BY <1>1, <1>2, <1>3, <2>1 DEF AuthInv, FileInStep, Auth!SetUp
  <2>2. CASE trust /\ ~ Auth!SetUp
    <3>1. saved = [auth EXCEPT !.secret = 0] /\ tokens = {}
      BY <2>2 DEF AuthInv, FileInStep, Auth!NoSecret
    <3>2. saved.secret = 0 /\ saved.hash = auth.hash
      BY <1>1, <3>1 DEF Sign
    <3>3. auth' = [saved EXCEPT !.secret = secrets']
      BY <1>2, <3>2
    <3>4. saved = [auth' EXCEPT !.secret = 0]
      BY <1>1, <3>2, <3>3 DEF Sign
    <3>5. ~ Auth!SetUp'
      BY <1>3, <2>2, <3>2 DEF Auth!SetUp
    <3>6. QED
      BY <1>2, <3>1, <3>4, <3>5 DEF FileInStep, Auth!NoSecret
  <2>3. CASE ~ trust
    BY <1>2, <2>3 DEF FileInStep
  <2>4. QED
    BY <2>1, <2>2, <2>3
<1>10. LockedInTime'
  BY <1>1, <1>2 DEF LockedInTime, Limit
<1>11. QED
  BY <1>4, <1>5, <1>7, <1>8, <1>9, <1>10 DEF AuthInv

(* Sign-in holds for every set of passwords and thresholds and however     *)
(* often the service is set up, reconfigured and restarted.                *)
THEOREM SignIn == Spec => []SignInHolds
<1> USE AuthAssumption
<1>1. Auth!Init => AuthInv
  <2>1. SUFFICES ASSUME Auth!Init PROVE AuthInv
    OBVIOUS
  <2>2. /\ auth = [hash |-> [u \in Auth!Users |-> Auth!NoPassword], secret |-> 1, version |-> 1,
                   limit |-> DefaultAttempts]
        /\ saved = [auth EXCEPT !.secret = 0] /\ tokens = {}
    BY <2>1 DEF Auth!Init, Auth!NoSecret
  <2>3. saved = [hash |-> [u \in Auth!Users |-> Auth!NoPassword], secret |-> 0, version |-> 1,
                 limit |-> DefaultAttempts]
    BY <2>2
  <2>4. Auth!TypeOK
    BY <2>1, <2>2, <2>3 DEF Auth!Init, Auth!TypeOK, AuthAssumption, Auth!Hashes
  <2>5. ~ Auth!SetUp
    BY <2>2 DEF Auth!SetUp, Auth!Users
  <2>6. FileInStep /\ TokensBehind /\ Auth!SessionsEnded
    BY <2>2, <2>5 DEF FileInStep, TokensBehind, Auth!SessionsEnded, Auth!NoSecret
  <2>7. Counted
    BY <2>1, <2>2, <2>3 DEF Auth!Init, Counted
  <2>8. LockedInTime
    BY <2>1 DEF Auth!Init, LockedInTime, AuthAssumption
  <2>9. QED
    BY <2>4, <2>6, <2>7, <2>8 DEF AuthInv
<1>2. AuthInv /\ [Auth!Next]_authVars => AuthInv'
  <2>1. SUFFICES ASSUME AuthInv, [Auth!Next]_authVars PROVE AuthInv'
    OBVIOUS
  <2>2. CASE Auth!CompleteSetup \/ Auth!LogoutAll \/ Auth!ViewerSet \/ Auth!Reconfigure \/ Auth!Restart
    BY <2>1, <2>2, AuthSetupStep, AuthLogoutAllStep, AuthViewerStep, AuthReconfigureStep, AuthRestartStep
  <2>3. ASSUME NEW u \in Auth!Users, Auth!ChangePassword(u) \/ Auth!LoginFails(u) \/ Auth!LoginSucceeds(u)
        PROVE  AuthInv'
    BY <2>1, <2>3, AuthChangePasswordStep, AuthLoginFailsStep, AuthLoginSucceedsStep
  <2>4. ASSUME NEW u \in Auth!Users, Auth!CooldownEnds(u) PROVE AuthInv'
    BY <2>1, <2>4 DEF Auth!CooldownEnds, AuthInv, Auth!TypeOK, Auth!Hashes, Counted, TokensBehind, FileInStep,
                      Auth!SetUp, Auth!SessionsEnded, Auth!Verifies, LockedInTime, Limit
  <2>5. CASE UNCHANGED authVars
    BY <2>1, <2>5 DEF authVars, AuthInv, Auth!TypeOK, Auth!Hashes, Counted, TokensBehind, FileInStep,
                      Auth!SetUp, Auth!SessionsEnded, Auth!Verifies, LockedInTime, Limit
  <2>6. QED
    BY <2>1, <2>2, <2>3, <2>4, <2>5 DEF Auth!Next
<1>3. AuthInv => Auth!SignInHolds
  BY DEF AuthInv, Auth!SignInHolds, Auth!RestartKeeps, FileInStep, LockedInTime, Limit, Auth!AttemptsBounded
<1> DEFINE Kept == part = "auth" => AuthInv
<1>4. Init => Kept
  BY <1>1, EachInit
<1>5. Kept /\ [Next]_vars => Kept'
  BY <1>2, AuthAlone
<1>6. Kept => SignInHolds
  BY <1>3 DEF SignInHolds
<1> HIDE DEF Kept
<1>7. QED
  BY <1>4, <1>5, <1>6, PTL DEF Spec

-----------------------------------------------------------------------------
(***************************************************************************)
(* The channel slots.  Wherever a sync is, the slot it is at is one it may *)
(* write.  While exact holds there is at most one sync under way; it has   *)
(* the saved list, the slots it has yet to visit are as it read them, and  *)
(* those behind it are as they shall be.                                   *)
(***************************************************************************)
Shaped ==
    /\ desired \in [SyncTasks -> Seq(Channels)] /\ seen \in [SyncTasks -> Seq(Channel!Contents)]
    /\ \A t \in SyncTasks :
        /\ Len(desired[t]) <= MaxSlots - 1
        /\ stage[t] = "read" => position[t] <= MaxSlots
        /\ stage[t] \in {"write", "clear"} => position[t] >= 1

(* Slot i holds the i-th entry of a list, as far as it can be written.     *)
SlotHolds(list, i) == list[i] \in Unusable \/ slots[i] = list[i]

AsRead(t, from) == \A i \in from .. MaxSlots - 1 : slots[i] = seen[t][i + 1]

UnderWay(t) ==
    /\ desired[t] = Channel!FirstOf(channelKeys, MaxSlots - 1)
    /\ stage[t] = "read" =>
          Len(seen[t]) = position[t] /\ \A i \in 0 .. position[t] - 1 : slots[i] = seen[t][i + 1]
    /\ stage[t] = "write" =>
          /\ Len(seen[t]) = MaxSlots /\ position[t] <= Len(desired[t]) + 1
          /\ AsRead(t, position[t])
          /\ \A i \in 1 .. position[t] - 1 : SlotHolds(desired[t], i)
    /\ stage[t] = "clear" =>
          /\ Len(seen[t]) = MaxSlots /\ position[t] > Len(desired[t]) /\ position[t] <= MaxSlots
          /\ AsRead(t, position[t])
          /\ \A i \in 1 .. Len(desired[t]) : SlotHolds(desired[t], i)
          /\ \A i \in Len(desired[t]) + 1 .. position[t] - 1 : slots[i] = Channel!Empty

AloneAndRight ==
    exact => \A t \in SyncTasks : stage[t] # "idle" => Channel!Alone(t) /\ UnderWay(t)

ChannelInv == Channel!TypeOK /\ Shaped /\ Channel!PublicUntouched /\ Channel!Mirrored /\ AloneAndRight

(* A saved list is a list of channels; there is a slot beside Public.      *)
LEMMA ChannelSavedIsList ==
  ASSUME SyncAssumption, NEW keys \in SlotLists \cup {<< >>}
  PROVE  keys \in Seq(Channels)
<1>1. << >> \in Seq(Channels)
  OBVIOUS
<1>2. SlotLists \subseteq Seq(Channels)
  BY DEF SyncAssumption
<1>3. QED
  BY ONLY <1>1, <1>2, keys \in SlotLists \cup {<< >>}, Zenon

LEMMA ChannelSlotNumbers ==
  ASSUME SyncAssumption
  PROVE  MaxSlots \in Nat /\ MaxSlots - 1 \in Nat /\ MaxSlots >= 2
<1>1. MaxSlots \in Nat /\ MaxSlots >= 2
  BY DEF SyncAssumption
<1>2. QED
  BY ONLY <1>1

(* The list a sync starts with: its first entries, as they are.            *)
LEMMA ChannelFirstOfFacts ==
  ASSUME NEW list \in Seq(Channels), NEW n \in Nat
  PROVE  /\ Channel!FirstOf(list, n) \in Seq(Channels)
         /\ Len(Channel!FirstOf(list, n)) = IF Len(list) <= n THEN Len(list) ELSE n
         /\ \A i \in 1 .. Len(Channel!FirstOf(list, n)) : Channel!FirstOf(list, n)[i] = list[i]
<1> DEFINE k == IF Len(list) <= n THEN Len(list) ELSE n
<1>1. k \in Nat /\ k <= Len(list) /\ Len(list) \in Nat
  OBVIOUS
<1>2. {j \in DOMAIN list : j <= n} = 1 .. k
  BY <1>1
<1>3. Channel!FirstOf(list, n) = [i \in 1 .. k |-> list[i]]
  BY <1>2 DEF Channel!FirstOf
<1>4. \A i \in 1 .. k : list[i] \in Channels
  BY <1>1
<1> HIDE DEF k
<1>5. [i \in 1 .. k |-> list[i]] \in Seq(Channels) /\ Len([i \in 1 .. k |-> list[i]]) = k
  BY <1>1, <1>4
<1>6. QED
  BY <1>3, <1>5 DEF k

(* What the saved list asks of the slots, and what a finished sync of it   *)
(* gives: the two lists agree wherever there is a slot.                    *)
SlotsAsSaved ==
    \A i \in 1 .. (MaxSlots - 1) :
        IF i <= Len(channelKeys) THEN SlotHolds(channelKeys, i) ELSE slots[i] = Channel!Empty

LEMMA ChannelDoneIsMirrored ==
  ASSUME SyncAssumption, Channel!TypeOK,
         NEW list, list = Channel!FirstOf(channelKeys, MaxSlots - 1),
         \A i \in 1 .. Len(list) : SlotHolds(list, i),
         \A i \in Len(list) + 1 .. MaxSlots - 1 : slots[i] = Channel!Empty
  PROVE  SlotsAsSaved
<1>0. channelKeys \in Seq(Channels)
  BY ChannelSavedIsList DEF Channel!TypeOK
<1>1. channelKeys \in Seq(Channels) /\ MaxSlots \in Nat /\ MaxSlots - 1 \in Nat
  BY <1>0, ChannelSlotNumbers
<1>2. /\ Len(list) = IF Len(channelKeys) <= MaxSlots - 1 THEN Len(channelKeys) ELSE MaxSlots - 1
      /\ \A i \in 1 .. Len(list) : list[i] = channelKeys[i]
  BY <1>1, ChannelFirstOfFacts
<1>3. Len(channelKeys) \in Nat
  BY <1>1
<1>4. ASSUME NEW i \in 1 .. (MaxSlots - 1)
      PROVE  IF i <= Len(channelKeys) THEN SlotHolds(channelKeys, i) ELSE slots[i] = Channel!Empty
  <2>1. CASE i <= Len(channelKeys)
    <3>1. i \in 1 .. Len(list) /\ list[i] = channelKeys[i]
      BY <1>1, <1>2, <1>3, <2>1
    <3>2. QED
      BY <2>1, <3>1 DEF SlotHolds
  <2>2. CASE ~ (i <= Len(channelKeys))
    <3>1. i \in Len(list) + 1 .. MaxSlots - 1
      BY <1>1, <1>2, <1>3, <2>2
    <3>2. QED
      BY <2>2, <3>1
  <2>3. QED
    BY <2>1, <2>2
<1>5. QED
  BY <1>4 DEF SlotsAsSaved

(* A step of one sync.  If exact survives it, the others were idle and     *)
(* stay so, and it is enough to look at this one.                          *)
LEMMA ChannelStepOfOne ==
  ASSUME ChannelInv, NEW t \in SyncTasks, stage[t] # "idle",
         \A u \in SyncTasks \ {t} : stage'[u] = stage[u],
         exact' => exact,
         Channel!TypeOK', Shaped', Channel!PublicUntouched',
         exact' /\ UnderWay(t) => IF stage'[t] = "idle" THEN SlotsAsSaved' ELSE UnderWay(t)'
  PROVE  ChannelInv'
<1>1. exact' => /\ Channel!Alone(t) /\ UnderWay(t)
                /\ \A u \in SyncTasks \ {t} : stage'[u] = "idle"
  BY DEF ChannelInv, AloneAndRight, Channel!Alone
<1>2. AloneAndRight'
  <2>1. ASSUME exact', NEW u \in SyncTasks, stage'[u] # "idle"
        PROVE  Channel!Alone(u)' /\ UnderWay(u)'
    <3>1. u = t
      BY <1>1, <2>1
    <3>2. Channel!Alone(t)'
      BY <1>1, <2>1 DEF Channel!Alone
    <3>3. QED
      BY <1>1, <2>1, <3>1, <3>2
  <2>2. QED
    BY <2>1 DEF AloneAndRight
<1>3. Channel!Mirrored'
  BY <1>1 DEF Channel!Mirrored, SlotsAsSaved, SlotHolds
<1>4. QED
  BY <1>2, <1>3 DEF ChannelInv

(* A sync begins: it has read nothing, and if the others are idle it has   *)
(* the companion to itself.                                                *)
LEMMA ChannelBeginStep ==
  ASSUME SyncAssumption, ChannelInv, NEW t \in SyncTasks, edits < MaxEdits, edits' = edits + 1,
         channelKeys' \in SlotLists \cup {<< >>}, Channel!Begin(t, channelKeys')
  PROVE  ChannelInv'
<1>1. /\ channelKeys' \in Seq(Channels) /\ MaxSlots \in Nat /\ MaxSlots - 1 \in Nat /\ MaxSlots >= 2
      /\ edits \in Nat /\ MaxEdits \in Nat
  <2>1. channelKeys' \in Seq(Channels)
    BY ChannelSavedIsList
  <2>2. edits \in Nat /\ MaxEdits \in Nat
    BY DEF SyncAssumption, ChannelInv, Channel!TypeOK
  <2>3. QED
    BY <2>1, <2>2, ChannelSlotNumbers
<1> DEFINE list == Channel!FirstOf(channelKeys', MaxSlots - 1)
<1>2. list \in Seq(Channels) /\ Len(list) <= MaxSlots - 1
  BY <1>1, ChannelFirstOfFacts
<1>3. /\ stage' = [stage EXCEPT ![t] = "read"] /\ position' = [position EXCEPT ![t] = 0]
      /\ desired' = [desired EXCEPT ![t] = list] /\ seen' = [seen EXCEPT ![t] = << >>]
      /\ exact' = Channel!Alone(t) /\ UNCHANGED << slots, lost >>
  BY DEF Channel!Begin
<1> HIDE DEF list
<1>4. /\ stage \in [SyncTasks -> {"idle", "read", "write", "clear"}]
      /\ position \in [SyncTasks -> 0 .. (MaxSlots + 1)]
      /\ desired \in [SyncTasks -> Seq(Channels)] /\ seen \in [SyncTasks -> Seq(Channel!Contents)]
  BY DEF ChannelInv, Channel!TypeOK, Shaped
<1>5. /\ stage'[t] = "read" /\ position'[t] = 0 /\ desired'[t] = list /\ seen'[t] = << >>
      /\ \A u \in SyncTasks \ {t} : /\ stage'[u] = stage[u] /\ position'[u] = position[u]
                                /\ desired'[u] = desired[u]
  BY <1>3, <1>4
<1>6. Channel!TypeOK'
  <2>1. stage' \in [SyncTasks -> {"idle", "read", "write", "clear"}]
    BY <1>3, <1>4
  <2>2. position' \in [SyncTasks -> 0 .. (MaxSlots + 1)]
    BY <1>1, <1>3, <1>4
  <2>3. exact' \in BOOLEAN
    BY <1>3 DEF Channel!Alone
  <2>4. edits' \in 0 .. MaxEdits
    BY <1>1
  <2>5. QED
    BY <1>3, <2>1, <2>2, <2>3, <2>4 DEF ChannelInv, Channel!TypeOK, Channel!Device, Channel!Contents
<1>7. Shaped'
  <2>1. desired' \in [SyncTasks -> Seq(Channels)]
    BY <1>2, <1>3, <1>4
  <2>2. seen' \in [SyncTasks -> Seq(Channel!Contents)]
    BY <1>3, <1>4
  <2>3. ASSUME NEW u \in SyncTasks
        PROVE  /\ Len(desired'[u]) <= MaxSlots - 1
               /\ stage'[u] = "read" => position'[u] <= MaxSlots
               /\ stage'[u] \in {"write", "clear"} => position'[u] >= 1
    <3>1. CASE u = t
      BY <1>1, <1>2, <1>5, <3>1
    <3>2. CASE u # t
      BY <1>5, <3>2 DEF ChannelInv, Shaped
    <3>3. QED
      BY <3>1, <3>2
  <2>4. QED
    BY <2>1, <2>2, <2>3 DEF Shaped, Channel!Contents
<1>8. Channel!PublicUntouched'
  BY <1>3 DEF ChannelInv, Channel!PublicUntouched
<1>9. Channel!Mirrored'
  BY <1>5 DEF Channel!Mirrored
<1>10. AloneAndRight'
  <2>1. ASSUME exact', NEW u \in SyncTasks, stage'[u] # "idle"
        PROVE  Channel!Alone(u)' /\ UnderWay(u)'
    <3>1. \A v \in SyncTasks \ {t} : stage'[v] = "idle"
      BY <1>3, <1>5, <2>1 DEF Channel!Alone
    <3>2. u = t /\ Channel!Alone(t)'
      BY <2>1, <3>1 DEF Channel!Alone
    <3>3. UnderWay(t)'
      BY <1>5 DEF UnderWay, list
    <3>4. QED
      BY <3>2, <3>3
  <2>2. QED
    BY <2>1 DEF AloneAndRight
<1>11. QED
  BY <1>6, <1>7, <1>8, <1>9, <1>10 DEF ChannelInv

(* What the invariant says of one sync.                                    *)
LEMMA ChannelOfOne ==
  ASSUME SyncAssumption, ChannelInv, NEW t \in SyncTasks
  PROVE  /\ stage[t] \in {"idle", "read", "write", "clear"}
         /\ position[t] \in Nat /\ position[t] <= MaxSlots + 1
         /\ desired[t] \in Seq(Channels) /\ seen[t] \in Seq(Channel!Contents)
         /\ Len(desired[t]) \in Nat /\ Len(desired[t]) <= MaxSlots - 1 /\ Len(seen[t]) \in Nat
         /\ stage[t] = "read" => position[t] <= MaxSlots
         /\ stage[t] \in {"write", "clear"} => position[t] >= 1
<1>1. /\ stage[t] \in {"idle", "read", "write", "clear"} /\ position[t] \in 0 .. (MaxSlots + 1)
      /\ Len(desired[t]) <= MaxSlots - 1
      /\ stage[t] = "read" => position[t] <= MaxSlots
      /\ stage[t] \in {"write", "clear"} => position[t] >= 1
  BY DEF ChannelInv, Channel!TypeOK, Shaped
<1>2. desired[t] \in Seq(Channels) /\ seen[t] \in Seq(Channel!Contents)
  BY DEF ChannelInv, Shaped
<1>3. Len(desired[t]) \in Nat /\ Len(seen[t]) \in Nat
  BY <1>2
<1>4. position[t] \in Nat /\ position[t] <= MaxSlots + 1
  BY <1>1, ChannelSlotNumbers
<1>5. QED
  BY <1>1, <1>2, <1>3, <1>4

(* The parts of the invariant that do not look at what has been read: a    *)
(* step that takes sync t to stage s and position p and leaves slot 0 as   *)
(* it is keeps them.                                                       *)
LEMMA ChannelFrame ==
  ASSUME SyncAssumption, ChannelInv, NEW t \in SyncTasks,
         NEW s \in {"idle", "read", "write", "clear"}, NEW p \in Nat, p <= MaxSlots + 1,
         s = "read" => p <= MaxSlots, s \in {"write", "clear"} => p >= 1,
         stage' = [stage EXCEPT ![t] = s], position' = [position EXCEPT ![t] = p],
         UNCHANGED << channelKeys, desired, edits >>, seen' \in [SyncTasks -> Seq(Channel!Contents)],
         slots' \in [Channel!Device -> Channel!Contents], slots'[0] = slots[0],
         exact' \in BOOLEAN, lost' \in 0 .. MaxMisses
  PROVE  /\ Channel!TypeOK' /\ Shaped' /\ Channel!PublicUntouched'
         /\ stage'[t] = s /\ position'[t] = p
         /\ \A u \in SyncTasks \ {t} : stage'[u] = stage[u]
<1>1. /\ stage \in [SyncTasks -> {"idle", "read", "write", "clear"}]
      /\ position \in [SyncTasks -> 0 .. (MaxSlots + 1)]
  BY DEF ChannelInv, Channel!TypeOK
<1>2. /\ stage'[t] = s /\ position'[t] = p
      /\ \A u \in SyncTasks \ {t} : stage'[u] = stage[u] /\ position'[u] = position[u]
  BY <1>1
<1>3. p \in 0 .. (MaxSlots + 1)
  BY ChannelSlotNumbers
<1>4. Channel!TypeOK'
  <2>1. stage' \in [SyncTasks -> {"idle", "read", "write", "clear"}]
    BY <1>1
  <2>2. position' \in [SyncTasks -> 0 .. (MaxSlots + 1)]
    BY <1>1, <1>3
  <2>3. channelKeys' \in SlotLists \cup {<< >>} /\ edits' \in 0 .. MaxEdits
    BY DEF ChannelInv, Channel!TypeOK
  <2>4. QED
    BY <2>1, <2>2, <2>3 DEF Channel!TypeOK, Channel!Device, Channel!Contents
<1>5. Shaped'
  <2>1. desired' \in [SyncTasks -> Seq(Channels)]
    BY DEF ChannelInv, Shaped
  <2>2. ASSUME NEW u \in SyncTasks
        PROVE  /\ Len(desired'[u]) <= MaxSlots - 1
               /\ stage'[u] = "read" => position'[u] <= MaxSlots
               /\ stage'[u] \in {"write", "clear"} => position'[u] >= 1
    <3>1. Len(desired'[u]) <= MaxSlots - 1
      BY DEF ChannelInv, Shaped
    <3>2. CASE u = t
      BY <1>2, <3>1, <3>2
    <3>3. CASE u # t
      BY <1>2, <3>1, <3>3 DEF ChannelInv, Shaped
    <3>4. QED
      BY <3>2, <3>3
  <2>3. QED
    BY <2>1, <2>2 DEF Shaped, Channel!Contents
<1>6. Channel!PublicUntouched'
  BY DEF ChannelInv, Channel!PublicUntouched
<1>7. QED
  BY <1>2, <1>4, <1>5, <1>6

(* Reading a slot.                                                         *)
LEMMA ChannelReadSlotStep ==
  ASSUME SyncAssumption, ChannelInv, NEW t \in SyncTasks, Channel!ReadSlot(t)
  PROVE  ChannelInv'
<1>1. /\ stage[t] = "read" /\ position[t] < MaxSlots
      /\ seen' = [seen EXCEPT ![t] = Append(seen[t], slots[position[t]])]
      /\ position' = [position EXCEPT ![t] = position[t] + 1]
      /\ UNCHANGED << channelKeys, slots, stage, desired, exact, edits, lost >>
  BY DEF Channel!ReadSlot
<1>2. /\ position[t] \in Nat /\ seen[t] \in Seq(Channel!Contents) /\ Len(seen[t]) \in Nat
      /\ MaxSlots \in Nat
  BY ChannelOfOne, ChannelSlotNumbers
<1>3. /\ slots \in [Channel!Device -> Channel!Contents] /\ exact \in BOOLEAN /\ lost \in 0 .. MaxMisses
      /\ seen \in [SyncTasks -> Seq(Channel!Contents)]
      /\ stage \in [SyncTasks -> {"idle", "read", "write", "clear"}]
  BY DEF ChannelInv, Channel!TypeOK, Shaped
<1>4. slots[position[t]] \in Channel!Contents
  BY <1>1, <1>2, <1>3 DEF Channel!Device
<1>5. Append(seen[t], slots[position[t]]) \in Seq(Channel!Contents)
  BY <1>2, <1>4
<1>6. seen' \in [SyncTasks -> Seq(Channel!Contents)]
      /\ seen'[t] = Append(seen[t], slots[position[t]])
  BY <1>1, <1>3, <1>5
<1>7. stage' = [stage EXCEPT ![t] = "read"]
  BY <1>1, <1>3
<1>8. position[t] + 1 \in Nat /\ position[t] + 1 <= MaxSlots /\ position[t] + 1 <= MaxSlots + 1
  BY <1>1, <1>2
<1>9. /\ Channel!TypeOK' /\ Shaped' /\ Channel!PublicUntouched'
      /\ stage'[t] = "read" /\ position'[t] = position[t] + 1
      /\ \A u \in SyncTasks \ {t} : stage'[u] = stage[u]
  BY <1>1, <1>3, <1>6, <1>7, <1>8, ChannelFrame
<1>10. ASSUME UnderWay(t) PROVE UnderWay(t)'
  <2>1. /\ Len(seen[t]) = position[t]
        /\ \A i \in 0 .. position[t] - 1 : slots[i] = seen[t][i + 1]
        /\ desired[t] = Channel!FirstOf(channelKeys, MaxSlots - 1)
    BY <1>1, <1>10 DEF UnderWay
  <2>2. /\ Len(seen'[t]) = position[t] + 1
        /\ \A j \in 1 .. Len(seen[t]) : seen'[t][j] = seen[t][j]
        /\ seen'[t][Len(seen[t]) + 1] = slots[position[t]]
    BY <1>2, <1>4, <1>6, <2>1
  <2>3. ASSUME NEW i \in 0 .. position'[t] - 1 PROVE slots[i] = seen'[t][i + 1]
    <3>1. CASE i = position[t]
      BY <2>1, <2>2, <3>1
    <3>2. CASE i # position[t]
      <4>1. i \in 0 .. position[t] - 1 /\ i + 1 \in 1 .. Len(seen[t])
        BY <1>2, <1>9, <2>1, <2>3, <3>2
      <4>2. QED
        BY <2>1, <2>2, <4>1
    <3>3. QED
      BY <3>1, <3>2
  <2>4. QED
    BY <1>1, <1>9, <2>1, <2>2, <2>3 DEF UnderWay
<1>11. QED
  BY <1>1, <1>9, <1>10, ChannelStepOfOne

(* The companion stops answering: whatever was read, exact is given up.    *)
LEMMA ChannelReadFailsStep ==
  ASSUME SyncAssumption, ChannelInv, NEW t \in SyncTasks, Channel!ReadFails(t)
  PROVE  ChannelInv'
<1>1. /\ stage[t] = "read" /\ stage' = [stage EXCEPT ![t] = "write"]
      /\ position' = [position EXCEPT ![t] = 1]
      /\ lost < MaxMisses /\ lost' = lost + 1 /\ exact' = FALSE
      /\ UNCHANGED << channelKeys, slots, desired, seen, edits >>
  BY DEF Channel!ReadFails, Channel!Miss
<1>2. /\ slots \in [Channel!Device -> Channel!Contents] /\ lost \in 0 .. MaxMisses
      /\ seen \in [SyncTasks -> Seq(Channel!Contents)]
  BY DEF ChannelInv, Channel!TypeOK, Shaped
<1>3. lost' \in 0 .. MaxMisses
  BY <1>1, <1>2 DEF SyncAssumption
<1>4. 1 \in Nat /\ 1 <= MaxSlots + 1 /\ 1 >= 1
  BY ChannelSlotNumbers
<1>5. /\ Channel!TypeOK' /\ Shaped' /\ Channel!PublicUntouched'
      /\ stage'[t] = "write" /\ \A u \in SyncTasks \ {t} : stage'[u] = stage[u]
  BY <1>1, <1>2, <1>3, <1>4, ChannelFrame
<1>6. QED
  BY <1>1, <1>5, ChannelStepOfOne

(* All slots are read.                                                     *)
LEMMA ChannelReadDoneStep ==
  ASSUME SyncAssumption, ChannelInv, NEW t \in SyncTasks, Channel!ReadDone(t)
  PROVE  ChannelInv'
<1>1. /\ stage[t] = "read" /\ position[t] = MaxSlots /\ stage' = [stage EXCEPT ![t] = "write"]
      /\ position' = [position EXCEPT ![t] = 1]
      /\ UNCHANGED << channelKeys, slots, desired, seen, exact, edits, lost >>
  BY DEF Channel!ReadDone
<1>2. /\ slots \in [Channel!Device -> Channel!Contents] /\ lost \in 0 .. MaxMisses /\ exact \in BOOLEAN
      /\ seen \in [SyncTasks -> Seq(Channel!Contents)]
  BY DEF ChannelInv, Channel!TypeOK, Shaped
<1>3. 1 \in Nat /\ 1 <= MaxSlots + 1 /\ 1 >= 1
  BY ChannelSlotNumbers
<1>4. /\ Channel!TypeOK' /\ Shaped' /\ Channel!PublicUntouched' /\ stage'[t] = "write" /\ position'[t] = 1
      /\ \A u \in SyncTasks \ {t} : stage'[u] = stage[u]
  BY <1>1, <1>2, <1>3, ChannelFrame
<1>5. ASSUME UnderWay(t) PROVE UnderWay(t)'
  <2>1. /\ Len(seen[t]) = MaxSlots
        /\ \A i \in 0 .. MaxSlots - 1 : slots[i] = seen[t][i + 1]
        /\ desired[t] = Channel!FirstOf(channelKeys, MaxSlots - 1)
    BY <1>1, <1>5 DEF UnderWay
  <2>2. Len(desired[t]) \in Nat
    BY ChannelOfOne
  <2>3. 1 <= Len(desired[t]) + 1
    BY <2>2
  <2>4. \A i \in 1 .. MaxSlots - 1 : slots[i] = seen[t][i + 1]
    BY <2>1, ChannelSlotNumbers
  <2>5. \A i \in 1 .. 1 - 1 : SlotHolds(desired[t], i)'
    OBVIOUS
  <2>6. QED
    BY <1>1, <1>4, <2>1, <2>3, <2>4, <2>5 DEF UnderWay, AsRead
<1>6. QED
  BY <1>1, <1>4, <1>5, ChannelStepOfOne

(* What one write of slot k may do: the slot is set to c, or it stays and  *)
(* either was right or the answer was missed.                              *)
LEMMA ChannelWriteFacts ==
  ASSUME SyncAssumption, ChannelInv, NEW k \in 1 .. MaxSlots - 1, NEW c \in Channel!Contents,
         \/ UNCHANGED << slots, lost, exact >>
         \/ slots' = [slots EXCEPT ![k] = c] /\ UNCHANGED << lost, exact >>
         \/ Channel!Miss /\ UNCHANGED slots
  PROVE  /\ slots' \in [Channel!Device -> Channel!Contents] /\ slots'[0] = slots[0]
         /\ \A i \in 0 .. MaxSlots - 1 : i # k => slots'[i] = slots[i]
         /\ exact' \in BOOLEAN /\ (exact' => exact) /\ lost' \in 0 .. MaxMisses
<1>1. slots \in [Channel!Device -> Channel!Contents] /\ lost \in 0 .. MaxMisses /\ exact \in BOOLEAN
  BY DEF ChannelInv, Channel!TypeOK
<1>2. k \in Channel!Device /\ k # 0 /\ 0 \in Channel!Device
  BY ChannelSlotNumbers DEF Channel!Device
<1>3. MaxMisses \in Nat
  BY DEF SyncAssumption
<1>4. CASE UNCHANGED << slots, lost, exact >>
  BY <1>1, <1>4
<1>5. CASE slots' = [slots EXCEPT ![k] = c] /\ UNCHANGED << lost, exact >>
  BY <1>1, <1>2, <1>5 DEF Channel!Device
<1>6. CASE Channel!Miss /\ UNCHANGED slots
  <2>1. lost < MaxMisses /\ lost' = lost + 1 /\ exact' = FALSE /\ slots' = slots
    BY <1>6 DEF Channel!Miss
  <2>2. lost' \in 0 .. MaxMisses
    BY <1>1, <1>3, <2>1
  <2>3. QED
    BY <1>1, <2>1, <2>2
<1>7. QED
  BY <1>4, <1>5, <1>6

(* Writing the slot of one entry of the list.                              *)
LEMMA ChannelWriteSlotStep ==
  ASSUME SyncAssumption, ChannelInv, NEW t \in SyncTasks, Channel!WriteSlot(t)
  PROVE  ChannelInv'
<1> DEFINE k == position[t]
<1> DEFINE c == desired[t][k]
<1>1. /\ stage[t] = "write" /\ k <= Len(desired[t])
      /\ position' = [position EXCEPT ![t] = k + 1]
      /\ IF c \in Unusable \/ Channel!Believed(t, k) = c
         THEN UNCHANGED << slots, lost, exact >>
         ELSE \/ slots' = [slots EXCEPT ![k] = c] /\ UNCHANGED << lost, exact >>
              \/ Channel!Miss /\ UNCHANGED slots
      /\ UNCHANGED << channelKeys, stage, desired, seen, edits >>
  BY DEF Channel!WriteSlot, Channel!SlotOf
<1>2. /\ k \in Nat /\ k >= 1 /\ desired[t] \in Seq(Channels)
      /\ Len(desired[t]) \in Nat /\ Len(desired[t]) <= MaxSlots - 1 /\ MaxSlots \in Nat
  BY <1>1, ChannelOfOne, ChannelSlotNumbers
<1>3. k \in 1 .. MaxSlots - 1 /\ k \in 1 .. Len(desired[t])
  BY <1>1, <1>2
<1>4. c \in Channel!Contents
  <2>1. c \in Channels
    BY <1>2, <1>3
  <2>2. QED
    BY <2>1 DEF Channel!Contents
<1>5. /\ seen \in [SyncTasks -> Seq(Channel!Contents)]
      /\ stage \in [SyncTasks -> {"idle", "read", "write", "clear"}]
  BY DEF ChannelInv, Channel!TypeOK, Shaped
<1>6. stage' = [stage EXCEPT ![t] = "write"]
  BY <1>1, <1>5
<1>7. k + 1 \in Nat /\ k + 1 <= MaxSlots + 1 /\ k + 1 >= 1
  BY <1>2, <1>3
<1> HIDE DEF k, c
<1>8. /\ slots' \in [Channel!Device -> Channel!Contents] /\ slots'[0] = slots[0]
      /\ \A i \in 0 .. MaxSlots - 1 : i # k => slots'[i] = slots[i]
      /\ exact' \in BOOLEAN /\ (exact' => exact) /\ lost' \in 0 .. MaxMisses
  BY <1>1, <1>3, <1>4, ChannelWriteFacts
<1>9. /\ Channel!TypeOK' /\ Shaped' /\ Channel!PublicUntouched'
      /\ stage'[t] = "write" /\ position'[t] = k + 1
      /\ \A u \in SyncTasks \ {t} : stage'[u] = stage[u]
  BY <1>1, <1>5, <1>6, <1>7, <1>8, ChannelFrame
<1>10. ASSUME exact', UnderWay(t) PROVE UnderWay(t)'
  <2>1. /\ Len(seen[t]) = MaxSlots /\ desired[t] = Channel!FirstOf(channelKeys, MaxSlots - 1)
        /\ \A i \in k .. MaxSlots - 1 : slots[i] = seen[t][i + 1]
        /\ \A i \in 1 .. k - 1 : SlotHolds(desired[t], i)
    BY <1>1, <1>10 DEF UnderWay, AsRead, k
  <2>2. k + 1 <= Len(desired[t]) + 1
    BY <1>1, <1>2
  <2>3. \A i \in k + 1 .. MaxSlots - 1 : slots'[i] = seen[t][i + 1]
    BY <1>2, <1>8, <2>1
  <2>4. c \in Unusable \/ slots'[k] = c
    <3>1. CASE c \in Unusable
      BY <3>1
    <3>2. CASE c \notin Unusable /\ Channel!Believed(t, k) = c
      <4>1. k + 1 \in DOMAIN seen[t]
        BY <1>2, <1>3, <1>5, <2>1
      <4>2. Channel!Believed(t, k) = seen[t][k + 1]
        BY <4>1 DEF Channel!Believed
      <4>3. slots[k] = seen[t][k + 1]
        BY <1>2, <1>3, <2>1
      <4>4. QED
        BY <1>1, <3>2, <4>2, <4>3
    <3>3. CASE c \notin Unusable /\ Channel!Believed(t, k) # c
      <4>1. slots' = [slots EXCEPT ![k] = c]
        BY <1>1, <1>10, <3>3 DEF Channel!Miss
      <4>2. slots \in [Channel!Device -> Channel!Contents] /\ k \in Channel!Device
        BY <1>2, <1>3 DEF ChannelInv, Channel!TypeOK, Channel!Device
      <4>3. QED
        BY <4>1, <4>2
    <3>4. QED
      BY <3>1, <3>2, <3>3
  <2>5. ASSUME NEW i \in 1 .. (k + 1) - 1
        PROVE  desired[t][i] \in Unusable \/ slots'[i] = desired[t][i]
    <3>1. CASE i = k
      BY <2>4, <3>1 DEF c
    <3>2. CASE i # k
      <4>1. i \in 1 .. k - 1 /\ i \in 0 .. MaxSlots - 1
        BY <1>2, <1>3, <2>5, <3>2
      <4>2. QED
        BY <1>8, <2>1, <3>2, <4>1 DEF SlotHolds
    <3>3. QED
      BY <3>1, <3>2
  <2>6. QED
    BY <1>1, <1>9, <2>1, <2>2, <2>3, <2>5 DEF UnderWay, AsRead, SlotHolds
<1>11. QED
  BY <1>1, <1>8, <1>9, <1>10, ChannelStepOfOne

(* The list is written; the clearing begins behind it.                     *)
LEMMA ChannelWriteDoneStep ==
  ASSUME SyncAssumption, ChannelInv, NEW t \in SyncTasks, Channel!WriteDone(t)
  PROVE  ChannelInv'
<1> DEFINE n == Len(desired[t])
<1>1. /\ stage[t] = "write" /\ position[t] > n /\ stage' = [stage EXCEPT ![t] = "clear"]
      /\ position' = [position EXCEPT ![t] = 1 + n]
      /\ UNCHANGED << channelKeys, slots, desired, seen, exact, edits, lost >>
  BY DEF Channel!WriteDone, Channel!FirstClear
<1>2. /\ slots \in [Channel!Device -> Channel!Contents] /\ lost \in 0 .. MaxMisses /\ exact \in BOOLEAN
      /\ seen \in [SyncTasks -> Seq(Channel!Contents)]
  BY DEF ChannelInv, Channel!TypeOK, Shaped
<1>3. n \in Nat /\ n <= MaxSlots - 1 /\ position[t] \in Nat /\ MaxSlots \in Nat
  BY ChannelOfOne, ChannelSlotNumbers
<1>4. 1 + n \in Nat /\ 1 + n <= MaxSlots + 1 /\ 1 + n >= 1 /\ 1 + n > n /\ 1 + n <= MaxSlots
  BY <1>3
<1> HIDE DEF n
<1>5. /\ Channel!TypeOK' /\ Shaped' /\ Channel!PublicUntouched' /\ stage'[t] = "clear" /\ position'[t] = 1 + n
      /\ \A u \in SyncTasks \ {t} : stage'[u] = stage[u]
  BY <1>1, <1>2, <1>4, ChannelFrame
<1>6. ASSUME UnderWay(t) PROVE UnderWay(t)'
  <2>1. /\ Len(seen[t]) = MaxSlots /\ desired[t] = Channel!FirstOf(channelKeys, MaxSlots - 1)
        /\ position[t] <= n + 1
        /\ \A i \in position[t] .. MaxSlots - 1 : slots[i] = seen[t][i + 1]
        /\ \A i \in 1 .. position[t] - 1 : SlotHolds(desired[t], i)
    BY <1>1, <1>6 DEF UnderWay, AsRead, n
  <2>2. position[t] = 1 + n
    BY <1>1, <1>3, <2>1
  <2>3. (1 + n) - 1 = n
    BY <1>3
  <2>4. \A i \in 1 .. n : SlotHolds(desired[t], i)
    BY <2>1, <2>2, <2>3
  <2>5. \A i \in n + 1 .. (1 + n) - 1 : slots[i] = Channel!Empty
    BY <1>3
  <2>6. QED
    BY <1>1, <1>4, <1>5, <2>1, <2>2, <2>4, <2>5 DEF UnderWay, AsRead, SlotHolds, n
<1>7. QED
  BY <1>1, <1>5, <1>6, ChannelStepOfOne

(* Clearing a slot behind the list.                                        *)
LEMMA ChannelClearSlotStep ==
  ASSUME SyncAssumption, ChannelInv, NEW t \in SyncTasks, Channel!ClearSlot(t)
  PROVE  ChannelInv'
<1> DEFINE k == position[t]
<1> DEFINE n == Len(desired[t])
<1>1. /\ stage[t] = "clear" /\ k < MaxSlots /\ k + 1 \in DOMAIN seen[t]
      /\ position' = [position EXCEPT ![t] = k + 1]
      /\ IF Channel!Believed(t, k) = Channel!Empty THEN UNCHANGED << slots, lost, exact >>
         ELSE \/ slots' = [slots EXCEPT ![k] = Channel!Empty] /\ UNCHANGED << lost, exact >>
              \/ Channel!Miss /\ UNCHANGED slots
      /\ UNCHANGED << channelKeys, stage, desired, seen, edits >>
  BY DEF Channel!ClearSlot
<1>2. k \in Nat /\ k >= 1 /\ n \in Nat /\ n <= MaxSlots - 1 /\ MaxSlots \in Nat
  BY <1>1, ChannelOfOne, ChannelSlotNumbers
<1>3. k \in 1 .. MaxSlots - 1
  BY <1>1, <1>2
<1>4. Channel!Empty \in Channel!Contents
  BY DEF Channel!Contents
<1>5. /\ seen \in [SyncTasks -> Seq(Channel!Contents)]
      /\ stage \in [SyncTasks -> {"idle", "read", "write", "clear"}]
  BY DEF ChannelInv, Channel!TypeOK, Shaped
<1>6. stage' = [stage EXCEPT ![t] = "clear"]
  BY <1>1, <1>5
<1>7. k + 1 \in Nat /\ k + 1 <= MaxSlots + 1 /\ k + 1 >= 1
  BY <1>2, <1>3
<1> HIDE DEF k, n
<1>8. /\ slots' \in [Channel!Device -> Channel!Contents] /\ slots'[0] = slots[0]
      /\ \A i \in 0 .. MaxSlots - 1 : i # k => slots'[i] = slots[i]
      /\ exact' \in BOOLEAN /\ (exact' => exact) /\ lost' \in 0 .. MaxMisses
  BY <1>1, <1>3, <1>4, ChannelWriteFacts
<1>9. /\ Channel!TypeOK' /\ Shaped' /\ Channel!PublicUntouched'
      /\ stage'[t] = "clear" /\ position'[t] = k + 1
      /\ \A u \in SyncTasks \ {t} : stage'[u] = stage[u]
  BY <1>1, <1>5, <1>6, <1>7, <1>8, ChannelFrame
<1>10. ASSUME exact', UnderWay(t) PROVE UnderWay(t)'
  <2>1. /\ Len(seen[t]) = MaxSlots /\ desired[t] = Channel!FirstOf(channelKeys, MaxSlots - 1)
        /\ k > n
        /\ \A i \in k .. MaxSlots - 1 : slots[i] = seen[t][i + 1]
        /\ \A i \in 1 .. n : SlotHolds(desired[t], i)
        /\ \A i \in n + 1 .. k - 1 : slots[i] = Channel!Empty
    BY <1>1, <1>10 DEF UnderWay, AsRead, k, n
  <2>2. k + 1 > n /\ k + 1 <= MaxSlots
    BY <1>1, <1>2, <2>1
  <2>3. \A i \in k + 1 .. MaxSlots - 1 : slots'[i] = seen[t][i + 1]
    BY <1>2, <1>8, <2>1
  <2>4. slots'[k] = Channel!Empty
    <3>1. CASE Channel!Believed(t, k) = Channel!Empty
      <4>1. Channel!Believed(t, k) = seen[t][k + 1]
        BY <1>1 DEF Channel!Believed
      <4>2. slots[k] = seen[t][k + 1]
        BY <1>2, <1>3, <2>1
      <4>3. QED
        BY <1>1, <3>1, <4>1, <4>2
    <3>2. CASE Channel!Believed(t, k) # Channel!Empty
      <4>1. slots' = [slots EXCEPT ![k] = Channel!Empty]
        BY <1>1, <1>10, <3>2 DEF Channel!Miss
      <4>2. slots \in [Channel!Device -> Channel!Contents] /\ k \in Channel!Device
        BY <1>2, <1>3 DEF ChannelInv, Channel!TypeOK, Channel!Device
      <4>3. QED
        BY <4>1, <4>2
    <3>3. QED
      BY <3>1, <3>2
  <2>5. ASSUME NEW i \in 1 .. n
        PROVE  desired[t][i] \in Unusable \/ slots'[i] = desired[t][i]
    <3>1. i # k /\ i \in 0 .. MaxSlots - 1
      BY <1>2, <2>1
    <3>2. QED
      BY <1>8, <2>1, <3>1 DEF SlotHolds
  <2>6. ASSUME NEW i \in n + 1 .. (k + 1) - 1 PROVE slots'[i] = Channel!Empty
    <3>1. CASE i = k
      BY <2>4, <3>1
    <3>2. CASE i # k
      <4>1. i \in n + 1 .. k - 1 /\ i \in 0 .. MaxSlots - 1
        BY <1>2, <1>3, <2>6, <3>2
      <4>2. QED
        BY <1>8, <2>1, <3>2, <4>1
    <3>3. QED
      BY <3>1, <3>2
  <2>7. QED
    BY <1>1, <1>9, <2>1, <2>2, <2>3, <2>5, <2>6 DEF UnderWay, AsRead, SlotHolds, n
<1>11. QED
  BY <1>1, <1>8, <1>9, <1>10, ChannelStepOfOne

(* The task ends: every slot has been visited.                             *)
LEMMA ChannelSyncDoneStep ==
  ASSUME SyncAssumption, ChannelInv, NEW t \in SyncTasks, Channel!SyncDone(t)
  PROVE  ChannelInv'
<1> DEFINE k == position[t]
<1>1. /\ stage[t] = "clear" /\ (k >= MaxSlots \/ k + 1 \notin DOMAIN seen[t])
      /\ stage' = [stage EXCEPT ![t] = "idle"]
      /\ UNCHANGED << channelKeys, slots, position, desired, seen, exact, edits, lost >>
  BY DEF Channel!SyncDone
<1>2. /\ slots \in [Channel!Device -> Channel!Contents] /\ lost \in 0 .. MaxMisses /\ exact \in BOOLEAN
      /\ seen \in [SyncTasks -> Seq(Channel!Contents)] /\ position \in [SyncTasks -> 0 .. (MaxSlots + 1)]
  BY DEF ChannelInv, Channel!TypeOK, Shaped
<1>3. /\ k \in Nat /\ k <= MaxSlots + 1 /\ k >= 1 /\ seen[t] \in Seq(Channel!Contents)
      /\ Len(desired[t]) \in Nat /\ MaxSlots \in Nat
  BY <1>1, ChannelOfOne, ChannelSlotNumbers
<1>4. position' = [position EXCEPT ![t] = k]
  BY <1>1, <1>2
<1>5. /\ Channel!TypeOK' /\ Shaped' /\ Channel!PublicUntouched' /\ stage'[t] = "idle"
      /\ \A u \in SyncTasks \ {t} : stage'[u] = stage[u]
  BY <1>1, <1>2, <1>3, <1>4, ChannelFrame
<1> HIDE DEF k
<1>6. ASSUME UnderWay(t) PROVE SlotsAsSaved'
  <2>1. /\ Len(seen[t]) = MaxSlots /\ desired[t] = Channel!FirstOf(channelKeys, MaxSlots - 1)
        /\ k > Len(desired[t]) /\ k <= MaxSlots
        /\ \A i \in 1 .. Len(desired[t]) : SlotHolds(desired[t], i)
        /\ \A i \in Len(desired[t]) + 1 .. k - 1 : slots[i] = Channel!Empty
    BY <1>1, <1>6 DEF UnderWay, k
  <2>2. k = MaxSlots
    BY <1>1, <1>3, <2>1
  <2>3. SlotsAsSaved
    BY <2>1, <2>2, ChannelDoneIsMirrored DEF ChannelInv
  <2>4. QED
    BY <1>1, <2>3 DEF SlotsAsSaved, SlotHolds
<1>7. QED
  BY <1>1, <1>5, <1>6, ChannelStepOfOne

LEMMA ChannelInitInv ==
  ASSUME SyncAssumption
  PROVE  Channel!Init => ChannelInv
<1> SUFFICES ASSUME Channel!Init PROVE ChannelInv
  OBVIOUS
<1> USE ChannelSlotNumbers
<1>1. Channel!TypeOK
  <2>1. slots \in [Channel!Device -> Channel!Contents]
    BY DEF Channel!Init, Channel!Device, Channel!Contents
  <2>2. position \in [SyncTasks -> 0 .. (MaxSlots + 1)]
    BY DEF Channel!Init
  <2>3. channelKeys \in SlotLists \cup {<< >>} /\ exact \in BOOLEAN
    BY Zenon DEF Channel!Init
  <2>4. edits \in 0 .. MaxEdits /\ lost \in 0 .. MaxMisses
    BY DEF Channel!Init, SyncAssumption
  <2>5. stage \in [SyncTasks -> {"idle", "read", "write", "clear"}]
    BY DEF Channel!Init
  <2>6. QED
    BY <2>1, <2>2, <2>3, <2>4, <2>5 DEF Channel!TypeOK
<1>2. Shaped
  <2>1. desired \in [SyncTasks -> Seq(Channels)] /\ seen \in [SyncTasks -> Seq(Channel!Contents)]
    BY DEF Channel!Init
  <2>2. \A t \in SyncTasks : desired[t] = << >> /\ stage[t] = "idle"
    BY DEF Channel!Init
  <2>3. Len(<< >>) = 0
    OBVIOUS
  <2>4. QED
    BY <2>1, <2>2, <2>3 DEF Shaped
<1>3. Channel!PublicUntouched
  BY DEF Channel!Init, Channel!PublicUntouched, Channel!Device
<1>4. Channel!Mirrored /\ AloneAndRight
  BY DEF Channel!Init, Channel!Mirrored, AloneAndRight
<1>5. QED
  BY <1>1, <1>2, <1>3, <1>4 DEF ChannelInv

(* The companion's slots, whatever syncs overlap and whatever it misses:   *)
(* Public is never written, and when the last sync had the companion to    *)
(* itself and every answer, the slots are the saved list.                  *)
THEOREM SlotsFollowList == Spec => []SlotsMirrored
<1> USE SyncAssumption
<1>1. Channel!Init => ChannelInv
  BY ChannelInitInv
<1>2. ChannelInv /\ [Channel!Next]_channelVars => ChannelInv'
  <2>1. ASSUME ChannelInv, UNCHANGED channelVars PROVE ChannelInv'
    BY <2>1 DEF channelVars, ChannelInv, Channel!TypeOK, Shaped, Channel!PublicUntouched, Channel!Mirrored, AloneAndRight, Channel!Alone,
                UnderWay, AsRead, SlotHolds
  <2>2. ASSUME ChannelInv, NEW t \in SyncTasks, Channel!Edit(t) PROVE ChannelInv'
    <3>1. /\ edits < MaxEdits /\ edits' = edits + 1 /\ channelKeys' \in SlotLists \cup {<< >>}
          /\ Channel!Begin(t, channelKeys')
      BY <2>2 DEF Channel!Edit
    <3>2. QED
      BY <2>2, <3>1, ChannelBeginStep
  <2>3. ASSUME ChannelInv, NEW t \in SyncTasks, Channel!Reconnect(t) PROVE ChannelInv'
    <3>1. edits < MaxEdits /\ edits' = edits + 1 /\ channelKeys' = channelKeys /\ Channel!Begin(t, channelKeys)
      BY <2>3 DEF Channel!Reconnect
    <3>2. channelKeys' \in SlotLists \cup {<< >>} /\ Channel!Begin(t, channelKeys')
      BY <2>3, <3>1 DEF ChannelInv, Channel!TypeOK
    <3>3. QED
      BY <2>3, <3>1, <3>2, ChannelBeginStep
  <2>4. ASSUME ChannelInv, NEW t \in SyncTasks, Channel!SyncStep(t) PROVE ChannelInv'
    BY <2>4, ChannelReadSlotStep, ChannelReadFailsStep, ChannelReadDoneStep, ChannelWriteSlotStep, ChannelWriteDoneStep,
       ChannelClearSlotStep, ChannelSyncDoneStep DEF Channel!SyncStep
  <2>5. QED
    BY <2>1, <2>2, <2>3, <2>4 DEF Channel!Next
<1>3. ChannelInv => Channel!SlotsMirrored
  BY DEF ChannelInv, Channel!SlotsMirrored
<1> DEFINE Kept == part = "channels" => ChannelInv
<1>4. Init => Kept
  BY <1>1, EachInit
<1>5. Kept /\ [Next]_vars => Kept'
  BY <1>2, ChannelAlone
<1>6. Kept => SlotsMirrored
  BY <1>3 DEF SlotsMirrored
<1> HIDE DEF Kept
<1>7. QED
  BY <1>4, <1>5, <1>6, PTL DEF Spec

-----------------------------------------------------------------------------
(***************************************************************************)
(* The LoRaWAN sessions.  Two devices never have one address at a time, so *)
(* what a join did to an address stays true of the device that has it: an  *)
(* address marked heard has that device's key, an unheard one has none.    *)
(***************************************************************************)
LoraKey == [key : RootKeys, join : Nat, dev : Nat]
LoraSession == [is : {"session"}, addr : Addrs, rolled : BOOLEAN, skey : LoraKey]
KeyEntry == [is : {"session"}, skey : LoraKey, dev : Devices]
JoinHeard == [is : {"join"}, dev : Devices, nonce : Nat, recent : BOOLEAN]

LoraType ==
    /\ Lorawan!TypeOK /\ joins \in 0 .. MaxJoins
    /\ session \in [Devices -> LoraSession \cup {Lorawan!None}]
    /\ sessionKeys \in [Addrs -> KeyEntry \cup {Lorawan!None}]
    /\ lastJoin \in JoinHeard \cup {Lorawan!None}

Has(d, a) == session[d] # Lorawan!None /\ session[d].addr = a

OneAddress == \A d, e \in Devices, a \in Addrs : Has(d, a) /\ Has(e, a) => d = e

StandingTrue ==
    \A a \in Addrs :
        /\ standing[a] = "unheard" => sessionKeys[a] = Lorawan!None
        /\ standing[a] = "heard" =>
              /\ sessionKeys[a] # Lorawan!None
              /\ \A d \in Devices : Has(d, a) => sessionKeys[a].skey = session[d].skey

LoraInv == LoraType /\ OneAddress /\ StandingTrue /\ Lorawan!ListInUse

LEMMA LoraNames ==
  /\ \A s \in LoraSession \cup KeyEntry \cup JoinHeard \cup Lorawan!Roots : s # Lorawan!None
  /\ \A r \in Lorawan!Roots : /\ r.key \in RootKeys /\ r.fields \in BOOLEAN
                              /\ r = Lorawan!Root(r.key, r.fields)
<1>1. \A s \in LoraSession \cup KeyEntry \cup JoinHeard \cup Lorawan!Roots : s.is # "none"
  BY DEF LoraSession, KeyEntry, JoinHeard, Lorawan!Roots, Lorawan!Root
<1>2. Lorawan!None.is = "none"
  BY DEF Lorawan!None
<1>3. QED
  BY <1>1, <1>2 DEF Lorawan!Roots, Lorawan!Root

LEMMA LoraInit ==
  ASSUME LoraAssumption
  PROVE  Lorawan!Init => LoraInv
<1> SUFFICES ASSUME Lorawan!Init PROVE LoraInv
  OBVIOUS
<1>1. LoraType
  BY DEF Lorawan!Init, LoraType, Lorawan!TypeOK, LoraAssumption
<1>2. OneAddress /\ StandingTrue /\ Lorawan!ListInUse
  BY DEF Lorawan!Init, OneAddress, StandingTrue, Has, Lorawan!ListInUse
<1>3. QED
  BY <1>1, <1>2 DEF LoraInv

(* An accept is decoded: only a session key is set, for an address; it is  *)
(* the device's own when the join was its own.                             *)
LEMMA AcceptDecoded ==
  ASSUME LoraAssumption, LoraInv, NEW d \in Devices, NEW a \in Addrs, asked[d] # 0,
         Lorawan!DecodeJoinAccept(d, a, asked[d])
  PROVE  /\ sessionKeys' \in [Addrs -> KeyEntry \cup {Lorawan!None}]
         /\ ~ Lorawan!Attributed => sessionKeys' = sessionKeys
         /\ Lorawan!OwnJoin(d) =>
               /\ sessionKeys'[a] # Lorawan!None
               /\ sessionKeys'[a].skey = Lorawan!AppSKey(realKey[d], asked[d], asked[d])
               /\ \A b \in Addrs \ {a} : sessionKeys'[b] = sessionKeys[b]
<1>1. CASE ~ Lorawan!Attributed
  BY <1>1 DEF Lorawan!Attributed, Lorawan!OwnJoin, Lorawan!DecodeJoinAccept, LoraInv, LoraType
<1>2. CASE Lorawan!Attributed
  <2> DEFINE guess == lastJoin.dev
  <2> DEFINE root == rootKeys[guess]
  <2>1. lastJoin \in JoinHeard /\ root \in Lorawan!Roots
    BY <1>2 DEF Lorawan!Attributed, LoraInv, LoraType, Lorawan!TypeOK, JoinHeard
  <2>2. guess \in Devices /\ lastJoin.nonce \in Nat /\ root.key \in RootKeys
    BY <2>1, LoraNames DEF JoinHeard
  <2>3. asked[d] \in Nat /\ realKey[d] \in RootKeys
    BY DEF LoraInv, LoraType, Lorawan!TypeOK, LoraAssumption
  <2>4. Lorawan!InstallAccept(d, a, asked[d])
    BY <1>2 DEF Lorawan!DecodeJoinAccept, Lorawan!Attributed
  <2>5. ASSUME NEW b \in Addrs, NEW n \in Nat, NEW entry,
               entry = [is |-> "session", skey |-> Lorawan!AppSKey(root.key, n, lastJoin.nonce),
                        dev |-> guess],
               sessionKeys' = [sessionKeys EXCEPT ![b] = entry]
        PROVE  /\ sessionKeys' \in [Addrs -> KeyEntry \cup {Lorawan!None}]
               /\ sessionKeys'[b] = entry /\ entry # Lorawan!None
               /\ \A c \in Addrs \ {b} : sessionKeys'[c] = sessionKeys[c]
    <3>1. entry \in KeyEntry
      BY <2>2, <2>5 DEF KeyEntry, LoraKey, Lorawan!AppSKey
    <3>2. sessionKeys \in [Addrs -> KeyEntry \cup {Lorawan!None}]
      BY DEF LoraInv, LoraType
    <3>3. QED
      BY <2>5, <3>1, <3>2, LoraNames
  <2>6. CASE root.key = realKey[d]
    <3> DEFINE entry == [is |-> "session",
                         skey |-> Lorawan!AppSKey(root.key, asked[d], lastJoin.nonce),
                         dev |-> guess]
    <3>1. sessionKeys' = [sessionKeys EXCEPT ![a] = entry]
      BY <2>4, <2>6 DEF Lorawan!InstallAccept, Lorawan!SetSessionKey
    <3>2. /\ sessionKeys' \in [Addrs -> KeyEntry \cup {Lorawan!None}]
          /\ sessionKeys'[a] = entry /\ entry # Lorawan!None
          /\ \A c \in Addrs \ {a} : sessionKeys'[c] = sessionKeys[c]
      BY <2>3, <2>5, <3>1
    <3>3. entry.skey = Lorawan!AppSKey(root.key, asked[d], lastJoin.nonce)
      OBVIOUS
    <3> HIDE DEF entry
    <3>4. Lorawan!OwnJoin(d) => lastJoin.nonce = asked[d]
      BY DEF Lorawan!OwnJoin
    <3>5. QED
      BY <1>2, <2>6, <3>2, <3>3, <3>4
  <2>7. CASE root.key # realKey[d]
    <3>1. PICK noise \in Addrs :
             sessionKeys' = [sessionKeys EXCEPT ![noise] =
                [is |-> "session", skey |-> Lorawan!AppSKey(root.key, 0, lastJoin.nonce),
                 dev |-> guess]]
      BY <2>4, <2>7 DEF Lorawan!InstallAccept, Lorawan!SetSessionKey
    <3>2. sessionKeys' \in [Addrs -> KeyEntry \cup {Lorawan!None}]
      BY <2>5, <3>1
    <3>3. ~ Lorawan!OwnJoin(d)
      BY <2>7 DEF Lorawan!OwnJoin
    <3>4. QED
      BY <1>2, <3>2, <3>3
  <2>8. QED
    BY <2>6, <2>7
<1>3. QED
  BY <1>1, <1>2

(* A device joins.                                                         *)
LEMMA JoinAcceptStep ==
  ASSUME LoraAssumption, LoraInv, NEW d \in Devices, NEW a \in Addrs, Lorawan!JoinAccept(d, a)
  PROVE  LoraInv'
<1> DEFINE own == [is |-> "session", addr |-> a, rolled |-> FALSE,
                   skey |-> Lorawan!AppSKey(realKey[d], asked[d], asked[d])]
<1>1. /\ asked[d] # 0 /\ session' = [session EXCEPT ![d] = own]
      /\ asked' = [asked EXCEPT ![d] = 0]
      /\ \A e \in Devices \ {d} : session[e] # Lorawan!None => session[e].addr # a
      /\ UNCHANGED << realKey, joins, devices, devicesDisk, rootKeys, lastJoin, leftover >>
  BY DEF Lorawan!JoinAccept
<1>2. LoraType
  BY DEF LoraInv
<1>3. own \in LoraSession /\ own.addr = a
      /\ own.skey = Lorawan!AppSKey(realKey[d], asked[d], asked[d])
  BY <1>2 DEF LoraType, Lorawan!TypeOK, LoraAssumption, LoraSession, LoraKey, Lorawan!AppSKey
<1>4. own # Lorawan!None
  BY <1>3, LoraNames
<1> HIDE DEF own
<1>5. /\ session' \in [Devices -> LoraSession \cup {Lorawan!None}]
      /\ session'[d] = own /\ \A e \in Devices \ {d} : session'[e] = session[e]
  BY <1>1, <1>2, <1>3 DEF LoraType
<1>6. OneAddress'
  BY <1>1, <1>3, <1>4, <1>5 DEF LoraInv, OneAddress, Has
<1>7. asked' \in [Devices -> 0 .. MaxJoins]
  BY <1>1, <1>2 DEF LoraType, Lorawan!TypeOK, LoraAssumption
<1>8. Lorawan!ListInUse'
  BY <1>1 DEF LoraInv, Lorawan!ListInUse
<1>9. ASSUME sessionKeys' \in [Addrs -> KeyEntry \cup {Lorawan!None}],
             standing' \in [Addrs -> {"unheard", "heard", "doubtful"}]
      PROVE  LoraType'
  <2>1. \A b \in Addrs : sessionKeys'[b] # Lorawan!None => sessionKeys'[b].dev \in Devices
    BY <1>9 DEF KeyEntry
  <2>2. QED
    BY <1>1, <1>2, <1>5, <1>7, <1>9, <2>1 DEF LoraType, Lorawan!TypeOK
(* An address whose key stays and which the device neither has nor had.    *)
<1>10. ASSUME NEW b \in Addrs, b # a, sessionKeys'[b] = sessionKeys[b], standing'[b] = standing[b]
       PROVE  /\ standing'[b] = "unheard" => sessionKeys'[b] = Lorawan!None
              /\ standing'[b] = "heard" =>
                    /\ sessionKeys'[b] # Lorawan!None
                    /\ \A e \in Devices : Has(e, b)' => sessionKeys'[b].skey = session'[e].skey
  <2>1. \A e \in Devices : Has(e, b)' => e # d /\ Has(e, b)
    BY <1>3, <1>5, <1>10 DEF Has
  <2>2. QED
    BY <1>5, <1>10, <2>1 DEF LoraInv, StandingTrue
<1>11. standing \in [Addrs -> {"unheard", "heard", "doubtful"}]
  BY <1>2 DEF LoraType, Lorawan!TypeOK
<1>12. CASE /\ Lorawan!DecodeJoinAccept(d, a, asked[d])
            /\ standing' = [b \in Addrs |->
                  CASE b = a /\ Lorawan!OwnJoin(d) -> "heard"
                    [] /\ b = a /\ ~ Lorawan!OwnJoin(d)
                       /\ Lorawan!Attributed \/ sessionKeys[a] # Lorawan!None -> "doubtful"
                    [] b # a /\ ~ Lorawan!OwnJoin(d) /\ Lorawan!Attributed
                         /\ sessionKeys'[b] # sessionKeys[b] -> "doubtful"
                    [] OTHER -> standing[b]]
  <2>1. /\ sessionKeys' \in [Addrs -> KeyEntry \cup {Lorawan!None}]
        /\ ~ Lorawan!Attributed => sessionKeys' = sessionKeys
        /\ Lorawan!OwnJoin(d) =>
              /\ sessionKeys'[a] # Lorawan!None
              /\ sessionKeys'[a].skey = Lorawan!AppSKey(realKey[d], asked[d], asked[d])
              /\ \A b \in Addrs \ {a} : sessionKeys'[b] = sessionKeys[b]
    BY <1>1, <1>12, AcceptDecoded
  <2>2. standing' \in [Addrs -> {"unheard", "heard", "doubtful"}]
    BY <1>11, <1>12
  <2>3. CASE Lorawan!OwnJoin(d)
    <3>1. standing'[a] = "heard" /\ \A b \in Addrs \ {a} : standing'[b] = standing[b]
      BY <1>12, <2>3
    <3>2. \A e \in Devices : Has(e, a)' => e = d
      BY <1>1, <1>5 DEF Has
    <3>3. sessionKeys'[a] # Lorawan!None /\ sessionKeys'[a].skey = session'[d].skey
      BY <1>3, <1>5, <2>1, <2>3
    <3>4. StandingTrue'
      BY <1>10, <2>1, <2>3, <3>1, <3>2, <3>3 DEF StandingTrue
    <3>5. QED
      BY <1>6, <1>8, <1>9, <2>1, <2>2, <3>4 DEF LoraInv
  <2>4. CASE ~ Lorawan!OwnJoin(d)
    <3>1. CASE Lorawan!Attributed \/ sessionKeys[a] # Lorawan!None
      <4>1. standing'[a] = "doubtful"
        BY <1>12, <2>4, <3>1
      <4>2. \A b \in Addrs \ {a} : \/ standing'[b] = "doubtful"
                                   \/ standing'[b] = standing[b] /\ sessionKeys'[b] = sessionKeys[b]
        BY <1>12, <2>1, <2>4
      <4>3. StandingTrue'
        BY <1>10, <4>1, <4>2 DEF StandingTrue
      <4>4. QED
        BY <1>6, <1>8, <1>9, <2>1, <2>2, <4>3 DEF LoraInv
    <3>2. CASE ~ Lorawan!Attributed /\ sessionKeys[a] = Lorawan!None
      <4>1. \A b \in Addrs : standing'[b] = standing[b] /\ sessionKeys'[b] = sessionKeys[b]
        BY <1>12, <2>1, <2>4, <3>2
      <4>2. standing[a] # "heard" /\ sessionKeys'[a] = Lorawan!None
        BY <3>2, <4>1 DEF LoraInv, StandingTrue
      <4>3. StandingTrue'
        BY <1>10, <4>1, <4>2 DEF StandingTrue
      <4>4. QED
        BY <1>6, <1>8, <1>9, <2>1, <2>2, <4>3 DEF LoraInv
    <3>3. QED
      BY <3>1, <3>2
  <2>5. QED
    BY <2>3, <2>4
<1>13. CASE /\ standing' = IF sessionKeys[a] = Lorawan!None THEN standing
                           ELSE [standing EXCEPT ![a] = "doubtful"]
            /\ UNCHANGED sessionKeys
  <2>1. /\ standing' \in [Addrs -> {"unheard", "heard", "doubtful"}]
        /\ \A b \in Addrs \ {a} : standing'[b] = standing[b]
        /\ sessionKeys[a] = Lorawan!None => standing'[a] = standing[a]
        /\ sessionKeys[a] # Lorawan!None => standing'[a] = "doubtful"
    BY <1>11, <1>13
  <2>2. sessionKeys[a] = Lorawan!None => standing[a] # "heard"
    BY DEF LoraInv, StandingTrue
  <2>3. StandingTrue'
    BY <1>10, <1>13, <2>1, <2>2 DEF StandingTrue
  <2>4. sessionKeys' \in [Addrs -> KeyEntry \cup {Lorawan!None}]
    BY <1>2, <1>13 DEF LoraType
  <2>5. QED
    BY <1>6, <1>8, <1>9, <2>1, <2>3, <2>4 DEF LoraInv
<1>14. QED
  BY <1>12, <1>13 DEF Lorawan!JoinAccept

(* A new list: a device is in the key store as in the file unless what was *)
(* taken off the list is left over.                                        *)
LEMMA DeviceListStep ==
  ASSUME LoraAssumption, LoraInv, NEW list \in DeviceLists, NEW isSaved \in BOOLEAN,
         Lorawan!UpdateDevices(list, isSaved)
  PROVE  LoraInv'
<1>1. UNCHANGED << realKey, asked, session, joins, sessionKeys, lastJoin, standing >>
  BY DEF Lorawan!UpdateDevices
<1>2. list \in [Devices -> Lorawan!Roots \cup {Lorawan!None}]
      /\ rootKeys \in [Devices -> Lorawan!Roots \cup {Lorawan!None}]
      /\ devicesDisk \in [Devices -> Lorawan!Roots \cup {Lorawan!None}]
  BY DEF LoraAssumption, LoraInv, LoraType, Lorawan!TypeOK
<1>3. /\ devices' \in [Devices -> Lorawan!Roots \cup {Lorawan!None}]
      /\ devicesDisk' \in [Devices -> Lorawan!Roots \cup {Lorawan!None}]
      /\ rootKeys' \in [Devices -> Lorawan!Roots \cup {Lorawan!None}]
      /\ leftover' \subseteq Devices /\ Lorawan!ListInUse'
  <2>1. devices' = list
    BY DEF Lorawan!UpdateDevices, Lorawan!PutDevices
  <2>2. CASE ~ isSaved
    <3>1. UNCHANGED << devicesDisk, rootKeys, leftover >>
      BY <2>2 DEF Lorawan!UpdateDevices, Lorawan!PutDevices
    <3>2. QED
      BY <1>2, <2>1, <3>1 DEF LoraInv, LoraType, Lorawan!TypeOK, Lorawan!ListInUse
  <2>3. CASE isSaved
    <3>1. /\ devicesDisk' = list
          /\ rootKeys' = [d \in Devices |-> Lorawan!AddDevice(rootKeys[d], list[d])]
          /\ leftover' = { d \in Devices :
                            \/ list[d] = Lorawan!None /\ rootKeys[d] # Lorawan!None
                            \/ /\ list[d] # Lorawan!None /\ rootKeys[d] # Lorawan!None
                               /\ rootKeys[d].fields /\ ~list[d].fields }
      BY <2>3 DEF Lorawan!UpdateDevices, Lorawan!PutDevices
    <3>2. ASSUME NEW d \in Devices
          PROVE  /\ rootKeys'[d] \in Lorawan!Roots \cup {Lorawan!None}
                 /\ d \notin leftover' => rootKeys'[d] = list[d]
      <4>1. rootKeys'[d] = Lorawan!AddDevice(rootKeys[d], list[d])
        BY <3>1
      <4>2. CASE list[d] = Lorawan!None
        BY <1>2, <3>1, <4>1, <4>2 DEF Lorawan!AddDevice
      <4>3. CASE list[d] # Lorawan!None /\ (rootKeys[d] = Lorawan!None \/ list[d].fields)
        BY <1>2, <4>1, <4>3 DEF Lorawan!AddDevice
      <4>4. CASE list[d] # Lorawan!None /\ rootKeys[d] # Lorawan!None /\ ~ list[d].fields
        <5>1. list[d] \in Lorawan!Roots /\ rootKeys[d] \in Lorawan!Roots
          BY <1>2, <4>4
        <5>2. rootKeys'[d] = Lorawan!Root(list[d].key, rootKeys[d].fields)
          BY <4>1, <4>4 DEF Lorawan!AddDevice
        <5>3. rootKeys'[d] \in Lorawan!Roots
          BY <5>1, <5>2, LoraNames DEF Lorawan!Roots
        <5>4. d \notin leftover' => rootKeys[d].fields = FALSE /\ list[d].fields = FALSE
          BY <3>1, <4>4, <5>1, LoraNames
        <5>5. list[d] = Lorawan!Root(list[d].key, list[d].fields)
          BY <5>1, LoraNames
        <5>6. QED
          BY <5>2, <5>3, <5>4, <5>5
      <4>5. QED
        BY <4>2, <4>3, <4>4
    <3>3. rootKeys' \in [Devices -> Lorawan!Roots \cup {Lorawan!None}]
      BY <3>1, <3>2
    <3>4. QED
      BY <1>2, <2>1, <3>1, <3>2, <3>3 DEF Lorawan!ListInUse
  <2>4. QED
    BY <2>2, <2>3
<1>4. LoraType'
  BY <1>1, <1>3 DEF LoraInv, LoraType, Lorawan!TypeOK
<1>5. OneAddress' /\ StandingTrue'
  BY <1>1 DEF LoraInv, OneAddress, StandingTrue, Has
<1>6. QED
  BY <1>3, <1>4, <1>5 DEF LoraInv

(* The steps that touch neither a key nor an address.                      *)
LEMMA OtherLoraSteps ==
  ASSUME LoraAssumption, LoraInv
  PROVE  /\ \A d \in Devices : Lorawan!JoinRequest(d) \/ Lorawan!CounterRolls(d) => LoraInv'
         /\ \A d \in Devices, k \in RootKeys : Lorawan!Register(d, k) => LoraInv'
         /\ Lorawan!WindowPasses \/ Lorawan!Restart \/ UNCHANGED lorawanVars => LoraInv'
<1>0. LoraType /\ MaxJoins \in Nat
  BY DEF LoraInv, LoraAssumption
<1>1. ASSUME LoraType', UNCHANGED << session, sessionKeys, standing, rootKeys, devicesDisk, leftover >>
      PROVE  LoraInv'
  BY <1>1 DEF LoraInv, OneAddress, StandingTrue, Has, Lorawan!ListInUse
<1>2. ASSUME NEW d \in Devices, Lorawan!JoinRequest(d) PROVE LoraInv'
  <2>1. joins' \in 0 .. MaxJoins /\ asked' \in [Devices -> 0 .. MaxJoins]
    BY <1>0, <1>2 DEF Lorawan!JoinRequest, LoraType, Lorawan!TypeOK
  <2>2. lastJoin' \in JoinHeard \cup {Lorawan!None}
    <3>1. joins' \in Nat
      BY <1>0, <2>1
    <3>2. Lorawan!Remember(d, joins') \in JoinHeard
      BY <3>1 DEF Lorawan!Remember, JoinHeard
    <3>3. lastJoin' = Lorawan!Remember(d, joins') \/ lastJoin' = lastJoin
      BY <1>2 DEF Lorawan!JoinRequest
    <3>4. QED
      BY <1>0, <3>2, <3>3 DEF LoraType
  <2>3. LoraType'
    BY <1>0, <1>2, <2>1, <2>2 DEF Lorawan!JoinRequest, LoraType, Lorawan!TypeOK
  <2>4. QED
    BY <1>1, <1>2, <2>3 DEF Lorawan!JoinRequest
<1>3. ASSUME NEW d \in Devices, Lorawan!CounterRolls(d) PROVE LoraInv'
  <2>1. /\ session[d] \in LoraSession /\ session' = [session EXCEPT ![d].rolled = TRUE]
        /\ UNCHANGED << realKey, asked, joins, devices, devicesDisk, rootKeys,
                        sessionKeys, lastJoin, standing, leftover >>
    BY <1>0, <1>3 DEF Lorawan!CounterRolls, LoraType
  <2>2. session \in [Devices -> LoraSession \cup {Lorawan!None}]
    BY <1>0 DEF LoraType
  <2>3. /\ session'[d] \in LoraSession
        /\ session'[d].addr = session[d].addr /\ session'[d].skey = session[d].skey
    BY <2>1, <2>2 DEF LoraSession
  <2>4. session' \in [Devices -> LoraSession \cup {Lorawan!None}]
        /\ \A e \in Devices \ {d} : session'[e] = session[e]
    BY <2>1, <2>2, <2>3
  <2>5. \A e \in Devices, a \in Addrs : (Has(e, a)' <=> Has(e, a)) /\ (Has(e, a) => session'[e].skey = session[e].skey)
    BY <2>1, <2>3, <2>4, LoraNames DEF Has
  <2>6. OneAddress' /\ StandingTrue' /\ Lorawan!ListInUse'
    BY <2>1, <2>5 DEF LoraInv, OneAddress, StandingTrue, Lorawan!ListInUse
  <2>7. LoraType'
    BY <1>0, <2>1, <2>4 DEF LoraType, Lorawan!TypeOK
  <2>8. QED
    BY <2>6, <2>7 DEF LoraInv
<1>4. ASSUME NEW d \in Devices, NEW k \in RootKeys, Lorawan!Register(d, k) PROVE LoraInv'
  <2>1. LoraType'
    BY <1>0, <1>4 DEF Lorawan!Register, LoraType, Lorawan!TypeOK
  <2>2. QED
    BY <1>1, <1>4, <2>1 DEF Lorawan!Register
<1>5. CASE Lorawan!WindowPasses
  <2>1. lastJoin' \in JoinHeard
    BY <1>0, <1>5 DEF Lorawan!WindowPasses, LoraType, JoinHeard
  <2>2. asked' \in [Devices -> 0 .. MaxJoins]
    BY <1>0, <1>5 DEF Lorawan!WindowPasses, LoraType, Lorawan!TypeOK
  <2>3. LoraType'
    BY <1>0, <1>5, <2>1, <2>2 DEF Lorawan!WindowPasses, LoraType, Lorawan!TypeOK
  <2>4. QED
    BY <1>1, <1>5, <2>3 DEF Lorawan!WindowPasses
<1>6. CASE Lorawan!Restart
  <2>1. LoraType'
    BY <1>0, <1>6 DEF Lorawan!Restart, LoraType, Lorawan!TypeOK
  <2>2. OneAddress' /\ StandingTrue' /\ Lorawan!ListInUse'
    BY <1>6 DEF Lorawan!Restart, LoraInv, OneAddress, StandingTrue, Has, Lorawan!ListInUse
  <2>3. QED
    BY <2>1, <2>2 DEF LoraInv
<1>7. CASE UNCHANGED lorawanVars
  <2>1. LoraType'
    BY <1>0, <1>7 DEF lorawanVars, LoraType, Lorawan!TypeOK
  <2>2. QED
    BY <1>1, <1>7, <2>1 DEF lorawanVars
<1>8. QED
  BY <1>2, <1>3, <1>4, <1>5, <1>6, <1>7

LEMMA LoraReads == LoraInv => Lorawan!HeardJoinReads /\ Lorawan!UnheardStaysClosed /\ Lorawan!ListInUse
<1> SUFFICES ASSUME LoraInv PROVE Lorawan!HeardJoinReads /\ Lorawan!UnheardStaysClosed
  BY DEF LoraInv
<1>1. ASSUME NEW d \in Devices, session[d] # Lorawan!None
      PROVE  session[d].addr \in Addrs /\ Has(d, session[d].addr)
  BY <1>1 DEF LoraInv, LoraType, LoraSession, Has
<1>2. Lorawan!HeardJoinReads
  BY <1>1 DEF LoraInv, StandingTrue, Lorawan!HeardJoinReads, Lorawan!Shown
<1>3. Lorawan!UnheardStaysClosed
  BY <1>1 DEF LoraInv, StandingTrue, Lorawan!UnheardStaysClosed, Lorawan!Shown
<1>4. QED
  BY <1>2, <1>3

(* For any devices, addresses and device lists, and however joins cross,   *)
(* are missed or follow one another: a device whose join was overheard is  *)
(* read, one whose join was not is closed, and the keys in use are the     *)
(* saved ones but for what was taken off the list since the start.         *)
THEOREM LorawanReads == Spec => []LorawanKeysRight
<1> USE LoraAssumption
<1> DEFINE Kept == part = "lorawan" => LoraInv
<1>1. Init => Kept
  BY LoraInit, EachInit
<1>2. Kept /\ [Next]_vars => Kept'
  <2>1. ASSUME LoraInv, [Lorawan!Next]_lorawanVars PROVE LoraInv'
    BY <2>1, JoinAcceptStep, DeviceListStep, OtherLoraSteps DEF Lorawan!Next
  <2>2. QED
    BY <2>1, LorawanAlone
<1>3. Kept => LorawanKeysRight
  BY LoraReads DEF LorawanKeysRight
<1> HIDE DEF Kept
<1>4. QED
  BY <1>1, <1>2, <1>3, PTL DEF Spec

-----------------------------------------------------------------------------
(***************************************************************************)
(* The chat.  Of a message whose savers never met and whose row was not    *)
(* deleted there is one saver at most, and none of them inserts while it   *)
(* has a row.  What is found by an id stays shown or wiped.  A task files  *)
(* its packet rightly for the channel list it was received under.          *)
(***************************************************************************)
Busy(t) == task[t].at # "idle"
ShownOrWiped == wiped \cup {r.msg : r \in rows}

IsRow(r) == r = [n |-> r.n, msg |-> r.msg, conv |-> r.conv, stick |-> r.stick,
                 when |-> r.when, count |-> r.count]
IsTask(x) == x = [at |-> x.at, msg |-> x.msg, stick |-> x.stick, conv |-> x.conv,
                  found |-> x.found, when |-> x.when]

ChatShape ==
    /\ configured \in ChatLists \cup {FirstChat} /\ listEdits \in Nat
    /\ \A r \in rows : IsRow(r)
    /\ task = [t \in Message!Savers |-> task[t]]
    /\ \A t \in Message!Savers : Busy(t) => IsTask(task[t])
    /\ sending.at # "idle" => sending = [at |-> sending.at, msg |-> sending.msg]
    /\ sending.at \in {"idle", "radio", "save"}

(* The maps are those of the lists they were made from.                    *)
MapsRight ==
    /\ hashMap = Message!Rebuild(configured) /\ nameMap = Message!Names(FirstChat)
    /\ listEdits = 0 => configured = FirstChat

(* What is ours was on the air.                                            *)
OursAired ==
    /\ \A r \in rows : r.msg.from = Message!Ours => r.msg \in aired
    /\ \A t \in Message!Savers : Busy(t) /\ task[t].msg.from = Message!Ours => task[t].msg \in aired
    /\ sending.at = "radio" => aired = {}
    /\ sending.at = "save" => sending.msg \in aired
    /\ sending.at # "idle" => sending.msg.from = Message!Ours /\ sending.msg.to \in Peers
    /\ \A msg \in aired : msg.from = Message!Ours /\ msg.to \in Peers

(* One row and one saver, for a message that is not excepted.              *)
Single(msg) ==
    /\ \A r, s \in rows : r.msg = msg /\ s.msg = msg => r = s
    /\ \A t, u \in Message!Savers : Busy(t) /\ Busy(u) /\ task[t].msg = msg /\ task[u].msg = msg => t = u
    /\ sending.at = "save" /\ sending.msg = msg =>
          /\ \A t \in Message!Savers : Busy(t) => task[t].msg # msg
          /\ \A r \in rows : r.msg # msg
    /\ \A t \in Message!Savers : task[t].at = "insert" /\ task[t].msg = msg =>
          \A r \in rows : r.msg # msg

SavedOnce == \A msg : msg \notin met \cup wiped => Single(msg)

(* Filed under the right channel, for the list in force.                   *)
FiledFor(x) ==
    /\ x.when \in Nat /\ x.when <= listEdits
    /\ (/\ x.conv[1] = "channel"
        /\ x.when = listEdits /\ (x.stick => listEdits = 0)
        /\ ~ (c2 \in Message!Listed(configured) /\ Message!HashOf(x.msg.to) = c0))
       => IF x.conv[2] = 0 THEN x.msg.to = c0 ELSE x.msg.to = configured[x.conv[2]]

AllFiled ==
    /\ \A r \in rows : FiledFor(r)
    /\ \A t \in Message!Savers : Busy(t) => FiledFor(task[t])

Found ==
    /\ Message!HeardIsShown
    /\ \A t \in Message!Savers : task[t].at = "bump" =>
          \E shown \in ShownOrWiped : shown.id = task[t].msg.id

ChatInv == ChatShape /\ MapsRight /\ OursAired /\ SavedOnce /\ AllFiled /\ Found

(* A bounded set of naturals has a greatest element: the later index wins  *)
(* a shared hash.                                                          *)
LEMMA GreatestNat ==
  ASSUME NEW n \in Nat, NEW T \in SUBSET (1 .. n), T # {}
  PROVE  \E m \in T : \A k \in T : k <= m
<1> DEFINE Less == {ss \in Nat \X Nat : ss[1] < ss[2]}
<1> DEFINE U == {n - k : k \in T}
<1>1. IsWellFoundedOn(Less, Nat)
  BY NatLessThanWellFounded DEF OpToRel
<1>2. U \subseteq Nat /\ U # {}
  <2>1. \A k \in T : k \in Nat /\ k <= n
    OBVIOUS
  <2>2. \A k \in T : n - k \in Nat
    BY <2>1
  <2>3. PICK k \in T : TRUE
    OBVIOUS
  <2>4. n - k \in U
    BY <2>3
  <2>5. QED
    BY <2>2, <2>4
<1> HIDE DEF Less
<1>3. PICK m \in U : \A k \in U : ~ (<< k, m >> \in Less)
  <2> HIDE DEF U
  <2> QED
    BY <1>1, <1>2, WFMin
<1>4. ASSUME NEW k \in U, k < m PROVE FALSE
  <2>1. << k, m >> \in Nat \X Nat /\ << k, m >>[1] < << k, m >>[2]
    BY <1>2, <1>3, <1>4
  <2>2. << k, m >> \in Less
    BY <2>1 DEF Less
  <2>3. QED
    BY <1>3, <2>2
<1>5. PICK j \in T : m = n - j
  BY <1>3
<1>6. ASSUME NEW k \in T PROVE k <= j
  <2>1. n - k \in U /\ k \in Nat /\ j \in Nat
    OBVIOUS
  <2>2. ~ (n - k < n - j)
    BY <1>4, <1>5, <2>1
  <2>3. QED
    BY <2>1, <2>2
<1>7. QED
  BY <1>6

(* What rebuild() and the name map give for a channel that is listed.      *)
LEMMA HashIndex ==
  ASSUME NEW list \in Seq(ChatChannels), NEW h \in DOMAIN Message!Rebuild(list)
  PROVE  \/ /\ Message!Rebuild(list)[h] = 0 /\ h = c0
            /\ \A i \in 1 .. Len(list) : Message!HashOf(list[i]) # h
         \/ /\ Message!Rebuild(list)[h] \in 1 .. Len(list)
            /\ Message!HashOf(list[Message!Rebuild(list)[h]]) = h
<1> DEFINE same == {i \in DOMAIN list : Message!HashOf(list[i]) = h}
<1>1. DOMAIN list = 1 .. Len(list) /\ Len(list) \in Nat
  OBVIOUS
<1>2. h = c0 \/ h \in {Message!HashOf(c) : c \in Message!Listed(list)}
  BY DEF Message!Rebuild
<1>3. Message!Rebuild(list)[h] = IF same = {} THEN 0 ELSE CHOOSE i \in same : \A j \in same : j <= i
  BY DEF Message!Rebuild
<1>4. CASE same = {}
  <2>1. \A i \in 1 .. Len(list) : Message!HashOf(list[i]) # h
    BY <1>1, <1>4
  <2>2. h = c0
    BY <1>1, <1>2, <2>1 DEF Message!Listed
  <2>3. QED
    BY <1>3, <1>4, <2>1, <2>2
<1>5. CASE same # {}
  <2>1. \E i \in same : \A j \in same : j <= i
    <3>1. same \in SUBSET (1 .. Len(list))
      BY <1>1
    <3> HIDE DEF same
    <3>2. QED
      BY <1>1, <1>5, <3>1, GreatestNat
  <2>2. Message!Rebuild(list)[h] \in same
    BY <1>3, <1>5, <2>1
  <2>3. QED
    BY <1>1, <2>2
<1>6. QED
  BY <1>4, <1>5

LEMMA NameIndex ==
  ASSUME NEW list \in Seq(ChatChannels), NEW c \in DOMAIN Message!Names(list)
  PROVE  IF Message!Names(list)[c] = 0 THEN c = c0 ELSE c = list[Message!Names(list)[c]]
<1>1. DOMAIN list = 1 .. Len(list) /\ Len(list) \in Nat
  OBVIOUS
<1>2. Message!Names(list)[c] = IF c = c0 THEN 0 ELSE Message!IndexOf(list, c)
  BY DEF Message!Names
<1>3. CASE c = c0
  BY <1>2, <1>3
<1>4. CASE c # c0
  <2>1. \E i \in DOMAIN list : list[i] = c
    BY <1>4 DEF Message!Names, Message!Listed
  <2>2. Message!IndexOf(list, c) \in DOMAIN list /\ list[Message!IndexOf(list, c)] = c
    BY <2>1 DEF Message!IndexOf
  <2>3. QED
    BY <1>1, <1>2, <1>4, <2>2
<1>5. QED
  BY <1>3, <1>4

LEMMA ChatInit ==
  ASSUME ChatAssumption
  PROVE  Message!Init => ChatInv
<1> SUFFICES ASSUME Message!Init PROVE ChatInv
  OBVIOUS
<1>1. \A t \in Message!Savers : task[t].at = "idle"
  BY DEF Message!Init, Message!Idle
<1>2. ChatShape /\ MapsRight
  BY <1>1 DEF Message!Init, ChatShape, MapsRight, Busy, Message!Idle
<1>3. OursAired /\ AllFiled
  BY <1>1 DEF Message!Init, OursAired, AllFiled, Busy, Message!Idle
<1>4. SavedOnce
  BY <1>1 DEF Message!Init, SavedOnce, Single, Busy, Message!Idle
<1>5. Found
  BY <1>1 DEF Message!Init, Found, Message!HeardIsShown
<1>6. QED
  BY <1>2, <1>3, <1>4, <1>5 DEF ChatInv

(* A packet is filed rightly when it is received.                          *)
LEMMA FiledWhenHeard ==
  ASSUME ChatAssumption, ChatInv, NEW stick \in BOOLEAN, NEW msg \in Message!Audible(stick),
         NEW conv, conv = Message!Conversation(msg, stick), conv[1] = "channel",
         stick => listEdits = 0,
         ~ (c2 \in Message!Listed(configured) /\ Message!HashOf(msg.to) = c0)
  PROVE  IF conv[2] = 0 THEN msg.to = c0 ELSE msg.to = configured[conv[2]]
<1>1. configured \in Seq(ChatChannels) /\ FirstChat \in Seq(ChatChannels)
  BY DEF ChatAssumption, ChatInv, ChatShape
<1>2. msg.to \notin {Message!Ours} \cup Peers
  BY DEF Message!Conversation
<1>3. CASE stick
  <2>1. conv = Message!ByName(msg.to)
    BY <1>2, <1>3 DEF Message!Conversation
  <2>2. msg.to \in DOMAIN nameMap /\ conv[2] = nameMap[msg.to]
    BY <2>1 DEF Message!ByName
  <2>3. nameMap = Message!Names(FirstChat) /\ configured = FirstChat
    BY <1>3 DEF ChatInv, MapsRight
  <2>4. QED
    BY <1>1, <2>2, <2>3, NameIndex
<1>4. CASE ~ stick
  <2> DEFINE h == Message!HashOf(msg.to)
  <2>1. conv = Message!Lookup(h)
    BY <1>2, <1>4 DEF Message!Conversation
  <2>2. h \in DOMAIN hashMap /\ conv[2] = hashMap[h]
    BY <2>1 DEF Message!Lookup
  <2>3. hashMap = Message!Rebuild(configured)
    BY DEF ChatInv, MapsRight
  <2>4. msg.to \in {c0, c3} \cup Message!Listed(configured)
    <3>1. msg \in Message!Direct \cup Message!OnRadio
      BY <1>4 DEF Message!Audible
    <3>2. msg \notin Message!Direct
      BY <1>2 DEF Message!Direct, ChatInv, OursAired
    <3>3. QED
      BY <3>1, <3>2 DEF Message!OnRadio
  <2>5. DOMAIN configured = 1 .. Len(configured)
    BY <1>1
  <2>6. CASE conv[2] = 0
    <3>1. h = c0 /\ \A i \in 1 .. Len(configured) : Message!HashOf(configured[i]) # h
      BY <1>1, <2>2, <2>3, <2>6, HashIndex
    <3>2. msg.to \notin Message!Listed(configured)
      BY <2>5, <3>1 DEF Message!Listed
    <3>3. QED
      BY <2>4, <2>6, <3>1, <3>2 DEF ChatAssumption, Message!HashOf
  <2>7. CASE conv[2] # 0
    <3>1. conv[2] \in 1 .. Len(configured) /\ Message!HashOf(configured[conv[2]]) = h
      BY <1>1, <2>2, <2>3, <2>7, HashIndex
    <3>2. configured[conv[2]] \in Message!Listed(configured)
      BY <2>5, <3>1 DEF Message!Listed
    <3>3. msg.to = configured[conv[2]]
      BY <2>4, <3>1, <3>2 DEF ChatAssumption, Message!HashOf
    <3>4. QED
      BY <2>7, <3>3
  <2>8. QED
    BY <2>6, <2>7
<1>5. QED
  BY <1>3, <1>4

(* A text is received: its task starts with a SELECT.                      *)
LEMMA ReceiveStep ==
  ASSUME ChatAssumption, ChatInv, NEW t \in Message!Savers, NEW stick \in BOOLEAN,
         NEW msg \in Message!Audible(stick), Message!Receive(t, msg, stick)
  PROVE  ChatInv'
<1> DEFINE new == [at |-> "select", msg |-> msg, stick |-> stick,
                   conv |-> Message!Conversation(msg, stick), found |-> {}, when |-> listEdits]
<1>1. /\ task[t].at = "idle" /\ task' = [task EXCEPT ![t] = new]
      /\ seenTexts' = seenTexts \cup {msg}
      /\ met' = IF msg \in Message!Saving THEN met \cup {msg} ELSE met
      /\ UNCHANGED << configured, hashMap, nameMap, rows, sending, listEdits, wiped, aired >>
  BY DEF Message!Receive
<1>2. /\ ChatShape /\ MapsRight /\ OursAired /\ SavedOnce /\ AllFiled /\ Found
  BY DEF ChatInv
<1>3. /\ new.at = "select" /\ new.msg = msg /\ new.stick = stick /\ new.when = listEdits
      /\ new.conv = Message!Conversation(msg, stick) /\ IsTask(new)
  BY DEF IsTask
<1> HIDE DEF new
<1>4. /\ task' = [u \in Message!Savers |-> task'[u]]
      /\ task'[t] = new /\ \A u \in Message!Savers \ {t} : task'[u] = task[u]
  BY <1>1, <1>2 DEF ChatShape
<1>5. ChatShape'
  BY <1>1, <1>2, <1>3, <1>4 DEF ChatShape, Busy
<1>6. MapsRight'
  BY <1>1, <1>2 DEF MapsRight
<1>7. OursAired'
  <2>1. msg.from = Message!Ours => msg \in aired
    <3>1. msg \in Message!OnStick \/ msg \in Message!Direct \/ msg \in Message!OnRadio
      BY DEF Message!Audible
    <3>2. msg.from \in Peers \/ msg \in aired
      BY <3>1 DEF Message!OnStick, Message!Direct, Message!OnRadio
    <3>3. QED
      BY <3>2 DEF ChatAssumption
  <2>2. QED
    BY <1>1, <1>2, <1>3, <1>4, <2>1 DEF OursAired, Busy
<1>8. SavedOnce'
  <2>1. SUFFICES ASSUME NEW m, m \notin met' \cup wiped' PROVE Single(m)'
    BY DEF SavedOnce
  <2>2. Single(m) /\ (m = msg => msg \notin Message!Saving)
    BY <1>1, <1>2, <2>1 DEF SavedOnce
  <2>3. m = msg => /\ \A u \in Message!Savers : Busy(u) => task[u].msg # m
                   /\ sending.at = "save" => sending.msg # m
    BY <2>2 DEF Message!Saving, Busy
  <2>4. QED
    BY <1>1, <1>3, <1>4, <2>2, <2>3 DEF Single, Busy
<1>9. AllFiled'
  <2>1. FiledFor(new)
    BY <1>2, <1>3, FiledWhenHeard DEF FiledFor, ChatShape
  <2>2. \A x : FiledFor(x)' <=> FiledFor(x)
    BY <1>1 DEF FiledFor
  <2>3. QED
    BY <1>1, <1>2, <1>4, <2>1, <2>2 DEF AllFiled, Busy, FiledFor
<1>10. Found'
  <2>1. ShownOrWiped' = ShownOrWiped
    BY <1>1 DEF ShownOrWiped
  <2>2. Message!Saving' = Message!Saving \cup {msg}
    BY <1>1, <1>3, <1>4 DEF Message!Saving
  <2>3. \A m \in seenTexts' \ Message!Saving' : \E shown \in ShownOrWiped : shown.id = m.id
    BY <1>1, <1>2, <2>2 DEF Found, Message!HeardIsShown, ShownOrWiped
  <2>4. Message!HeardIsShown'
    BY <2>1, <2>3 DEF Message!HeardIsShown, ShownOrWiped
  <2>5. \A u \in Message!Savers : task'[u].at = "bump" =>
           \E shown \in ShownOrWiped : shown.id = task'[u].msg.id
    BY <1>2, <1>3, <1>4 DEF Found
  <2>6. QED
    BY <2>1, <2>4, <2>5 DEF Found
<1>11. QED
  BY <1>5, <1>6, <1>7, <1>8, <1>9, <1>10 DEF ChatInv

(* The SELECT: a task that finds no row of its id will insert one.         *)
LEMMA SelectStep ==
  ASSUME ChatInv, NEW t \in Message!Savers, Message!Select(t)
  PROVE  ChatInv'
<1> DEFINE same == {r \in rows : r.msg.id = task[t].msg.id}
<1>1. /\ task[t].at = "select"
      /\ UNCHANGED << configured, hashMap, nameMap, rows, sending, listEdits, seenTexts, met,
                      wiped, aired >>
  BY DEF Message!Select
<1>2. /\ ChatShape /\ MapsRight /\ OursAired /\ SavedOnce /\ AllFiled /\ Found
  BY DEF ChatInv
<1>3. IsTask(task[t])
  BY <1>1, <1>2 DEF ChatShape, Busy
<1>4. \/ same = {} /\ task' = [task EXCEPT ![t].at = "insert"]
      \/ same # {} /\ \E r \in same : task' = [task EXCEPT ![t].at = "bump", ![t].found = {r}]
  BY DEF Message!Select
<1>5. /\ task' = [u \in Message!Savers |-> task'[u]]
      /\ \A u \in Message!Savers \ {t} : task'[u] = task[u]
      /\ IsTask(task'[t]) /\ task'[t].msg = task[t].msg /\ task'[t].conv = task[t].conv
      /\ task'[t].stick = task[t].stick /\ task'[t].when = task[t].when
      /\ \/ same = {} /\ task'[t].at = "insert"
         \/ same # {} /\ task'[t].at = "bump"
  <2>1. task = [u \in Message!Savers |-> task[u]]
    BY <1>2 DEF ChatShape
  <2>2. CASE same = {}
    <3>1. task' = [task EXCEPT ![t].at = "insert"]
      BY <1>4, <2>2
    <3>2. QED
      BY <1>3, <2>1, <2>2, <3>1 DEF IsTask
  <2>3. CASE same # {}
    <3>1. PICK r \in same : task' = [task EXCEPT ![t].at = "bump", ![t].found = {r}]
      BY <1>4, <2>3
    <3>2. /\ task' = [u \in Message!Savers |-> task'[u]]
          /\ \A u \in Message!Savers \ {t} : task'[u] = task[u]
          /\ task'[t] = [[task[t] EXCEPT !.at = "bump"] EXCEPT !.found = {r}]
      BY <2>1, <3>1
    <3>3. task'[t] = [at |-> "bump", msg |-> task[t].msg, stick |-> task[t].stick,
                      conv |-> task[t].conv, found |-> {r}, when |-> task[t].when]
      <4>1. task[t] = [at |-> task[t].at, msg |-> task[t].msg, stick |-> task[t].stick,
                       conv |-> task[t].conv, found |-> task[t].found, when |-> task[t].when]
        BY <1>3 DEF IsTask
      <4>2. [task[t] EXCEPT !.at = "bump"] =
               [at |-> "bump", msg |-> task[t].msg, stick |-> task[t].stick,
                conv |-> task[t].conv, found |-> task[t].found, when |-> task[t].when]
        BY <4>1
      <4>3. QED
        BY <3>2, <4>2
    <3>4. QED
      BY <2>3, <3>2, <3>3 DEF IsTask
  <2>4. QED
    BY <2>2, <2>3
<1>6. \A r \in rows : r.msg = task[t].msg => r \in same
  OBVIOUS
<1>7. same # {} => \E shown \in ShownOrWiped : shown.id = task[t].msg.id
  BY DEF ShownOrWiped
<1> HIDE DEF same
<1>8. \A u \in Message!Savers : Busy(u)' <=> Busy(u)
  <2>1. task'[t].at # "idle" /\ task[t].at # "idle"
    BY <1>1, <1>5
  <2>2. QED
    BY <1>5, <2>1 DEF Busy
<1>9. \A u \in Message!Savers : task'[u].msg = task[u].msg
  BY <1>5
<1>10. ChatShape' /\ MapsRight' /\ OursAired'
  BY <1>1, <1>2, <1>5, <1>8, <1>9 DEF ChatShape, MapsRight, OursAired, Busy
<1>11. SavedOnce'
  <2>1. SUFFICES ASSUME NEW m, m \notin met' \cup wiped' PROVE Single(m)'
    BY DEF SavedOnce
  <2>2. Single(m)
    BY <1>1, <1>2, <2>1 DEF SavedOnce
  <2>3. \A u \in Message!Savers : task'[u].at = "insert" /\ task'[u].msg = m =>
           \A r \in rows' : r.msg # m
    BY <1>1, <1>5, <1>6, <2>2 DEF Single
  <2>4. QED
    BY <1>1, <1>8, <1>9, <2>2, <2>3 DEF Single
<1>12. AllFiled'
  <2>1. \A x : FiledFor(x)' <=> FiledFor(x)
    BY <1>1 DEF FiledFor
  <2>2. FiledFor(task[t]) => FiledFor(task'[t])
    BY <1>5 DEF FiledFor
  <2>3. Busy(t)
    BY <1>1 DEF Busy
  <2>4. \A u \in Message!Savers : Busy(u)' => FiledFor(task'[u])
    BY <1>2, <1>5, <1>8, <2>2, <2>3 DEF AllFiled
  <2>5. QED
    BY <1>1, <1>2, <2>1, <2>4 DEF AllFiled, FiledFor
<1>13. Found'
  <2>1. ShownOrWiped' = ShownOrWiped
    BY <1>1 DEF ShownOrWiped
  <2>2. Message!Saving' = Message!Saving
    BY <1>1, <1>8, <1>9 DEF Message!Saving, Busy
  <2>3. Message!HeardIsShown'
    BY <1>1, <1>2, <2>2 DEF Found, Message!HeardIsShown
  <2>4. \A u \in Message!Savers : task'[u].at = "bump" =>
           \E shown \in ShownOrWiped : shown.id = task'[u].msg.id
    BY <1>2, <1>5, <1>7, <1>9 DEF Found
  <2>5. QED
    BY <2>1, <2>3, <2>4 DEF Found
<1>14. QED
  BY <1>10, <1>11, <1>12, <1>13 DEF ChatInv

(* A task that is done: it is idle, and the others are as they were.       *)
LEMMA TaskDone ==
  ASSUME ChatShape, NEW t \in Message!Savers, task' = [task EXCEPT ![t] = Message!Idle]
  PROVE  /\ task' = [u \in Message!Savers |-> task'[u]] /\ task'[t].at = "idle"
         /\ \A u \in Message!Savers \ {t} : task'[u] = task[u]
         /\ \A u \in Message!Savers : Busy(u)' => u # t /\ Busy(u)
<1>1. /\ task' = [u \in Message!Savers |-> task'[u]] /\ task'[t] = Message!Idle
      /\ \A u \in Message!Savers \ {t} : task'[u] = task[u]
  BY DEF ChatShape
<1>2. Message!Idle.at = "idle"
  BY DEF Message!Idle
<1>3. QED
  BY <1>1, <1>2 DEF Busy

(* What has been shown stays shown or wiped; who is done has been shown.   *)
LEMMA StillFound ==
  ASSUME Found, ShownOrWiped \subseteq ShownOrWiped', seenTexts' = seenTexts,
         \A m \in Message!Saving \ Message!Saving' : \E shown \in ShownOrWiped' : shown.id = m.id,
         \A u \in Message!Savers : task'[u].at = "bump" => task'[u] = task[u]
  PROVE  Found'
<1>1. \A m \in seenTexts' \ Message!Saving' : \E shown \in ShownOrWiped' : shown.id = m.id
  BY DEF Found, Message!HeardIsShown, ShownOrWiped
<1>2. Message!HeardIsShown'
  BY <1>1 DEF Message!HeardIsShown, ShownOrWiped
<1>3. \A u \in Message!Savers : task'[u].at = "bump" =>
         \E shown \in ShownOrWiped' : shown.id = task'[u].msg.id
  BY DEF Found
<1>4. QED
  BY <1>2, <1>3 DEF Found

(* The INSERT.                                                             *)
LEMMA InsertStep ==
  ASSUME ChatInv, NEW t \in Message!Savers, Message!Insert(t)
  PROVE  ChatInv'
<1> DEFINE x == task[t]
<1> DEFINE new == Message!NewRow(x.msg, x.conv, x.stick, x.when)
<1>1. /\ task[t].at = "insert" /\ rows' = rows \cup {new}
      /\ task' = [task EXCEPT ![t] = Message!Idle]
      /\ UNCHANGED << configured, hashMap, nameMap, sending, listEdits, seenTexts, met, wiped,
                      aired >>
  BY DEF Message!Insert
<1>2. /\ ChatShape /\ MapsRight /\ OursAired /\ SavedOnce /\ AllFiled /\ Found
  BY DEF ChatInv
<1>3. Busy(t)
  BY <1>1 DEF Busy
<1>4. /\ new.msg = x.msg /\ new.conv = x.conv /\ new.stick = x.stick /\ new.when = x.when
      /\ IsRow(new)
  BY DEF Message!NewRow, IsRow
<1> HIDE DEF new
<1>5. /\ task' = [u \in Message!Savers |-> task'[u]] /\ task'[t].at = "idle"
      /\ \A u \in Message!Savers \ {t} : task'[u] = task[u]
      /\ \A u \in Message!Savers : Busy(u)' => u # t /\ Busy(u)
  BY <1>1, <1>2, TaskDone
<1>6. ChatShape' /\ MapsRight'
  BY <1>1, <1>2, <1>4, <1>5 DEF ChatShape, MapsRight
<1>7. OursAired'
  BY <1>1, <1>2, <1>3, <1>4, <1>5 DEF OursAired
<1>8. SavedOnce'
  <2>1. SUFFICES ASSUME NEW m, m \notin met' \cup wiped' PROVE Single(m)'
    BY DEF SavedOnce
  <2>2. Single(m)
    BY <1>1, <1>2, <2>1 DEF SavedOnce
  <2>3. CASE m = x.msg
    <3>1. /\ \A r \in rows : r.msg # m
          /\ \A u \in Message!Savers \ {t} : Busy(u) => task[u].msg # m
          /\ sending.at = "save" => sending.msg # m
      BY <1>1, <1>3, <2>2, <2>3 DEF Single
    <3>2. \A u \in Message!Savers : task'[u].at = "insert" => task'[u].msg # m
      BY <1>5, <3>1 DEF Busy
    <3>3. QED
      BY <1>1, <1>5, <3>1, <3>2 DEF Single
  <2>4. CASE m # x.msg
    <3>1. \A r \in rows' : r.msg = m => r \in rows
      BY <1>1, <1>4, <2>4
    <3>2. \A u \in Message!Savers : task'[u].at = "insert" => task'[u] = task[u]
      BY <1>5
    <3>3. QED
      BY <1>1, <1>5, <2>2, <3>1, <3>2 DEF Single
  <2>5. QED
    BY <2>3, <2>4
<1>9. AllFiled'
  <2>1. \A y : FiledFor(y)' <=> FiledFor(y)
    BY <1>1 DEF FiledFor
  <2>2. FiledFor(new)
    BY <1>2, <1>3, <1>4 DEF AllFiled, FiledFor
  <2>3. \A r \in rows' : FiledFor(r)
    BY <1>1, <1>2, <2>2 DEF AllFiled
  <2>4. \A u \in Message!Savers : Busy(u)' => FiledFor(task'[u])
    BY <1>2, <1>5 DEF AllFiled
  <2>5. QED
    BY <1>1, <2>1, <2>3, <2>4 DEF AllFiled, FiledFor
<1>10. Found'
  <2>1. ShownOrWiped \subseteq ShownOrWiped' /\ x.msg \in ShownOrWiped'
    BY <1>1, <1>4 DEF ShownOrWiped
  <2>2. Message!Saving \subseteq Message!Saving' \cup {x.msg}
    BY <1>1, <1>5 DEF Message!Saving
  <2>3. \A u \in Message!Savers : task'[u].at = "bump" => task'[u] = task[u]
    BY <1>5
  <2>4. QED
    BY <1>1, <1>2, <2>1, <2>2, <2>3, StillFound
<1>11. QED
  BY <1>6, <1>7, <1>8, <1>9, <1>10 DEF ChatInv

(* The UPDATE of a count: the rows keep everything else.                   *)
LEMMA BumpStep ==
  ASSUME ChatInv, NEW t \in Message!Savers, Message!Bump(t)
  PROVE  ChatInv'
<1> DEFINE old == CHOOSE r \in task[t].found : TRUE
<1> DEFINE found == {r \in rows : r.n = old.n /\ r.msg = old.msg}
<1> DEFINE counted(r) == [r EXCEPT !.count = old.count + 1]
<1>1. /\ task[t].at = "bump" /\ rows' = (rows \ found) \cup {counted(r) : r \in found}
      /\ task' = [task EXCEPT ![t] = Message!Idle]
      /\ UNCHANGED << configured, hashMap, nameMap, sending, listEdits, seenTexts, met, wiped,
                      aired >>
  BY DEF Message!Bump
<1>2. /\ ChatShape /\ MapsRight /\ OursAired /\ SavedOnce /\ AllFiled /\ Found
  BY DEF ChatInv
<1>3. ASSUME NEW r \in rows
      PROVE  /\ counted(r).msg = r.msg /\ counted(r).conv = r.conv
             /\ counted(r).stick = r.stick /\ counted(r).when = r.when /\ IsRow(counted(r))
  <2>1. r = [n |-> r.n, msg |-> r.msg, conv |-> r.conv, stick |-> r.stick,
             when |-> r.when, count |-> r.count]
    BY <1>2 DEF ChatShape, IsRow
  <2>2. counted(r) = [n |-> r.n, msg |-> r.msg, conv |-> r.conv, stick |-> r.stick,
                      when |-> r.when, count |-> old.count + 1]
    <3> HIDE DEF old
    <3> QED BY <2>1
  <2> HIDE DEF counted
  <2>3. QED
    BY <2>2 DEF IsRow
<1>4. found \subseteq rows
  OBVIOUS
<1> HIDE DEF counted, found, old
<1>5. /\ task' = [u \in Message!Savers |-> task'[u]] /\ task'[t].at = "idle"
      /\ \A u \in Message!Savers \ {t} : task'[u] = task[u]
      /\ \A u \in Message!Savers : Busy(u)' => u # t /\ Busy(u)
  BY <1>1, <1>2, TaskDone
(* Each row comes from one row, and of one row only one comes.             *)
<1>6. ASSUME NEW s \in rows'
      PROVE  \E r \in rows : (s = r /\ r \notin found) \/ (s = counted(r) /\ r \in found)
  <2>1. CASE s \in rows \ found
    BY <2>1
  <2>2. CASE s \in {counted(r) : r \in found}
    <3>1. PICK r \in found : s = counted(r)
      BY <2>2
    <3>2. QED
      BY <1>4, <3>1
  <2>3. QED
    BY <1>1, <2>1, <2>2
<1>7. ASSUME NEW s \in rows'
      PROVE  IsRow(s) /\ \E r \in rows : /\ s.msg = r.msg /\ s.conv = r.conv
                                         /\ s.stick = r.stick /\ s.when = r.when
  BY <1>2, <1>3, <1>6 DEF ChatShape
<1>8. \A r \in rows : \E s \in rows' : s.msg = r.msg
  BY <1>1, <1>3
<1>9. ChatShape' /\ MapsRight'
  BY <1>1, <1>2, <1>5, <1>7 DEF ChatShape, MapsRight
<1>10. OursAired'
  BY <1>1, <1>2, <1>5, <1>7 DEF OursAired
<1>11. SavedOnce'
  <2>1. SUFFICES ASSUME NEW m, m \notin met' \cup wiped' PROVE Single(m)'
    BY DEF SavedOnce
  <2>2. Single(m)
    BY <1>1, <1>2, <2>1 DEF SavedOnce
  <2>3. ASSUME NEW s \in rows', NEW z \in rows', s.msg = m, z.msg = m PROVE s = z
    <3>1. PICK r \in rows : (s = r /\ r \notin found) \/ (s = counted(r) /\ r \in found)
      BY <1>6
    <3>2. PICK q \in rows : (z = q /\ q \notin found) \/ (z = counted(q) /\ q \in found)
      BY <1>6
    <3>3. r.msg = m /\ q.msg = m
      BY <1>3, <2>3, <3>1, <3>2
    <3>4. r = q
      BY <2>2, <3>3 DEF Single
    <3>5. QED
      BY <3>1, <3>2, <3>4
  <2>4. \A u \in Message!Savers : task'[u].at = "insert" => task'[u] = task[u]
    BY <1>5
  <2>5. (\E s \in rows' : s.msg = m) => (\E r \in rows : r.msg = m)
    BY <1>7
  <2>6. QED
    BY <1>1, <1>5, <2>2, <2>3, <2>4, <2>5 DEF Single
<1>12. AllFiled'
  <2>1. \A y : FiledFor(y)' <=> FiledFor(y)
    BY <1>1 DEF FiledFor
  <2>2. \A s \in rows' : FiledFor(s)
    BY <1>2, <1>7 DEF AllFiled, FiledFor
  <2>3. \A u \in Message!Savers : Busy(u)' => FiledFor(task'[u])
    BY <1>2, <1>5 DEF AllFiled
  <2>4. QED
    BY <1>1, <2>1, <2>2, <2>3 DEF AllFiled, FiledFor
<1>13. Found'
  <2>1. ShownOrWiped \subseteq ShownOrWiped'
    BY <1>1, <1>8 DEF ShownOrWiped
  <2>2. Message!Saving \subseteq Message!Saving' \cup {task[t].msg}
    BY <1>1, <1>5 DEF Message!Saving
  <2>3. \E shown \in ShownOrWiped : shown.id = task[t].msg.id
    BY <1>1, <1>2 DEF Found
  <2>4. \A u \in Message!Savers : task'[u].at = "bump" => task'[u] = task[u]
    BY <1>5
  <2>5. QED
    BY <1>1, <1>2, <2>1, <2>2, <2>3, <2>4, StillFound
<1>14. QED
  BY <1>9, <1>10, <1>11, <1>12, <1>13 DEF ChatInv

(* The operator's text: to the radio, onto the air, into the table.        *)
LEMMA SendSteps ==
  ASSUME ChatInv,
         (\E peer \in Peers : Message!SendText(peer)) \/ Message!OnAir \/ Message!SendFails
         \/ Message!SaveSent
  PROVE  ChatInv'
<1>0. /\ ChatShape /\ MapsRight /\ OursAired /\ SavedOnce /\ AllFiled /\ Found
  BY DEF ChatInv
<1>1. UNCHANGED << configured, hashMap, nameMap, task, listEdits, met, wiped >>
  BY DEF Message!SendText, Message!OnAir, Message!SendFails, Message!SaveSent
<1>2. MapsRight'
  BY <1>0, <1>1 DEF MapsRight
<1>3. \A x : FiledFor(x)' <=> FiledFor(x)
  BY <1>1 DEF FiledFor
<1>4. \A u \in Message!Savers : task'[u].at = "bump" => task'[u] = task[u]
  BY <1>1
<1>5. ASSUME UNCHANGED rows PROVE AllFiled'
  BY <1>0, <1>1, <1>5 DEF AllFiled, FiledFor, Busy
<1>6. CASE (\E peer \in Peers : Message!SendText(peer)) \/ Message!SendFails
  <2>1. /\ UNCHANGED << rows, seenTexts, aired >> /\ sending.at # "save"
    BY <1>6 DEF Message!SendText, Message!SendFails
  <2>2. \/ sending' = Message!Idle
        \/ /\ aired = {} /\ \E peer \in Peers, id \in OurIds : sending' =
                [at |-> "radio", msg |-> [from |-> Message!Ours, id |-> id, to |-> peer]]
    BY <1>6 DEF Message!SendText, Message!SendFails
  <2>3. /\ sending'.at \in {"idle", "radio"}
        /\ sending'.at = "radio" => /\ aired = {} /\ sending'.msg.from = Message!Ours
                                    /\ sending'.msg.to \in Peers
                                    /\ sending' = [at |-> sending'.at, msg |-> sending'.msg]
    BY <2>2 DEF Message!Idle
  <2>4. ChatShape' /\ OursAired'
    BY <1>0, <1>1, <2>1, <2>3 DEF ChatShape, OursAired, Busy
  <2>5. SavedOnce'
    BY <1>0, <1>1, <2>1, <2>3 DEF SavedOnce, Single, Busy
  <2>6. Message!Saving' = Message!Saving
    BY <1>1, <2>1, <2>3 DEF Message!Saving
  <2>7. Found'
    BY <1>0, <1>1, <1>4, <2>1, <2>6, StillFound DEF ShownOrWiped
  <2>8. QED
    BY <1>2, <1>5, <2>1, <2>4, <2>5, <2>7 DEF ChatInv
<1>7. CASE Message!OnAir
  <2>1. /\ sending.at = "radio" /\ aired' = {sending.msg}
        /\ seenTexts' = seenTexts \cup {sending.msg} /\ rows' = rows
        /\ sending' = [sending EXCEPT !.at = "save"]
    BY <1>7 DEF Message!OnAir
  <2>2. aired = {} /\ sending.msg.from = Message!Ours
        /\ sending = [at |-> sending.at, msg |-> sending.msg]
    BY <1>0, <2>1 DEF OursAired, ChatShape
  <2>3. sending' = [at |-> "save", msg |-> sending.msg]
    BY <2>1, <2>2
  <2>4. sending'.at = "save" /\ sending'.msg = sending.msg
    BY <2>3
  <2>5. /\ \A r \in rows : r.msg.from # Message!Ours
        /\ \A t \in Message!Savers : Busy(t) => task[t].msg.from # Message!Ours
    BY <1>0, <2>2 DEF OursAired
  <2>6. ChatShape'
    BY <1>0, <1>1, <2>1, <2>3, <2>4 DEF ChatShape, Busy
  <2>7. OursAired'
    <3>1. sending.msg.to \in Peers
      BY <1>0, <2>1 DEF OursAired
    <3>2. QED
      BY <1>1, <2>1, <2>2, <2>4, <2>5, <3>1 DEF OursAired, Busy
  <2>8. SavedOnce'
    BY <1>0, <1>1, <2>1, <2>2, <2>4, <2>5 DEF SavedOnce, Single, Busy
  <2>9. Found'
    <3>1. Message!Saving' = Message!Saving \cup {sending.msg}
      BY <1>1, <2>1, <2>4 DEF Message!Saving
    <3>2. ShownOrWiped' = ShownOrWiped
      BY <1>1, <2>1 DEF ShownOrWiped
    <3>3. \A m \in seenTexts' \ Message!Saving' : \E shown \in ShownOrWiped : shown.id = m.id
      BY <1>0, <2>1, <3>1 DEF Found, Message!HeardIsShown, ShownOrWiped
    <3>4. Message!HeardIsShown'
      BY <3>2, <3>3 DEF Message!HeardIsShown, ShownOrWiped
    <3>5. QED
      BY <1>0, <1>1, <3>2, <3>4 DEF Found
  <2>10. QED
    BY <1>2, <1>5, <2>1, <2>6, <2>7, <2>8, <2>9 DEF ChatInv
<1>8. CASE Message!SaveSent
  <2> DEFINE new == Message!NewRow(sending.msg, << "direct", sending.msg.to >>, FALSE, listEdits)
  <2>1. /\ sending.at = "save" /\ sending' = Message!Idle /\ rows' = rows \cup {new}
        /\ UNCHANGED << seenTexts, aired >>
    BY <1>8 DEF Message!SaveSent
  <2>2. /\ new.msg = sending.msg /\ new.conv[1] = "direct" /\ new.when = listEdits /\ IsRow(new)
    BY DEF Message!NewRow, IsRow
  <2> HIDE DEF new
  <2>3. sending'.at = "idle"
    BY <2>1 DEF Message!Idle
  <2>4. ChatShape'
    BY <1>0, <1>1, <2>1, <2>2, <2>3 DEF ChatShape, Busy
  <2>5. OursAired'
    BY <1>0, <1>1, <2>1, <2>2, <2>3 DEF OursAired, Busy
  <2>6. SavedOnce'
    <3>1. SUFFICES ASSUME NEW m, m \notin met' \cup wiped' PROVE Single(m)'
      BY DEF SavedOnce
    <3>2. Single(m)
      BY <1>0, <1>1, <3>1 DEF SavedOnce
    <3>3. CASE m = sending.msg
      <4>1. (\A r \in rows : r.msg # m) /\ \A t \in Message!Savers : Busy(t) => task[t].msg # m
        BY <2>1, <3>2, <3>3 DEF Single
      <4>2. \A t \in Message!Savers : task'[t].at = "insert" => task'[t].msg # m
        BY <1>1, <4>1 DEF Busy
      <4>3. QED
        BY <1>1, <2>1, <2>3, <4>1, <4>2 DEF Single, Busy
    <3>4. CASE m # sending.msg
      BY <1>1, <2>1, <2>2, <2>3, <3>2, <3>4 DEF Single, Busy
    <3>5. QED
      BY <3>3, <3>4
  <2>7. AllFiled'
    <3>1. FiledFor(new)
      BY <1>0, <2>2 DEF FiledFor, ChatShape
    <3>2. \A r \in rows' : FiledFor(r)
      BY <1>0, <2>1, <3>1 DEF AllFiled
    <3>3. \A t \in Message!Savers : Busy(t)' => FiledFor(task'[t])
      BY <1>0, <1>1 DEF AllFiled, Busy
    <3>4. QED
      BY <1>1, <1>3, <3>2, <3>3 DEF AllFiled, FiledFor
  <2>8. Found'
    <3>1. ShownOrWiped \subseteq ShownOrWiped' /\ sending.msg \in ShownOrWiped'
      BY <1>1, <2>1, <2>2 DEF ShownOrWiped
    <3>2. Message!Saving \subseteq Message!Saving' \cup {sending.msg}
      BY <1>1 DEF Message!Saving
    <3>3. QED
      BY <1>0, <1>4, <2>1, <3>1, <3>2, StillFound
  <2>9. QED
    BY <1>2, <2>4, <2>5, <2>6, <2>7, <2>8 DEF ChatInv
<1>9. QED
  BY <1>6, <1>7, <1>8

(* A conversation is deleted: its messages are wiped.                      *)
LEMMA DeleteStep ==
  ASSUME ChatInv, NEW conv, Message!DeleteConversation(conv)
  PROVE  ChatInv'
<1>0. /\ ChatShape /\ MapsRight /\ OursAired /\ SavedOnce /\ AllFiled /\ Found
  BY DEF ChatInv
<1>1. /\ wiped' = wiped \cup {r.msg : r \in {q \in rows : q.conv = conv}}
      /\ rows' = {r \in rows : r.conv # conv}
      /\ UNCHANGED << configured, hashMap, nameMap, task, sending, listEdits, seenTexts, met,
                      aired >>
  BY DEF Message!DeleteConversation
<1>2. rows' \subseteq rows
  BY <1>1
<1>3. ChatShape' /\ MapsRight' /\ OursAired'
  BY <1>0, <1>1, <1>2 DEF ChatShape, MapsRight, OursAired, Busy
<1>4. SavedOnce'
  <2>1. SUFFICES ASSUME NEW m, m \notin met' \cup wiped' PROVE Single(m)'
    BY DEF SavedOnce
  <2>2. Single(m)
    BY <1>0, <1>1, <2>1 DEF SavedOnce
  <2>3. QED
    BY <1>1, <1>2, <2>2 DEF Single, Busy
<1>5. AllFiled'
  BY <1>0, <1>1, <1>2 DEF AllFiled, FiledFor, Busy
<1>6. Found'
  <2>1. ShownOrWiped \subseteq ShownOrWiped'
    BY <1>1 DEF ShownOrWiped
  <2>2. Message!Saving' = Message!Saving
    BY <1>1 DEF Message!Saving
  <2>3. QED
    BY <1>0, <1>1, <2>1, <2>2, StillFound
<1>7. QED
  BY <1>3, <1>4, <1>5, <1>6 DEF ChatInv

(* A saved channel list: what was filed before is excepted from now on.    *)
LEMMA ListSavedStep ==
  ASSUME ChatInv, NEW list \in ChatLists, Message!SaveChannels(list)
  PROVE  ChatInv'
<1>0. /\ ChatShape /\ MapsRight /\ OursAired /\ SavedOnce /\ AllFiled /\ Found
  BY DEF ChatInv
<1>1. /\ configured' = list /\ hashMap' = Message!Rebuild(list) /\ listEdits' = listEdits + 1
      /\ UNCHANGED << nameMap, rows, task, sending, seenTexts, met, wiped, aired >>
  BY DEF Message!SaveChannels
<1>2. listEdits \in Nat
  BY <1>0 DEF ChatShape
<1>3. ChatShape' /\ OursAired'
  BY <1>0, <1>1, <1>2 DEF ChatShape, OursAired, Busy
<1>4. MapsRight'
  BY <1>0, <1>1, <1>2 DEF MapsRight
<1>5. SavedOnce'
  BY <1>0, <1>1 DEF SavedOnce, Single, Busy
<1>6. AllFiled'
  <2>1. ASSUME NEW x, FiledFor(x) PROVE x.when \in Nat /\ x.when <= listEdits' /\ x.when # listEdits'
    BY <1>1, <1>2, <2>1 DEF FiledFor
  <2>2. \A r \in rows : FiledFor(r)
    BY <1>0 DEF AllFiled
  <2>3. \A t \in Message!Savers : Busy(t) => FiledFor(task[t])
    BY <1>0 DEF AllFiled
  <2>4. \A r \in rows' : r.when \in Nat /\ r.when <= listEdits' /\ r.when # listEdits'
    BY <1>1, <2>1, <2>2
  <2>5. \A t \in Message!Savers : Busy(t)' =>
           task'[t].when \in Nat /\ task'[t].when <= listEdits' /\ task'[t].when # listEdits'
    BY <1>1, <2>1, <2>3 DEF Busy
  <2>6. QED
    BY <2>4, <2>5 DEF AllFiled, FiledFor
<1>7. Found'
  <2>1. ShownOrWiped' = ShownOrWiped /\ Message!Saving' = Message!Saving
    BY <1>1 DEF ShownOrWiped, Message!Saving
  <2>2. QED
    BY <1>0, <1>1, <2>1, StillFound
<1>8. QED
  BY <1>3, <1>4, <1>5, <1>6, <1>7 DEF ChatInv

(* The chat, for any peers, packet ids, savers and channel lists: a        *)
(* message is shown once unless its savers met, what was heard or sent is  *)
(* shown unless it was deleted, under its own channel but for the named    *)
(* exceptions, and nothing of ours is shown that did not leave.            *)
THEOREM ChatFiled == Spec => []MessagesFiled
<1> USE ChatAssumption
<1> DEFINE Kept == part = "messages" => ChatInv
<1>1. Init => Kept
  BY ChatInit, EachInit
<1>2. Kept /\ [Next]_vars => Kept'
  <2>1. ASSUME ChatInv, Message!Next PROVE ChatInv'
    <3>1. CASE \E t \in Message!Savers :
                 \/ \E stick \in BOOLEAN : \E msg \in Message!Audible(stick) : Message!Receive(t, msg, stick)
                 \/ Message!Select(t) \/ Message!Insert(t) \/ Message!Bump(t)
      BY <2>1, <3>1, ReceiveStep, SelectStep, InsertStep, BumpStep
    <3>2. CASE (\E peer \in Peers : Message!SendText(peer)) \/ Message!OnAir \/ Message!SendFails
               \/ Message!SaveSent
      BY <2>1, <3>2, SendSteps
    <3>3. CASE \E r \in rows : Message!DeleteConversation(r.conv)
      BY <2>1, <3>3, DeleteStep
    <3>4. CASE \E list \in ChatLists : Message!SaveChannels(list)
      BY <2>1, <3>4, ListSavedStep
    <3>5. QED
      BY <2>1, <3>1, <3>2, <3>3, <3>4 DEF Message!Next
  <2>2. ASSUME ChatInv, UNCHANGED messageVars PROVE ChatInv'
    <3>1. ChatShape' /\ MapsRight' /\ OursAired'
      BY <2>2 DEF ChatInv, messageVars, ChatShape, MapsRight, OursAired, Busy
    <3>2. SavedOnce'
      BY <2>2 DEF ChatInv, messageVars, SavedOnce, Single, Busy
    <3>3. AllFiled'
      BY <2>2 DEF ChatInv, messageVars, AllFiled, FiledFor, Busy
    <3>4. ShownOrWiped' = ShownOrWiped /\ Message!Saving' = Message!Saving
      BY <2>2 DEF messageVars, ShownOrWiped, Message!Saving
    <3>5. Found'
      BY <2>2, <3>4, StillFound DEF ChatInv, messageVars
    <3>6. QED
      BY <3>1, <3>2, <3>3, <3>5 DEF ChatInv
  <2>3. QED
    BY <2>1, <2>2, MessageAlone
<1>3. Kept => MessagesFiled
  <2>1. ASSUME ChatInv PROVE Message!ShownOnce
    BY <2>1 DEF ChatInv, SavedOnce, Single, Message!ShownOnce
  <2>2. ASSUME ChatInv PROVE Message!HeardIsShown
    BY <2>2 DEF ChatInv, Found
  <2>3. ASSUME ChatInv PROVE Message!FiledRight
    BY <2>3 DEF ChatInv, AllFiled, FiledFor, Message!FiledRight
  <2>4. ASSUME ChatInv PROVE Message!SentIsAired
    BY <2>4 DEF ChatInv, OursAired, Message!SentIsAired
  <2>5. QED
    BY <2>1, <2>2, <2>3, <2>4 DEF MessagesFiled
<1> HIDE DEF Kept
<1>4. QED
  BY <1>1, <1>2, <1>3, PTL DEF Spec

-----------------------------------------------------------------------------
(***************************************************************************)
(* The terminal.  A shell that did not end by itself is running, and in    *)
(* the registry or being ended, or it is waited for, and its terminal is   *)
(* closed or about to be.                                                  *)
(***************************************************************************)
ShellTypes ==
    /\ DOMAIN tabAt = Tabs /\ DOMAIN child = Tabs /\ DOMAIN masterFd = Tabs
    /\ DOMAIN ptyClosed = Tabs /\ DOMAIN terminating = Tabs /\ DOMAIN trail = Tabs
    /\ DOMAIN ptyReader = Tabs /\ DOMAIN alone = Tabs

RegistryCapped ==
    /\ registry \subseteq Tabs /\ IsFiniteSet(registry) /\ Cardinality(registry) <= MaxSessions

SessionAt(t) ==
    /\ tabAt[t] \in {"none", "refused"} <=> child[t] = "none"
    /\ ptyReader[t] # "none" => child[t] # "none"
    /\ child[t] \in {"none", "running", "dead", "reaped"}
    /\ child[t] = "running" /\ terminating[t] = "no" => t \in registry
    /\ t \in registry => tabAt[t] = "open" /\ terminating[t] = "no"
    /\ child[t] = "dead" => alone[t]
    /\ alone[t] => child[t] \in {"dead", "reaped"}
    /\ child[t] \in {"dead", "reaped"} /\ ~ alone[t] => terminating[t] = "close" \/ ~ masterFd[t]
    /\ child[t] \in {"none", "running"} => ~ ptyClosed[t]
    /\ child[t] = "running" => masterFd[t]
    /\ terminating[t] = "close" => child[t] = "reaped"
    /\ terminating[t] # "no" => tabAt[t] \in {"open", "leaving"}
    /\ tabAt[t] = "leaving" => terminating[t] # "no"

RowsOf(t) ==
    /\ tabAt[t] \in {"none", "refused"} => trail[t] = {}
    /\ tabAt[t] \in {"open", "leaving"} => trail[t] = {"session_spawn"}
    /\ tabAt[t] = "gone" => trail[t] = {"session_spawn", "session_close"}
    /\ tabAt[t] \in {"none", "refused", "open", "leaving", "gone"}

ShellInv == ShellTypes /\ RegistryCapped /\ \A t \in Tabs : SessionAt(t) /\ RowsOf(t)

LEMMA ShellInitInv == ASSUME MaxSessions \in Nat PROVE Shell!Init => ShellInv
<1>1. IsFiniteSet({}) /\ Cardinality({}) = 0
  BY FS_EmptySet
<1>2. QED
  BY <1>1 DEF Shell!Init, ShellInv, ShellTypes, RegistryCapped, SessionAt, RowsOf

(* A tab comes in only below the cap.                                      *)
LEMMA ConnectCapped ==
  ASSUME MaxSessions \in Nat, RegistryCapped, NEW t \in Tabs, NEW b, Shell!Connect(t, b)
  PROVE  RegistryCapped'
<1>1. CASE Shell!SlotFree
  <2>1. Cardinality(registry) < MaxSessions
    BY <1>1 DEF Shell!SlotFree, Shell!Cardinality, Cardinality
  <2>2. registry' = registry \cup {t}
    BY <1>1 DEF Shell!Connect
  <2>3. /\ IsFiniteSet(registry') /\ Cardinality(registry) \in Nat
        /\ Cardinality(registry') \in {Cardinality(registry), Cardinality(registry) + 1}
    BY <2>2, FS_AddElement, FS_CardinalityType DEF RegistryCapped
  <2>4. QED
    BY <2>1, <2>2, <2>3 DEF RegistryCapped
<1>2. CASE ~ Shell!SlotFree
  BY <1>2 DEF Shell!Connect, RegistryCapped
<1>3. QED
  BY <1>1, <1>2

LEMMA ShellConnectStep ==
  ASSUME MaxSessions \in Nat, ShellInv, NEW t \in Tabs, NEW b \in BOOLEAN, Shell!Connect(t, b)
  PROVE  ShellInv'
<1>1. RegistryCapped'
  BY ConnectCapped DEF ShellInv
<1>2. ShellTypes' /\ \A u \in Tabs : SessionAt(u)' /\ RowsOf(u)'
  <2>1. CASE Shell!SlotFree
    BY <2>1 DEF ShellInv, ShellTypes, SessionAt, RowsOf, Shell!Connect, Shell!LoopFree
  <2>2. CASE ~ Shell!SlotFree
    BY <2>2 DEF ShellInv, ShellTypes, SessionAt, RowsOf, Shell!Connect, Shell!LoopFree
  <2>3. QED
    BY <2>1, <2>2
<1>3. QED
  BY <1>1, <1>2 DEF ShellInv

LEMMA ShellDisconnectStep ==
  ASSUME MaxSessions \in Nat, ShellInv, NEW t \in Tabs, Shell!Disconnect(t)
  PROVE  ShellInv'
<1>1. RegistryCapped'
  <2>1. registry' = registry \ {t}
    BY DEF Shell!Disconnect
  <2>2. /\ IsFiniteSet(registry') /\ Cardinality(registry) \in Nat
        /\ Cardinality(registry') \in {Cardinality(registry), Cardinality(registry) - 1}
    BY <2>1, FS_RemoveElement, FS_CardinalityType DEF ShellInv, RegistryCapped
  <2>3. QED
    BY <2>1, <2>2 DEF ShellInv, RegistryCapped
<1>2. ShellTypes' /\ \A u \in Tabs : SessionAt(u)' /\ RowsOf(u)'
  BY DEF ShellInv, ShellTypes, SessionAt, RowsOf, Shell!Disconnect, Shell!LoopFree, Shell!CloseRow
<1>3. QED
  BY <1>1, <1>2 DEF ShellInv

LEMMA ShellShutdownStep ==
  ASSUME MaxSessions \in Nat, ShellInv, Shell!Shutdown
  PROVE  ShellInv'
<1>1. RegistryCapped'
  BY FS_EmptySet DEF RegistryCapped, Shell!Shutdown
<1>2. ShellTypes' /\ \A u \in Tabs : SessionAt(u)' /\ RowsOf(u)'
  BY DEF ShellInv, ShellTypes, SessionAt, RowsOf, Shell!Shutdown, Shell!LoopFree
<1>3. QED
  BY <1>1, <1>2 DEF ShellInv

LEMMA ShellNextInv ==
  ASSUME MaxSessions \in Nat, ShellInv, [Shell!Next]_terminalVars
  PROVE  ShellInv'
<1>1. ASSUME NEW t \in Tabs, NEW b \in BOOLEAN, Shell!ShellExits(t, b)
      PROVE  ShellInv'
  BY <1>1 DEF ShellInv, ShellTypes, RegistryCapped, SessionAt, RowsOf, Shell!ShellExits
<1>2. ASSUME NEW t \in Tabs, Shell!Read(t) \/ Shell!WriteFails(t)
      PROVE  ShellInv'
  BY <1>2 DEF ShellInv, ShellTypes, RegistryCapped, SessionAt, RowsOf, Shell!Read, Shell!WriteFails,
              Shell!EndSeen, Shell!HungUp, Shell!ShellOver
<1>3. ASSUME NEW t \in Tabs, Shell!Signal(t) \/ Shell!Kill(t)
      PROVE  ShellInv'
  BY <1>3 DEF ShellInv, ShellTypes, RegistryCapped, SessionAt, RowsOf, Shell!Signal, Shell!Kill
<1>4. ASSUME NEW t \in Tabs, Shell!CloseFd(t)
      PROVE  ShellInv'
  BY <1>4 DEF ShellInv, ShellTypes, RegistryCapped, SessionAt, RowsOf, Shell!CloseFd, Shell!CloseRow
<1>5. CASE UNCHANGED terminalVars
  BY <1>5 DEF terminalVars, ShellInv, ShellTypes, RegistryCapped, SessionAt, RowsOf
<1>6. QED
  BY <1>1, <1>2, <1>3, <1>4, <1>5, ShellConnectStep, ShellDisconnectStep, ShellShutdownStep
     DEF Shell!Next

(* The invariant gives the three properties of the terminal.               *)
LEMMA ShellInvIsSafe ==
  ASSUME MaxSessions \in Nat
  PROVE  ShellInv => Shell!NothingLeft /\ Shell!CapHeld /\ Shell!Trail
<1> SUFFICES ASSUME ShellInv
             PROVE  Shell!NothingLeft /\ Shell!CapHeld /\ Shell!Trail
  OBVIOUS
<1>1. Shell!NothingLeft
  BY DEF ShellInv, SessionAt, Shell!NothingLeft
<1>2. Shell!Trail
  BY DEF ShellInv, RowsOf, Shell!Trail
<1>3. Shell!CapHeld
  <2> DEFINE R == {t \in Tabs : terminating[t] = "no" /\ child[t] = "running"}
  <2>1. R \subseteq registry
    BY DEF ShellInv, SessionAt
  <2> HIDE DEF R
  <2>2. /\ Cardinality(R) <= Cardinality(registry) /\ Cardinality(R) \in Nat
        /\ Cardinality(registry) \in Nat
    BY <2>1, FS_Subset, FS_CardinalityType DEF ShellInv, RegistryCapped
  <2>3. Cardinality(R) <= MaxSessions
    BY <2>2 DEF ShellInv, RegistryCapped
  <2>4. QED
    BY <2>3 DEF R, Shell!CapHeld, Shell!Cardinality, Cardinality
<1>4. QED
  BY <1>1, <1>2, <1>3

-----------------------------------------------------------------------------
(***************************************************************************)
(* Start-up and shutdown.  The pipeline is the first part to come up and   *)
(* the last to go; a plugin service that holds anything and has not failed *)
(* to stop is on the list of the live ones, which is in the order of the   *)
(* registration.                                                           *)
(***************************************************************************)
PluginAt(i) == Extensions[i]
PluginSet == {PluginAt(i) : i \in DOMAIN Extensions}

(* Of the live ones the last was registered last; one that started and     *)
(* holds nothing any more was registered after all of them.                *)
LiveInOrder ==
    /\ liveServices \in Seq(PluginSet)
    /\ pluginStep \in Nat \ {0}
    /\ \A s \in holding \ stuck : \E a \in DOMAIN liveServices : liveServices[a] = s
    /\ \A a, b \in DOMAIN liveServices, i, j \in DOMAIN Extensions :
          a < b /\ liveServices[a] = PluginAt(i) /\ liveServices[b] = PluginAt(j) => i < j
    /\ \A a \in DOMAIN liveServices, i \in DOMAIN Extensions :
          liveServices[a] = PluginAt(i) => i < pluginStep
    /\ \A a \in DOMAIN liveServices, i, j \in DOMAIN Extensions :
          /\ PluginAt(i) \in began \ holding /\ liveServices[a] = PluginAt(j) => j < i
    /\ lifePhase = "boot" => began \subseteq holding

PartsStart ==
    lifePhase \in {"boot", "serving"} =>
        /\ lifeStep > 1 => "pipeline" \in partsUp
        /\ lifeStep = 1 => partsUp = {} /\ holding = {}
        /\ lifeStep > 4 /\ Lifespan!Nodeinfo => "nodeinfo" \in partsUp
        /\ lifeStep <= 14 => "button" \notin partsUp
        /\ lifePhase = "serving" => lifeStep > 17

PartsStop ==
    lifePhase = "shutdown" =>
        /\ lifeStep <= 17 /\ "routes" \notin partsUp
        /\ \A p \in partsUp : \E i \in lifeStep .. 17 : Lifespan!StopOrder[i] = p
        /\ lifeStep <= 16 => "pipeline" \in partsUp
        /\ lifeStep <= 11 /\ Lifespan!Nodeinfo => "nodeinfo" \in partsUp
        /\ lifeStep > 2 => liveServices = << >>

LifeInv ==
    /\ lifePhase \in {"boot", "serving", "shutdown", "stopped", "aborted", "crashed"}
    /\ lifeStep \in Nat \ {0} /\ LiveInOrder /\ PartsStart /\ PartsStop
    /\ \A p \in partsUp : \E i \in 1 .. 17 : i # 2 /\ Lifespan!StartOrder[i] = p
    /\ lifePhase = "crashed" => partsUp = {} /\ holding = {}
    /\ lifePhase = "stopped" => partsUp = {} /\ liveServices = << >>
    /\ Lifespan!NothingLeftRunning

LEMMA PluginsDistinct ==
  /\ DOMAIN Extensions = 1 .. Len(Extensions) /\ Len(Extensions) \in Nat
  /\ \A i, j \in DOMAIN Extensions : PluginAt(i) = PluginAt(j) => i = j
BY DEF Extensions, PluginAt

(* Where the parts that others use stand in the two orders.                *)
LEMMA Orders ==
  /\ Len(Lifespan!StartOrder) = 17 /\ Len(Lifespan!StopOrder) = 17
  /\ Lifespan!StartOrder[1] = "pipeline" /\ Lifespan!StartOrder[4] = "nodeinfo"
  /\ \A i \in 1 .. 17 : /\ Lifespan!StartOrder[i] = "plugins" => i = 2
                        /\ Lifespan!StartOrder[i] = "button" => i = 14
                        /\ Lifespan!StartOrder[i] # "terminal"
                        /\ Lifespan!StartOrder[i] = "routes" \/ \E j \in 1 .. 17 : Lifespan!StopOrder[j] = Lifespan!StartOrder[i]
  /\ \A i \in 1 .. 17 : /\ Lifespan!StopOrder[i] = "pipeline" <=> i = 16
                        /\ Lifespan!StopOrder[i] = "nodeinfo" => i = 11
                        /\ Lifespan!StopOrder[i] = "button" => i = 9
                        /\ Lifespan!StopOrder[i] = "plugins" <=> i = 2
                        /\ Lifespan!StopOrder[i] = "terminal" <=> i = 17
BY DEF Lifespan!StartOrder, Lifespan!StopOrder

LEMMA LifeInitInv == Lifespan!Init => LifeInv
BY DEF Lifespan!Init, LifeInv, LiveInOrder, PartsStart, PartsStop, Lifespan!NothingLeftRunning

lifePlugins == << pluginStep, liveServices, holding, began, stuck >>

LEMMA PluginsKept ==
  ASSUME LiveInOrder, UNCHANGED lifePlugins, lifePhase' = "boot" => lifePhase = "boot"
  PROVE  LiveInOrder'
BY DEF LiveInOrder, lifePlugins

LEMMA LifeStartPartStep == ASSUME LifeInv, Lifespan!StartPart PROVE LifeInv'
<1>1. /\ lifePhase = "boot" /\ lifeStep <= 17 /\ lifeStep' = lifeStep + 1 /\ lifeStep # 2
      /\ lifeStep \in 1 .. 17
      /\ UNCHANGED << offered, lifePhase, lifePlugins, shells >>
  BY Orders DEF Lifespan!StartPart, lifePlugins, LifeInv, Lifespan!StartOrder
<1>2. partsUp' = IF Lifespan!Built(Lifespan!StartOrder[lifeStep])
                 THEN partsUp \cup {Lifespan!StartOrder[lifeStep]} ELSE partsUp
  BY DEF Lifespan!StartPart
<1>3. LiveInOrder' /\ holding' = holding
  BY <1>1, PluginsKept DEF LifeInv, lifePlugins
<1>4. Lifespan!Built("pipeline") /\ (Lifespan!Built("nodeinfo") <=> Lifespan!Nodeinfo)
  BY DEF Lifespan!Built
<1>5. Lifespan!Nodeinfo' <=> Lifespan!Nodeinfo
  BY <1>1 DEF Lifespan!Nodeinfo, Lifespan!NativeTx, Lifespan!TxService, Lifespan!Has
<1>6. PartsStart'
  BY <1>1, <1>2, <1>4, <1>5, Orders DEF LifeInv, PartsStart
<1>7. QED
  BY <1>1, <1>2, <1>3, <1>6 DEF LifeInv, PartsStop, Lifespan!NothingLeftRunning

(* What appending does to a sequence, place by place.                      *)
LEMMA Appended ==
  ASSUME NEW S, NEW s \in Seq(S), NEW e \in S, NEW t, t = Append(s, e)
  PROVE  /\ t \in Seq(S) /\ Len(s) \in Nat /\ DOMAIN s = 1 .. Len(s)
         /\ DOMAIN t = 1 .. Len(s) + 1 /\ t[Len(s) + 1] = e
         /\ \A a \in DOMAIN s : t[a] = s[a]
<1>1. t \in Seq(S)
  OBVIOUS
<1>2. Len(s) \in Nat /\ DOMAIN s = 1 .. Len(s)
  OBVIOUS
<1>3. DOMAIN t = 1 .. Len(s) + 1 /\ t[Len(s) + 1] = e
  BY <1>2
<1>4. \A a \in DOMAIN s : t[a] = s[a]
  BY <1>2
<1>5. QED
  BY <1>1, <1>2, <1>3, <1>4

(* One turn of start_all(): the new service is the last of the live ones.  *)
LEMMA LifePluginStartStep == ASSUME LifeInv, Lifespan!StartPluginService PROVE LifeInv'
<1> DEFINE service == PluginAt(pluginStep)
           n == Len(liveServices)
<1>1. /\ lifePhase = "boot" /\ lifeStep \in 1 .. 17 /\ lifeStep = 2 /\ pluginStep \in DOMAIN Extensions
      /\ pluginStep' = pluginStep + 1
      /\ UNCHANGED << offered, lifePhase, lifeStep, partsUp, stuck, shells >>
  <2>1. /\ lifePhase = "boot" /\ lifeStep <= 17 /\ Lifespan!StartOrder[lifeStep] = "plugins"
        /\ pluginStep <= Len(Extensions) /\ pluginStep' = pluginStep + 1
        /\ UNCHANGED << offered, lifePhase, lifeStep, partsUp, stuck, shells >>
    BY Orders, Zenon DEF Lifespan!StartPluginService, Lifespan!Booting
  <2>2. lifeStep \in 1 .. 17 /\ pluginStep \in DOMAIN Extensions
    BY <2>1, PluginsDistinct DEF LifeInv, LiveInOrder
  <2>3. lifeStep = 2
    BY <2>1, <2>2, Orders
  <2>4. QED
    BY <2>1, <2>2, <2>3
<1>2. /\ began' \subseteq began \cup holding' /\ holding' \subseteq holding \cup {service}
      /\ holding \subseteq holding'
      /\ \/ liveServices' = Append(liveServices, service)
         \/ liveServices' = liveServices /\ holding' = holding
  BY Zenon DEF Lifespan!StartPluginService, PluginAt, Lifespan!Tracked
<1>3. service \in PluginSet
  BY <1>1 DEF PluginSet
<1>4. \A j \in DOMAIN Extensions : PluginAt(j) = service => j = pluginStep
  BY <1>1, PluginsDistinct
<1>5. began' \subseteq holding' /\ holding' \subseteq holding \cup {service}
  BY <1>1, <1>2 DEF LifeInv, LiveInOrder
<1>6. /\ liveServices \in Seq(PluginSet) /\ pluginStep \in Nat \ {0}
      /\ \A s \in holding \ stuck : \E a \in DOMAIN liveServices : liveServices[a] = s
  BY DEF LifeInv, LiveInOrder
<1>7. \A a \in DOMAIN liveServices, i \in DOMAIN Extensions :
        liveServices[a] = PluginAt(i) => i < pluginStep
  BY DEF LifeInv, LiveInOrder
<1>8. \A a, b \in DOMAIN liveServices, i, j \in DOMAIN Extensions :
        a < b /\ liveServices[a] = PluginAt(i) /\ liveServices[b] = PluginAt(j) => i < j
  BY DEF LifeInv, LiveInOrder
<1>9. DOMAIN Extensions \subseteq Nat
  BY PluginsDistinct
<1> HIDE DEF service, n
<1>10. /\ liveServices' \in Seq(PluginSet)
       /\ \A s \in holding' \ stuck' : \E a \in DOMAIN liveServices' : liveServices'[a] = s
       /\ \A a \in DOMAIN liveServices', i \in DOMAIN Extensions :
             liveServices'[a] = PluginAt(i) => i < pluginStep'
       /\ \A a, b \in DOMAIN liveServices', i, j \in DOMAIN Extensions :
             a < b /\ liveServices'[a] = PluginAt(i) /\ liveServices'[b] = PluginAt(j) => i < j
  <2>1. CASE liveServices' = Append(liveServices, service)
    <3>1. /\ liveServices' \in Seq(PluginSet) /\ n \in Nat /\ DOMAIN liveServices = 1 .. n
          /\ DOMAIN liveServices' = 1 .. n + 1 /\ liveServices'[n + 1] = service
          /\ \A a \in DOMAIN liveServices : liveServices'[a] = liveServices[a]
      BY <1>3, <1>6, <2>1, Appended DEF n
    <3>2. \A a \in DOMAIN liveServices' : a = n + 1 \/ (a \in DOMAIN liveServices /\ a < n + 1)
      BY <3>1
    <3>3. \A a \in DOMAIN liveServices : a \in DOMAIN liveServices' /\ a \in Nat
      BY <3>1
    <3>4. n + 1 \in DOMAIN liveServices'
      BY <3>1
    <3>5. \A s \in holding' \ stuck' : \E a \in DOMAIN liveServices' : liveServices'[a] = s
      BY <1>1, <1>5, <1>6, <3>1, <3>3, <3>4
    <3>6. \A a \in DOMAIN liveServices', i \in DOMAIN Extensions :
             liveServices'[a] = PluginAt(i) => i < pluginStep'
      BY <1>1, <1>4, <1>6, <1>7, <1>9, <3>1, <3>2
    <3>7. \A a, b \in DOMAIN liveServices', i, j \in DOMAIN Extensions :
             a < b /\ liveServices'[a] = PluginAt(i) /\ liveServices'[b] = PluginAt(j) => i < j
      <4> SUFFICES ASSUME NEW a \in DOMAIN liveServices', NEW b \in DOMAIN liveServices',
                          NEW i \in DOMAIN Extensions, NEW j \in DOMAIN Extensions,
                          a < b, liveServices'[a] = PluginAt(i), liveServices'[b] = PluginAt(j)
                   PROVE  i < j
        OBVIOUS
      <4>1. a \in DOMAIN liveServices
        BY <3>1
      <4>2. CASE b = n + 1
        BY <1>4, <1>7, <3>1, <4>1, <4>2
      <4>3. CASE b \in DOMAIN liveServices
        BY <1>8, <3>1, <4>1, <4>3
      <4>4. QED
        BY <3>2, <4>2, <4>3
    <3>8. QED
      BY <3>1, <3>5, <3>6, <3>7
  <2>2. CASE liveServices' = liveServices /\ holding' = holding
    BY <1>1, <1>6, <1>7, <1>8, <1>9, <2>2
  <2>3. QED
    BY <1>2, <2>1, <2>2
<1>11. LiveInOrder'
  <2>1. pluginStep' \in Nat \ {0}
    BY <1>1, <1>6
  <2>2. QED
    BY <1>5, <1>10, <2>1 DEF LiveInOrder, PluginAt
<1>12. Lifespan!Nodeinfo' <=> Lifespan!Nodeinfo
  BY <1>1 DEF Lifespan!Nodeinfo, Lifespan!NativeTx, Lifespan!TxService, Lifespan!Has
<1>13. PartsStart' /\ PartsStop'
  BY <1>1, <1>12 DEF LifeInv, PartsStart, PartsStop
<1>14. QED
  BY <1>1, <1>11, <1>13 DEF LifeInv, Lifespan!NothingLeftRunning

(* One turn of stop_all(): the last of the live ones goes.                 *)
LEMMA LifePluginStopStep == ASSUME LifeInv, Lifespan!StopPluginService PROVE LifeInv'
<1> DEFINE n == Len(liveServices)
           service == liveServices[n]
<1>1. /\ lifePhase = "shutdown" /\ lifeStep \in 1 .. 17 /\ lifeStep = 2 /\ liveServices # << >>
      /\ liveServices' = SubSeq(liveServices, 1, n - 1)
      /\ UNCHANGED << offered, lifePhase, lifeStep, pluginStep, partsUp, began, shells >>
      /\ \/ holding' = holding \ {service} /\ stuck' = stuck
         \/ stuck' = stuck \cup {service} /\ holding' = holding
  BY Orders DEF Lifespan!StopPluginService, Lifespan!Stopping, Lifespan!NextToStop, LifeInv,
                Lifespan!StopOrder
<1>2. /\ n \in Nat \ {0} /\ DOMAIN liveServices = 1 .. n
      /\ liveServices' \in Seq(PluginSet)
      /\ DOMAIN liveServices' = 1 .. n - 1
      /\ \A a \in 1 .. n - 1 : liveServices'[a] = liveServices[a]
  BY <1>1 DEF LifeInv, LiveInOrder
<1> HIDE DEF n
<1>3. \A s \in holding' \ stuck' : \E a \in DOMAIN liveServices' : liveServices'[a] = s
  <2> SUFFICES ASSUME NEW s \in holding' \ stuck'
               PROVE  \E a \in DOMAIN liveServices' : liveServices'[a] = s
    OBVIOUS
  <2>1. s \in holding \ stuck /\ s # service
    BY <1>1
  <2>2. PICK a \in 1 .. n : liveServices[a] = s
    BY <1>2, <2>1 DEF LifeInv, LiveInOrder
  <2>3. a \in 1 .. n - 1
    BY <1>2, <2>1, <2>2
  <2>4. QED
    BY <1>2, <2>2, <2>3
<1>4. \A a \in DOMAIN liveServices', i, j \in DOMAIN Extensions :
         /\ PluginAt(i) \in began' \ holding' /\ liveServices'[a] = PluginAt(j) => j < i
  <2> SUFFICES ASSUME NEW a \in 1 .. n - 1, NEW i \in DOMAIN Extensions, NEW j \in DOMAIN Extensions,
                      PluginAt(i) \in began' \ holding', liveServices'[a] = PluginAt(j)
               PROVE  j < i
    BY <1>2
  <2>1. a \in 1 .. n /\ n \in 1 .. n /\ a < n /\ liveServices[a] = PluginAt(j)
    BY <1>2
  <2>2. CASE PluginAt(i) \in began \ holding
    BY <1>2, <2>1, <2>2 DEF LifeInv, LiveInOrder
  <2>3. CASE PluginAt(i) = service
    BY <1>2, <2>1, <2>3 DEF LifeInv, LiveInOrder
  <2>4. QED
    BY <1>1, <2>2, <2>3
<1>5. LiveInOrder'
  BY <1>1, <1>2, <1>3, <1>4 DEF LifeInv, LiveInOrder, PluginAt
<1>6. QED
  BY <1>1, <1>5 DEF LifeInv, PartsStart, PartsStop, Lifespan!NothingLeftRunning, Lifespan!Nodeinfo,
                    Lifespan!NativeTx, Lifespan!TxService, Lifespan!Has

LEMMA LifeStopPartStep == ASSUME LifeInv, Lifespan!StopPart PROVE LifeInv'
<1>1. /\ lifePhase = "shutdown" /\ lifeStep \in 1 .. 16 /\ lifeStep' = lifeStep + 1 /\ lifeStep # 2
      /\ partsUp' = partsUp \ {Lifespan!StopOrder[lifeStep]}
      /\ UNCHANGED << offered, lifePhase, lifePlugins, shells >>
  BY Orders DEF Lifespan!StopPart, lifePlugins, LifeInv, Lifespan!StopOrder
<1>2. LiveInOrder' /\ liveServices' = liveServices
  BY <1>1, PluginsKept DEF LifeInv, lifePlugins
<1>3. Lifespan!Nodeinfo' <=> Lifespan!Nodeinfo
  BY <1>1 DEF Lifespan!Nodeinfo, Lifespan!NativeTx, Lifespan!TxService, Lifespan!Has
<1>4. \A p \in partsUp' : \E i \in lifeStep' .. 17 : Lifespan!StopOrder[i] = p
  <2> SUFFICES ASSUME NEW p \in partsUp' PROVE \E i \in lifeStep' .. 17 : Lifespan!StopOrder[i] = p
    OBVIOUS
  <2>1. PICK i \in lifeStep .. 17 : Lifespan!StopOrder[i] = p
    BY <1>1 DEF LifeInv, PartsStop
  <2>2. i # lifeStep
    BY <1>1, <2>1
  <2>3. QED
    BY <1>1, <2>1, <2>2
<1>5. PartsStop'
  BY <1>1, <1>2, <1>3, <1>4, Orders DEF LifeInv, PartsStop
<1>6. QED
  BY <1>1, <1>2, <1>5 DEF LifeInv, PartsStart, Lifespan!NothingLeftRunning

LEMMA LifeStopTerminalStep == ASSUME LifeInv, Lifespan!StopTerminal PROVE LifeInv'
<1>1. /\ lifePhase = "shutdown" /\ lifeStep = 17 /\ lifeStep' = lifeStep + 1 /\ lifePhase' = "stopped"
      /\ ~ shells' /\ UNCHANGED << offered, partsUp, lifePlugins >>
  BY Orders DEF Lifespan!StopTerminal, Lifespan!Stopping, lifePlugins, LifeInv, Lifespan!StopOrder
<1>2. LiveInOrder' /\ liveServices' = << >>
  BY <1>1, PluginsKept DEF LifeInv, PartsStop, lifePlugins
<1>3. partsUp = {}
  BY <1>1, Orders DEF LifeInv, PartsStop
<1>4. holding' \subseteq stuck'
  BY <1>2 DEF LiveInOrder
<1>5. QED
  BY <1>1, <1>2, <1>3, <1>4 DEF LifeInv, PartsStart, PartsStop, Lifespan!NothingLeftRunning

LEMMA LifeSignalledStep == ASSUME LifeInv, Lifespan!Signalled PROVE LifeInv'
<1>1. /\ lifePhase = "serving" /\ lifeStep > 17 /\ lifeStep' = 1 /\ lifePhase' = "shutdown"
      /\ partsUp' = partsUp \ {"routes"} /\ UNCHANGED << offered, shells, lifePlugins >>
  BY DEF Lifespan!Signalled, lifePlugins, LifeInv, PartsStart
<1>2. LiveInOrder'
  BY <1>1, PluginsKept DEF LifeInv
<1>3. Lifespan!Nodeinfo' <=> Lifespan!Nodeinfo
  BY <1>1 DEF Lifespan!Nodeinfo, Lifespan!NativeTx, Lifespan!TxService, Lifespan!Has
<1>4. PartsStop'
  BY <1>1, <1>3, Orders DEF LifeInv, PartsStart, PartsStop
<1>5. QED
  BY <1>1, <1>2, <1>4 DEF LifeInv, PartsStart, Lifespan!NothingLeftRunning

LEMMA LifeNextInv == ASSUME LifeInv, [Lifespan!Next]_lifespanVars PROVE LifeInv'
<1>1. CASE Lifespan!StartFails
  BY <1>1 DEF Lifespan!StartFails, LifeInv, LiveInOrder, PartsStart, PartsStop, Lifespan!NothingLeftRunning
<1>2. CASE Lifespan!PluginServicesStarted \/ Lifespan!Ready
  <2>1. /\ lifePhase = "boot" /\ lifeStep \in Nat \ {0}
        /\ UNCHANGED << offered, partsUp, shells, lifePlugins >>
    BY <1>2 DEF Lifespan!PluginServicesStarted, Lifespan!Ready, Lifespan!Booting, lifePlugins, LifeInv
  <2>2. \/ lifeStep' = lifeStep + 1 /\ lifePhase' = lifePhase /\ lifeStep = 2
        \/ lifeStep' = lifeStep /\ lifePhase' = "serving" /\ lifeStep > 17
    <3>1. CASE Lifespan!PluginServicesStarted
      <4>1. /\ lifeStep' = lifeStep + 1 /\ lifePhase' = lifePhase
            /\ lifeStep <= 17 /\ Lifespan!StartOrder[lifeStep] = "plugins"
        BY <3>1, Orders DEF Lifespan!PluginServicesStarted, Lifespan!Booting
      <4>2. lifeStep = 2
        BY <2>1, <4>1, Orders
      <4>3. QED
        BY <4>1, <4>2
    <3>2. CASE Lifespan!Ready
      BY <3>2, Orders DEF Lifespan!Ready
    <3>3. QED
      BY <1>2, <3>1, <3>2
  <2>3. LiveInOrder' /\ (Lifespan!Nodeinfo' <=> Lifespan!Nodeinfo)
    BY <2>1, PluginsKept DEF LifeInv, Lifespan!Nodeinfo, Lifespan!NativeTx, Lifespan!TxService, Lifespan!Has
  <2>4. QED
    BY <2>1, <2>2, <2>3 DEF LifeInv, PartsStart, PartsStop, Lifespan!NothingLeftRunning
<1>3. CASE Lifespan!PluginServicesStopped
  <2>1. /\ lifePhase = "shutdown" /\ lifeStep = 2 /\ lifeStep' = lifeStep + 1 /\ liveServices = << >>
        /\ UNCHANGED << offered, lifePhase, partsUp, shells, lifePlugins >>
    BY <1>3, Orders DEF Lifespan!PluginServicesStopped, Lifespan!Stopping, lifePlugins, LifeInv,
                        Lifespan!StopOrder
  <2>2. LiveInOrder' /\ (Lifespan!Nodeinfo' <=> Lifespan!Nodeinfo) /\ liveServices' = << >>
    BY <2>1, PluginsKept
       DEF LifeInv, lifePlugins, Lifespan!Nodeinfo, Lifespan!NativeTx, Lifespan!TxService, Lifespan!Has
  <2>3. \A p \in partsUp : \E i \in 3 .. 17 : Lifespan!StopOrder[i] = p
    <3>1. \A p \in partsUp : p # "plugins"
      BY Orders DEF LifeInv
    <3>2. QED
      BY <2>1, <3>1, Orders DEF LifeInv, PartsStop
  <2>4. QED
    BY <2>1, <2>2, <2>3 DEF LifeInv, PartsStart, PartsStop, Lifespan!NothingLeftRunning
<1>4. CASE Lifespan!StopFails \/ Lifespan!OpenShell \/ UNCHANGED lifespanVars
  <2>1. /\ UNCHANGED << offered, lifeStep, partsUp, lifePlugins >>
        /\ lifePhase' = lifePhase \/ lifePhase' = "aborted"
        /\ shells' = shells \/ lifePhase = "serving"
    BY <1>4 DEF Lifespan!StopFails, Lifespan!OpenShell, Lifespan!Answering, lifespanVars, lifePlugins
  <2>2. LiveInOrder' /\ (Lifespan!Nodeinfo' <=> Lifespan!Nodeinfo)
    BY <2>1, PluginsKept DEF LifeInv, Lifespan!Nodeinfo, Lifespan!NativeTx, Lifespan!TxService, Lifespan!Has
  <2>3. QED
    BY <2>1, <2>2 DEF LifeInv, PartsStart, PartsStop, lifePlugins, Lifespan!NothingLeftRunning
<1>5. QED
  BY <1>1, <1>2, <1>3, <1>4, LifeStartPartStep, LifePluginStartStep, LifePluginStopStep,
     LifeStopPartStep, LifeStopTerminalStep, LifeSignalledStep DEF Lifespan!Next

(* The invariant gives the three properties of start-up and shutdown.      *)
LEMMA LifeInvIsSafe ==
  LifeInv => Lifespan!NeedsMet /\ Lifespan!NewestFirst /\ Lifespan!NothingLeftRunning
<1> SUFFICES ASSUME LifeInv PROVE Lifespan!NeedsMet /\ Lifespan!NewestFirst
  BY DEF LifeInv
<1>1. Lifespan!NewestFirst
  <2> SUFFICES ASSUME NEW i \in DOMAIN Extensions, NEW j \in DOMAIN Extensions, i < j,
                      PluginAt(i) \in began, PluginAt(j) \in holding \ stuck
               PROVE  PluginAt(i) \in holding
    BY DEF Lifespan!NewestFirst, PluginAt
  <2>1. PICK a \in DOMAIN liveServices : liveServices[a] = PluginAt(j)
    BY DEF LifeInv, LiveInOrder
  <2>2. PluginAt(i) \notin holding => j < i
    BY <2>1 DEF LifeInv, LiveInOrder
  <2>3. QED
    BY <2>2, PluginsDistinct
<1>2. Lifespan!NeedsMet
  <2> SUFFICES ASSUME lifePhase # "aborted" PROVE Lifespan!NeedsMet
    BY DEF Lifespan!NeedsMet
  <2>1. "button" \in partsUp /\ Lifespan!Nodeinfo => "nodeinfo" \in partsUp
    BY Orders DEF LifeInv, PartsStart, PartsStop
  <2>2. partsUp # {} \/ holding \ stuck # {} => "pipeline" \in partsUp
    BY Orders DEF LifeInv, LiveInOrder, PartsStart, PartsStop
  <2>3. \A p \in partsUp : Lifespan!Uses(p) \subseteq partsUp
    BY <2>1, <2>2 DEF Lifespan!Uses, Lifespan!AdvertSteps
  <2>4. QED
    BY <2>2, <2>3 DEF Lifespan!NeedsMet
<1>3. QED
  BY <1>1, <1>2

(* No end leaves anything behind: for any tabs, orders of hanging up and   *)
(* shutdowns the terminal ends every shell it started, keeps its cap and   *)
(* audits each session, and for any hardware, failed starts and failed     *)
(* stops no part runs without what it calls into, plugin services go       *)
(* newest first and a completed shutdown has stopped all but the services  *)
(* whose own stop() raised.                                                *)
THEOREM EndsAreClean == Spec => []EndsClean
<1> USE ShellAssumption
<1> DEFINE Kept == /\ part = "terminal" => ShellInv
                   /\ part = "lifespan" => LifeInv
<1>1. Init => Kept
  BY ShellInitInv, LifeInitInv, EachInit
<1>2. Kept /\ [Next]_vars => Kept'
  BY ShellAlone, LifespanAlone, ShellNextInv, LifeNextInv
<1>3. Kept => EndsClean
  BY ShellInvIsSafe, LifeInvIsSafe DEF EndsClean
<1> HIDE DEF Kept
<1>4. QED
  BY <1>1, <1>2, <1>3, PTL DEF Spec
=============================================================================
