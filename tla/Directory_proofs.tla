--------------------------- MODULE Directory_proofs --------------------------
(***************************************************************************)
(* Proofs about the components of MCRecords that say who is who: the       *)
(* directory of nodes, the names of the attached radios and the plugins    *)
(* that are installed.                                                     *)
(***************************************************************************)
EXTENDS MCRecords, SequenceTheorems, WellFoundedInduction, TLAPS

-----------------------------------------------------------------------------
(***************************************************************************)
(* One component at a time: while a behaviour is about a component, its    *)
(* steps are that component's, and in the others the component stands      *)
(* still.                                                                  *)
(***************************************************************************)
LEMMA DirectoriesInit ==
  Init => Directory!Init /\ Naming!Init /\ Plugin!Init
BY DEF Init

LEMMA DirectoryAlone ==
  ASSUME [Next]_vars
  PROVE  /\ part' = part /\ (part = "nodes" => [Directory!Next]_directoryVars)
         /\ part # "nodes" => UNCHANGED directoryVars
<1>1. CASE Next
  BY <1>1, Zenon DEF Next
<1>2. CASE UNCHANGED vars
  BY <1>2 DEF vars
<1>3. QED
  BY <1>1, <1>2

LEMMA NamingAlone ==
  ASSUME [Next]_vars
  PROVE  /\ part' = part /\ (part = "names" => [Naming!Next]_namingVars)
         /\ part # "names" => UNCHANGED namingVars
<1>1. CASE Next
  BY <1>1, Zenon DEF Next
<1>2. CASE UNCHANGED vars
  BY <1>2 DEF vars
<1>3. QED
  BY <1>1, <1>2

LEMMA PluginAlone ==
  ASSUME [Next]_vars
  PROVE  /\ part' = part /\ (part = "plugins" => [Plugin!Next]_pluginVars)
         /\ part # "plugins" => UNCHANGED pluginVars
<1>1. CASE Next
  BY <1>1, Zenon DEF Next
<1>2. CASE UNCHANGED vars
  BY <1>2 DEF vars
<1>3. QED
  BY <1>1, <1>2

-----------------------------------------------------------------------------
(***************************************************************************)
(* A set of numbers with a bound has a greatest element, one of numbers    *)
(* has a least.                                                            *)
(***************************************************************************)
LEMMA GreatestNat ==
  ASSUME NEW n \in Nat, NEW T \in SUBSET (1 .. n), T # {}
  PROVE  \E m \in T : \A k \in T : k <= m
<1> DEFINE Less == {ss \in Nat \X Nat : ss[1] < ss[2]}
<1> DEFINE U == {n - k : k \in T}
<1>1. IsWellFoundedOn(Less, Nat)
  BY NatLessThanWellFounded DEF OpToRel
<1>2. U \subseteq Nat /\ U # {}
  <2>1. \A k \in T : k \in Nat /\ k <= n
    OBVIOUS
  <2>2. \A k \in T : n - k \in Nat
    BY <2>1
  <2>3. PICK k \in T : TRUE
    BY Zenon
  <2>4. n - k \in U
    BY <2>3
  <2>5. QED
    BY <2>2, <2>4
<1> HIDE DEF Less
<1>3. PICK m \in U : \A k \in U : ~ (<< k, m >> \in Less)
  <2> HIDE DEF U
  <2> QED
    BY <1>1, <1>2, WFMin, Zenon
<1>4. ASSUME NEW k \in U, k < m PROVE FALSE
  <2>1. << k, m >> \in Nat \X Nat /\ << k, m >>[1] < << k, m >>[2]
    BY <1>2, <1>3, <1>4
  <2>2. << k, m >> \in Less
    BY <2>1 DEF Less
  <2>3. QED
    BY <1>3, <2>2
<1>5. PICK j \in T : m = n - j
  BY <1>3
<1>6. ASSUME NEW k \in T PROVE k <= j
  <2>1. n - k \in U /\ k \in Nat /\ j \in Nat
    OBVIOUS
  <2>2. ~ (n - k < n - j)
    BY <1>4, <1>5, <2>1
  <2>3. QED
    BY <2>1, <2>2
<1>7. QED
  BY <1>6

-----------------------------------------------------------------------------
(***************************************************************************)
(* The directory of nodes.  Each row, as the connection sees it and as it  *)
(* was committed, has the name and the count of its own node, and the two  *)
(* differ in the name only, which a stop may take back.                    *)
(***************************************************************************)
(* A row that exists, of any count.                                        *)
StoredRow == [name : {Directory!None, Directory!Hex} \cup Contacts, heard : Directory!Stamps, count : Nat]

(* What is true of the row of node n after a packets.                      *)
RowOf(r, n, a, crossings) ==
    \/ r = Directory!NoRow /\ a = 0
    \/ /\ r \in StoredRow /\ r.count \in {a, a - 1}
       /\ n \in Contacts \ crossings => r.name \in {Directory!None, Directory!Hex, n}

(* Two versions of a row that differ in the name at most.                  *)
Alike(r, s) == /\ r = Directory!NoRow <=> s = Directory!NoRow
               /\ r.heard = s.heard /\ r.count = s.count

(* The inductive invariant.                                                *)
DirectoryInv ==
    /\ nodeStamps \in [Directory!Nodes -> SUBSET Directory!Stamps]
    /\ nodeSaved.stamps \in [Directory!Nodes -> SUBSET Directory!Stamps]
    /\ \/ nodePacket = Directory!NoPacket
       \/ /\ nodePacket.node \in Contacts /\ nodePacket.stamp \in Directory!Stamps
          /\ nodePacket.name \in {Directory!None, nodePacket.node}
    /\ nodeApplied \in [Directory!Nodes -> Nat]
    /\ DOMAIN nodeRows = Directory!Nodes /\ DOMAIN nodeSaved.nodes = Directory!Nodes
    /\ nodeRows = [n \in Directory!Nodes |-> nodeRows[n]]
    /\ nodeSaved.nodes = [n \in Directory!Nodes |-> nodeSaved.nodes[n]]
    /\ \A n \in Directory!Nodes :
         /\ RowOf(nodeRows[n], n, nodeApplied[n], nodeCrossed)
         /\ RowOf(nodeSaved.nodes[n], n, nodeApplied[n], nodeCrossed)
         /\ Alike(nodeRows[n], nodeSaved.nodes[n])

(* Rows, and the latest time stamp of a node.                              *)
LEMMA NoRowIsNone == Directory!NoRow \notin StoredRow
BY DirectoryAssumption DEF Directory!NoRow, StoredRow, Directory!Stamps

LEMMA RowParts ==
  ASSUME NEW r \in StoredRow
  PROVE  /\ r.name \in {Directory!None, Directory!Hex} \cup Contacts
         /\ r.heard \in Directory!Stamps /\ r.heard \in Nat /\ r.count \in Nat
BY DirectoryAssumption DEF StoredRow, Directory!Stamps

LEMMA NewRow ==
  ASSUME NEW x \in {Directory!None, Directory!Hex} \cup Contacts,
         NEW t \in Directory!Stamps, NEW c \in Nat
  PROVE  [name |-> x, heard |-> t, count |-> c] \in StoredRow
BY DEF StoredRow

LEMMA LatestIsLatest ==
  ASSUME DirectoryInv, NEW n \in Directory!Nodes
  PROVE  /\ Directory!Latest(n) \in Directory!Stamps \cup {0}
         /\ \A t \in nodeStamps[n] : Directory!Latest(n) >= t
<1>1. nodeStamps[n] \subseteq 1 .. MaxStamp
  BY DEF DirectoryInv, Directory!Stamps
<1>2. CASE nodeStamps[n] = {}
  BY <1>2 DEF Directory!Latest
<1>3. CASE nodeStamps[n] # {}
  <2>1. \E m \in nodeStamps[n] : \A k \in nodeStamps[n] : k <= m
    BY <1>1, <1>3, DirectoryAssumption, GreatestNat
  <2>2. \E m \in nodeStamps[n] : \A k \in nodeStamps[n] : m >= k
    BY <1>1, <2>1
  <2>3. /\ Directory!Latest(n) \in nodeStamps[n]
        /\ \A k \in nodeStamps[n] : Directory!Latest(n) >= k
    BY <1>3, <2>2 DEF Directory!Latest, Directory!Max
  <2>4. QED
    BY <1>1, <2>3 DEF Directory!Stamps
<1>4. QED
  BY <1>2, <1>3

LEMMA ReportedIsLate ==
  ASSUME DirectoryInv, NEW n \in Directory!Nodes, NEW t \in Directory!Stamps
  PROVE  /\ Directory!ReportedHeard(n, t) \in Directory!Stamps
         /\ \A u \in nodeStamps[n] : Directory!ReportedHeard(n, t) >= u
<1>1. /\ Directory!Latest(n) \in Directory!Stamps \cup {0}
      /\ \A u \in nodeStamps[n] : Directory!Latest(n) >= u
  BY LatestIsLatest
<1>2. nodeStamps[n] \subseteq 1 .. MaxStamp
  BY DEF DirectoryInv, Directory!Stamps
<1>3. QED
  BY <1>1, <1>2, DirectoryAssumption
  DEF Directory!ReportedHeard, Directory!Larger, Directory!Stamps

(* A step that commits has to restore the invariant for the rows only.     *)
LEMMA Committed ==
  ASSUME DirectoryInv, Directory!Commit,
         nodeStamps' \in [Directory!Nodes -> SUBSET Directory!Stamps],
         \/ nodePacket' = Directory!NoPacket \/ nodePacket' = nodePacket
         \/ /\ nodePacket'.node \in Contacts /\ nodePacket'.stamp \in Directory!Stamps
            /\ nodePacket'.name \in {Directory!None, nodePacket'.node},
         nodeApplied' \in [Directory!Nodes -> Nat],
         DOMAIN nodeRows' = Directory!Nodes,
         nodeRows' = [n \in Directory!Nodes |-> nodeRows'[n]],
         \A n \in Directory!Nodes : RowOf(nodeRows'[n], n, nodeApplied'[n], nodeCrossed')
  PROVE  DirectoryInv'
<1>1. nodeSaved'.nodes = nodeRows' /\ nodeSaved'.stamps = nodeStamps'
  BY DEF Directory!Commit
<1>2. \A n \in Directory!Nodes : Alike(nodeRows'[n], nodeSaved'.nodes[n])
  BY <1>1 DEF Alike
<1>3. \/ nodePacket' = Directory!NoPacket
      \/ /\ nodePacket'.node \in Contacts /\ nodePacket'.stamp \in Directory!Stamps
         /\ nodePacket'.name \in {Directory!None, nodePacket'.node}
  BY DEF DirectoryInv
<1>4. QED
  BY <1>1, <1>2, <1>3 DEF DirectoryInv

LEMMA OneRow ==
  ASSUME DirectoryInv, NEW m \in Directory!Nodes, NEW r, NEW a \in Nat, NEW x,
         nodeCrossed \subseteq x,
         RowOf(r, m, a, x)
  PROVE  \A n \in Directory!Nodes :
            RowOf([nodeRows EXCEPT ![m] = r][n], n, [nodeApplied EXCEPT ![m] = a][n], x)
<1> TAKE n \in Directory!Nodes
<1>1. RowOf(nodeRows[n], n, nodeApplied[n], nodeCrossed)
  BY DEF DirectoryInv
<1>2. RowOf(nodeRows[n], n, nodeApplied[n], x)
  BY <1>1 DEF RowOf
<1>3. CASE n = m
  <2>1. /\ [nodeRows EXCEPT ![m] = r][n] = r
        /\ [nodeApplied EXCEPT ![m] = a][n] = a
    BY <1>3 DEF DirectoryInv
  <2>2. QED
    BY <1>3, <2>1
<1>4. CASE n # m
  <2>1. /\ [nodeRows EXCEPT ![m] = r][n] = nodeRows[n]
        /\ [nodeApplied EXCEPT ![m] = a][n] = nodeApplied[n]
    BY <1>4 DEF DirectoryInv
  <2>2. QED
    BY <1>2, <2>1
<1>5. QED
  BY <1>3, <1>4

LEMMA ReplacesRow ==
  ASSUME DirectoryInv, Directory!Commit,
         NEW m \in Directory!Nodes, NEW r, NEW a \in Nat,
         nodeCrossed \subseteq nodeCrossed',
         RowOf(r, m, a, nodeCrossed'),
         nodeRows' = [nodeRows EXCEPT ![m] = r],
         nodeApplied' = [nodeApplied EXCEPT ![m] = a],
         nodeStamps' = nodeStamps,
         nodePacket' \in {nodePacket, Directory!NoPacket}
  PROVE  DirectoryInv'
<1>1. \A n \in Directory!Nodes : RowOf(nodeRows'[n], n, nodeApplied'[n], nodeCrossed')
  BY OneRow
<1>2. /\ DOMAIN nodeRows' = Directory!Nodes
      /\ nodeRows' = [n \in Directory!Nodes |-> nodeRows'[n]]
      /\ nodeApplied' \in [Directory!Nodes -> Nat]
      /\ nodeStamps' \in [Directory!Nodes -> SUBSET Directory!Stamps]
  BY DEF DirectoryInv
<1>3. QED
  BY <1>1, <1>2, Committed

(* What a packet, a report, a name and an import make of a row.            *)
LEMMA UpdatedRow ==
  ASSUME DirectoryInv, nodePacket # Directory!NoPacket, NEW now \in Directory!Stamps,
         NEW n, n = nodePacket.node,
         NEW r, r = IF nodePacket.decoded THEN Directory!Upserted(nodeRows[n], nodePacket)
                                          ELSE Directory!Incremented(nodeRows[n], now)
  PROVE  /\ n \in Directory!Nodes
         /\ RowOf(r, n, IF r = Directory!NoRow THEN 0 ELSE nodeApplied[n] + 1, nodeCrossed)
         /\ (nodeRows[n] # Directory!NoRow /\ nodeRows[n].name \in Contacts)
               => r.name \in Contacts
         /\ nodeRows[n] # Directory!NoRow => r # Directory!NoRow
<1>1. /\ n \in Contacts /\ n \in Directory!Nodes
      /\ nodePacket.stamp \in Directory!Stamps /\ nodePacket.name \in {Directory!None, n}
      /\ nodeApplied[n] \in Nat
      /\ RowOf(nodeRows[n], n, nodeApplied[n], nodeCrossed)
  BY DEF DirectoryInv, Directory!Nodes
<1>2. CASE nodeRows[n] = Directory!NoRow
  <2>1. CASE nodePacket.decoded
    <3>1. r = [name |-> nodePacket.name, heard |-> nodePacket.stamp, count |-> 0]
      BY <1>2, <2>1 DEF Directory!Upserted
    <3>2. r \in StoredRow
      BY <1>1, <3>1, NewRow
    <3>3. r # Directory!NoRow
      BY <3>2, NoRowIsNone
    <3>4. nodeApplied[n] = 0
      BY <1>1, <1>2, NoRowIsNone DEF RowOf
    <3>5. r.count = 0 /\ r.name \in {Directory!None, Directory!Hex, n}
      BY <1>1, <3>1
    <3>6. QED
      BY <1>1, <1>2, <3>2, <3>3, <3>4, <3>5 DEF RowOf
  <2>2. CASE ~ nodePacket.decoded
    BY <1>1, <1>2, <2>2 DEF Directory!Incremented, RowOf
  <2>3. QED
    BY <2>1, <2>2
<1>3. CASE nodeRows[n] # Directory!NoRow
  <2>1. /\ nodeRows[n] \in StoredRow /\ nodeRows[n].count \in {nodeApplied[n], nodeApplied[n] - 1}
        /\ n \notin nodeCrossed => nodeRows[n].name \in {Directory!None, Directory!Hex, n}
    BY <1>1, <1>3 DEF RowOf
  <2>2. /\ nodeRows[n].name \in {Directory!None, Directory!Hex} \cup Contacts
        /\ nodeRows[n].count \in Nat
    BY <2>1, RowParts
  <2>3. /\ r.heard \in Directory!Stamps /\ r.count = nodeRows[n].count + 1
        /\ r = [name |-> r.name, heard |-> r.heard, count |-> r.count]
        /\ r.name = nodeRows[n].name \/ (r.name = n /\ nodePacket.name = n)
    <3>1. CASE nodePacket.decoded
      BY <1>1, <1>3, <3>1 DEF Directory!Upserted, Directory!MergedName
    <3>2. CASE ~ nodePacket.decoded
      BY <1>1, <1>3, <2>1, <3>2 DEF Directory!Incremented, StoredRow
    <3>3. QED
      BY <3>1, <3>2
  <2>4. r.name \in {Directory!None, Directory!Hex} \cup Contacts
    BY <1>1, <2>2, <2>3
  <2>5. r.count \in Nat
    BY <2>2, <2>3
  <2>6. r \in StoredRow
    BY <2>3, <2>4, <2>5, NewRow
  <2>7. r # Directory!NoRow
    BY <2>6, NoRowIsNone
  <2>8. r.count \in {nodeApplied[n] + 1, (nodeApplied[n] + 1) - 1}
    BY <1>1, <2>1, <2>2, <2>3
  <2>9. n \in Contacts \ nodeCrossed => r.name \in {Directory!None, Directory!Hex, n}
    BY <2>1, <2>3
  <2>10. QED
    BY <1>1, <2>2, <2>3, <2>6, <2>7, <2>8, <2>9 DEF RowOf
<1>4. QED
  BY <1>2, <1>3

LEMMA ReportedRowOf ==
  ASSUME DirectoryInv, NEW n \in Contacts, NEW t \in Directory!Stamps,
         NEW r, r = Directory!ReportedRow(n, t)
  PROVE  /\ RowOf(r, n, nodeApplied[n], nodeCrossed) /\ r # Directory!NoRow
         /\ nodeRows[n] # Directory!NoRow =>
              /\ nodeRows[n].name \in Contacts => r.name \in Contacts
              /\ \A u \in nodeStamps[n] : r.heard >= u
<1>1. /\ n \in Directory!Nodes /\ nodeApplied[n] \in Nat
      /\ RowOf(nodeRows[n], n, nodeApplied[n], nodeCrossed)
  BY DEF DirectoryInv, Directory!Nodes
<1>2. CASE nodeRows[n] = Directory!NoRow
  <2>1. r = [name |-> Directory!Hex, heard |-> t, count |-> 0]
    BY <1>2 DEF Directory!ReportedRow
  <2>2. r \in StoredRow
    BY <2>1, NewRow
  <2>3. nodeApplied[n] = 0
    BY <1>1, <1>2, NoRowIsNone DEF RowOf
  <2>4. r.count = 0 /\ r.name = Directory!Hex
    BY <2>1
  <2>5. QED
    BY <1>2, <2>2, <2>3, <2>4, NoRowIsNone DEF RowOf
<1>3. CASE nodeRows[n] # Directory!NoRow
  <2>1. /\ nodeRows[n] \in StoredRow /\ nodeRows[n].count \in {nodeApplied[n], nodeApplied[n] - 1}
        /\ n \notin nodeCrossed => nodeRows[n].name \in {Directory!None, Directory!Hex, n}
    BY <1>1, <1>3 DEF RowOf
  <2>2. /\ nodeRows[n].name \in {Directory!None, Directory!Hex} \cup Contacts
        /\ nodeRows[n].count \in Nat
    BY <2>1, RowParts
  <2>3. /\ Directory!ReportedHeard(n, t) \in Directory!Stamps
        /\ \A u \in nodeStamps[n] : Directory!ReportedHeard(n, t) >= u
    BY <1>1, ReportedIsLate
  <2>4. /\ r.heard = Directory!ReportedHeard(n, t) /\ r.count = nodeRows[n].count
        /\ r.name = IF nodeRows[n].name \in {Directory!None, Directory!Hex} THEN Directory!Hex ELSE nodeRows[n].name
        /\ r = [name |-> r.name, heard |-> r.heard, count |-> r.count]
    BY <1>3, <2>1 DEF Directory!ReportedRow, StoredRow
  <2>5. r.name \in {Directory!None, Directory!Hex} \cup Contacts
    BY <2>2, <2>4
  <2>6. r \in StoredRow
    BY <2>2, <2>3, <2>4, <2>5, NewRow
  <2>7. n \notin nodeCrossed => r.name \in {Directory!None, Directory!Hex, n}
    BY <2>1, <2>4
  <2>8. nodeRows[n].name \in Contacts => r.name \in Contacts
    BY <2>4, DirectoryAssumption
  <2>9. QED
    BY <2>1, <2>3, <2>4, <2>6, <2>7, <2>8, NoRowIsNone DEF RowOf
<1>4. QED
  BY <1>2, <1>3

LEMMA NamedRow ==
  ASSUME DirectoryInv, NEW m \in Directory!Nodes, NEW x \in Contacts, NEW h \in Directory!Stamps,
         NEW c, c \in {nodeRows[m].count}, nodeRows[m] # Directory!NoRow,
         NEW v, nodeCrossed \subseteq v, m \in Contacts \ v => x = m,
         NEW r, r = [name |-> x, heard |-> h, count |-> c]
  PROVE  RowOf(r, m, nodeApplied[m], v) /\ r # Directory!NoRow
<1>1. RowOf(nodeRows[m], m, nodeApplied[m], nodeCrossed)
  BY DEF DirectoryInv
<1>2. nodeRows[m] \in StoredRow /\ nodeRows[m].count \in {nodeApplied[m], nodeApplied[m] - 1}
  BY <1>1 DEF RowOf
<1>3. nodeRows[m].count \in Nat
  BY <1>2, RowParts
<1>4. r \in StoredRow
  BY <1>3, NewRow
<1>5. r.name = x /\ r.count = nodeRows[m].count
  OBVIOUS
<1>6. QED
  BY <1>2, <1>4, <1>5, NoRowIsNone DEF RowOf

LEMMA FreshRow ==
  ASSUME DirectoryInv, NEW m \in Directory!Nodes, NEW x \in Contacts, NEW t \in Directory!Stamps,
         nodeRows[m] = Directory!NoRow, NEW v, m \in Contacts \ v => x = m,
         NEW r, r = [name |-> x, heard |-> t, count |-> 0]
  PROVE  RowOf(r, m, nodeApplied[m], v) /\ r # Directory!NoRow
<1>1. RowOf(nodeRows[m], m, nodeApplied[m], nodeCrossed)
  BY DEF DirectoryInv
<1>2. nodeApplied[m] = 0
  BY <1>1, NoRowIsNone DEF RowOf
<1>3. r \in StoredRow
  BY NewRow
<1>4. r.name = x /\ r.count = 0
  OBVIOUS
<1>5. QED
  BY <1>2, <1>3, <1>4, NoRowIsNone DEF RowOf

(* What no step may do to a row: take its name, make it look staler than a *)
(* stored packet, wipe it though it was heard twice.                       *)
NodeKept(n) ==
    /\ (/\ nodeRows[n] # Directory!NoRow /\ nodeRows[n].name \in Contacts
        /\ nodeRows'[n] # Directory!NoRow)
         => nodeRows'[n].name \in Contacts \/ nodeRows'[n] = nodeSaved.nodes[n]
    /\ (/\ nodeRows[n] # Directory!NoRow /\ nodeRows'[n] # Directory!NoRow
        /\ nodeRows'[n].heard < nodeRows[n].heard /\ nodeApplied'[n] = nodeApplied[n])
         => \A t \in nodeStamps[n] : nodeRows'[n].heard >= t
    /\ (/\ nodeRows[n] # Directory!NoRow /\ nodeRows'[n] = Directory!NoRow
        /\ ~ nodeClearing /\ dirRunning')
         => nodeApplied[n] <= 1 /\ nodeRows[n].name = Directory!None

LEMMA RowHeard ==
  ASSUME DirectoryInv, NEW n \in Directory!Nodes, nodeRows[n] # Directory!NoRow
  PROVE  /\ nodeRows[n] \in StoredRow /\ nodeRows[n].heard \in Nat
         /\ nodeRows[n].heard \in Directory!Stamps
<1>1. RowOf(nodeRows[n], n, nodeApplied[n], nodeCrossed)
  BY DEF DirectoryInv
<1>2. QED
  BY <1>1, RowParts DEF RowOf

LEMMA SameRow ==
  ASSUME DirectoryInv, NEW n \in Directory!Nodes, nodeRows'[n] = nodeRows[n]
  PROVE  NodeKept(n)
<1>1. nodeRows[n] # Directory!NoRow => nodeRows[n].heard \in Nat
  BY RowHeard
<1>2. QED
  BY <1>1 DEF NodeKept

LEMMA OnlyOneRow ==
  ASSUME DirectoryInv, NEW m \in Directory!Nodes, NEW r, nodeRows' = [nodeRows EXCEPT ![m] = r],
         NodeKept(m)
  PROVE  \A n \in Directory!Nodes : NodeKept(n)
<1> TAKE n \in Directory!Nodes
<1>1. CASE n = m
  BY <1>1
<1>2. CASE n # m
  <2>1. nodeRows'[n] = nodeRows[n]
    BY <1>2 DEF DirectoryInv
  <2>2. QED
    BY <2>1, SameRow
<1>3. QED
  BY <1>1, <1>2

LEMMA TableStands ==
  ASSUME DirectoryInv, UNCHANGED << nodeRows, nodeApplied, nodeCrossed >>, UNCHANGED nodeSaved \/ Directory!Commit,
         nodeStamps' \in [Directory!Nodes -> SUBSET Directory!Stamps],
         \/ nodePacket' = Directory!NoPacket \/ nodePacket' = nodePacket
         \/ /\ nodePacket'.node \in Contacts /\ nodePacket'.stamp \in Directory!Stamps
            /\ nodePacket'.name \in {Directory!None, nodePacket'.node}
  PROVE  DirectoryInv' /\ \A n \in Directory!Nodes : NodeKept(n)
<1>1. \A n \in Directory!Nodes : NodeKept(n)
  BY SameRow
<1>2. \/ nodePacket' = Directory!NoPacket
      \/ /\ nodePacket'.node \in Contacts /\ nodePacket'.stamp \in Directory!Stamps
         /\ nodePacket'.name \in {Directory!None, nodePacket'.node}
  BY DEF DirectoryInv
<1>3. CASE UNCHANGED nodeSaved
  <2>1. /\ nodeRows' = nodeRows /\ nodeSaved' = nodeSaved /\ nodeApplied' = nodeApplied
        /\ nodeCrossed' = nodeCrossed
    BY <1>3
  <2>2. QED
    BY <1>1, <1>2, <2>1 DEF DirectoryInv
<1>4. CASE Directory!Commit
  <2>1. /\ nodeRows' = nodeRows /\ nodeApplied' = nodeApplied /\ nodeCrossed' = nodeCrossed
    OBVIOUS
  <2>2. /\ nodeApplied' \in [Directory!Nodes -> Nat] /\ DOMAIN nodeRows' = Directory!Nodes
        /\ nodeRows' = [n \in Directory!Nodes |-> nodeRows'[n]]
        /\ \A n \in Directory!Nodes : RowOf(nodeRows'[n], n, nodeApplied'[n], nodeCrossed')
    BY <2>1 DEF DirectoryInv
  <2>3. QED
    BY <1>1, <1>4, <2>2, Committed
<1>5. QED
  BY <1>1, <1>3, <1>4

LEMMA DirectoryStart == Directory!Init => DirectoryInv
<1> SUFFICES ASSUME Directory!Init PROVE DirectoryInv
  OBVIOUS
<1>1. /\ nodeSaved.nodes = nodeRows /\ nodeSaved.stamps = nodeStamps
      /\ nodeRows = [n \in Directory!Nodes |-> Directory!NoRow]
      /\ nodeStamps = [n \in Directory!Nodes |-> {}]
      /\ nodePacket = Directory!NoPacket
      /\ nodeApplied = [n \in Directory!Nodes |-> 0]
  BY DEF Directory!Init
<1>2. QED
  BY <1>1 DEF DirectoryInv, RowOf, Alike

(* One lemma per action, then the step.                                    *)
LEMMA InsertKeeps ==
  ASSUME DirectoryInv, NEW n \in Contacts, NEW t \in Directory!Stamps,
         NEW x \in {Directory!None, n}, NEW d, Directory!Insert(n, t, x, d)
  PROVE  DirectoryInv' /\ \A k \in Directory!Nodes : NodeKept(k)
<1>1. nodeStamps' \in [Directory!Nodes -> SUBSET Directory!Stamps]
  BY DEF Directory!Insert, DirectoryInv
<1>2. /\ nodePacket'.node = n /\ nodePacket'.stamp = t /\ nodePacket'.name = x
      /\ UNCHANGED << nodeRows, nodeApplied, nodeCrossed >> /\ Directory!Commit
  BY DEF Directory!Insert
<1>3. QED
  BY <1>1, <1>2, TableStands

LEMMA UpdateKeeps ==
  ASSUME DirectoryInv, NEW now \in Directory!Stamps, Directory!UpdateNode(now)
  PROVE  DirectoryInv' /\ \A k \in Directory!Nodes : NodeKept(k)
<1> DEFINE n == nodePacket.node
           r == IF nodePacket.decoded THEN Directory!Upserted(nodeRows[n], nodePacket)
                                      ELSE Directory!Incremented(nodeRows[n], now)
           a == IF r = Directory!NoRow THEN 0 ELSE nodeApplied[n] + 1
<1>1. /\ nodePacket # Directory!NoPacket /\ Directory!Commit
      /\ nodeRows' = [nodeRows EXCEPT ![n] = r]
      /\ nodeApplied' = [nodeApplied EXCEPT ![n] = a]
      /\ nodePacket' = Directory!NoPacket /\ nodeStamps' = nodeStamps
      /\ nodeCrossed' = nodeCrossed
  BY Zenon DEF Directory!UpdateNode
<1>2. /\ n \in Directory!Nodes
      /\ RowOf(r, n, a, nodeCrossed)
      /\ (nodeRows[n] # Directory!NoRow /\ nodeRows[n].name \in Contacts)
               => r.name \in Contacts
      /\ nodeRows[n] # Directory!NoRow => r # Directory!NoRow
  BY <1>1, UpdatedRow, Zenon
<1>3. a = 0 \/ a = nodeApplied[n] + 1
  OBVIOUS
<1>4. r # Directory!NoRow => a = nodeApplied[n] + 1
  OBVIOUS
<1> HIDE DEF r, a, n
<1>5. nodeApplied[n] \in Nat
  BY <1>2 DEF DirectoryInv
<1>6. a \in Nat
  BY <1>3, <1>5
<1>7. DirectoryInv'
  BY <1>1, <1>2, <1>6, ReplacesRow
<1>8. nodeRows'[n] = r /\ nodeApplied'[n] = a
  BY <1>1, <1>2 DEF DirectoryInv
<1>9. NodeKept(n)
  BY <1>2, <1>4, <1>5, <1>8 DEF NodeKept
<1>10. QED
  BY <1>1, <1>2, <1>7, <1>9, OnlyOneRow

LEMMA ReportKeeps ==
  ASSUME DirectoryInv, NEW n \in Contacts, NEW t \in Directory!Stamps,
         Directory!NeighbourReport(n, t)
  PROVE  DirectoryInv' /\ \A k \in Directory!Nodes : NodeKept(k)
<1> DEFINE r == Directory!ReportedRow(n, t)
<1>1. /\ nodeRows' = [nodeRows EXCEPT ![n] = r] /\ Directory!Commit
      /\ nodePacket' = nodePacket /\ nodeStamps' = nodeStamps
      /\ nodeCrossed' = nodeCrossed /\ nodeApplied' = nodeApplied
  BY Zenon DEF Directory!NeighbourReport
<1>2. /\ RowOf(r, n, nodeApplied[n], nodeCrossed) /\ r # Directory!NoRow
      /\ nodeRows[n] # Directory!NoRow =>
              /\ nodeRows[n].name \in Contacts => r.name \in Contacts
              /\ \A u \in nodeStamps[n] : r.heard >= u
  BY ReportedRowOf, Zenon
<1> HIDE DEF r
<1>3. n \in Directory!Nodes /\ nodeApplied[n] \in Nat
  BY DEF DirectoryInv, Directory!Nodes
<1>4. nodeApplied' = [nodeApplied EXCEPT ![n] = nodeApplied[n]]
  BY <1>1, <1>3 DEF DirectoryInv
<1>5. DirectoryInv'
  BY <1>1, <1>2, <1>3, <1>4, ReplacesRow
<1>6. nodeRows'[n] = r
  BY <1>1, <1>3 DEF DirectoryInv
<1>7. NodeKept(n)
  BY <1>2, <1>6 DEF NodeKept
<1>8. QED
  BY <1>1, <1>3, <1>5, <1>7, OnlyOneRow

LEMMA NamingKeeps ==
  ASSUME DirectoryInv, NEW m \in Directory!Nodes, NEW r,
         nodeRows' = [nodeRows EXCEPT ![m] = r], Directory!Commit,
         nodePacket' = nodePacket, nodeStamps' = nodeStamps, nodeApplied' = nodeApplied,
         nodeCrossed \subseteq nodeCrossed',
         RowOf(r, m, nodeApplied[m], nodeCrossed'), r # Directory!NoRow,
         nodeRows[m] # Directory!NoRow =>
            /\ nodeRows[m].name \in Contacts => r.name \in Contacts
            /\ r.heard >= nodeRows[m].heard \/ \A u \in nodeStamps[m] : r.heard >= u
  PROVE  DirectoryInv' /\ \A k \in Directory!Nodes : NodeKept(k)
<1>1. nodeApplied[m] \in Nat /\ nodeApplied' = [nodeApplied EXCEPT ![m] = nodeApplied[m]]
  BY DEF DirectoryInv
<1>2. DirectoryInv'
  BY <1>1, ReplacesRow
<1>3. nodeRows'[m] = r
  BY DEF DirectoryInv
<1>4. nodeRows[m] # Directory!NoRow => nodeRows[m].heard \in Nat
  BY RowHeard
<1>5. r.heard \in Nat
  BY RowParts DEF RowOf
<1>6. NodeKept(m)
  BY <1>3, <1>4, <1>5 DEF NodeKept
<1>7. QED
  BY <1>2, <1>6, OnlyOneRow

LEMMA MessageKeeps ==
  ASSUME DirectoryInv, NEW n \in Contacts, Directory!NameFromMessage(n)
  PROVE  DirectoryInv' /\ \A k \in Directory!Nodes : NodeKept(k)
<1> DEFINE r == [nodeRows[n] EXCEPT !.name = n]
<1>1. n \in Directory!Nodes /\ nodeRows[n] # Directory!NoRow
  BY DEF Directory!NameFromMessage, Directory!Nodes
<1>2. nodeRows[n] \in StoredRow /\ nodeRows[n].heard \in Nat /\ nodeRows[n].heard \in Directory!Stamps
  BY <1>1, RowHeard
<1>3. /\ r = [name |-> n, heard |-> nodeRows[n].heard, count |-> nodeRows[n].count]
      /\ r.name = n /\ r.heard = nodeRows[n].heard
  BY <1>2 DEF StoredRow
<1>4. /\ nodeRows' = [nodeRows EXCEPT ![n] = r] /\ Directory!Commit
      /\ nodePacket' = nodePacket /\ nodeStamps' = nodeStamps
      /\ nodeCrossed' = nodeCrossed /\ nodeApplied' = nodeApplied
  BY DEF Directory!NameFromMessage
<1> HIDE DEF r
<1>5. RowOf(r, n, nodeApplied[n], nodeCrossed) /\ r # Directory!NoRow
  BY <1>1, <1>2, <1>3, NamedRow
<1>6. r.heard >= nodeRows[n].heard
  BY <1>2, <1>3
<1>7. QED
  BY <1>1, <1>3, <1>4, <1>5, <1>6, NamingKeeps

LEMMA ImportKeeps ==
  ASSUME DirectoryInv, NEW n \in Contacts, NEW t \in Directory!Stamps,
         Directory!ImportContact(n, t)
  PROVE  DirectoryInv' /\ \A k \in Directory!Nodes : NodeKept(k)
<1> DEFINE old == nodeRows[n]
           r == IF old = Directory!NoRow THEN [name |-> n, heard |-> t, count |-> 0]
                ELSE IF t > old.heard THEN [old EXCEPT !.name = n, !.heard = t] ELSE old
<1>1. /\ nodeRows' = [nodeRows EXCEPT ![n] = r] /\ Directory!Commit
      /\ nodePacket' = nodePacket /\ nodeStamps' = nodeStamps
      /\ nodeCrossed' = nodeCrossed /\ nodeApplied' = nodeApplied
  BY DEF Directory!ImportContact
<1>2. n \in Directory!Nodes /\ t \in Nat
  BY DirectoryAssumption DEF Directory!Nodes, Directory!Stamps
<1>3. RowOf(old, n, nodeApplied[n], nodeCrossed)
  BY <1>2 DEF DirectoryInv
<1>4. CASE old = Directory!NoRow
  <2>1. r = [name |-> n, heard |-> t, count |-> 0]
    BY <1>4
  <2> HIDE DEF r
  <2>2. RowOf(r, n, nodeApplied[n], nodeCrossed) /\ r # Directory!NoRow
    BY <1>2, <1>4, <2>1, FreshRow
  <2>3. QED
    BY <1>1, <1>2, <1>4, <2>2, NamingKeeps
<1>5. CASE old # Directory!NoRow
  <2>1. old \in StoredRow /\ old.heard \in Nat
    BY <1>2, <1>5, RowHeard
  <2>2. CASE t > old.heard
    <3>1. r = [name |-> n, heard |-> t, count |-> old.count] /\ r.name = n /\ r.heard = t
      BY <1>5, <2>1, <2>2 DEF StoredRow
    <3> HIDE DEF r
    <3>2. RowOf(r, n, nodeApplied[n], nodeCrossed) /\ r # Directory!NoRow
      BY <1>2, <1>5, <3>1, NamedRow
    <3>3. r.heard >= old.heard
      BY <1>2, <2>1, <2>2, <3>1
    <3>4. QED
      BY <1>1, <1>2, <3>1, <3>2, <3>3, NamingKeeps
  <2>3. CASE ~ (t > old.heard)
    <3>1. r = old
      BY <1>5, <2>3
    <3> HIDE DEF r
    <3>2. r.heard >= old.heard
      BY <2>1, <3>1
    <3>3. QED
      BY <1>1, <1>2, <1>3, <1>5, <3>1, <3>2, NamingKeeps
  <2>4. QED
    BY <2>2, <2>3
<1>6. QED
  BY <1>4, <1>5

LEMMA PrefixImportKeeps ==
  ASSUME DirectoryInv, NEW n \in Contacts, NEW m \in Directory!Nodes, NEW t \in Directory!Stamps,
         Directory!ImportNeighbour(n, m, t)
  PROVE  DirectoryInv' /\ \A k \in Directory!Nodes : NodeKept(k)
<1> DEFINE old == nodeRows[m]
           r == IF old = Directory!NoRow THEN [name |-> n, heard |-> t, count |-> 0]
                ELSE [old EXCEPT !.name = n, !.heard = Directory!ReportedHeard(m, t)]
<1>1. /\ nodeRows' = [nodeRows EXCEPT ![m] = r] /\ Directory!Commit
      /\ nodePacket' = nodePacket /\ nodeStamps' = nodeStamps
      /\ nodeCrossed' = nodeCrossed \cup ({m} \ {n}) /\ nodeApplied' = nodeApplied
  BY DEF Directory!ImportNeighbour
<1>2. nodeCrossed \subseteq nodeCrossed' /\ (m \in Contacts \ nodeCrossed' => n = m)
  BY <1>1
<1>3. CASE old = Directory!NoRow
  <2>1. r = [name |-> n, heard |-> t, count |-> 0]
    BY <1>3
  <2> HIDE DEF r
  <2>2. RowOf(r, m, nodeApplied[m], nodeCrossed') /\ r # Directory!NoRow
    BY <1>2, <1>3, <2>1, FreshRow
  <2>3. QED
    BY <1>1, <1>2, <1>3, <2>2, NamingKeeps
<1>4. CASE old # Directory!NoRow
  <2>1. old \in StoredRow
    BY <1>4, RowHeard
  <2>2. /\ Directory!ReportedHeard(m, t) \in Directory!Stamps
        /\ \A u \in nodeStamps[m] : Directory!ReportedHeard(m, t) >= u
    BY ReportedIsLate
  <2>3. /\ r = [name |-> n, heard |-> Directory!ReportedHeard(m, t), count |-> old.count]
        /\ r.name = n /\ r.heard = Directory!ReportedHeard(m, t)
    BY <1>4, <2>1 DEF StoredRow
  <2> HIDE DEF r
  <2>4. RowOf(r, m, nodeApplied[m], nodeCrossed') /\ r # Directory!NoRow
    BY <1>2, <1>4, <2>2, <2>3, NamedRow
  <2>5. QED
    BY <1>1, <1>2, <2>2, <2>3, <2>4, NamingKeeps
<1>5. QED
  BY <1>3, <1>4

LEMMA SyncedRow ==
  ASSUME DirectoryInv, NEW c \in Contacts, NEW n \in Directory!Nodes,
         NEW r, r = IF n \in Directory!ContactRows(c) THEN [nodeRows[n] EXCEPT !.name = c]
                                                       ELSE nodeRows[n],
         nodeRows'[n] = r
  PROVE  /\ RowOf(r, n, nodeApplied[n], nodeCrossed) /\ Alike(r, nodeRows[n])
         /\ NodeKept(n)
<1>1. RowOf(nodeRows[n], n, nodeApplied[n], nodeCrossed)
  BY DEF DirectoryInv
<1>2. CASE n \in Directory!ContactRows(c)
  <2>1. n = c /\ nodeRows[n] # Directory!NoRow
    BY <1>2 DEF Directory!ContactRows
  <2>2. nodeRows[n] \in StoredRow /\ nodeRows[n].heard \in Nat /\ nodeRows[n].heard \in Directory!Stamps
    BY <2>1, RowHeard
  <2>3. /\ r = [name |-> c, heard |-> nodeRows[n].heard, count |-> nodeRows[n].count]
        /\ r.name = c /\ r.heard = nodeRows[n].heard /\ r.count = nodeRows[n].count
    BY <1>2, <2>2 DEF StoredRow
  <2>4. RowOf(r, n, nodeApplied[n], nodeCrossed) /\ r # Directory!NoRow
    BY <2>1, <2>2, <2>3, NamedRow
  <2>5. Alike(r, nodeRows[n])
    BY <2>1, <2>3, <2>4 DEF Alike
  <2>6. NodeKept(n)
    BY <2>1, <2>2, <2>3, <2>4 DEF NodeKept
  <2>7. QED
    BY <2>4, <2>5, <2>6
<1>3. CASE n \notin Directory!ContactRows(c)
  <2>1. r = nodeRows[n]
    BY <1>3
  <2>2. NodeKept(n)
    BY <2>1, SameRow
  <2>3. QED
    BY <1>1, <2>1, <2>2 DEF Alike
<1>4. QED
  BY <1>2, <1>3

LEMMA SyncedTable ==
  ASSUME DirectoryInv, NEW c \in Contacts,
         nodeRows' = [n \in Directory!Nodes |->
                        IF n \in Directory!ContactRows(c) THEN [nodeRows[n] EXCEPT !.name = c]
                                                           ELSE nodeRows[n]],
         UNCHANGED << nodeStamps, nodePacket, nodeApplied, nodeCrossed >>,
         UNCHANGED nodeSaved \/ Directory!Commit
  PROVE  DirectoryInv' /\ \A k \in Directory!Nodes : NodeKept(k)
<1>1. \A n \in Directory!Nodes :
         /\ RowOf(nodeRows'[n], n, nodeApplied[n], nodeCrossed) /\ Alike(nodeRows'[n], nodeRows[n])
         /\ NodeKept(n)
  BY SyncedRow
<1>2. /\ DOMAIN nodeRows' = Directory!Nodes
      /\ nodeRows' = [n \in Directory!Nodes |-> nodeRows'[n]]
      /\ nodeApplied' = nodeApplied /\ nodeCrossed' = nodeCrossed
      /\ nodeStamps' = nodeStamps /\ nodePacket' = nodePacket
  OBVIOUS
<1>3. CASE UNCHANGED nodeSaved
  <2>1. \A n \in Directory!Nodes :
           /\ RowOf(nodeSaved'.nodes[n], n, nodeApplied'[n], nodeCrossed')
           /\ Alike(nodeRows'[n], nodeSaved'.nodes[n])
    BY <1>1, <1>2, <1>3 DEF DirectoryInv, Alike
  <2>2. QED
    BY <1>1, <1>2, <1>3, <2>1 DEF DirectoryInv
<1>4. CASE Directory!Commit
  <2>1. /\ nodeStamps' \in [Directory!Nodes -> SUBSET Directory!Stamps]
        /\ nodeApplied' \in [Directory!Nodes -> Nat]
    BY <1>2 DEF DirectoryInv
  <2>2. \A n \in Directory!Nodes : RowOf(nodeRows'[n], n, nodeApplied'[n], nodeCrossed')
    BY <1>1, <1>2
  <2>3. DirectoryInv'
    BY <1>2, <1>4, <2>1, <2>2, Committed
  <2>4. QED
    BY <1>1, <2>3
<1>5. QED
  BY <1>3, <1>4

LEMMA SyncKeeps ==
  ASSUME DirectoryInv, NEW s \in Directory!Syncs, NEW c \in Contacts,
         Directory!SyncContact(s, c) \/ Directory!SyncLast(s, c)
  PROVE  DirectoryInv' /\ \A k \in Directory!Nodes : NodeKept(k)
<1>1. CASE Directory!SyncContact(s, c)
  BY <1>1, SyncedTable, Zenon DEF Directory!SyncContact
<1>2. CASE Directory!SyncLast(s, c)
  <2>1. UNCHANGED nodeSaved \/ Directory!Commit
    BY <1>2, Zenon DEF Directory!SyncLast
  <2>2. QED
    BY <1>2, <2>1, SyncedTable, Zenon DEF Directory!SyncLast
<1>3. QED
  BY <1>1, <1>2

LEMMA WipeKeeps ==
  ASSUME DirectoryInv, Directory!WipePhantoms
  PROVE  DirectoryInv' /\ \A k \in Directory!Nodes : NodeKept(k)
<1>1. /\ nodeRows' = [n \in Directory!Nodes |->
                        IF Directory!Phantom(nodeRows[n]) THEN Directory!NoRow ELSE nodeRows[n]]
      /\ nodeApplied' = [n \in Directory!Nodes |->
                           IF nodeRows'[n] = Directory!NoRow THEN 0 ELSE nodeApplied[n]]
      /\ nodeCrossed' = {n \in nodeCrossed : nodeRows'[n] # Directory!NoRow}
      /\ nodeStamps' = nodeStamps /\ nodePacket' = nodePacket /\ Directory!Commit
  BY Zenon DEF Directory!WipePhantoms
<1>2. ASSUME NEW n \in Directory!Nodes
      PROVE  RowOf(nodeRows'[n], n, nodeApplied'[n], nodeCrossed') /\ NodeKept(n)
  <2>1. RowOf(nodeRows[n], n, nodeApplied[n], nodeCrossed) /\ nodeApplied[n] \in Nat
    BY DEF DirectoryInv
  <2>2. CASE Directory!Phantom(nodeRows[n])
    <3>1. nodeRows'[n] = Directory!NoRow /\ nodeApplied'[n] = 0
      BY <1>1, <2>2
    <3>2. nodeRows[n].count = 0 /\ nodeRows[n].name = Directory!None /\ nodeRows[n] # Directory!NoRow
      BY <2>2 DEF Directory!Phantom
    <3>3. nodeApplied[n] <= 1
      BY <2>1, <3>2 DEF RowOf
    <3>4. NodeKept(n)
      BY <3>1, <3>2, <3>3 DEF NodeKept
    <3>5. QED
      BY <3>1, <3>4 DEF RowOf
  <2>3. CASE ~ Directory!Phantom(nodeRows[n])
    <3>1. nodeRows'[n] = nodeRows[n]
      BY <1>1, <2>3
    <3>2. NodeKept(n)
      BY <3>1, SameRow
    <3>3. nodeRows[n] # Directory!NoRow =>
             nodeApplied'[n] = nodeApplied[n] /\ (n \in nodeCrossed' <=> n \in nodeCrossed)
      BY <1>1, <3>1
    <3>4. nodeRows[n] = Directory!NoRow => nodeApplied'[n] = 0
      BY <1>1, <3>1
    <3>5. RowOf(nodeRows'[n], n, nodeApplied'[n], nodeCrossed')
      BY <2>1, <3>1, <3>3, <3>4 DEF RowOf
    <3>6. QED
      BY <3>2, <3>5
  <2>4. QED
    BY <2>2, <2>3
<1>3. /\ nodeStamps' \in [Directory!Nodes -> SUBSET Directory!Stamps]
      /\ nodeApplied' \in [Directory!Nodes -> Nat]
      /\ DOMAIN nodeRows' = Directory!Nodes
      /\ nodeRows' = [n \in Directory!Nodes |-> nodeRows'[n]]
  BY <1>1 DEF DirectoryInv
<1>4. \A n \in Directory!Nodes : RowOf(nodeRows'[n], n, nodeApplied'[n], nodeCrossed')
  BY <1>2
<1>5. DirectoryInv'
  BY <1>1, <1>3, <1>4, Committed
<1>6. QED
  BY <1>2, <1>5

LEMMA ClearKeeps ==
  ASSUME DirectoryInv, Directory!ClearNodes
  PROVE  DirectoryInv' /\ \A k \in Directory!Nodes : NodeKept(k)
<1>1. /\ nodeRows' = [n \in Directory!Nodes |-> Directory!NoRow]
      /\ nodeApplied' = [n \in Directory!Nodes |-> 0]
      /\ nodeStamps' = nodeStamps /\ nodePacket' = nodePacket /\ Directory!Commit
      /\ nodeClearing
  BY DEF Directory!ClearNodes
<1>2. \A n \in Directory!Nodes : RowOf(nodeRows'[n], n, nodeApplied'[n], nodeCrossed')
  BY <1>1 DEF RowOf
<1>3. /\ nodeStamps' \in [Directory!Nodes -> SUBSET Directory!Stamps]
      /\ nodeApplied' \in [Directory!Nodes -> Nat]
      /\ DOMAIN nodeRows' = Directory!Nodes
      /\ nodeRows' = [n \in Directory!Nodes |-> nodeRows'[n]]
  BY <1>1 DEF DirectoryInv
<1>4. DirectoryInv'
  BY <1>1, <1>2, <1>3, Committed
<1>5. \A n \in Directory!Nodes : NodeKept(n)
  BY <1>1 DEF NodeKept
<1>6. QED
  BY <1>4, <1>5

LEMMA StopKeeps ==
  ASSUME DirectoryInv, Directory!Stop
  PROVE  DirectoryInv' /\ \A k \in Directory!Nodes : NodeKept(k)
<1>1. /\ nodeRows' = nodeSaved.nodes /\ nodeStamps' = nodeSaved.stamps
      /\ nodeSaved' = nodeSaved /\ nodePacket' = Directory!NoPacket
      /\ nodeApplied' = nodeApplied /\ nodeCrossed' = nodeCrossed /\ ~ dirRunning'
  BY DEF Directory!Stop
<1>2. ASSUME NEW n \in Directory!Nodes
      PROVE  NodeKept(n) /\ Alike(nodeRows'[n], nodeSaved'.nodes[n])
  <2>1. Alike(nodeRows[n], nodeSaved.nodes[n])
    BY DEF DirectoryInv
  <2>2. nodeRows[n] # Directory!NoRow => nodeRows[n].heard \in Nat
    BY RowHeard
  <2>3. QED
    BY <1>1, <2>1, <2>2 DEF NodeKept, Alike
<1>3. DirectoryInv'
  BY <1>1, <1>2 DEF DirectoryInv
<1>4. QED
  BY <1>2, <1>3

LEMMA StartKeeps ==
  ASSUME DirectoryInv, Directory!Start
  PROVE  DirectoryInv' /\ \A k \in Directory!Nodes : NodeKept(k)
<1>1. /\ nodeRows' = [n \in Directory!Nodes |->
                        IF nodeRows[n] = Directory!NoRow THEN Directory!NoRow
                        ELSE [nodeRows[n] EXCEPT !.name = Directory!StartName(nodeRows[n])]]
      /\ nodeApplied' = nodeApplied /\ nodeCrossed' = nodeCrossed
      /\ nodeStamps' = nodeStamps /\ nodePacket' = nodePacket /\ Directory!Commit
  BY DEF Directory!Start
<1>2. ASSUME NEW n \in Directory!Nodes
      PROVE  RowOf(nodeRows'[n], n, nodeApplied'[n], nodeCrossed') /\ NodeKept(n)
  <2>1. RowOf(nodeRows[n], n, nodeApplied[n], nodeCrossed)
    BY DEF DirectoryInv
  <2>2. CASE nodeRows[n] = Directory!NoRow
    <3>1. nodeRows'[n] = nodeRows[n]
      BY <1>1, <2>2
    <3>2. QED
      BY <1>1, <2>1, <3>1, SameRow
  <2>3. CASE nodeRows[n] # Directory!NoRow
    <3> DEFINE r == [nodeRows[n] EXCEPT !.name = Directory!StartName(nodeRows[n])]
               x == Directory!StartName(nodeRows[n])
    <3>1. /\ nodeRows[n] \in StoredRow
          /\ nodeRows[n].name \in {Directory!None, Directory!Hex} \cup Contacts
          /\ nodeRows[n].heard \in Directory!Stamps /\ nodeRows[n].heard \in Nat
          /\ nodeRows[n].count \in Nat
          /\ nodeRows[n].count \in {nodeApplied[n], nodeApplied[n] - 1}
          /\ n \in Contacts \ nodeCrossed => nodeRows[n].name \in {Directory!None, Directory!Hex, n}
      BY <2>1, <2>3, RowParts DEF RowOf
    <3>2. nodeRows'[n] = r
      BY <1>1, <2>3
    <3>3. /\ x \in {nodeRows[n].name, Directory!None}
          /\ nodeRows[n].name \in Contacts => x = nodeRows[n].name
      BY <3>1, DirectoryAssumption DEF Directory!StartName
    <3>4. /\ r = [name |-> x, heard |-> nodeRows[n].heard, count |-> nodeRows[n].count]
          /\ r.name = x /\ r.heard = nodeRows[n].heard /\ r.count = nodeRows[n].count
      BY <3>1 DEF StoredRow
    <3> HIDE DEF r, x
    <3>5. x \in {Directory!None, Directory!Hex} \cup Contacts
      BY <3>1, <3>3
    <3>6. r \in StoredRow
      BY <3>1, <3>4, <3>5, NewRow
    <3>7. r # Directory!NoRow
      BY <3>6, NoRowIsNone
    <3>8. NodeKept(n)
      BY <3>1, <3>2, <3>3, <3>4, <3>7 DEF NodeKept
    <3>9. n \in Contacts \ nodeCrossed => r.name \in {Directory!None, Directory!Hex, n}
      BY <3>1, <3>3, <3>4
    <3>10. RowOf(r, n, nodeApplied[n], nodeCrossed)
      BY <3>1, <3>4, <3>6, <3>9 DEF RowOf
    <3>11. QED
      BY <1>1, <3>2, <3>8, <3>10
  <2>4. QED
    BY <2>2, <2>3
<1>3. /\ nodeStamps' \in [Directory!Nodes -> SUBSET Directory!Stamps]
      /\ nodeApplied' \in [Directory!Nodes -> Nat]
      /\ DOMAIN nodeRows' = Directory!Nodes
      /\ nodeRows' = [n \in Directory!Nodes |-> nodeRows'[n]]
  BY <1>1 DEF DirectoryInv
<1>4. \A n \in Directory!Nodes : RowOf(nodeRows'[n], n, nodeApplied'[n], nodeCrossed')
  BY <1>2
<1>5. DirectoryInv'
  BY <1>1, <1>3, <1>4, Committed
<1>6. QED
  BY <1>2, <1>5

LEMMA RowsAreOwn ==
  ASSUME DirectoryInv
  PROVE  Directory!NamesOwn /\ Directory!CountsOwnPackets
<1>1. \A n \in Directory!Nodes : RowOf(nodeRows[n], n, nodeApplied[n], nodeCrossed)
  BY DEF DirectoryInv
<1>2. Contacts \subseteq Directory!Nodes
  BY DEF Directory!Nodes
<1>3. QED
  BY <1>1, <1>2 DEF RowOf, Directory!NamesOwn, Directory!CountsOwnPackets

LEMMA DirectoryStep ==
  ASSUME DirectoryInv, [Directory!Next]_directoryVars
  PROVE  DirectoryInv' /\ \A k \in Directory!Nodes : NodeKept(k)
<1> DEFINE Goal == DirectoryInv' /\ \A k \in Directory!Nodes : NodeKept(k)
<1>1. ASSUME NEW n \in Contacts, NEW t \in Directory!Stamps,
             \/ \E name \in {Directory!None, n} : Directory!Insert(n, t, name, TRUE)
             \/ Directory!Insert(n, t, Directory!None, FALSE)
      PROVE  Goal
  BY <1>1, InsertKeeps
<1>2. ASSUME Directory!UpdateFails
      PROVE  Goal
  BY <1>2, TableStands DEF Directory!UpdateFails, DirectoryInv
<1>3. ASSUME NEW s \in Directory!Syncs, NEW names \in SUBSET Contacts,
             Directory!SyncStart(s, names)
      PROVE  Goal
  BY <1>3, TableStands DEF Directory!SyncStart, DirectoryInv
<1>4. ASSUME NEW n \in Directory!Nodes, Directory!Cleanup(n)
      PROVE  Goal
  <2>1. nodeStamps' \in [Directory!Nodes -> SUBSET Directory!Stamps]
    BY <1>4 DEF Directory!Cleanup, DirectoryInv
  <2>2. QED
    BY <1>4, <2>1, TableStands DEF Directory!Cleanup
<1>5. ASSUME Directory!ClearPackets
      PROVE  Goal
  <2>1. nodeStamps' \in [Directory!Nodes -> SUBSET Directory!Stamps]
    BY <1>5 DEF Directory!ClearPackets
  <2>2. QED
    BY <1>5, <2>1, TableStands DEF Directory!ClearPackets
<1>6. ASSUME UNCHANGED directoryVars
      PROVE  Goal
  BY <1>6, TableStands DEF directoryVars, DirectoryInv
<1>7. QED
  BY <1>1, <1>2, <1>3, <1>4, <1>5, <1>6, UpdateKeeps, ReportKeeps, MessageKeeps, ImportKeeps,
     PrefixImportKeeps, SyncKeeps, WipeKeeps, ClearKeeps, StopKeeps, StartKeeps, Zenon
  DEF Directory!Next

-----------------------------------------------------------------------------
(***************************************************************************)
(* The names of the attached radios.  ListInv is about the entries: each   *)
(* name was asked for under its own label, and memory has every name the   *)
(* file has unless a save failed.  LinkInv is about the connections: a     *)
(* companion whose callback has run bears the name of its entry, or that   *)
(* of the rename it has taken.                                             *)
(***************************************************************************)
(* Entries of a list and of a form.                                        *)
RadioEntries == Naming!Entries
FormEntries == [label : RadioLabels, port : RadioPorts \cup {Naming!Auto}]

(* What a connected companion bears that no callback has left behind.      *)
Applied(l) ==
    (/\ l \notin nameBehind /\ radioAt[l] # Naming!Nowhere) =>
      /\ renaming[l].took => radioFlash[radioAt[l]] = renaming[l].name
      /\ (/\ ~ renaming[l].took /\ radioCallback[l] # "due"
          /\ Naming!NameOf(radioList, l) # Naming!None)
           => radioFlash[radioAt[l]] = Naming!NameOf(radioList, l)

(* Each entry has a name that was asked for under its label, or none.      *)
NamesAsked(e, given) ==
    \A i \in DOMAIN e : e[i].name \in given[e[i].label] \cup {Naming!None}

ListInv ==
    /\ radioList \in Seq(RadioEntries) /\ radioFile \in Seq(RadioEntries)
    /\ namesAsked \in [RadioLabels -> SUBSET RadioNames]
    /\ NamesAsked(radioList, namesAsked) /\ NamesAsked(radioFile, namesAsked)
    /\ ~ listRefused => \A l \in RadioLabels : Naming!NameOf(radioFile, l) # Naming!None
                                                => Naming!NameOf(radioList, l) # Naming!None

LinkInv ==
    /\ radioAt \in [RadioLabels -> RadioPorts \cup {Naming!Nowhere}]
    /\ DOMAIN radioCallback = RadioLabels
    /\ renaming \in [RadioLabels -> [name : RadioNames \cup {Naming!None}, took : BOOLEAN]]
    /\ DOMAIN radioFlash = RadioPorts
    /\ \A l \in RadioLabels :
         /\ radioAt[l] = Naming!Nowhere => renaming[l] = Naming!NoRename
         /\ renaming[l].took => renaming[l].name \in namesAsked[l]
         /\ \A k \in RadioLabels : radioAt[l] = radioAt[k] /\ radioAt[l] # Naming!Nowhere => l = k
    /\ radioKind = "companion" => \A l \in RadioLabels : Applied(l)

(* A step leaves every label of the file the name it has.                  *)
FileKept ==
    ~ listRefused =>
      \A l \in Naming!LabelsOf(radioFile) \cap Naming!LabelsOf(radioFile') :
         Naming!NameOf(radioFile, l) # Naming!None => Naming!NameOf(radioFile', l) # Naming!None

LEMMA LeastOf ==
  ASSUME NEW S \in SUBSET Nat, S # {}
  PROVE  Naming!Min(S) \in S
<1> DEFINE Less == {ss \in Nat \X Nat : ss[1] < ss[2]}
<1>1. IsWellFoundedOn(Less, Nat)
  BY NatLessThanWellFounded DEF OpToRel
<1> HIDE DEF Less
<1>2. PICK m \in S : \A k \in S : ~ (<< k, m >> \in Less)
  BY <1>1, WFMin
<1>3. ASSUME NEW k \in S PROVE m <= k
  <2>1. << k, m >> \in Nat \X Nat /\ << k, m >>[1] = k /\ << k, m >>[2] = m
    BY <1>2
  <2>2. ~ (k < m)
    BY <1>2, <2>1 DEF Less
  <2>3. QED
    BY <1>2, <2>2
<1>4. QED
  BY <1>3 DEF Naming!Min

LEMMA EntryFound ==
  ASSUME NEW e \in Seq(RadioEntries), NEW l
  PROVE  /\ Naming!EntryOf(e, l) = 0 => \A i \in DOMAIN e : e[i].label # l
         /\ Naming!EntryOf(e, l) # 0 =>
              Naming!EntryOf(e, l) \in DOMAIN e /\ e[Naming!EntryOf(e, l)].label = l
<1> DEFINE I == {i \in 1 .. Len(e) : e[i].label = l}
<1>1. Naming!EntryOf(e, l) = IF I # {} THEN Naming!Min(I) ELSE 0
  BY DEF Naming!EntryOf, Naming!SelectInSeq
<1>2. I \in SUBSET Nat /\ DOMAIN e = 1 .. Len(e) /\ 0 \notin I
  OBVIOUS
<1>3. I # {} => Naming!Min(I) \in I
  BY <1>2, LeastOf
<1>4. QED
  BY <1>1, <1>2, <1>3

LEMMA SameEntry ==
  ASSUME NEW e \in Seq(RadioEntries), NEW f \in Seq(RadioEntries), NEW l,
         DOMAIN e = DOMAIN f, \A i \in DOMAIN e : e[i].label = f[i].label
  PROVE  Naming!EntryOf(e, l) = Naming!EntryOf(f, l)
<1> DEFINE I == {i \in 1 .. Len(e) : e[i].label = l}
           J == {i \in 1 .. Len(f) : f[i].label = l}
<1>1. /\ Naming!EntryOf(e, l) = IF I # {} THEN Naming!Min(I) ELSE 0
      /\ Naming!EntryOf(f, l) = IF J # {} THEN Naming!Min(J) ELSE 0
  BY DEF Naming!EntryOf, Naming!SelectInSeq
<1>2. Len(e) = Len(f)
  OBVIOUS
<1>3. I = J
  BY <1>2
<1> HIDE DEF I, J
<1>4. QED
  BY <1>1, <1>3

LEMMA NameOfEntry ==
  ASSUME NEW e \in Seq(RadioEntries), NEW l
  PROVE  \/ Naming!NameOf(e, l) = Naming!None /\ \A i \in DOMAIN e : e[i].label # l
         \/ \E i \in DOMAIN e : e[i].label = l /\ Naming!NameOf(e, l) = e[i].name
<1>1. CASE Naming!EntryOf(e, l) = 0
  BY <1>1, EntryFound DEF Naming!NameOf
<1>2. CASE Naming!EntryOf(e, l) # 0
  BY <1>2, EntryFound DEF Naming!NameOf
<1>3. QED
  BY <1>1, <1>2

LEMMA FunctionIsSeq ==
  ASSUME NEW S, NEW n \in Nat, NEW f \in [1 .. n -> S]
  PROVE  f \in Seq(S)
<1>1. [1 .. n -> S] \in {[1 .. k -> S] : k \in Nat}
  BY Zenon
<1>2. f \in UNION {[1 .. k -> S] : k \in Nat}
  BY <1>1, Zenon
<1>3. QED
  BY <1>2, SeqDef, Zenon

LEMMA EntryReplaced ==
  ASSUME NEW e \in Seq(RadioEntries), NEW j \in DOMAIN e, NEW r \in RadioEntries,
         NEW f, f = [e EXCEPT ![j] = r]
  PROVE  /\ f \in Seq(RadioEntries) /\ DOMAIN f = DOMAIN e
         /\ \A i \in DOMAIN f : i # j => f[i] = e[i]
         /\ f[j] = r
<1>1. DOMAIN e = 1 .. Len(e) /\ Len(e) \in Nat /\ \A i \in DOMAIN e : e[i] \in RadioEntries
  OBVIOUS
<1>2. /\ f \in [1 .. Len(e) -> RadioEntries] /\ DOMAIN f = DOMAIN e
      /\ \A i \in DOMAIN f : i # j => f[i] = e[i]
      /\ f[j] = r
  BY <1>1
<1>3. f \in Seq(RadioEntries)
  BY <1>1, <1>2, FunctionIsSeq
<1>4. QED
  BY <1>2, <1>3

(* What a rename, a form and a new port make of the names of a list.       *)
LEMMA PersistedNames ==
  ASSUME NEW l, NEW x \in RadioNames, radioList \in Seq(RadioEntries),
         NEW f, f = Naming!Persisted(l, x)
  PROVE  /\ f \in Seq(RadioEntries) /\ DOMAIN f = DOMAIN radioList
         /\ \A i \in DOMAIN f :
              /\ f[i].label = radioList[i].label
              /\ f[i].name = radioList[i].name \/ (f[i].label = l /\ f[i].name = x)
         /\ \A m : m # l => Naming!NameOf(f, m) = Naming!NameOf(radioList, m)
         /\ Naming!NameOf(f, l) = x
            \/ (Naming!NameOf(f, l) = Naming!None /\ Naming!NameOf(radioList, l) = Naming!None)
<1> DEFINE j == Naming!EntryOf(radioList, l)
<1>1. CASE j = 0
  <2>1. f = radioList
    BY <1>1 DEF Naming!Persisted
  <2>2. Naming!NameOf(radioList, l) = Naming!None
    BY <1>1 DEF Naming!NameOf
  <2>3. QED
    BY <2>1, <2>2
<1>2. CASE j # 0
  <2>1. j \in DOMAIN radioList /\ radioList[j].label = l
    BY <1>2, EntryFound
  <2>2. f = [radioList EXCEPT ![j].name = x]
    BY <1>2 DEF Naming!Persisted
  <2> HIDE DEF j
  <2>3. /\ f \in Seq(RadioEntries) /\ DOMAIN f = DOMAIN radioList
        /\ \A i \in DOMAIN f : i # j => f[i] = radioList[i]
        /\ f[j] = [radioList[j] EXCEPT !.name = x]
    <3> DEFINE r == [radioList[j] EXCEPT !.name = x]
    <3>0. radioList[j] \in RadioEntries
      BY <2>1
    <3>1. r \in RadioEntries
      BY <3>0 DEF RadioEntries, Naming!Entries
    <3>2. f = [radioList EXCEPT ![j] = r]
      BY <2>2
    <3> HIDE DEF r
    <3>3. f \in Seq(RadioEntries) /\ DOMAIN f = DOMAIN radioList
      BY <2>1, <3>1, <3>2, EntryReplaced
    <3>4. (\A i \in DOMAIN f : i # j => f[i] = radioList[i]) /\ f[j] = r
      BY <2>1, <3>1, <3>2, EntryReplaced
    <3>5. QED
      BY <3>3, <3>4 DEF r
  <2>4. f[j].label = radioList[j].label /\ f[j].name = x
    BY <2>1, <2>3 DEF RadioEntries, Naming!Entries
  <2>5. \A i \in DOMAIN f : f[i].label = radioList[i].label
    BY <2>3, <2>4
  <2>6. \A m : Naming!EntryOf(f, m) = Naming!EntryOf(radioList, m)
    BY <2>3, <2>5, SameEntry
  <2>7. ASSUME NEW m, m # l
        PROVE  Naming!NameOf(f, m) = Naming!NameOf(radioList, m)
    <3>1. CASE Naming!EntryOf(radioList, m) = 0
      BY <2>6, <3>1 DEF Naming!NameOf
    <3>2. CASE Naming!EntryOf(radioList, m) # 0
      <4>1. /\ Naming!EntryOf(radioList, m) \in DOMAIN radioList
            /\ radioList[Naming!EntryOf(radioList, m)].label = m
        BY <3>2, EntryFound
      <4>2. f[Naming!EntryOf(radioList, m)] = radioList[Naming!EntryOf(radioList, m)]
        BY <2>1, <2>3, <2>7, <4>1
      <4>3. QED
        BY <2>6, <3>2, <4>2 DEF Naming!NameOf
    <3>3. QED
      BY <3>1, <3>2
  <2>8. Naming!NameOf(f, l) = x
    BY <1>2, <2>4, <2>6 DEF Naming!NameOf, j
  <2>9. QED
    BY <2>1, <2>3, <2>4, <2>5, <2>7, <2>8
<1>3. QED
  BY <1>1, <1>2

LEMMA FormIsList ==
  ASSUME NEW form \in Naming!Forms
  PROVE  Naming!Accepted(form) \in Seq(FormEntries)
<1>1. form \in Seq(FormEntries)
  <2>1. CASE form \in {<< >>}
    BY <2>1
  <2>2. CASE form \in {<< [label |-> l, port |-> p] >> : l \in RadioLabels, p \in RadioPorts \cup {Naming!Auto}}
    <3>1. PICK l \in RadioLabels, p \in RadioPorts \cup {Naming!Auto} : form = << [label |-> l, port |-> p] >>
      BY <2>2
    <3>2. [label |-> l, port |-> p] \in FormEntries
      BY DEF FormEntries
    <3>3. QED
      BY <3>1, <3>2
  <2>3. CASE form \in [1 .. 2 -> FormEntries]
    <3>1. 2 \in Nat
      OBVIOUS
    <3>2. QED
      BY <2>3, <3>1, FunctionIsSeq
  <2>4. QED
    BY <2>1, <2>2, <2>3 DEF Naming!Forms, FormEntries
<1>2. ASSUME radioKind = "stick", Len(form) > 1
      PROVE  \E i \in DOMAIN form : form[i].port # Naming!Auto
  <2>1. CASE form \in {<< >>}
    BY <1>2, <2>1
  <2>2. CASE form \in {<< [label |-> l, port |-> p] >> : l \in RadioLabels, p \in RadioPorts \cup {Naming!Auto}}
    <3>1. PICK l \in RadioLabels, p \in RadioPorts \cup {Naming!Auto} : form = << [label |-> l, port |-> p] >>
      BY <2>2
    <3>2. Len(form) = 1
      BY <3>1
    <3>3. QED
      BY <1>2, <3>2
  <2>3. CASE form \in [1 .. 2 -> FormEntries] /\ form[1].port # form[2].port
    BY <2>3
  <2>4. QED
    BY <2>1, <2>2, <2>3 DEF Naming!Forms, FormEntries
<1>3. CASE /\ radioKind = "stick" /\ Len(form) > 1
           /\ \E i \in DOMAIN form : form[i].port = Naming!Auto
  <2> DEFINE c == CHOOSE i \in DOMAIN form : form[i].port # Naming!Auto
  <2>1. c \in DOMAIN form
    BY <1>2, <1>3
  <2>2. Naming!Accepted(form) = [k \in 1 .. 1 |-> form[c]]
    BY <1>3 DEF Naming!Accepted
  <2> HIDE DEF c
  <2>3. form[c] \in FormEntries
    BY <1>1, <2>1
  <2>4. QED
    BY <2>2, <2>3
<1>4. CASE ~ (/\ radioKind = "stick" /\ Len(form) > 1
              /\ \E i \in DOMAIN form : form[i].port = Naming!Auto)
  BY <1>1, <1>4 DEF Naming!Accepted
<1>5. QED
  BY <1>3, <1>4

LEMMA NewListNames ==
  ASSUME radioList \in Seq(RadioEntries), NEW form \in Seq(FormEntries),
         NEW f, f = Naming!NewList(form)
  PROVE  /\ f \in Seq(RadioEntries)
         /\ \A i \in DOMAIN f : f[i].name = Naming!NameOf(radioList, f[i].label)
         /\ \A m : Naming!NameOf(f, m) \in {Naming!None, Naming!NameOf(radioList, m)}
         /\ \A m \in Naming!LabelsOf(f) : Naming!NameOf(f, m) = Naming!NameOf(radioList, m)
<1>1. ASSUME NEW l PROVE Naming!NameOf(radioList, l) \in RadioNames \cup {Naming!None}
  <2>1. \A i \in DOMAIN radioList : radioList[i] \in RadioEntries
    OBVIOUS
  <2>2. \A i \in DOMAIN radioList : radioList[i].name \in RadioNames \cup {Naming!None}
    BY <2>1 DEF RadioEntries, Naming!Entries
  <2>3. QED
    BY <2>2, NameOfEntry
<1>2. ASSUME NEW i \in DOMAIN form
      PROVE  [label |-> form[i].label, port |-> form[i].port,
              name |-> Naming!NameOf(radioList, form[i].label)] \in RadioEntries
  <2>1. form[i] \in FormEntries
    OBVIOUS
  <2>2. form[i].label \in RadioLabels /\ form[i].port \in RadioPorts \cup {Naming!Auto}
    BY <2>1 DEF FormEntries
  <2>3. QED
    BY <1>1, <2>2 DEF RadioEntries, Naming!Entries
<1>3. /\ DOMAIN f = DOMAIN form
      /\ \A i \in DOMAIN form :
           f[i] = [label |-> form[i].label, port |-> form[i].port,
                   name |-> Naming!NameOf(radioList, form[i].label)]
      /\ f = [i \in DOMAIN form |-> f[i]]
  BY DEF Naming!NewList
<1>4. f \in Seq(RadioEntries)
  <2>1. DOMAIN form = 1 .. Len(form) /\ Len(form) \in Nat
    OBVIOUS
  <2>2. \A i \in DOMAIN form : f[i] \in RadioEntries
    BY <1>2, <1>3
  <2>3. f \in [1 .. Len(form) -> RadioEntries]
    BY <1>3, <2>1, <2>2
  <2>4. QED
    BY <2>1, <2>3, FunctionIsSeq
<1>5. ASSUME NEW i \in DOMAIN f
      PROVE  f[i].label = form[i].label /\ f[i].name = Naming!NameOf(radioList, f[i].label)
  <2>0. i \in DOMAIN form
    BY <1>3
  <2>1. f[i].label = form[i].label /\ f[i].name = Naming!NameOf(radioList, form[i].label)
    <3> DEFINE x == Naming!NameOf(radioList, form[i].label)
    <3>1. f[i] = [label |-> form[i].label, port |-> form[i].port, name |-> x]
      BY <1>3, <2>0
    <3> HIDE DEF x
    <3>2. f[i].label = form[i].label /\ f[i].name = x
      BY <3>1
    <3>3. QED
      BY <3>2 DEF x
  <2>2. QED
    BY <2>1
<1>6. \A m : Naming!NameOf(f, m) \in {Naming!None, Naming!NameOf(radioList, m)}
  BY <1>4, <1>5, NameOfEntry
<1>7. \A m \in Naming!LabelsOf(f) : Naming!NameOf(f, m) = Naming!NameOf(radioList, m)
  BY <1>4, <1>5, NameOfEntry DEF Naming!LabelsOf
<1>8. QED
  BY <1>4, <1>5, <1>6, <1>7

LEMMA FirstPortNames ==
  ASSUME radioList \in Seq(RadioEntries), radioList # << >>,
         NEW p \in RadioPorts \cup {Naming!Auto}, NEW f, f = [radioList EXCEPT ![1].port = p]
  PROVE  /\ f \in Seq(RadioEntries) /\ DOMAIN f = DOMAIN radioList
         /\ \A i \in DOMAIN f : f[i].label = radioList[i].label /\ f[i].name = radioList[i].name
         /\ \A m : Naming!NameOf(f, m) = Naming!NameOf(radioList, m)
<1>1. 1 \in DOMAIN radioList
  OBVIOUS
<1>2. /\ f \in Seq(RadioEntries) /\ DOMAIN f = DOMAIN radioList
      /\ \A i \in DOMAIN f : i # 1 => f[i] = radioList[i]
      /\ f[1] = [radioList[1] EXCEPT !.port = p]
  <2> DEFINE r == [radioList[1] EXCEPT !.port = p]
  <2>0. radioList[1] \in RadioEntries
    BY <1>1
  <2>1. r \in RadioEntries
    BY <2>0 DEF RadioEntries, Naming!Entries
  <2>2. f = [radioList EXCEPT ![1] = r]
    OBVIOUS
  <2> HIDE DEF r
  <2>3. f \in Seq(RadioEntries) /\ DOMAIN f = DOMAIN radioList
    BY <1>1, <2>1, <2>2, EntryReplaced
  <2>4. (\A i \in DOMAIN f : i # 1 => f[i] = radioList[i]) /\ f[1] = r
    BY <1>1, <2>1, <2>2, EntryReplaced
  <2>5. QED
    BY <2>3, <2>4 DEF r
<1>3. f[1].label = radioList[1].label /\ f[1].name = radioList[1].name
  BY <1>1, <1>2 DEF RadioEntries, Naming!Entries
<1>4. \A i \in DOMAIN f : f[i].label = radioList[i].label /\ f[i].name = radioList[i].name
  BY <1>2, <1>3
<1>5. ASSUME NEW m
      PROVE  Naming!NameOf(f, m) = Naming!NameOf(radioList, m)
  <2>1. Naming!EntryOf(f, m) = Naming!EntryOf(radioList, m)
    <3>1. \A i \in DOMAIN f : f[i].label = radioList[i].label
      BY <1>4
    <3>2. f \in Seq(RadioEntries) /\ DOMAIN f = DOMAIN radioList
      BY <1>2
    <3>3. QED
      BY <3>1, <3>2, SameEntry, Zenon
  <2>2. Naming!EntryOf(radioList, m) # 0 => Naming!EntryOf(radioList, m) \in DOMAIN radioList
    BY EntryFound
  <2>3. QED
    BY <1>2, <1>4, <2>1, <2>2 DEF Naming!NameOf
<1>6. QED
  BY <1>2, <1>4, <1>5

(* The lists, one lemma per way in which they change.                      *)
LEMMA AskedGrows ==
  ASSUME NEW e \in Seq(RadioEntries), NEW a, NEW b, NamesAsked(e, a),
         \A l \in RadioLabels : a[l] \subseteq b[l]
  PROVE  NamesAsked(e, b)
<1>1. \A i \in DOMAIN e : e[i] \in RadioEntries
  OBVIOUS
<1>2. \A i \in DOMAIN e : e[i].label \in RadioLabels
  BY <1>1 DEF RadioEntries, Naming!Entries
<1>3. QED
  BY <1>2 DEF NamesAsked

LEMMA LabelsKnown ==
  ASSUME NEW e \in Seq(RadioEntries)
  PROVE  Naming!LabelsOf(e) \subseteq RadioLabels
<1>1. \A i \in DOMAIN e : e[i] \in RadioEntries
  OBVIOUS
<1>2. QED
  BY <1>1 DEF RadioEntries, Naming!Entries, Naming!LabelsOf

LEMMA ListStands ==
  ASSUME ListInv, UNCHANGED << radioList, radioFile, listRefused >>,
         namesAsked' \in [RadioLabels -> SUBSET RadioNames],
         \A l \in RadioLabels : namesAsked[l] \subseteq namesAsked'[l]
  PROVE  ListInv' /\ FileKept
<1>1. /\ radioList' = radioList /\ radioFile' = radioFile /\ listRefused' = listRefused
      /\ radioList \in Seq(RadioEntries) /\ radioFile \in Seq(RadioEntries)
  BY DEF ListInv
<1>2. NamesAsked(radioList, namesAsked') /\ NamesAsked(radioFile, namesAsked')
  BY <1>1, AskedGrows DEF ListInv
<1>3. FileKept
  BY <1>1 DEF FileKept
<1>4. ListInv'
  BY <1>1, <1>2 DEF ListInv
<1>5. QED
  BY <1>3, <1>4

LEMMA PersistKeeps ==
  ASSUME ListInv, NEW l \in RadioLabels, NEW x \in RadioNames, Naming!Persist(l, x),
         listRefused' = listRefused, x \in namesAsked'[l],
         namesAsked' \in [RadioLabels -> SUBSET RadioNames],
         \A k \in RadioLabels : namesAsked[k] \subseteq namesAsked'[k]
  PROVE  ListInv' /\ FileKept
<1>1. /\ radioList' = Naming!Persisted(l, x) /\ radioFile' \in {radioList', radioFile}
      /\ radioList \in Seq(RadioEntries) /\ radioFile \in Seq(RadioEntries)
  BY DEF Naming!Persist, Naming!Save, ListInv
<1>2. /\ radioList' \in Seq(RadioEntries) /\ DOMAIN radioList' = DOMAIN radioList
      /\ \A i \in DOMAIN radioList' :
           /\ radioList'[i].label = radioList[i].label
           /\ \/ radioList'[i].name = radioList[i].name
              \/ radioList'[i].label = l /\ radioList'[i].name = x
  BY <1>1, PersistedNames
<1>3. /\ \A m : m # l => Naming!NameOf(radioList', m) = Naming!NameOf(radioList, m)
      /\ Naming!NameOf(radioList', l) = x
         \/ (/\ Naming!NameOf(radioList', l) = Naming!None
             /\ Naming!NameOf(radioList, l) = Naming!None)
  BY <1>1, PersistedNames
<1>4. NamesAsked(radioList, namesAsked') /\ NamesAsked(radioFile, namesAsked')
  BY <1>1, AskedGrows DEF ListInv
<1>5. NamesAsked(radioList', namesAsked')
  BY <1>2, <1>4 DEF NamesAsked
<1>6. \A m : Naming!NameOf(radioList, m) # Naming!None => Naming!NameOf(radioList', m) # Naming!None
  BY <1>3, NamingAssumption
<1>7. CASE radioFile' = radioList'
  <2>1. ListInv'
    BY <1>2, <1>5, <1>7 DEF ListInv
  <2>2. FileKept
    BY <1>1, <1>6, <1>7, LabelsKnown DEF FileKept, ListInv
  <2>3. QED
    BY <2>1, <2>2
<1>8. CASE radioFile' = radioFile
  <2>1. ListInv'
    BY <1>1, <1>2, <1>4, <1>5, <1>6, <1>8 DEF ListInv
  <2>2. FileKept
    BY <1>8 DEF FileKept
  <2>3. QED
    BY <2>1, <2>2
<1>9. QED
  BY <1>1, <1>7, <1>8

LEMMA SaveKeeps ==
  ASSUME ListInv, Naming!SavedList, namesAsked' = namesAsked,
         radioList' \in Seq(RadioEntries), NamesAsked(radioList', namesAsked),
         \A m \in Naming!LabelsOf(radioList') :
            Naming!NameOf(radioList', m) = Naming!NameOf(radioList, m)
  PROVE  ListInv' /\ FileKept
<1>1. /\ radioFile' \in {radioList', radioFile} /\ listRefused' = (listRefused \/ radioFile' # radioList')
      /\ radioFile \in Seq(RadioEntries)
  BY DEF Naming!SavedList, Naming!Save, ListInv
<1>2. CASE radioFile' = radioList'
  <2>1. ListInv'
    BY <1>2 DEF ListInv
  <2>2. FileKept
    BY <1>1, <1>2, LabelsKnown DEF FileKept, ListInv
  <2>3. QED
    BY <2>1, <2>2
<1>3. CASE radioFile' = radioFile
  <2>1. ListInv'
    BY <1>1, <1>3 DEF ListInv
  <2>2. FileKept
    BY <1>3 DEF FileKept
  <2>3. QED
    BY <2>1, <2>2
<1>4. QED
  BY <1>1, <1>2, <1>3

LEMMA NameWasAsked ==
  ASSUME ListInv, NEW m
  PROVE  Naming!NameOf(radioList, m) \in namesAsked[m] \cup {Naming!None}
BY NameOfEntry DEF ListInv, NamesAsked

LEMMA ReplaceKeeps ==
  ASSUME ListInv, NEW form \in Naming!Forms, Naming!ReplaceList(form)
  PROVE  /\ ListInv' /\ FileKept
         /\ \A m : Naming!NameOf(radioList', m) \in {Naming!None, Naming!NameOf(radioList, m)}
<1> DEFINE g == Naming!Accepted(form)
<1>1. /\ radioList' = Naming!NewList(g) /\ Naming!SavedList /\ namesAsked' = namesAsked
      /\ radioList \in Seq(RadioEntries)
  BY DEF Naming!ReplaceList, ListInv
<1>2. g \in Seq(FormEntries)
  BY FormIsList
<1> HIDE DEF g
<1>3. /\ radioList' \in Seq(RadioEntries)
      /\ \A i \in DOMAIN radioList' :
            radioList'[i].name = Naming!NameOf(radioList, radioList'[i].label)
  BY <1>1, <1>2, NewListNames
<1>4. \A m : Naming!NameOf(radioList', m) \in {Naming!None, Naming!NameOf(radioList, m)}
  BY <1>1, <1>2, NewListNames
<1>5. \A m \in Naming!LabelsOf(radioList') :
            Naming!NameOf(radioList', m) = Naming!NameOf(radioList, m)
  BY <1>1, <1>2, NewListNames
<1>6. NamesAsked(radioList', namesAsked)
  BY <1>3, NameWasAsked DEF NamesAsked
<1>7. ListInv' /\ FileKept
  BY <1>1, <1>3, <1>5, <1>6, SaveKeeps
<1>8. QED
  BY <1>4, <1>7

LEMMA UpdateFirstKeeps ==
  ASSUME ListInv, NEW p \in RadioPorts \cup {Naming!Auto}, Naming!UpdateFirst(p)
  PROVE  /\ ListInv' /\ FileKept
         /\ \A m : Naming!NameOf(radioList', m) = Naming!NameOf(radioList, m)
<1>1. /\ radioList' = [radioList EXCEPT ![1].port = p] /\ Naming!SavedList
      /\ namesAsked' = namesAsked /\ radioList \in Seq(RadioEntries) /\ radioList # << >>
  BY DEF Naming!UpdateFirst, ListInv
<1>2. /\ radioList' \in Seq(RadioEntries) /\ DOMAIN radioList' = DOMAIN radioList
      /\ \A i \in DOMAIN radioList' : /\ radioList'[i].label = radioList[i].label
                                      /\ radioList'[i].name = radioList[i].name
  <2>1. ASSUME NEW f, f = [radioList EXCEPT ![1].port = p]
        PROVE  /\ f \in Seq(RadioEntries) /\ DOMAIN f = DOMAIN radioList
               /\ \A i \in DOMAIN f : /\ f[i].label = radioList[i].label
                                       /\ f[i].name = radioList[i].name
    BY <1>1, <2>1, FirstPortNames
  <2>2. QED
    BY <1>1, <2>1, Zenon
<1>3. \A m : Naming!NameOf(radioList', m) = Naming!NameOf(radioList, m)
  BY <1>1, FirstPortNames, Zenon
<1>4. NamesAsked(radioList', namesAsked)
  BY <1>2 DEF NamesAsked, ListInv
<1>5. ListInv' /\ FileKept
  BY <1>1, <1>2, <1>3, <1>4, SaveKeeps
<1>6. QED
  BY <1>3, <1>5

LEMMA ListRestarts ==
  ASSUME ListInv, Naming!Restart
  PROVE  ListInv' /\ FileKept
<1>1. /\ radioList' = radioFile /\ radioFile' = radioFile /\ namesAsked' = namesAsked
  BY DEF Naming!Restart
<1>2. QED
  BY <1>1 DEF ListInv, FileKept

LEMMA ListStep ==
  ASSUME ListInv, LinkInv, [Naming!Next]_namingVars
  PROVE  ListInv' /\ FileKept
<1> DEFINE Goal == ListInv' /\ FileKept
           Still == UNCHANGED << radioList, radioFile, namesAsked, listRefused >>
<1>1. ASSUME Still PROVE Goal
  <2>1. namesAsked' = namesAsked
    BY <1>1
  <2>2. /\ namesAsked' \in [RadioLabels -> SUBSET RadioNames]
        /\ \A l \in RadioLabels : namesAsked[l] \subseteq namesAsked'[l]
    BY <2>1 DEF ListInv
  <2>3. QED
    BY <1>1, <2>2, ListStands
<1>2. ASSUME NEW l \in RadioLabels,
             \/ \E p \in RadioPorts : Naming!Connect(l, p)
             \/ Naming!Reapply(l) \/ Naming!ReapplyRefused(l) \/ Naming!ReapplyAnswered(l)
             \/ Naming!Disconnect(l) \/ Naming!RenameRejected(l) \/ Naming!RenameTimesOut(l)
      PROVE  Goal
  <2>1. Still
    BY <1>2, Zenon DEF Naming!Connect, Naming!Reapply, Naming!ReapplyRefused, Naming!ReapplyAnswered,
         Naming!Disconnect, Naming!RenameRejected, Naming!RenameTimesOut
  <2>2. QED
    BY <1>1, <2>1
<1>3. ASSUME NEW l \in RadioLabels, NEW x \in RadioNames, namesAsked' = [namesAsked EXCEPT ![l] = @ \cup {x}]
      PROVE  /\ namesAsked' \in [RadioLabels -> SUBSET RadioNames] /\ x \in namesAsked'[l]
             /\ \A k \in RadioLabels : namesAsked[k] \subseteq namesAsked'[k]
  BY <1>3 DEF ListInv
<1>4. ASSUME NEW l \in RadioLabels, NEW x \in RadioNames, Naming!RenameStick(l, x)
      PROVE  Goal
  <2>1. /\ namesAsked' = [namesAsked EXCEPT ![l] = @ \cup {x}] /\ Naming!Persist(l, x)
        /\ listRefused' = listRefused
    BY <1>4, Zenon DEF Naming!RenameStick
  <2>2. QED
    BY <1>3, <2>1, PersistKeeps
<1>5. ASSUME NEW l \in RadioLabels, NEW x \in RadioNames, NEW took \in BOOLEAN,
             Naming!RenameCompanion(l, x, took)
      PROVE  Goal
  <2>1. /\ namesAsked' = [namesAsked EXCEPT ![l] = @ \cup {x}]
        /\ UNCHANGED << radioList, radioFile, listRefused >>
    BY <1>5, Zenon DEF Naming!RenameCompanion
  <2>2. QED
    BY <1>3, <2>1, ListStands
<1>6. ASSUME NEW l \in RadioLabels, Naming!RenameAnswered(l)
      PROVE  Goal
  <2>1. /\ renaming[l].took /\ Naming!Persist(l, renaming[l].name)
        /\ namesAsked' = namesAsked /\ listRefused' = listRefused
    BY <1>6, Zenon DEF Naming!RenameAnswered
  <2>2. renaming[l].name \in namesAsked[l] /\ namesAsked \in [RadioLabels -> SUBSET RadioNames]
    BY <2>1 DEF LinkInv, ListInv
  <2>3. renaming[l].name \in RadioNames
    BY <2>2
  <2>4. QED
    BY <2>1, <2>2, <2>3, PersistKeeps
<1>7. ASSUME \/ \E p \in RadioPorts : Naming!SwapRadio(p)
             \/ Naming!Wire \/ UNCHANGED namingVars
      PROVE  Goal
  <2>1. Still
    BY <1>7, Zenon DEF Naming!SwapRadio, Naming!Wire, namingVars
  <2>2. QED
    BY <1>1, <2>1
<1>8. QED
  BY <1>2, <1>4, <1>5, <1>6, <1>7, ReplaceKeeps, UpdateFirstKeeps, ListRestarts, Zenon
  DEF Naming!Next

(* The connections, one lemma per action, then the step.                   *)
LEMMA NamingStart == Naming!Init => ListInv /\ LinkInv
<1> SUFFICES ASSUME Naming!Init PROVE ListInv /\ LinkInv
  OBVIOUS
<1>1. PICK f \in Naming!Forms :
         /\ radioList = [i \in DOMAIN f |-> [label |-> f[i].label, port |-> f[i].port, name |-> Naming!None]]
  BY DEF Naming!Init
<1>2. /\ radioFile = radioList
      /\ radioAt = [l \in RadioLabels |-> Naming!Nowhere]
      /\ radioCallback = [l \in RadioLabels |-> "idle"]
      /\ renaming = [l \in RadioLabels |-> Naming!NoRename]
      /\ radioFlash = [p \in RadioPorts |-> Naming!Factory]
      /\ namesAsked = [l \in RadioLabels |-> {}]
  BY DEF Naming!Init
<1>3. f \in Seq(FormEntries)
  <2>1. CASE f \in {<< >>}
    BY <2>1
  <2>2. CASE f \in {<< [label |-> l, port |-> p] >> : l \in RadioLabels, p \in RadioPorts \cup {Naming!Auto}}
    <3>1. PICK l \in RadioLabels, p \in RadioPorts \cup {Naming!Auto} : f = << [label |-> l, port |-> p] >>
      BY <2>2
    <3>2. [label |-> l, port |-> p] \in FormEntries
      BY DEF FormEntries
    <3>3. QED
      BY <3>1, <3>2
  <2>3. CASE f \in [1 .. 2 -> FormEntries]
    <3>1. 2 \in Nat
      OBVIOUS
    <3>2. QED
      BY <2>3, <3>1, FunctionIsSeq
  <2>4. QED
    BY <2>1, <2>2, <2>3 DEF Naming!Forms, FormEntries
<1>4. DOMAIN f = 1 .. Len(f) /\ Len(f) \in Nat /\ \A i \in DOMAIN f : f[i] \in FormEntries
  BY <1>3
<1>5. ASSUME NEW i \in DOMAIN f
      PROVE  radioList[i] \in RadioEntries /\ radioList[i].name = Naming!None
  <2>1. f[i].label \in RadioLabels /\ f[i].port \in RadioPorts \cup {Naming!Auto}
    BY <1>4 DEF FormEntries
  <2>2. QED
    BY <1>1, <2>1 DEF RadioEntries, Naming!Entries
<1>6. DOMAIN radioList = DOMAIN f /\ radioList \in [1 .. Len(f) -> RadioEntries]
  BY <1>1, <1>4, <1>5
<1>7. radioList \in Seq(RadioEntries)
  BY <1>4, <1>6, FunctionIsSeq
<1>8. NamesAsked(radioList, namesAsked)
  BY <1>5, <1>6 DEF NamesAsked
<1>9. ListInv
  BY <1>2, <1>7, <1>8 DEF ListInv
<1>10. renaming \in [RadioLabels -> [name : RadioNames \cup {Naming!None}, took : BOOLEAN]]
  BY <1>2 DEF Naming!NoRename
<1>11. \A l \in RadioLabels : renaming[l] = Naming!NoRename /\ ~ renaming[l].took
  BY <1>2 DEF Naming!NoRename
<1>12. \A l \in RadioLabels : radioAt[l] = Naming!Nowhere
  BY <1>2
<1>13. LinkInv
  BY <1>2, <1>10, <1>11, <1>12 DEF LinkInv, Applied
<1>14. QED
  BY <1>9, <1>13

LEMMA LinkParts ==
  ASSUME LinkInv, NEW l \in RadioLabels
  PROVE  /\ radioAt[l] \in RadioPorts \cup {Naming!Nowhere}
         /\ renaming[l].took \in BOOLEAN
BY DEF LinkInv

LEMMA NameStepKeepsLinks ==
  ASSUME LinkInv, UNCHANGED << radioKind, radioAt, radioCallback, renaming, radioFlash, nameBehind >>,
         namesAsked' = namesAsked,
         \A m : Naming!NameOf(radioList', m) \in {Naming!None, Naming!NameOf(radioList, m)}
  PROVE  LinkInv'
<1>1. /\ radioKind' = radioKind /\ radioAt' = radioAt /\ radioCallback' = radioCallback
      /\ renaming' = renaming /\ radioFlash' = radioFlash /\ nameBehind' = nameBehind
  OBVIOUS
<1>2. \A l \in RadioLabels : Applied(l) => Applied(l)'
  BY <1>1 DEF Applied
<1>3. QED
  BY <1>1, <1>2 DEF LinkInv

LEMMA AnswerKeepsLinks ==
  ASSUME ListInv, LinkInv, NEW l \in RadioLabels, Naming!RenameAnswered(l)
  PROVE  LinkInv'
<1>1. /\ renaming[l].took /\ radioList' = Naming!Persisted(l, renaming[l].name)
      /\ namesAsked' = namesAsked /\ radioKind' = radioKind /\ radioAt' = radioAt
      /\ radioCallback' = radioCallback /\ radioFlash' = radioFlash /\ nameBehind' = nameBehind
      /\ renaming' = [renaming EXCEPT ![l] = Naming!NoRename]
  BY Zenon DEF Naming!RenameAnswered, Naming!Persist
<1>2. renaming[l].name \in RadioNames /\ radioList \in Seq(RadioEntries)
  BY <1>1 DEF LinkInv, ListInv
<1>3. /\ \A m : m # l => Naming!NameOf(radioList', m) = Naming!NameOf(radioList, m)
      /\ Naming!NameOf(radioList', l) \in {renaming[l].name, Naming!None}
  <2> DEFINE x == renaming[l].name
  <2>1. x \in RadioNames /\ radioList' = Naming!Persisted(l, x)
    BY <1>1, <1>2
  <2> HIDE DEF x
  <2>2. \A m : m # l => Naming!NameOf(radioList', m) = Naming!NameOf(radioList, m)
    BY <1>2, <2>1, PersistedNames
  <2>3. Naming!NameOf(radioList', l) = x \/ Naming!NameOf(radioList', l) = Naming!None
    BY <1>2, <2>1, PersistedNames, Zenon
  <2>4. QED
    BY <2>2, <2>3 DEF x
<1>4. /\ renaming' \in [RadioLabels -> [name : RadioNames \cup {Naming!None}, took : BOOLEAN]]
      /\ renaming'[l] = Naming!NoRename /\ ~ renaming'[l].took
      /\ \A k \in RadioLabels : k # l => renaming'[k] = renaming[k]
  BY <1>1 DEF LinkInv, Naming!NoRename
<1>5. ASSUME NEW k \in RadioLabels, Applied(k) PROVE Applied(k)'
  <2>1. CASE k = l
    BY <1>1, <1>3, <1>4, <1>5, <2>1 DEF Applied
  <2>2. CASE k # l
    BY <1>1, <1>3, <1>4, <1>5, <2>2 DEF Applied
  <2>3. QED
    BY <2>1, <2>2
<1>6. \A k \in RadioLabels :
         /\ radioAt'[k] = Naming!Nowhere => renaming'[k] = Naming!NoRename
         /\ renaming'[k].took => renaming'[k].name \in namesAsked'[k]
  BY <1>1, <1>4 DEF LinkInv
<1>7. QED
  BY <1>1, <1>4, <1>5, <1>6 DEF LinkInv

LEMMA ConnectKeepsLinks ==
  ASSUME LinkInv, NEW l \in RadioLabels, NEW p \in RadioPorts, Naming!Connect(l, p)
  PROVE  LinkInv'
<1>1. /\ radioAt[l] = Naming!Nowhere /\ \A m \in RadioLabels : radioAt[m] # p
      /\ radioAt' = [radioAt EXCEPT ![l] = p]
      /\ radioList' = radioList /\ renaming' = renaming /\ namesAsked' = namesAsked
      /\ radioKind' = radioKind
  BY Zenon DEF Naming!Connect
<1>2. /\ radioAt' \in [RadioLabels -> RadioPorts \cup {Naming!Nowhere}]
      /\ radioAt'[l] = p /\ \A k \in RadioLabels : k # l => radioAt'[k] = radioAt[k]
  BY <1>1 DEF LinkInv
<1>3. CASE radioKind = "companion"
  <2>1. /\ radioCallback' = [radioCallback EXCEPT ![l] = IF namesWired THEN "due" ELSE "idle"]
        /\ nameBehind' = IF namesWired THEN nameBehind ELSE nameBehind \cup {l}
        /\ radioFlash' = radioFlash
    BY <1>3 DEF Naming!Connect
  <2>2. /\ DOMAIN radioCallback' = RadioLabels
        /\ radioCallback'[l] = "due" \/ l \in nameBehind'
        /\ nameBehind \subseteq nameBehind'
        /\ \A k \in RadioLabels : k # l => radioCallback'[k] = radioCallback[k]
    BY <2>1 DEF LinkInv
  <2>3. renaming[l] = Naming!NoRename /\ ~ renaming[l].took
    BY <1>1 DEF LinkInv, Naming!NoRename
  <2>4. ASSUME NEW k \in RadioLabels PROVE Applied(k)'
    <3>1. CASE k = l
      BY <1>1, <2>2, <2>3, <3>1 DEF Applied
    <3>2. CASE k # l
      <4>1. Applied(k)
        BY <1>3 DEF LinkInv
      <4>2. QED
        BY <1>1, <1>2, <2>1, <2>2, <3>2, <4>1 DEF Applied
    <3>3. QED
      BY <3>1, <3>2
  <2>5. QED
    BY <1>1, <1>2, <2>1, <2>2, <2>3, <2>4 DEF LinkInv
<1>4. CASE radioKind # "companion"
  <2>1. DOMAIN radioFlash' = RadioPorts /\ radioCallback' = radioCallback
    BY <1>4 DEF Naming!Connect, LinkInv
  <2>2. QED
    BY <1>1, <1>2, <1>4, <2>1 DEF LinkInv
<1>5. QED
  BY <1>3, <1>4

LEMMA DropKeepsLinks ==
  ASSUME LinkInv, NEW l \in RadioLabels, Naming!Drops(l),
         UNCHANGED << radioKind, radioList, radioFlash, namesAsked, nameBehind >>
  PROVE  LinkInv'
<1>1. /\ radioAt' = [radioAt EXCEPT ![l] = Naming!Nowhere]
      /\ radioCallback' = [radioCallback EXCEPT ![l] = "idle"]
      /\ renaming' = [renaming EXCEPT ![l] = Naming!NoRename]
      /\ radioKind' = radioKind /\ radioList' = radioList /\ radioFlash' = radioFlash
      /\ namesAsked' = namesAsked /\ nameBehind' = nameBehind
  BY DEF Naming!Drops
<1>2. /\ radioAt' \in [RadioLabels -> RadioPorts \cup {Naming!Nowhere}]
      /\ radioAt'[l] = Naming!Nowhere
      /\ \A k \in RadioLabels : k # l => radioAt'[k] = radioAt[k]
  BY <1>1 DEF LinkInv
<1>3. /\ DOMAIN radioCallback' = RadioLabels
      /\ \A k \in RadioLabels : k # l => radioCallback'[k] = radioCallback[k]
  BY <1>1 DEF LinkInv
<1>4. /\ renaming' \in [RadioLabels -> [name : RadioNames \cup {Naming!None}, took : BOOLEAN]]
      /\ renaming'[l] = Naming!NoRename /\ ~ renaming'[l].took
      /\ \A k \in RadioLabels : k # l => renaming'[k] = renaming[k]
  BY <1>1 DEF LinkInv, Naming!NoRename
<1>5. ASSUME NEW k \in RadioLabels, Applied(k) PROVE Applied(k)'
  <2>1. CASE k = l
    BY <1>2, <2>1 DEF Applied
  <2>2. CASE k # l
    BY <1>1, <1>2, <1>3, <1>4, <1>5, <2>2 DEF Applied
  <2>3. QED
    BY <2>1, <2>2
<1>6. \A k \in RadioLabels :
         /\ radioAt'[k] = Naming!Nowhere => renaming'[k] = Naming!NoRename
         /\ renaming'[k].took => renaming'[k].name \in namesAsked'[k]
         /\ \A m \in RadioLabels : radioAt'[k] = radioAt'[m] /\ radioAt'[k] # Naming!Nowhere => k = m
  BY <1>1, <1>2, <1>4 DEF LinkInv
<1>7. QED
  BY <1>1, <1>2, <1>3, <1>4, <1>5, <1>6 DEF LinkInv

LEMMA ReapplyKeepsLinks ==
  ASSUME LinkInv, NEW l \in RadioLabels,
         Naming!Reapply(l) \/ Naming!ReapplyRefused(l) \/ Naming!ReapplyAnswered(l)
  PROVE  LinkInv'
<1>1. /\ radioAt' = radioAt /\ renaming' = renaming /\ radioList' = radioList
      /\ namesAsked' = namesAsked /\ radioKind' = radioKind
  BY Zenon DEF Naming!Reapply, Naming!ReapplyRefused, Naming!ReapplyAnswered
<1>2. /\ DOMAIN radioCallback' = RadioLabels
      /\ \A k \in RadioLabels : k # l => radioCallback'[k] = radioCallback[k]
  BY DEF Naming!Reapply, Naming!ReapplyRefused, Naming!ReapplyAnswered, LinkInv
<1>3. /\ DOMAIN radioFlash' = RadioPorts
      /\ \A q \in RadioPorts : q # radioAt[l] => radioFlash'[q] = radioFlash[q]
  BY DEF Naming!Reapply, Naming!ReapplyRefused, Naming!ReapplyAnswered, LinkInv
<1>4. \A k \in RadioLabels : k # l /\ k \notin nameBehind' => k \notin nameBehind
  BY DEF Naming!Reapply, Naming!ReapplyRefused, Naming!ReapplyAnswered
<1>5. radioAt[l] # Naming!Nowhere => radioAt[l] \in RadioPorts
  BY DEF LinkInv
<1>6. ASSUME NEW k \in RadioLabels, Applied(k), k # l PROVE Applied(k)'
  <2>1. radioAt[k] # Naming!Nowhere => radioAt[k] # radioAt[l] /\ radioAt[k] \in RadioPorts
    BY <1>6 DEF LinkInv
  <2>2. QED
    BY <1>1, <1>2, <1>3, <1>4, <1>6, <2>1 DEF Applied
<1>7. ASSUME Applied(l) PROVE Applied(l)'
  <2>1. CASE Naming!Reapply(l)
    <3>1. radioCallback[l] = "due" /\ radioAt[l] # Naming!Nowhere
      BY <2>1 DEF Naming!Reapply
    <3>2. CASE Naming!Desired(l) = Naming!None
      <4>1. radioFlash' = radioFlash /\ nameBehind' = nameBehind
        BY <2>1, <3>2 DEF Naming!Reapply
      <4>2. Naming!NameOf(radioList, l) = Naming!None
        BY <3>2 DEF Naming!Desired
      <4>3. QED
        BY <1>1, <1>7, <4>1, <4>2 DEF Applied
    <3>3. CASE Naming!Desired(l) # Naming!None
      <4>1. /\ radioFlash' = [radioFlash EXCEPT ![radioAt[l]] = Naming!Desired(l)]
            /\ nameBehind' = IF renaming[l] # Naming!NoRename THEN nameBehind \cup {l}
                                                              ELSE nameBehind \ {l}
        BY <2>1, <3>3 DEF Naming!Reapply
      <4>2. radioFlash'[radioAt[l]] = Naming!Desired(l)
        BY <1>5, <3>1, <4>1 DEF LinkInv
      <4>3. l \notin nameBehind' => renaming[l] = Naming!NoRename
        BY <4>1
      <4>4. l \notin nameBehind' => ~ renaming[l].took
        BY <4>3 DEF Naming!NoRename
      <4>5. Naming!NameOf(radioList, l) # Naming!None => Naming!Desired(l) = Naming!NameOf(radioList, l)
        BY DEF Naming!Desired
      <4>6. QED
        BY <1>1, <4>2, <4>4, <4>5 DEF Applied
    <3>4. QED
      BY <3>2, <3>3
  <2>2. CASE Naming!ReapplyRefused(l)
    <3>1. l \in nameBehind'
      BY <2>2 DEF Naming!ReapplyRefused
    <3>2. QED
      BY <3>1 DEF Applied
  <2>3. CASE Naming!ReapplyAnswered(l)
    <3>1. radioCallback[l] = "sent" /\ radioFlash' = radioFlash /\ nameBehind' = nameBehind
      BY <2>3 DEF Naming!ReapplyAnswered
    <3>2. QED
      BY <1>1, <1>7, <3>1 DEF Applied
  <2>4. QED
    BY <2>1, <2>2, <2>3
<1>8. QED
  BY <1>1, <1>2, <1>3, <1>6, <1>7 DEF LinkInv

LEMMA StickKeepsLinks ==
  ASSUME ListInv, LinkInv, NEW l \in RadioLabels, NEW x \in RadioNames, Naming!RenameStick(l, x)
  PROVE  LinkInv'
<1>1. /\ radioAt' = radioAt /\ renaming' = renaming /\ radioCallback' = radioCallback
      /\ radioKind = "stick" /\ radioKind' = radioKind
      /\ namesAsked' = [namesAsked EXCEPT ![l] = @ \cup {x}]
      /\ radioFlash' = [radioFlash EXCEPT ![radioAt[l]] = x]
  BY Zenon DEF Naming!RenameStick
<1>2. \A k \in RadioLabels : namesAsked[k] \subseteq namesAsked'[k]
  BY <1>1 DEF ListInv
<1>3. DOMAIN radioFlash' = RadioPorts
  BY <1>1 DEF LinkInv
<1>4. QED
  BY <1>1, <1>2, <1>3 DEF LinkInv

LEMMA RenameKeepsLinks ==
  ASSUME ListInv, LinkInv, NEW l \in RadioLabels, NEW x \in RadioNames, NEW took \in BOOLEAN,
         Naming!RenameCompanion(l, x, took)
  PROVE  LinkInv'
<1> DEFINE r == [name |-> x, took |-> took]
<1>1. /\ radioAt' = radioAt /\ radioCallback' = radioCallback /\ radioKind' = radioKind
      /\ radioList' = radioList /\ nameBehind' = nameBehind
      /\ radioAt[l] # Naming!Nowhere /\ renaming[l] = Naming!NoRename
      /\ renaming' = [renaming EXCEPT ![l] = r]
      /\ radioFlash' = IF took THEN [radioFlash EXCEPT ![radioAt[l]] = x] ELSE radioFlash
      /\ namesAsked' = [namesAsked EXCEPT ![l] = @ \cup {x}]
  BY Zenon DEF Naming!RenameCompanion
<1>2. /\ r \in [name : RadioNames \cup {Naming!None}, took : BOOLEAN]
      /\ r.name = x /\ r.took = took
  OBVIOUS
<1>3. ~ renaming[l].took /\ radioAt[l] \in RadioPorts
  BY <1>1 DEF Naming!NoRename, LinkInv
<1> HIDE DEF r
<1>4. /\ renaming' \in [RadioLabels -> [name : RadioNames \cup {Naming!None}, took : BOOLEAN]]
      /\ renaming'[l] = r /\ \A k \in RadioLabels : k # l => renaming'[k] = renaming[k]
  BY <1>1, <1>2 DEF LinkInv
<1>5. /\ DOMAIN radioFlash' = RadioPorts
      /\ took => radioFlash'[radioAt[l]] = x
      /\ ~ took => radioFlash'[radioAt[l]] = radioFlash[radioAt[l]]
      /\ \A q \in RadioPorts : q # radioAt[l] => radioFlash'[q] = radioFlash[q]
  BY <1>1, <1>3 DEF LinkInv
<1>6. /\ \A k \in RadioLabels : namesAsked[k] \subseteq namesAsked'[k]
      /\ x \in namesAsked'[l]
  BY <1>1 DEF ListInv
<1>7. ASSUME NEW k \in RadioLabels, Applied(k) PROVE Applied(k)'
  <2>1. CASE k = l
    BY <1>1, <1>2, <1>3, <1>4, <1>5, <1>7, <2>1 DEF Applied
  <2>2. CASE k # l
    <3>1. radioAt[k] # Naming!Nowhere => radioAt[k] # radioAt[l] /\ radioAt[k] \in RadioPorts
      BY <2>2 DEF LinkInv
    <3>2. QED
      BY <1>1, <1>4, <1>5, <1>7, <2>2, <3>1 DEF Applied
  <2>3. QED
    BY <2>1, <2>2
<1>8. \A k \in RadioLabels :
         /\ radioAt'[k] = Naming!Nowhere => renaming'[k] = Naming!NoRename
         /\ renaming'[k].took => renaming'[k].name \in namesAsked'[k]
  BY <1>1, <1>2, <1>4, <1>6 DEF LinkInv
<1>9. QED
  BY <1>1, <1>4, <1>5, <1>7, <1>8 DEF LinkInv

LEMMA RejectKeepsLinks ==
  ASSUME LinkInv, NEW l \in RadioLabels, Naming!RenameRejected(l)
  PROVE  LinkInv'
<1>1. /\ radioAt' = radioAt /\ radioCallback' = radioCallback /\ radioKind' = radioKind
      /\ radioList' = radioList /\ nameBehind' = nameBehind /\ radioFlash' = radioFlash
      /\ namesAsked' = namesAsked
      /\ ~ renaming[l].took /\ renaming' = [renaming EXCEPT ![l] = Naming!NoRename]
  BY Zenon DEF Naming!RenameRejected
<1>2. /\ renaming' \in [RadioLabels -> [name : RadioNames \cup {Naming!None}, took : BOOLEAN]]
      /\ renaming'[l] = Naming!NoRename /\ ~ renaming'[l].took
      /\ \A k \in RadioLabels : k # l => renaming'[k] = renaming[k]
  BY <1>1 DEF LinkInv, Naming!NoRename
<1>3. ASSUME NEW k \in RadioLabels, Applied(k) PROVE Applied(k)'
  <2>1. CASE k = l
    BY <1>1, <1>2, <1>3, <2>1 DEF Applied
  <2>2. CASE k # l
    BY <1>1, <1>2, <1>3, <2>2 DEF Applied
  <2>3. QED
    BY <2>1, <2>2
<1>4. \A k \in RadioLabels :
         /\ radioAt'[k] = Naming!Nowhere => renaming'[k] = Naming!NoRename
         /\ renaming'[k].took => renaming'[k].name \in namesAsked'[k]
  BY <1>1, <1>2 DEF LinkInv
<1>5. QED
  BY <1>1, <1>2, <1>3, <1>4 DEF LinkInv

LEMMA SwapKeepsLinks ==
  ASSUME LinkInv, NEW p \in RadioPorts, Naming!SwapRadio(p)
  PROVE  LinkInv'
<1>1. /\ radioAt' = radioAt /\ radioCallback' = radioCallback /\ radioKind' = radioKind
      /\ radioList' = radioList /\ nameBehind' = nameBehind /\ renaming' = renaming
      /\ namesAsked' = namesAsked /\ radioFlash' = [radioFlash EXCEPT ![p] = Naming!Factory]
      /\ \A l \in RadioLabels : radioAt[l] # p
  BY Zenon DEF Naming!SwapRadio
<1>2. /\ DOMAIN radioFlash' = RadioPorts
      /\ \A q \in RadioPorts : q # p => radioFlash'[q] = radioFlash[q]
  BY <1>1 DEF LinkInv
<1>3. ASSUME NEW k \in RadioLabels, Applied(k) PROVE Applied(k)'
  <2>1. radioAt[k] # Naming!Nowhere => radioAt[k] # p /\ radioAt[k] \in RadioPorts
    BY <1>1 DEF LinkInv
  <2>2. QED
    BY <1>1, <1>2, <1>3, <2>1 DEF Applied
<1>4. QED
  BY <1>1, <1>2, <1>3 DEF LinkInv

LEMMA RestartKeepsLinks ==
  ASSUME LinkInv, Naming!Restart
  PROVE  LinkInv'
<1>1. /\ radioAt' = [l \in RadioLabels |-> Naming!Nowhere]
      /\ radioCallback' = [l \in RadioLabels |-> "idle"]
      /\ renaming' = [l \in RadioLabels |-> Naming!NoRename]
      /\ radioFlash' = radioFlash
  BY Zenon DEF Naming!Restart
<1>2. renaming' \in [RadioLabels -> [name : RadioNames \cup {Naming!None}, took : BOOLEAN]]
  BY <1>1 DEF Naming!NoRename
<1>3. \A l \in RadioLabels : renaming'[l] = Naming!NoRename /\ ~ renaming'[l].took
  BY <1>1 DEF Naming!NoRename
<1>4. \A l \in RadioLabels : radioAt'[l] = Naming!Nowhere
  BY <1>1
<1>5. \A l \in RadioLabels : Applied(l)'
  BY <1>4 DEF Applied
<1>6. QED
  BY <1>1, <1>2, <1>3, <1>4, <1>5 DEF LinkInv

LEMMA LinkStep ==
  ASSUME ListInv, LinkInv, [Naming!Next]_namingVars
  PROVE  LinkInv'
<1>1. ASSUME NEW l \in RadioLabels, Naming!Disconnect(l) \/ Naming!RenameTimesOut(l)
      PROVE  LinkInv'
  BY <1>1, DropKeepsLinks DEF Naming!Disconnect, Naming!RenameTimesOut
<1>2. ASSUME Naming!Wire \/ UNCHANGED namingVars
      PROVE  LinkInv'
  BY <1>2, NameStepKeepsLinks DEF Naming!Wire, namingVars
<1>3. ASSUME NEW form \in Naming!Forms, Naming!ReplaceList(form)
      PROVE  LinkInv'
  BY <1>3, ReplaceKeeps, NameStepKeepsLinks DEF Naming!ReplaceList
<1>4. ASSUME NEW p \in RadioPorts \cup {Naming!Auto}, Naming!UpdateFirst(p)
      PROVE  LinkInv'
  <2>1. /\ UNCHANGED << radioKind, radioAt, radioCallback, renaming, radioFlash, nameBehind >>
        /\ namesAsked' = namesAsked
    BY <1>4 DEF Naming!UpdateFirst
  <2>2. \A m : Naming!NameOf(radioList', m) \in {Naming!None, Naming!NameOf(radioList, m)}
    BY <1>4, UpdateFirstKeeps, Zenon
  <2>3. QED
    BY <2>1, <2>2, NameStepKeepsLinks, Zenon
<1>5. QED
  BY <1>1, <1>2, <1>3, <1>4, ConnectKeepsLinks, ReapplyKeepsLinks, StickKeepsLinks,
     RenameKeepsLinks, AnswerKeepsLinks, RejectKeepsLinks, SwapKeepsLinks, RestartKeepsLinks, Zenon
  DEF Naming!Next

LEMMA NamesTold ==
  ASSUME ListInv, LinkInv
  PROVE  Naming!NamesByLabel /\ Naming!NameApplied
<1>1. Naming!NamesByLabel
  BY DEF Naming!NamesByLabel, ListInv, NamesAsked
<1>2. Naming!NameApplied
  BY DEF Naming!NameApplied, LinkInv, Applied, Naming!NoRename
<1>3. QED
  BY <1>1, <1>2

(* A node's row has its own name, or none, and counts its own packets,     *)
(* whatever syncs, messages, reports, imports, wipes and stops came in     *)
(* between; an entry has a name that was asked for under its own label,    *)
(* and a connected companion bears the name of its entry.                  *)
THEOREM DirectoryHolds == Spec => []DirectoryTrue
<1> DEFINE RowsKept == part = "nodes" => DirectoryInv
           NamesKept == part = "names" => ListInv /\ LinkInv
<1>1. Init => RowsKept /\ NamesKept
  BY DirectoriesInit, DirectoryStart, NamingStart
<1>2. RowsKept /\ NamesKept /\ [Next]_vars => RowsKept' /\ NamesKept'
  BY DirectoryAlone, NamingAlone, DirectoryStep, ListStep, LinkStep
<1>3. RowsKept /\ NamesKept => DirectoryTrue
  BY RowsAreOwn, NamesTold DEF DirectoryTrue
<1>4. QED
  BY <1>1, <1>2, <1>3, PTL DEF Spec

(* No step takes away a name a node has, unless the row goes or a stop     *)
(* comes before the commit; none but a packet of its own makes a node look *)
(* staler than a stored packet, and no wipe removes a node that was heard  *)
(* twice or has a name.  No form and no rename wipes the name of a label   *)
(* that stays in local.yaml.                                               *)
THEOREM DirectoryKeeps == Spec => DirectoryKept
<1> DEFINE RowsKept == part = "nodes" => DirectoryInv
           NamesKept == part = "names" => ListInv /\ LinkInv
<1>1. Init => RowsKept /\ NamesKept
  BY DirectoriesInit, DirectoryStart, NamingStart
<1>2. RowsKept /\ NamesKept /\ [Next]_vars => RowsKept' /\ NamesKept'
  BY DirectoryAlone, NamingAlone, DirectoryStep, ListStep, LinkStep
<1>3. RowsKept /\ NamesKept /\ [Next]_vars =>
        /\ [\A n \in Contacts :
              (nodeRows[n] # Directory!NoRow /\ nodeRows[n].name \in Contacts
                 /\ nodeRows'[n] # Directory!NoRow)
                => nodeRows'[n].name \in Contacts
                     \/ nodeRows'[n] = nodeSaved.nodes[n]]_(Directory!vars)
        /\ [\A n \in Directory!Nodes :
              (nodeRows[n] # Directory!NoRow /\ nodeRows'[n] # Directory!NoRow
                 /\ nodeRows'[n].heard < nodeRows[n].heard /\ nodeApplied'[n] = nodeApplied[n])
                => \A t \in nodeStamps[n] : nodeRows'[n].heard >= t]_(Directory!vars)
        /\ [\A n \in Directory!Nodes :
              (nodeRows[n] # Directory!NoRow /\ nodeRows'[n] = Directory!NoRow
                 /\ ~ nodeClearing /\ dirRunning')
                => nodeApplied[n] <= 1 /\ nodeRows[n].name = Directory!None]_(Directory!vars)
  <2> SUFFICES ASSUME RowsKept, [Next]_vars, ~ UNCHANGED Directory!vars
               PROVE  \A n \in Directory!Nodes : NodeKept(n)
    BY Zenon DEF NodeKept, Directory!Nodes
  <2>1. part = "nodes"
    BY DirectoryAlone DEF directoryVars, Directory!vars
  <2>2. QED
    BY <2>1, DirectoryAlone, DirectoryStep
<1>4. RowsKept /\ NamesKept /\ [Next]_vars =>
        [~ listRefused =>
           \A l \in Naming!LabelsOf(radioFile) \cap Naming!LabelsOf(radioFile') :
              Naming!NameOf(radioFile, l) # Naming!None
                => Naming!NameOf(radioFile', l) # Naming!None]_radioFile
  <2> SUFFICES ASSUME NamesKept, [Next]_vars, ~ UNCHANGED radioFile
               PROVE  FileKept
    BY Zenon DEF FileKept
  <2>1. part = "names"
    BY NamingAlone DEF namingVars
  <2>2. QED
    BY <2>1, NamingAlone, ListStep
<1>5. QED
  BY <1>1, <1>2, <1>3, <1>4, PTL
     DEF Spec, DirectoryKept, Directory!NameStays, Directory!NotUnfreshened,
         Directory!WipeSparesHeard, Naming!NamesKept

-----------------------------------------------------------------------------
(***************************************************************************)
(* Plugins.  What runs was asked for, what is enabled has what it          *)
(* requires, and while a folder is exchanged its old contents stand aside. *)
(* The invariant excuses what the component's properties excuse: an        *)
(* application two installers met at, one whose exchange was cut off, one  *)
(* that was enabled while its requirement was missing, and the file after  *)
(* a save that failed.                                                     *)
(***************************************************************************)
(* The stages of an installation, and the installation itself.             *)
Working == {"staged", "aside", "clear", "placed"}
Installation == [at : Working \cup {"idle", "over"}, app : AppIds \cup {Plugin!None},
                 version : AppVersions \cup {Plugin!None}]

PluginTypes ==
    /\ folder \in [AppIds -> Plugin!Contents \cup {Plugin!None}]
    /\ aside \in [AppIds -> Plugin!Contents \cup {Plugin!None}]
    /\ entries \in [AppIds -> Plugin!Entries]
    /\ entriesDisk \in [AppIds -> Plugin!Entries]
    /\ installing \in [Installers -> Installation]
    /\ \A i \in Installers :
          IF installing[i].at \in Working
          THEN installing[i].app \in AppIds /\ installing[i].version \in AppVersions
          ELSE installing[i].app = Plugin!None
    /\ refused \in BOOLEAN

(* Nothing is enabled, in memory or in the file, that nobody asked for.    *)
OnlyWanted ==
    \A a \in AppIds \ (BuiltinApps \cup stray) :
        entries[a].enabled \/ entriesDisk[a].enabled => a \in wanted

(* The file and memory agree on what is enabled.                           *)
SavedAsSet(a) ==
    /\ entries[a].enabled => entriesDisk[a].enabled
    /\ a \notin stray => (entriesDisk[a].enabled => entries[a].enabled)

(* What is enabled has its requirement enabled in the same place; the disk *)
(* keeps this through a restart, which makes the file the memory.          *)
NeedMet(a) ==
    a \notin orphaned \cup stray /\ AppRequires[a] # Plugin!None =>
        /\ entries[a].enabled => entries[AppRequires[a]].enabled
        /\ entriesDisk[a].enabled => entriesDisk[AppRequires[a]].enabled

NeedsMet == ~ refused => \A a \in AppIds : SavedAsSet(a) /\ NeedMet(a)

(* Installer i is at this stage with the application.                      *)
At(i, a, where) == installing[i].app = a /\ installing[i].at = where

(* One installer has the application in hand; only an installer that moved *)
(* the old folder aside leaves one there, and until it has placed the new  *)
(* one there is none.                                                      *)
Moves(a) ==
    /\ \A i, j \in Installers : installing[i].app = a /\ installing[j].app = a => i = j
    /\ aside[a] # Plugin!None => \E i \in Installers : At(i, a, "aside")
    /\ \A i \in Installers :
          /\ At(i, a, "aside") => folder[a] = Plugin!None /\ aside[a] # Plugin!None
          /\ At(i, a, "clear") => folder[a] = Plugin!None
          /\ At(i, a, "placed") => folder[a] \in {Plugin!None, installing[i].version}

(* The recorded version is the folder, except between the exchange and the *)
(* record.                                                                 *)
Provenance(a) ==
    /\ entriesDisk[a].source = entries[a].source
    /\ entries[a].source # Plugin!None =>
          /\ \A i \in Installers : At(i, a, "aside") => aside[a] = entries[a].source
          /\ folder[a] # Plugin!None /\ (\A i \in Installers : ~ At(i, a, "placed"))
                => folder[a] = entries[a].source

(* The two, for what was not crossed or cut off.                           *)
FoldersRight ==
    \A a \in AppIds \ (crossedApps \cup cutOff) : Moves(a) /\ (a \notin stray => Provenance(a))

(* The inductive invariant.                                                *)
PluginInv == PluginTypes /\ OnlyWanted /\ NeedsMet /\ FoldersRight

(* The values that stand for nothing are no application, no version and no *)
(* contents.                                                               *)
LEMMA PluginNone ==
  /\ Plugin!None \notin AppIds /\ Plugin!None \notin AppVersions /\ "shipped" # Plugin!None
  /\ Plugin!Idle \in Installation /\ Plugin!Over \in Installation
  /\ Plugin!Idle.at \notin Working /\ Plugin!Over.at \notin Working
  /\ Plugin!Idle.app = Plugin!None /\ Plugin!Over.app = Plugin!None
  /\ \A v \in Plugin!Contents : v # Plugin!None
BY PluginAssumption DEF Plugin!None, Plugin!Idle, Plugin!Over, Installation, Working, Plugin!Contents

LEMMA EntryUnset ==
  /\ \A a \in AppIds : Plugin!Unset(a) \in Plugin!Entries
  /\ \A a \in AppIds : Plugin!Unset(a).source = Plugin!None
  /\ \A a \in AppIds : Plugin!Unset(a).enabled <=> a \in BuiltinApps
<1>1. ASSUME NEW a \in AppIds, NEW v \in BOOLEAN, NEW e, e = [enabled |-> v, source |-> Plugin!None]
      PROVE  e \in Plugin!Entries /\ e.source = Plugin!None /\ e.enabled = v
  BY <1>1 DEF Plugin!Entries
<1>2. ASSUME NEW a \in AppIds
      PROVE  Plugin!Unset(a) = [enabled |-> (a \in BuiltinApps), source |-> Plugin!None]
  BY DEF Plugin!Unset
<1>3. ASSUME NEW a \in AppIds PROVE (a \in BuiltinApps) \in BOOLEAN
  OBVIOUS
<1>4. ASSUME NEW a \in AppIds
      PROVE  /\ Plugin!Unset(a) \in Plugin!Entries /\ Plugin!Unset(a).source = Plugin!None
             /\ Plugin!Unset(a).enabled = (a \in BuiltinApps)
  BY <1>1, <1>2, <1>3, Zenon
<1>5. QED
  BY <1>4, Zenon

LEMMA InstallSet ==
  ASSUME NEW f \in [Installers -> Installation], NEW i \in Installers,
         NEW w \in Working, NEW g, g = [f EXCEPT ![i].at = w]
  PROVE  /\ g \in [Installers -> Installation]
         /\ g[i].at = w /\ g[i].app = f[i].app /\ g[i].version = f[i].version
         /\ \A j \in Installers : j # i => g[j] = f[j]
BY DEF Installation

LEMMA PluginStart ==
  ASSUME Plugin!Init
  PROVE  PluginInv
<1>1. /\ folder = [a \in AppIds |-> "shipped"] /\ aside = [a \in AppIds |-> Plugin!None]
      /\ entries = [a \in AppIds |-> Plugin!Unset(a)] /\ entriesDisk = entries
      /\ installing = [i \in Installers |-> Plugin!Idle] /\ refused = FALSE
      /\ orphaned = {} /\ stray = {}
  BY DEF Plugin!Init
<1>2. PluginTypes
  <2>1. entries \in [AppIds -> Plugin!Entries]
    BY <1>1, EntryUnset
  <2>2. installing \in [Installers -> Installation]
    BY <1>1, PluginNone
  <2>3. folder \in [AppIds -> Plugin!Contents \cup {Plugin!None}]
    BY <1>1 DEF Plugin!Contents
  <2>4. aside \in [AppIds -> Plugin!Contents \cup {Plugin!None}]
    BY <1>1
  <2>5. \A i \in Installers : installing[i].at \notin Working /\ installing[i].app = Plugin!None
    BY <1>1, PluginNone
  <2>6. QED
    BY <1>1, <2>1, <2>2, <2>3, <2>4, <2>5 DEF PluginTypes
<1>3. \A a \in AppIds : entries[a].enabled <=> a \in BuiltinApps
  BY <1>1, EntryUnset
<1>4. OnlyWanted
  BY <1>1, <1>3 DEF OnlyWanted
<1>5. NeedsMet
  <2>1. ASSUME NEW a \in AppIds, AppRequires[a] # Plugin!None, entries[a].enabled
        PROVE  entries[AppRequires[a]].enabled
    BY <2>1, <1>3, PluginAssumption
  <2>2. QED
    BY <1>1, <2>1 DEF NeedsMet, SavedAsSet, NeedMet
<1>6. FoldersRight
  <2>1. \A i \in Installers : installing[i].app = Plugin!None
    BY <1>1, PluginNone
  <2>2. \A a \in AppIds : entries[a].source = Plugin!None
    BY <1>1, EntryUnset
  <2>3. ASSUME NEW a \in AppIds PROVE Moves(a) /\ Provenance(a)
    BY <1>1, <2>1, <2>2, PluginNone DEF Moves, Provenance, At
  <2>4. QED
    BY <2>3 DEF FoldersRight
<1>7. QED
  BY <1>2, <1>4, <1>5, <1>6 DEF PluginInv

(* An application no step touches keeps its part of the invariant.         *)
LEMMA AppStands ==
  ASSUME NEW b \in AppIds, folder'[b] = folder[b], aside'[b] = aside[b],
         entries'[b].source = entries[b].source, entriesDisk'[b].source = entriesDisk[b].source,
         \A i \in Installers : \/ installing'[i] = installing[i]
                               \/ installing[i].app # b /\ installing'[i].app # b
  PROVE  (Moves(b) => Moves(b)') /\ (Provenance(b) => Provenance(b)')
<1>1. \A i \in Installers : /\ installing'[i].app = b <=> installing[i].app = b
                            /\ installing[i].app = b => installing'[i] = installing[i]
  OBVIOUS
<1>2. \A w : \A i \in Installers : At(i, b, w)' <=> At(i, b, w)
  BY <1>1 DEF At
<1>3. Moves(b) => Moves(b)'
  <2> SUFFICES ASSUME Moves(b) PROVE Moves(b)'
    OBVIOUS
  <2>1. \A i, j \in Installers : installing'[i].app = b /\ installing'[j].app = b => i = j
    BY <1>1 DEF Moves
  <2>2. aside'[b] # Plugin!None => \E i \in Installers : At(i, b, "aside")'
    BY <1>2 DEF Moves
  <2>3. ASSUME NEW i \in Installers
        PROVE  /\ At(i, b, "aside")' => folder'[b] = Plugin!None /\ aside'[b] # Plugin!None
               /\ At(i, b, "clear")' => folder'[b] = Plugin!None
               /\ At(i, b, "placed")' => folder'[b] \in {Plugin!None, installing'[i].version}
    BY <1>1, <1>2 DEF Moves, At
  <2>4. QED
    BY <2>1, <2>2, <2>3 DEF Moves
<1>4. Provenance(b) => Provenance(b)'
  BY <1>2 DEF Provenance
<1>5. QED
  BY <1>3, <1>4

LEMMA FoldersStand ==
  ASSUME PluginInv, UNCHANGED << folder, aside, installing, crossedApps, cutOff, stray >>,
         \A b \in AppIds :
            /\ entries'[b].source = entries[b].source
            /\ entriesDisk'[b].source \in {entriesDisk[b].source, entries[b].source}
  PROVE  FoldersRight'
<1> SUFFICES ASSUME NEW b \in AppIds, b \notin crossedApps, b \notin cutOff
             PROVE  Moves(b)' /\ (b \notin stray => Provenance(b)')
  BY DEF FoldersRight
<1>1. Moves(b) /\ (b \notin stray => Provenance(b))
  BY DEF PluginInv, FoldersRight
<1>2. Moves(b)'
  BY <1>1 DEF Moves, At
<1>3. b \notin stray => Provenance(b)'
  <2> SUFFICES ASSUME Provenance(b) PROVE Provenance(b)'
    BY <1>1
  <2>1. entriesDisk'[b].source = entries'[b].source
    BY DEF Provenance
  <2>2. QED
    BY <2>1 DEF Provenance, At
<1>4. QED
  BY <1>2, <1>3

LEMMA EnabledStand ==
  ASSUME PluginInv, UNCHANGED << wanted, orphaned, stray, refused >>,
         \A b \in AppIds :
            /\ entries'[b].enabled = entries[b].enabled
            /\ entriesDisk'[b].enabled = entriesDisk[b].enabled
  PROVE  OnlyWanted' /\ NeedsMet'
<1>1. OnlyWanted'
  BY DEF PluginInv, OnlyWanted
<1>2. NeedsMet'
  <2> SUFFICES ASSUME ~ refused, NEW b \in AppIds PROVE SavedAsSet(b)' /\ NeedMet(b)'
    BY DEF NeedsMet
  <2>1. SavedAsSet(b) /\ NeedMet(b)
    BY DEF PluginInv, NeedsMet
  <2>2. SavedAsSet(b)'
    BY <2>1 DEF SavedAsSet
  <2>3. AppRequires[b] # Plugin!None => AppRequires[b] \in AppIds
    BY PluginAssumption
  <2>4. NeedMet(b)'
    BY <2>1, <2>3 DEF NeedMet
  <2>5. QED
    BY <2>2, <2>4
<1>3. QED
  BY <1>1, <1>2

LEMMA EnableKeeps ==
  ASSUME PluginInv, NEW a \in AppIds, NEW ok \in BOOLEAN, Plugin!Enable(a, ok)
  PROVE  PluginInv'
<1>1. /\ entries' = [entries EXCEPT ![a].enabled = TRUE]
      /\ entriesDisk' = IF ok THEN [entriesDisk EXCEPT ![a] = entries'[a]] ELSE entriesDisk
      /\ wanted' = wanted \cup {a} /\ orphaned' = orphaned \ {a} /\ refused' = (refused \/ ~ ok)
      /\ UNCHANGED << folder, aside, installing, crossedApps, cutOff, stray >>
      /\ AppRequires[a] # Plugin!None => entries[AppRequires[a]].enabled
  BY DEF Plugin!Enable, Plugin!IsEnabled, Plugin!DependencyTarget
<1>2. entries \in [AppIds -> Plugin!Entries] /\ entriesDisk \in [AppIds -> Plugin!Entries] /\ refused \in BOOLEAN
  BY DEF PluginInv, PluginTypes
<1>3. /\ entries' \in [AppIds -> Plugin!Entries]
      /\ entries'[a].enabled /\ entries'[a].source = entries[a].source
      /\ \A b \in AppIds : b # a => entries'[b] = entries[b]
  BY <1>1, <1>2 DEF Plugin!Entries
<1>4. /\ entriesDisk' \in [AppIds -> Plugin!Entries]
      /\ ok => entriesDisk'[a] = entries'[a]
      /\ ~ ok => entriesDisk'[a] = entriesDisk[a]
      /\ \A b \in AppIds : b # a => entriesDisk'[b] = entriesDisk[b]
  BY <1>1, <1>2, <1>3
<1>5. PluginTypes'
  BY <1>1, <1>3, <1>4 DEF PluginInv, PluginTypes
<1>6. FoldersRight'
  <2>1. \A b \in AppIds :
            /\ entries'[b].source = entries[b].source
            /\ entriesDisk'[b].source \in {entriesDisk[b].source, entries[b].source}
    BY <1>3, <1>4
  <2>2. QED
    BY <1>1, <2>1, FoldersStand
<1>7. OnlyWanted'
  BY <1>1, <1>3, <1>4 DEF PluginInv, OnlyWanted
<1>8. NeedsMet'
  <2> SUFFICES ASSUME ~ refused', NEW b \in AppIds PROVE SavedAsSet(b)' /\ NeedMet(b)'
    BY DEF NeedsMet
  <2>1. ~ refused /\ ok
    BY <1>1, <1>2
  <2>2. \A c \in AppIds : SavedAsSet(c) /\ NeedMet(c)
    BY <2>1 DEF PluginInv, NeedsMet
  <2>3. \A c \in AppIds : SavedAsSet(c)'
    BY <1>1, <1>3, <1>4, <2>1, <2>2 DEF SavedAsSet
  <2>4. \A c \in AppIds : entries[c].enabled => entries'[c].enabled /\ entriesDisk'[c].enabled
    BY <1>3, <1>4, <2>1, <2>2 DEF SavedAsSet
  <2>5. \A c \in AppIds : entriesDisk[c].enabled => entriesDisk'[c].enabled
    BY <1>3, <1>4, <2>1
  <2>6. AppRequires[b] # Plugin!None => AppRequires[b] \in AppIds
    BY PluginAssumption
  <2>7. NeedMet(b)'
    <3>1. CASE b = a
      BY <1>1, <2>4, <2>6, <3>1 DEF NeedMet
    <3>2. CASE b # a
      BY <1>1, <1>3, <1>4, <2>2, <2>4, <2>5, <2>6, <3>2 DEF NeedMet
    <3>3. QED
      BY <3>1, <3>2
  <2>8. QED
    BY <2>3, <2>7
<1>9. QED
  BY <1>5, <1>6, <1>7, <1>8 DEF PluginInv

(* The cascade: what stays enabled does not require what was disabled.     *)
LEMMA CascadeSettled ==
  ASSUME NEW a \in AppIds, NEW off, off = Plugin!CascadeDisable(entries, a)
  PROVE  /\ off \subseteq AppIds /\ a \in off
         /\ \A b \in Plugin!Found : entries[b].enabled /\ AppRequires[b] \in off => b \in off
<1> DEFINE on == {b \in Plugin!Found : entries[b].enabled}
           Settled(S) == a \in S /\ \A b \in on : AppRequires[b] \in S => b \in S
<1>1. off = {b \in AppIds : \A S \in SUBSET AppIds : Settled(S) => b \in S}
  BY DEF Plugin!CascadeDisable, Plugin!DependencyTarget
<1>2. Plugin!Found \subseteq AppIds
  BY DEF Plugin!Found
<1>3. ASSUME NEW b \in Plugin!Found, entries[b].enabled, AppRequires[b] \in off
      PROVE  b \in off
  <2>1. ASSUME NEW S \in SUBSET AppIds, Settled(S) PROVE b \in S
    BY <1>1, <1>3, <2>1
  <2>2. QED
    BY <1>1, <1>2, <2>1
<1>4. a \in off
  BY <1>1
<1>5. QED
  BY <1>1, <1>3, <1>4

LEMMA DisableKeeps ==
  ASSUME PluginInv, NEW a \in AppIds, NEW kept \in SUBSET AppIds, Plugin!Disable(a, kept)
  PROVE  PluginInv'
<1> DEFINE off == Plugin!CascadeDisable(entries, a)
<1>1. PICK last \in off :
         LET hit == IF kept = off THEN off ELSE kept \cup {last}
         IN  /\ entries' = [b \in AppIds |-> IF b \in hit THEN [entries[b] EXCEPT !.enabled = FALSE]
                                             ELSE entries[b]]
             /\ entriesDisk' = [b \in AppIds |-> IF b \in kept THEN entries'[b] ELSE entriesDisk[b]]
  BY DEF Plugin!Disable
<1>2. /\ kept \subseteq off /\ refused' = (refused \/ kept # off)
      /\ orphaned' = orphaned \cup
            {b \in AppIds \ Plugin!Found : entries[b].enabled /\ AppRequires[b] \in off}
      /\ UNCHANGED << folder, aside, installing, wanted, crossedApps, cutOff, stray >>
  BY DEF Plugin!Disable
<1>3. /\ off \subseteq AppIds
      /\ \A b \in Plugin!Found : entries[b].enabled /\ AppRequires[b] \in off => b \in off
  BY CascadeSettled
<1> DEFINE hit == IF kept = off THEN off ELSE kept \cup {last}
<1>4. /\ entries' = [b \in AppIds |-> IF b \in hit THEN [entries[b] EXCEPT !.enabled = FALSE]
                                             ELSE entries[b]]
      /\ entriesDisk' = [b \in AppIds |-> IF b \in kept THEN entries'[b] ELSE entriesDisk[b]]
  BY <1>1
<1>5. kept \subseteq hit /\ (kept = off => hit = off)
  OBVIOUS
<1>6. entries \in [AppIds -> Plugin!Entries] /\ entriesDisk \in [AppIds -> Plugin!Entries] /\ refused \in BOOLEAN
  BY DEF PluginInv, PluginTypes
<1> HIDE DEF off, hit
<1>7. /\ entries' \in [AppIds -> Plugin!Entries]
      /\ \A b \in AppIds : /\ entries'[b].source = entries[b].source
                           /\ b \in hit => entries'[b].enabled = FALSE
                           /\ b \notin hit => entries'[b] = entries[b]
  BY <1>4, <1>6 DEF Plugin!Entries
<1>8. /\ entriesDisk' \in [AppIds -> Plugin!Entries]
      /\ \A b \in AppIds : /\ b \in kept => entriesDisk'[b] = entries'[b]
                           /\ b \notin kept => entriesDisk'[b] = entriesDisk[b]
  BY <1>4, <1>6, <1>7
<1>9. PluginTypes'
  <2>1. refused' \in BOOLEAN
    BY <1>2
  <2>2. QED
    BY <1>2, <1>7, <1>8, <2>1 DEF PluginInv, PluginTypes
<1>10. FoldersRight'
  <2>1. \A b \in AppIds :
            /\ entries'[b].source = entries[b].source
            /\ entriesDisk'[b].source \in {entriesDisk[b].source, entries[b].source}
    BY <1>7, <1>8
  <2>2. QED
    BY <1>2, <2>1, FoldersStand
<1>11. OnlyWanted'
  <2>1. \A b \in AppIds : /\ entries'[b].enabled => entries[b].enabled
                          /\ entriesDisk'[b].enabled => entriesDisk[b].enabled
    BY <1>5, <1>7, <1>8
  <2>2. QED
    BY <1>2, <2>1 DEF PluginInv, OnlyWanted
<1>12. NeedsMet'
  <2> SUFFICES ASSUME ~ refused', NEW b \in AppIds PROVE SavedAsSet(b)' /\ NeedMet(b)'
    BY DEF NeedsMet
  <2>1. ~ refused /\ kept = off /\ hit = off
    BY <1>2, <1>5, <1>6
  <2>2. \A c \in AppIds : SavedAsSet(c) /\ NeedMet(c)
    BY <2>1 DEF PluginInv, NeedsMet
  <2>3. \A c \in AppIds : /\ c \in off => ~ entries'[c].enabled /\ ~ entriesDisk'[c].enabled
                          /\ c \notin off => entries'[c] = entries[c] /\ entriesDisk'[c] = entriesDisk[c]
    BY <1>7, <1>8, <2>1
  <2>4. SavedAsSet(b)'
    BY <1>2, <2>2, <2>3 DEF SavedAsSet
  <2>5. AppRequires[b] # Plugin!None => AppRequires[b] \in AppIds
    BY PluginAssumption
  <2>6. ASSUME b \notin off, AppRequires[b] \in off, entries[b].enabled
        PROVE  b \in orphaned'
    BY <1>2, <1>3, <2>6
  <2>7. ASSUME b \notin orphaned', b \notin stray, AppRequires[b] # Plugin!None
        PROVE  /\ entries'[b].enabled => entries'[AppRequires[b]].enabled
               /\ entriesDisk'[b].enabled => entriesDisk'[AppRequires[b]].enabled
    <3>1. b \notin orphaned
      BY <1>2, <2>7
    <3>2. CASE b \in off
      BY <2>3, <3>2
    <3>3. CASE b \notin off /\ AppRequires[b] \in off
      <4>1. ~ entries[b].enabled
        BY <2>6, <2>7, <3>3
      <4>2. ~ entriesDisk[b].enabled
        BY <2>2, <2>7, <4>1 DEF SavedAsSet
      <4>3. QED
        BY <2>3, <3>3, <4>1, <4>2
    <3>4. CASE b \notin off /\ AppRequires[b] \notin off
      BY <2>2, <2>3, <2>5, <2>7, <3>1, <3>4 DEF NeedMet
    <3>5. QED
      BY <3>2, <3>3, <3>4
  <2>8. NeedMet(b)'
    BY <1>2, <2>7 DEF NeedMet
  <2>9. QED
    BY <2>4, <2>8
<1>13. QED
  BY <1>9, <1>10, <1>11, <1>12 DEF PluginInv

LEMMA DeleteKeeps ==
  ASSUME PluginInv, NEW a \in AppIds, NEW ok \in BOOLEAN, Plugin!Delete(a, ok)
  PROVE  PluginInv'
<1>1. /\ a \notin BuiltinApps /\ folder[a] # Plugin!None
      /\ folder' = [folder EXCEPT ![a] = Plugin!None]
      /\ entries' = [entries EXCEPT ![a] = Plugin!Unset(a)]
      /\ entriesDisk' = IF ok THEN [entriesDisk EXCEPT ![a] = Plugin!Unset(a)] ELSE entriesDisk
      /\ stray' = IF ok THEN stray \ {a} ELSE stray \cup {a}
      /\ wanted' = wanted \ {a}
      /\ orphaned' = orphaned \cup {b \in AppIds : AppRequires[b] = a}
      /\ UNCHANGED << aside, installing, refused, crossedApps, cutOff >>
  BY DEF Plugin!Delete, Plugin!Found
<1>2. PluginTypes
  BY DEF PluginInv
<1>3. Plugin!Unset(a) \in Plugin!Entries /\ Plugin!Unset(a).source = Plugin!None /\ ~ Plugin!Unset(a).enabled
  BY <1>1, EntryUnset
<1>4. /\ entries' \in [AppIds -> Plugin!Entries] /\ entries'[a] = Plugin!Unset(a)
      /\ \A b \in AppIds : b # a => entries'[b] = entries[b]
  BY <1>1, <1>2, <1>3 DEF PluginTypes
<1>5. /\ entriesDisk' \in [AppIds -> Plugin!Entries] /\ (ok => entriesDisk'[a] = Plugin!Unset(a))
      /\ \A b \in AppIds : b # a => entriesDisk'[b] = entriesDisk[b]
  BY <1>1, <1>2, <1>3 DEF PluginTypes
<1>6. /\ folder' \in [AppIds -> Plugin!Contents \cup {Plugin!None}] /\ folder'[a] = Plugin!None
      /\ \A b \in AppIds : b # a => folder'[b] = folder[b]
  BY <1>1, <1>2 DEF PluginTypes
<1>7. PluginTypes'
  BY <1>1, <1>2, <1>4, <1>5, <1>6 DEF PluginTypes
<1>8. /\ \A b \in AppIds : b # a => (b \in stray' <=> b \in stray)
      /\ a \in stray' <=> ~ ok
  BY <1>1
<1>9. OnlyWanted'
  <2> SUFFICES ASSUME NEW b \in AppIds, b \notin BuiltinApps, b \notin stray',
                      entries'[b].enabled \/ entriesDisk'[b].enabled
               PROVE  b \in wanted'
    BY DEF OnlyWanted
  <2>1. b # a
    BY <1>3, <1>4, <1>5, <1>8
  <2>2. QED
    BY <1>1, <1>4, <1>5, <1>8, <2>1 DEF PluginInv, OnlyWanted
<1>10. NeedsMet'
  <2> SUFFICES ASSUME ~ refused, NEW b \in AppIds PROVE SavedAsSet(b)' /\ NeedMet(b)'
    BY <1>1 DEF NeedsMet
  <2>1. SavedAsSet(b) /\ NeedMet(b)
    BY DEF PluginInv, NeedsMet
  <2>2. CASE b = a
    <3>1. ~ entries'[b].enabled /\ (b \notin stray' => ~ entriesDisk'[b].enabled)
      BY <1>3, <1>4, <1>5, <1>8, <2>2
    <3>2. QED
      BY <3>1 DEF SavedAsSet, NeedMet
  <2>3. CASE b # a
    <3>1. b \notin orphaned' => AppRequires[b] # a /\ b \notin orphaned
      BY <1>1
    <3>2. AppRequires[b] # Plugin!None => AppRequires[b] \in AppIds
      BY PluginAssumption
    <3>3. SavedAsSet(b)'
      BY <1>4, <1>5, <1>8, <2>1, <2>3 DEF SavedAsSet
    <3>4. NeedMet(b)'
      BY <1>4, <1>5, <1>8, <2>1, <2>3, <3>1, <3>2 DEF NeedMet
    <3>5. QED
      BY <3>3, <3>4
  <2>4. QED
    BY <2>2, <2>3
<1>11. FoldersRight'
  <2> SUFFICES ASSUME NEW b \in AppIds, b \notin crossedApps, b \notin cutOff
               PROVE  Moves(b)' /\ (b \notin stray' => Provenance(b)')
    BY <1>1 DEF FoldersRight
  <2>1. Moves(b) /\ (b \notin stray => Provenance(b))
    BY DEF PluginInv, FoldersRight
  <2>2. CASE b = a
    <3>1. Moves(b)'
      <4>1. \A i \in Installers : ~ At(i, b, "aside")
        BY <1>1, <2>1, <2>2 DEF Moves
      <4>2. \A w : \A i \in Installers : At(i, b, w)' <=> At(i, b, w)
        BY <1>1 DEF At
      <4>3. QED
        BY <1>1, <1>6, <2>1, <2>2, <4>1, <4>2 DEF Moves
    <3>2. b \notin stray' => Provenance(b)'
      BY <1>3, <1>4, <1>5, <1>8, <2>2 DEF Provenance
    <3>3. QED
      BY <3>1, <3>2
  <2>3. CASE b # a
    BY <1>1, <1>4, <1>5, <1>6, <1>8, <2>1, <2>3, AppStands
  <2>4. QED
    BY <2>2, <2>3
<1>12. QED
  BY <1>7, <1>9, <1>10, <1>11 DEF PluginInv

LEMMA BeginsKeeps ==
  ASSUME PluginInv, NEW i \in Installers, NEW a \in AppIds, NEW v \in AppVersions,
         Plugin!InstallBegins(i, a, v)
  PROVE  PluginInv'
<1> DEFINE job == [at |-> "staged", app |-> a, version |-> v]
<1>1. /\ installing[i].at = "idle" /\ installing' = [installing EXCEPT ![i] = job]
      /\ crossedApps' = IF \E j \in Installers : installing[j].app = a
                        THEN crossedApps \cup {a} ELSE crossedApps
      /\ UNCHANGED << folder, aside, entries, entriesDisk, wanted, orphaned, refused, cutOff, stray >>
  BY DEF Plugin!InstallBegins
<1>2. PluginTypes
  BY DEF PluginInv
<1>3. /\ job \in Installation /\ job.at = "staged" /\ job.app = a /\ job.version = v
      /\ job.at \in Working
  BY DEF Installation, Working
<1> HIDE DEF job
<1>4. /\ installing' \in [Installers -> Installation] /\ installing'[i] = job
      /\ \A j \in Installers : j # i => installing'[j] = installing[j]
  BY <1>1, <1>2, <1>3 DEF PluginTypes
<1>5. PluginTypes'
  BY <1>1, <1>2, <1>3, <1>4 DEF PluginTypes
<1>6. OnlyWanted' /\ NeedsMet'
  BY <1>1, EnabledStand
<1>7. installing[i].app = Plugin!None
  BY <1>1, <1>2 DEF PluginTypes, Working
<1>8. FoldersRight'
  <2> SUFFICES ASSUME NEW b \in AppIds, b \notin crossedApps', b \notin cutOff
               PROVE  Moves(b)' /\ (b \notin stray => Provenance(b)')
    BY <1>1 DEF FoldersRight
  <2>1. Moves(b) /\ (b \notin stray => Provenance(b))
    BY <1>1 DEF PluginInv, FoldersRight
  <2>2. CASE b = a
    <3>1. \A j \in Installers : installing[j].app # b
      BY <1>1, <2>2
    <3>2. \A j \in Installers : installing'[j].app = b => j = i
      BY <1>4, <3>1
    <3>3. \A j \in Installers, w \in {"aside", "clear", "placed"} : ~ At(j, b, w)' /\ ~ At(j, b, w)
      BY <1>3, <1>4, <3>1, <3>2 DEF At
    <3>4. Moves(b)'
      BY <1>1, <2>1, <3>2, <3>3 DEF Moves
    <3>5. Provenance(b) => Provenance(b)'
      BY <1>1, <3>3 DEF Provenance
    <3>6. QED
      BY <2>1, <3>4, <3>5
  <2>3. CASE b # a
    <3>1. installing[i].app # b /\ installing'[i].app # b
      BY <1>3, <1>4, <1>7, <2>3, PluginNone
    <3>2. QED
      BY <1>1, <1>4, <2>1, <3>1, AppStands
  <2>4. QED
    BY <2>2, <2>3
<1>9. QED
  BY <1>5, <1>6, <1>8 DEF PluginInv

(* One lemma per stage of an installation, then the restart and the step.  *)
LEMMA MoveAsideKeeps ==
  ASSUME PluginInv, NEW i \in Installers, Plugin!MoveAside(i)
  PROVE  PluginInv'
<1> DEFINE a == installing[i].app
<1>1. /\ installing[i].at = "staged"
      /\ UNCHANGED << entries, entriesDisk, wanted, orphaned, refused, crossedApps, cutOff, stray >>
  BY DEF Plugin!MoveAside
<1>2. PluginTypes
  BY DEF PluginInv
<1>3. a \in AppIds /\ installing[i].version \in AppVersions
  BY <1>1, <1>2 DEF PluginTypes, Working
<1>4. OnlyWanted' /\ NeedsMet'
  BY <1>1, EnabledStand
<1>5. CASE folder[a] # Plugin!None
  <2>1. /\ aside' = [aside EXCEPT ![a] = folder[a]] /\ folder' = [folder EXCEPT ![a] = Plugin!None]
        /\ installing' = [installing EXCEPT ![i].at = "aside"]
    BY <1>5 DEF Plugin!MoveAside
  <2>2. /\ installing' \in [Installers -> Installation]
        /\ installing'[i].at = "aside" /\ installing'[i].app = a
        /\ installing'[i].version = installing[i].version
        /\ \A j \in Installers : j # i => installing'[j] = installing[j]
    BY <1>2, <2>1 DEF PluginTypes, Installation, Working
  <2>3. /\ folder' \in [AppIds -> Plugin!Contents \cup {Plugin!None}] /\ folder'[a] = Plugin!None
        /\ \A b \in AppIds : b # a => folder'[b] = folder[b]
    BY <1>2, <1>3, <2>1 DEF PluginTypes
  <2>4. /\ aside' \in [AppIds -> Plugin!Contents \cup {Plugin!None}] /\ aside'[a] = folder[a]
        /\ \A b \in AppIds : b # a => aside'[b] = aside[b]
    BY <1>2, <1>3, <2>1 DEF PluginTypes
  <2>5. PluginTypes'
    BY <1>1, <1>2, <1>3, <2>2, <2>3, <2>4 DEF PluginTypes, Working
  <2>6. FoldersRight'
    <3> SUFFICES ASSUME NEW b \in AppIds, b \notin crossedApps, b \notin cutOff
                 PROVE  Moves(b)' /\ (b \notin stray => Provenance(b)')
      BY <1>1 DEF FoldersRight
    <3>1. Moves(b) /\ (b \notin stray => Provenance(b))
      BY DEF PluginInv, FoldersRight
    <3>2. CASE b = a
      <4>1. \A j \in Installers : installing[j].app = b => j = i
        BY <3>1, <3>2 DEF Moves
      <4>2. \A j \in Installers : installing'[j].app = b <=> j = i
        BY <2>2, <3>2, <4>1
      <4>3. \A j \in Installers : /\ At(j, b, "aside")' <=> j = i
                                  /\ ~ At(j, b, "clear")' /\ ~ At(j, b, "placed")'
                                  /\ ~ At(j, b, "placed")
        BY <1>1, <2>2, <4>1, <4>2 DEF At
      <4>4. Moves(b)'
        BY <1>5, <2>3, <2>4, <3>2, <4>2, <4>3 DEF Moves
      <4>5. Provenance(b) => Provenance(b)'
        BY <1>1, <1>5, <2>3, <2>4, <3>2, <4>3 DEF Provenance
      <4>6. QED
        BY <3>1, <4>4, <4>5
    <3>3. CASE b # a
      <4>1. \A j \in Installers : \/ installing'[j] = installing[j]
                                  \/ installing[j].app # b /\ installing'[j].app # b
        BY <2>2, <3>3
      <4>2. QED
        BY <1>1, <2>3, <2>4, <3>1, <3>3, <4>1, AppStands
    <3>4. QED
      BY <3>2, <3>3
  <2>7. QED
    BY <1>4, <2>5, <2>6 DEF PluginInv
<1>6. CASE folder[a] = Plugin!None
  <2>1. /\ installing' = [installing EXCEPT ![i].at = "clear"] /\ UNCHANGED << aside, folder >>
    BY <1>6 DEF Plugin!MoveAside
  <2>2. /\ installing' \in [Installers -> Installation]
        /\ installing'[i].at = "clear" /\ installing'[i].app = a
        /\ installing'[i].version = installing[i].version
        /\ \A j \in Installers : j # i => installing'[j] = installing[j]
    BY <1>2, <2>1 DEF PluginTypes, Installation, Working
  <2>3. PluginTypes'
    BY <1>1, <1>2, <1>3, <2>1, <2>2 DEF PluginTypes, Working
  <2>4. FoldersRight'
    <3> SUFFICES ASSUME NEW b \in AppIds, b \notin crossedApps, b \notin cutOff
                 PROVE  Moves(b)' /\ (b \notin stray => Provenance(b)')
      BY <1>1 DEF FoldersRight
    <3>1. Moves(b) /\ (b \notin stray => Provenance(b))
      BY DEF PluginInv, FoldersRight
    <3>2. CASE b = a
      <4>1. \A j \in Installers : installing[j].app = b => j = i
        BY <3>1, <3>2 DEF Moves
      <4>2. \A j \in Installers : installing'[j].app = b <=> j = i
        BY <2>2, <3>2, <4>1
      <4>3. \A j \in Installers : /\ ~ At(j, b, "aside")' /\ ~ At(j, b, "aside")
                                  /\ ~ At(j, b, "placed")'
        BY <1>1, <2>2, <4>1, <4>2 DEF At
      <4>4. Moves(b)'
        BY <1>6, <2>1, <3>1, <3>2, <4>2, <4>3 DEF Moves
      <4>5. Provenance(b) => Provenance(b)'
        BY <1>1, <1>6, <2>1, <3>2, <4>3 DEF Provenance
      <4>6. QED
        BY <3>1, <4>4, <4>5
    <3>3. CASE b # a
      <4>1. \A j \in Installers : \/ installing'[j] = installing[j]
                                  \/ installing[j].app # b /\ installing'[j].app # b
        BY <2>2, <3>3
      <4>2. QED
        BY <1>1, <2>1, <3>1, <4>1, AppStands
    <3>4. QED
      BY <3>2, <3>3
  <2>5. QED
    BY <1>4, <2>3, <2>4 DEF PluginInv
<1>7. QED
  BY <1>5, <1>6

LEMMA MoveInKeeps ==
  ASSUME PluginInv, NEW i \in Installers, Plugin!MoveIn(i)
  PROVE  PluginInv'
<1> DEFINE a == installing[i].app
<1>1. /\ installing[i].at \in {"aside", "clear"}
      /\ folder' = IF folder[a] = Plugin!None THEN [folder EXCEPT ![a] = installing[i].version] ELSE folder
      /\ aside' = IF installing[i].at = "aside" THEN [aside EXCEPT ![a] = Plugin!None] ELSE aside
      /\ installing' = [installing EXCEPT ![i].at = "placed"]
      /\ UNCHANGED << entries, entriesDisk, wanted, orphaned, refused, crossedApps, cutOff, stray >>
  BY DEF Plugin!MoveIn
<1>2. PluginTypes
  BY DEF PluginInv
<1>3. a \in AppIds /\ installing[i].version \in AppVersions
  BY <1>1, <1>2 DEF PluginTypes, Working
<1>4. OnlyWanted' /\ NeedsMet'
  BY <1>1, EnabledStand
<1>5. /\ installing' \in [Installers -> Installation]
      /\ installing'[i].at = "placed" /\ installing'[i].app = a
      /\ installing'[i].version = installing[i].version
      /\ \A j \in Installers : j # i => installing'[j] = installing[j]
  BY <1>1, <1>2 DEF PluginTypes, Installation, Working
<1>6. /\ folder' \in [AppIds -> Plugin!Contents \cup {Plugin!None}]
      /\ folder[a] = Plugin!None => folder'[a] = installing[i].version
      /\ \A b \in AppIds : b # a => folder'[b] = folder[b]
  BY <1>1, <1>2, <1>3 DEF PluginTypes, Plugin!Contents
<1>7. /\ aside' \in [AppIds -> Plugin!Contents \cup {Plugin!None}]
      /\ installing[i].at = "aside" => aside'[a] = Plugin!None
      /\ installing[i].at # "aside" => aside' = aside
      /\ \A b \in AppIds : b # a => aside'[b] = aside[b]
  BY <1>1, <1>2, <1>3 DEF PluginTypes
<1>8. PluginTypes'
  BY <1>1, <1>2, <1>3, <1>5, <1>6, <1>7 DEF PluginTypes, Working
<1>9. FoldersRight'
  <2> SUFFICES ASSUME NEW b \in AppIds, b \notin crossedApps, b \notin cutOff
               PROVE  Moves(b)' /\ (b \notin stray => Provenance(b)')
    BY <1>1 DEF FoldersRight
  <2>1. Moves(b) /\ (b \notin stray => Provenance(b))
    BY DEF PluginInv, FoldersRight
  <2>2. CASE b = a
    <3>1. \A j \in Installers : installing[j].app = b => j = i
      BY <2>1, <2>2 DEF Moves
    <3>2. \A j \in Installers : installing'[j].app = b <=> j = i
      BY <1>5, <2>2, <3>1
    <3>3. \A j \in Installers : /\ ~ At(j, b, "aside")' /\ ~ At(j, b, "clear")'
                                /\ At(j, b, "placed")' <=> j = i
      BY <1>5, <3>2 DEF At
    <3>4. folder[b] = Plugin!None
      BY <1>1, <2>1, <2>2 DEF Moves, At
    <3>5. aside'[b] = Plugin!None
      <4>1. CASE installing[i].at = "aside"
        BY <1>7, <2>2, <4>1
      <4>2. CASE installing[i].at # "aside"
        BY <1>7, <2>1, <2>2, <3>1, <4>2 DEF Moves, At
      <4>3. QED
        BY <4>1, <4>2
    <3>6. Moves(b)'
      BY <1>5, <1>6, <2>2, <3>2, <3>3, <3>4, <3>5 DEF Moves
    <3>7. Provenance(b) => Provenance(b)'
      BY <1>1, <3>3 DEF Provenance
    <3>8. QED
      BY <2>1, <3>6, <3>7
  <2>3. CASE b # a
    <3>1. \A j \in Installers : \/ installing'[j] = installing[j]
                                \/ installing[j].app # b /\ installing'[j].app # b
      BY <1>5, <2>3
    <3>2. QED
      BY <1>1, <1>6, <1>7, <2>1, <2>3, <3>1, AppStands
  <2>4. QED
    BY <2>2, <2>3
<1>10. QED
  BY <1>4, <1>8, <1>9 DEF PluginInv

LEMMA MoveFailsKeeps ==
  ASSUME PluginInv, NEW i \in Installers, Plugin!MoveFails(i)
  PROVE  PluginInv'
<1> DEFINE a == installing[i].app
           back == installing[i].at = "aside" /\ folder[a] = Plugin!None
<1>1. /\ installing[i].at \in {"aside", "clear"}
      /\ folder' = IF back THEN [folder EXCEPT ![a] = aside[a]] ELSE folder
      /\ aside' = IF back THEN [aside EXCEPT ![a] = Plugin!None] ELSE aside
      /\ installing' = [installing EXCEPT ![i] = Plugin!Over]
      /\ UNCHANGED << entries, entriesDisk, wanted, orphaned, refused, crossedApps, cutOff, stray >>
  BY DEF Plugin!MoveFails
<1>2. PluginTypes
  BY DEF PluginInv
<1>3. a \in AppIds
  BY <1>1, <1>2 DEF PluginTypes, Working
<1>4. OnlyWanted' /\ NeedsMet'
  BY <1>1, EnabledStand
<1>5. /\ installing' \in [Installers -> Installation] /\ installing'[i] = Plugin!Over
      /\ \A j \in Installers : j # i => installing'[j] = installing[j]
  BY <1>1, <1>2, PluginNone DEF PluginTypes
<1>6. /\ folder' \in [AppIds -> Plugin!Contents \cup {Plugin!None}]
      /\ IF back THEN folder'[a] = aside[a] ELSE folder' = folder
      /\ \A b \in AppIds : b # a => folder'[b] = folder[b]
  BY <1>1, <1>2, <1>3 DEF PluginTypes
<1>7. /\ aside' \in [AppIds -> Plugin!Contents \cup {Plugin!None}]
      /\ IF back THEN aside'[a] = Plugin!None ELSE aside' = aside
      /\ \A b \in AppIds : b # a => aside'[b] = aside[b]
  BY <1>1, <1>2, <1>3 DEF PluginTypes
<1>8. PluginTypes'
  BY <1>1, <1>2, <1>5, <1>6, <1>7, PluginNone DEF PluginTypes
<1>9. FoldersRight'
  <2> SUFFICES ASSUME NEW b \in AppIds, b \notin crossedApps, b \notin cutOff
               PROVE  Moves(b)' /\ (b \notin stray => Provenance(b)')
    BY <1>1 DEF FoldersRight
  <2>1. Moves(b) /\ (b \notin stray => Provenance(b))
    BY DEF PluginInv, FoldersRight
  <2>2. CASE b = a
    <3>1. \A j \in Installers : installing[j].app = b => j = i
      BY <2>1, <2>2 DEF Moves
    <3>2. \A j \in Installers : installing'[j].app # b
      BY <1>5, <3>1, PluginNone
    <3>3. \A w : \A j \in Installers : ~ At(j, b, w)'
      BY <3>2 DEF At
    <3>4. /\ aside'[b] = Plugin!None
          /\ installing[i].at = "aside" => folder'[b] = aside[b]
          /\ installing[i].at = "clear" => folder'[b] = Plugin!None
      <4>1. CASE installing[i].at = "aside"
        <5>1. At(i, b, "aside") /\ folder[b] = Plugin!None
          BY <2>1, <2>2, <4>1 DEF Moves, At
        <5>2. QED
          BY <1>6, <1>7, <2>2, <4>1, <5>1
      <4>2. CASE installing[i].at = "clear"
        <5>1. folder[b] = Plugin!None
          BY <2>1, <2>2, <4>2 DEF Moves, At
        <5>2. \A j \in Installers : ~ At(j, b, "aside")
          BY <3>1, <4>2 DEF At
        <5>3. aside[b] = Plugin!None
          BY <2>1, <5>2 DEF Moves
        <5>4. QED
          BY <1>6, <1>7, <2>2, <4>2, <5>1, <5>3
      <4>3. QED
        BY <1>1, <4>1, <4>2
    <3>5. Moves(b)'
      BY <3>2, <3>3, <3>4 DEF Moves
    <3>6. Provenance(b) => Provenance(b)'
      BY <1>1, <2>2, <3>3, <3>4 DEF Provenance, At
    <3>7. QED
      BY <2>1, <3>5, <3>6
  <2>3. CASE b # a
    <3>1. \A j \in Installers : \/ installing'[j] = installing[j]
                                \/ installing[j].app # b /\ installing'[j].app # b
      BY <1>5, <2>3, PluginNone
    <3>2. QED
      BY <1>1, <1>6, <1>7, <2>1, <2>3, <3>1, AppStands
  <2>4. QED
    BY <2>2, <2>3
<1>10. QED
  BY <1>4, <1>8, <1>9 DEF PluginInv

LEMMA RecordKeeps ==
  ASSUME PluginInv, NEW i \in Installers, NEW ok \in BOOLEAN, Plugin!RecordProvenance(i, ok)
  PROVE  PluginInv'
<1> DEFINE a == installing[i].app
<1>1. /\ installing[i].at = "placed"
      /\ entries' = [entries EXCEPT ![a].source = installing[i].version]
      /\ entriesDisk' = IF ok THEN [entriesDisk EXCEPT ![a] = entries'[a]] ELSE entriesDisk
      /\ cutOff' = IF ok THEN cutOff ELSE cutOff \cup {a}
      /\ installing' = [installing EXCEPT ![i] = Plugin!Over]
      /\ UNCHANGED << folder, aside, wanted, orphaned, refused, crossedApps, stray >>
  BY DEF Plugin!RecordProvenance
<1>2. PluginTypes
  BY DEF PluginInv
<1>3. a \in AppIds /\ installing[i].version \in AppVersions
  BY <1>1, <1>2 DEF PluginTypes, Working
<1>4. /\ installing' \in [Installers -> Installation] /\ installing'[i] = Plugin!Over
      /\ \A j \in Installers : j # i => installing'[j] = installing[j]
  BY <1>1, <1>2, PluginNone DEF PluginTypes
<1>5. /\ entries' \in [AppIds -> Plugin!Entries]
      /\ entries'[a].enabled = entries[a].enabled /\ entries'[a].source = installing[i].version
      /\ \A b \in AppIds : b # a => entries'[b] = entries[b]
  BY <1>1, <1>2, <1>3 DEF PluginTypes, Plugin!Entries
<1>6. /\ entriesDisk' \in [AppIds -> Plugin!Entries]
      /\ ok => entriesDisk'[a] = entries'[a]
      /\ ~ ok => entriesDisk' = entriesDisk
      /\ \A b \in AppIds : b # a => entriesDisk'[b] = entriesDisk[b]
  BY <1>1, <1>2, <1>5 DEF PluginTypes
<1>7. PluginTypes'
  BY <1>1, <1>2, <1>4, <1>5, <1>6, PluginNone DEF PluginTypes
<1>8. OnlyWanted'
  <2>1. \A b \in AppIds : /\ entries'[b].enabled => entries[b].enabled
                          /\ entriesDisk'[b].enabled => entriesDisk[b].enabled \/ entries[b].enabled
    BY <1>5, <1>6
  <2>2. QED
    BY <1>1, <2>1 DEF PluginInv, OnlyWanted
<1>9. NeedsMet'
  <2> SUFFICES ASSUME ~ refused, NEW b \in AppIds PROVE SavedAsSet(b)' /\ NeedMet(b)'
    BY <1>1 DEF NeedsMet
  <2>1. \A c \in AppIds : SavedAsSet(c) /\ NeedMet(c)
    BY DEF PluginInv, NeedsMet
  <2>2. \A c \in AppIds : /\ entries'[c].enabled = entries[c].enabled
                          /\ entriesDisk'[c].enabled = entriesDisk[c].enabled
                             \/ entriesDisk'[c].enabled = entries[c].enabled
    BY <1>5, <1>6
  <2>3. SavedAsSet(b)'
    BY <1>1, <2>1, <2>2 DEF SavedAsSet
  <2>4. AppRequires[b] # Plugin!None => AppRequires[b] \in AppIds
    BY PluginAssumption
  <2>5. ASSUME b \notin orphaned, b \notin stray, AppRequires[b] # Plugin!None
        PROVE  /\ entries'[b].enabled => entries'[AppRequires[b]].enabled
               /\ entriesDisk'[b].enabled => entriesDisk'[AppRequires[b]].enabled
    <3>1. entries'[b].enabled => entries'[AppRequires[b]].enabled
      BY <2>1, <2>2, <2>4, <2>5 DEF NeedMet
    <3>2. entriesDisk'[b].enabled => entries[b].enabled
      BY <2>1, <2>2, <2>5 DEF SavedAsSet
    <3>3. entries[b].enabled => entries[AppRequires[b]].enabled
      BY <2>1, <2>5 DEF NeedMet
    <3>4. entries[AppRequires[b]].enabled => entriesDisk'[AppRequires[b]].enabled
      BY <2>1, <2>2, <2>4, <2>5 DEF SavedAsSet
    <3>5. QED
      BY <3>1, <3>2, <3>3, <3>4
  <2>6. NeedMet(b)'
    BY <1>1, <2>5 DEF NeedMet
  <2>7. QED
    BY <2>3, <2>6
<1>10. FoldersRight'
  <2> SUFFICES ASSUME NEW b \in AppIds, b \notin crossedApps, b \notin cutOff'
               PROVE  Moves(b)' /\ (b \notin stray => Provenance(b)')
    BY <1>1 DEF FoldersRight
  <2>1. Moves(b) /\ (b \notin stray => Provenance(b))
    BY <1>1 DEF PluginInv, FoldersRight
  <2>2. CASE b = a
    <3>1. ok
      BY <1>1, <2>2
    <3>2. \A j \in Installers : installing[j].app = b => j = i
      BY <2>1, <2>2 DEF Moves
    <3>3. \A j \in Installers : installing'[j].app # b
      BY <1>4, <3>2, PluginNone
    <3>4. \A w : \A j \in Installers : ~ At(j, b, w)'
      BY <3>3 DEF At
    <3>5. aside[b] = Plugin!None /\ folder[b] \in {Plugin!None, installing[i].version}
      <4>1. \A j \in Installers : ~ At(j, b, "aside")
        BY <1>1, <3>2 DEF At
      <4>2. At(i, b, "placed")
        BY <1>1, <2>2 DEF At
      <4>3. QED
        BY <2>1, <4>1, <4>2 DEF Moves
    <3>6. Moves(b)'
      BY <1>1, <3>3, <3>4, <3>5 DEF Moves
    <3>7. Provenance(b)'
      BY <1>1, <1>5, <1>6, <2>2, <3>1, <3>4, <3>5 DEF Provenance
    <3>8. QED
      BY <3>6, <3>7
  <2>3. CASE b # a
    <3>1. \A j \in Installers : \/ installing'[j] = installing[j]
                                \/ installing[j].app # b /\ installing'[j].app # b
      BY <1>4, <2>3, PluginNone
    <3>2. QED
      BY <1>1, <1>5, <1>6, <2>1, <2>3, <3>1, AppStands
  <2>4. QED
    BY <2>2, <2>3
<1>11. QED
  BY <1>7, <1>8, <1>9, <1>10 DEF PluginInv

LEMMA PluginsRestart ==
  ASSUME PluginInv, Plugin!Restart
  PROVE  PluginInv'
<1>1. /\ entries' = entriesDisk
      /\ cutOff' = cutOff \cup {installing[i].app : i \in {j \in Installers :
                                    installing[j].at \in {"aside", "placed"}}}
      /\ installing' = [i \in Installers |->
                          IF installing[i] = Plugin!Idle THEN Plugin!Idle ELSE Plugin!Over]
      /\ UNCHANGED << folder, aside, entriesDisk, wanted, orphaned, refused, crossedApps, stray >>
  BY DEF Plugin!Restart
<1>2. PluginTypes
  BY DEF PluginInv
<1>3. /\ installing' \in [Installers -> Installation]
      /\ \A i \in Installers : installing'[i].app = Plugin!None /\ installing'[i].at \notin Working
  BY <1>1, PluginNone
<1>4. PluginTypes'
  BY <1>1, <1>2, <1>3 DEF PluginTypes
<1>5. OnlyWanted'
  BY <1>1 DEF PluginInv, OnlyWanted
<1>6. NeedsMet'
  <2> SUFFICES ASSUME ~ refused, NEW b \in AppIds PROVE SavedAsSet(b)' /\ NeedMet(b)'
    BY <1>1 DEF NeedsMet
  <2>1. NeedMet(b)
    BY DEF PluginInv, NeedsMet
  <2>2. QED
    BY <1>1, <2>1 DEF SavedAsSet, NeedMet
<1>7. FoldersRight'
  <2> SUFFICES ASSUME NEW b \in AppIds, b \notin crossedApps, b \notin cutOff'
               PROVE  Moves(b)' /\ (b \notin stray => Provenance(b)')
    BY <1>1 DEF FoldersRight
  <2>1. Moves(b) /\ (b \notin stray => Provenance(b))
    BY <1>1 DEF PluginInv, FoldersRight
  <2>2. \A i \in Installers : ~ At(i, b, "aside") /\ ~ At(i, b, "placed")
    BY <1>1 DEF At
  <2>3. \A w : \A i \in Installers : ~ At(i, b, w)' /\ installing'[i].app # b
    BY <1>3, PluginNone DEF At
  <2>4. Moves(b)'
    BY <1>1, <2>1, <2>2, <2>3 DEF Moves
  <2>5. Provenance(b) => Provenance(b)'
    BY <1>1, <2>2, <2>3 DEF Provenance
  <2>6. QED
    BY <2>1, <2>4, <2>5
<1>8. QED
  BY <1>4, <1>5, <1>6, <1>7 DEF PluginInv

LEMMA PluginStep ==
  ASSUME PluginInv, [Plugin!Next]_pluginVars
  PROVE  PluginInv'
<1>1. ASSUME UNCHANGED pluginVars PROVE PluginInv'
  <2>1. UNCHANGED << folder, aside, entries, entriesDisk, installing, wanted, orphaned, refused,
                     crossedApps, cutOff, stray >>
    BY <1>1 DEF pluginVars
  <2>2. PluginTypes'
    BY <2>1 DEF PluginInv, PluginTypes
  <2>3. OnlyWanted' /\ NeedsMet'
    BY <2>1, EnabledStand
  <2>4. FoldersRight'
    BY <2>1, FoldersStand
  <2>5. QED
    BY <2>2, <2>3, <2>4 DEF PluginInv
<1>2. ASSUME NEW i \in Installers, Plugin!InstallStep(i) PROVE PluginInv'
  BY <1>2, MoveAsideKeeps, MoveInKeeps, MoveFailsKeeps, RecordKeeps, Zenon DEF Plugin!InstallStep
<1>3. QED
  BY <1>1, <1>2, EnableKeeps, DisableKeeps, DeleteKeeps, BeginsKeeps, PluginsRestart, Zenon
  DEF Plugin!Next

LEMMA PluginsRight ==
  ASSUME PluginInv
  PROVE  /\ Plugin!DependencyMet /\ Plugin!StaysDisabled /\ Plugin!UpdateKeeps
         /\ Plugin!ProvenanceTrue
<1>1. Plugin!Found \subseteq AppIds
  BY DEF Plugin!Found
<1>2. Plugin!DependencyMet
  BY <1>1 DEF PluginInv, NeedsMet, NeedMet, Plugin!DependencyMet
<1>3. Plugin!StaysDisabled
  BY <1>1 DEF PluginInv, OnlyWanted, Plugin!StaysDisabled
<1>4. Plugin!UpdateKeeps
  BY DEF PluginInv, FoldersRight, Moves, At, Plugin!UpdateKeeps
<1>5. Plugin!ProvenanceTrue
  BY <1>1 DEF PluginInv, FoldersRight, Provenance, At, Plugin!ProvenanceTrue, Plugin!Found
<1>6. QED
  BY <1>2, <1>3, <1>4, <1>5

(* Nothing is enabled that nobody asked for, what is enabled has the       *)
(* application it requires, an update that fails puts the old folder back, *)
(* and the recorded version is the one in the folder: for every set of     *)
(* applications and every number of installers, however their stages       *)
(* interleave with switches, deletions, failed saves and restarts.         *)
THEOREM PluginsHold == Spec => []PluginsAsChosen
<1> DEFINE PluginsKept == part = "plugins" => PluginInv
<1>1. Init => PluginsKept
  BY DirectoriesInit, PluginStart
<1>2. PluginsKept /\ [Next]_vars => PluginsKept'
  BY PluginAlone, PluginStep
<1>3. PluginsKept => PluginsAsChosen
  BY PluginsRight, Zenon DEF PluginsAsChosen
<1>4. QED
  BY <1>1, <1>2, <1>3, PTL DEF Spec
=============================================================================
