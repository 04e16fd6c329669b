----------------------------- MODULE Logistics -----------------------------
(***************************************************************************)
(* Custody of the goods of one event edition (src/maru/logistics).         *)
(*                                                                         *)
(* Every tracked subject - a node of the containment tree, an asset, a     *)
(* stock lot or a key - has an append-only log of events and one row that  *)
(* projects its log (LogisticsCurrentState).  Staff record events on line; *)
(* a scanning device without a connection queues its scans and uploads     *)
(* them later in batches, whose acknowledgement may be lost.  Manifests    *)
(* are drafted, sealed and then completed or cancelled, and the events     *)
(* that follow a manifest's route name it.                                 *)
(*                                                                         *)
(* Every command locks the edition together with its organization before   *)
(* it reads anything else, so the commands of an organization run one      *)
(* after another and each is one action.  What is concurrent is the        *)
(* knowledge of the clients: the sequence number a client sends            *)
(* (expected_sequence) is the one it saw when it last read the subject.    *)
(* The manifest's expected_version and the receipts of on-line commands    *)
(* are left out: a stale version or a repeated key changes nothing.        *)
(***************************************************************************)
EXTENDS Integers, Sequences, FiniteSets

CONSTANTS
  Nodes,           \* places and containers: the nodes of the containment tree
  Lots,            \* stock lots, which carry a quantity
  None,            \* an absent node, quantity, recipient or condition
  KindOf,          \* the kind of each node
  InitialQuantity, \* StockLot.initial_quantity, the same for every lot
  Labelled,        \* the subjects whose label a device can scan
  Movements,       \* the movements staff record
  Scans,           \* the movements a device is used for
  Routes,          \* the kinds and routes manifests are created with
  Lines,           \* the lines manifests are given
  MaxDepth,        \* MAX_CONTAINMENT_DEPTH
  MaxEvents,       \* bound: events recorded on line
  MaxBehind,       \* bound: events the snapshot of a device is behind
  MaxScans,        \* bound: scans a device makes
  MaxBatches       \* bound: batches beyond which only an unanswered scan is uploaded

Subjects == Nodes \cup Lots

NodeKinds == {"storage_site", "storage_area", "rack", "container", "box",
              "vehicle", "loading_zone", "staging_area", "venue_room"}

\* The event types that need a destination and take the subject to it.
Moving == {"receive", "pack", "unpack", "move", "load", "unload"}

\* The event types that leave the subject where it is.
Resting == {"count", "condition", "damage", "handover"}

EventTypes == Moving \cup Resting \cup {"return"}

\* MovementInput.  "recipient" says whether the movement names a custodian and
\* "condition" whether it states one; condition_before, a further equality
\* test like the one on the source, is left out.
Movement ==
  [type: EventTypes, subject: Subjects, source: Nodes \cup {None},
   destination: Nodes \cup {None}, recipient: {None, "party"},
   quantity: Nat \cup {None}, condition: {None, "good", "damaged"},
   manifested: BOOLEAN]

Inbound == {"inbound", "stage_receiving"}

Carried == {"outbound", "transfer", "return"}

Route == [kind: Inbound \cup Carried, source: Nodes \cup {None},
          vehicle: Nodes \cup {None}, destination: Nodes \cup {None}]

Line == [subject: Subjects, quantity: Nat \ {0}, packedIn: Nodes \cup {None}]

ASSUME LogisticsAssumption ==
  /\ None \notin Subjects /\ None \notin Nat
  /\ None \notin {"party", "good", "damaged", "stored", "in_transit", "issued", "returned"}
  /\ Nodes \cap Lots = {}
  /\ KindOf \in [Nodes -> NodeKinds]
  /\ InitialQuantity \in Nat \ {0}
  /\ Labelled \subseteq Subjects
  /\ Movements \subseteq Movement
  /\ Scans \subseteq {m \in Movement : m.recipient = None /\ ~m.manifested}
  /\ Routes \subseteq Route
  /\ Lines \subseteq Line
  /\ MaxDepth \in Nat \ {0} /\ MaxEvents \in Nat
  /\ MaxBehind \in Nat /\ MaxScans \in Nat /\ MaxBatches \in Nat

VARIABLES
  rows,      \* LogisticsCurrentState by subject; sequence 0 means no row
  log,       \* LogisticsEvent, of all subjects, in the order of their commits
  version,   \* LogisticsEditionControl.aggregate_version
  manifest,  \* the manifest of the edition, or its absence
  queue,     \* the scans the device holds and has no answer for
  scanned,   \* how many scans the device has made; a scan's key is its number
  receipts,  \* OfflineOperationReceipt by key; a key the server does not know
             \* has the receipt NoReceipt
  batches    \* OfflineScanBatch with its operations, in the order of commits

vars == <<rows, log, version, manifest, queue, scanned, receipts, batches>>

----------------------------------------------------------------------------
(***************************************************************************)
(* Containment                                                             *)
(***************************************************************************)

\* _NODE_PARENT_KINDS: the kinds that may hold a node of each kind.
ParentKinds ==
  [storage_site |-> {},
   storage_area |-> {"storage_site", "venue_room"},
   rack |-> {"storage_area", "container"},
   container |-> {"storage_site", "storage_area", "vehicle", "loading_zone",
                  "staging_area", "venue_room"},
   box |-> {"storage_area", "rack", "container", "box", "vehicle",
            "loading_zone", "staging_area", "venue_room"},
   vehicle |-> {"storage_site", "loading_zone", "staging_area"},
   loading_zone |-> {"storage_site", "venue_room"},
   staging_area |-> {"storage_site", "loading_zone", "venue_room"},
   venue_room |-> {}]

\* Variant for mutation: the table of the service no longer lets a box hold a box.
ParentKindWithoutNesting(m) ==
  m.subject \in Nodes /\ m.destination # None =>
    KindOf[m.destination] \in ParentKinds[KindOf[m.subject]] \ {"box"}

\* _validate_parent_kind
ParentKindFits(m) ==
  m.subject \in Nodes /\ m.destination # None =>
    KindOf[m.destination] \in ParentKinds[KindOf[m.subject]]

\* The cursor of a walk up the containment rows r, by the number of the step.
Climb(r, node) ==
  LET cursor[k \in 1..MaxDepth] ==
        IF k = 1 THEN node
        ELSE IF cursor[k - 1] = None THEN None
        ELSE r[cursor[k - 1]].node
  IN  cursor

\* Variant for mutation: only the destination itself is compared.
DestinationIsAnother(r, m) == m.destination # m.subject

\* _assert_acyclic_destination: the walk from the destination must reach the
\* top within MaxDepth steps and must not meet the subject.
AcyclicDestination(r, m) ==
  m.subject \in Nodes /\ m.destination # None =>
    LET cursor == Climb(r, m.destination)
    IN  \E top \in 1..MaxDepth :
          /\ cursor[top] = None
          /\ \A k \in 1..(top - 1) : cursor[k] # m.subject

\* _state_within_node
StateWithinNode(r, s, node) ==
  \E k \in 1..MaxDepth : Climb(r, r[s].node)[k] = node

----------------------------------------------------------------------------
(***************************************************************************)
(* _append_movement_event                                                  *)
(***************************************************************************)

NoRow == [sequence |-> 0, node |-> None, custodian |-> None,
          quantity |-> None, condition |-> None, state |-> None]

NoManifest == [status |-> "absent"]

\* The node a line's subject is taken to: its box, or the end of the route.
LineDestination(line) ==
  IF line.packedIn # None THEN line.packedIn ELSE manifest.destination

Departs(r, m) == IF m.source # None THEN m.source ELSE r[m.subject].node

\* The manifest is sealed or completed, has a line for the subject and the
\* movement is a leg of its route; the database also compares the quantity.
RouteMatches(r, m) ==
  /\ manifest.status \in {"sealed", "completed"}
  /\ \E line \in manifest.lines :
       /\ line.subject = m.subject
       /\ m.subject \in Lots => m.quantity = line.quantity
       /\ \/ /\ m.type = "receive" /\ manifest.kind \in Inbound
             /\ m.source = None
             /\ m.destination = LineDestination(line)
          \/ /\ m.type = "load" /\ manifest.kind \in Carried
             /\ manifest.source # None /\ manifest.vehicle # None
             /\ Departs(r, m) = manifest.source
             /\ m.destination = manifest.vehicle
          \/ /\ m.type = "unload" /\ manifest.kind \in Carried
             /\ manifest.vehicle # None
             /\ Departs(r, m) = manifest.vehicle
             /\ m.destination = LineDestination(line)
          \/ /\ m.type = "return" /\ manifest.kind = "return"
             /\ manifest.source # None
             /\ Departs(r, m) = manifest.source
             /\ m.destination = LineDestination(line)
       /\ LineDestination(line) # None \/ m.type = "load"

\* The database takes one event of a type for each line of a manifest.
FirstTraversal(l, m) ==
  \A i \in DOMAIN l :
    ~(l[i].manifested /\ l[i].subject = m.subject /\ l[i].type = m.type)

QuantityFits(row, m) ==
  IF m.subject \in Lots
    THEN /\ m.quantity # None
         /\ m.type = "receive" => m.quantity <= InitialQuantity
         /\ m.type \notin {"receive", "count"} => m.quantity = row.quantity
    ELSE m.quantity \in {None, 1}

\* Variant for mutation: a client may be behind.
SequenceReached(row, expected) == expected <= row.sequence

\* Another sequence number than the expected one is a version conflict.
SequenceFits(row, expected) == expected = row.sequence

\* The tests that the service makes, or the database, before the event is
\* written.
Accepts(r, l, m, expected) ==
  LET row == r[m.subject] IN
  /\ SequenceFits(row, expected)
  /\ row.sequence = 0 <=> m.type = "receive"
  /\ m.source # None => m.source = row.node
  /\ m.type \in Moving => m.destination # None
  /\ m.type \in Resting => m.source = None /\ m.destination = None
  /\ m.type = "handover" => m.recipient # None
  /\ m.type = "return" => m.destination # None \/ m.recipient # None
  /\ ParentKindFits(m)
  /\ AcyclicDestination(r, m)
  /\ m.manifested => RouteMatches(r, m) /\ FirstTraversal(l, m)
  /\ m.type \in {"receive", "damage"} => m.condition # None
  /\ QuantityFits(row, m)

\* _event_state
EventState(type, state) ==
  CASE type = "load" -> "in_transit"
    [] type = "handover" -> "issued"
    [] type = "return" -> "returned"
    [] type \in Moving \ {"load"} -> "stored"
    [] OTHER -> state

\* Variant for mutation: receiving does not book the quantity.
ProjectedByCountOnly(row, m) ==
  [sequence  |-> row.sequence + 1,
   node      |-> IF m.type \in Resting THEN row.node ELSE m.destination,
   custodian |-> IF m.type \in {"handover", "return"} \/ m.recipient # None
                   THEN m.recipient ELSE row.custodian,
   quantity  |-> IF m.type = "count" THEN m.quantity ELSE row.quantity,
   condition |-> IF m.condition # None THEN m.condition ELSE row.condition,
   state     |-> EventState(m.type, row.state)]

\* Variant for mutation: a return to a recipient leaves the subject in its node.
ProjectedInPlace(row, m) ==
  [sequence  |-> row.sequence + 1,
   node      |-> IF m.destination = None THEN row.node ELSE m.destination,
   custodian |-> IF m.type \in {"handover", "return"} \/ m.recipient # None
                   THEN m.recipient ELSE row.custodian,
   quantity  |-> IF m.subject \in Lots /\ m.type \in {"receive", "count"}
                   THEN m.quantity ELSE row.quantity,
   condition |-> IF m.condition # None THEN m.condition ELSE row.condition,
   state     |-> EventState(m.type, row.state)]

\* The row after an accepted movement.
Projected(row, m) ==
  [sequence  |-> row.sequence + 1,
   node      |-> IF m.type \in Resting THEN row.node ELSE m.destination,
   custodian |-> IF m.type \in {"handover", "return"} \/ m.recipient # None
                   THEN m.recipient ELSE row.custodian,
   quantity  |-> IF m.subject \in Lots /\ m.type \in {"receive", "count"}
                   THEN m.quantity ELSE row.quantity,
   condition |-> IF m.condition # None THEN m.condition ELSE row.condition,
   state     |-> EventState(m.type, row.state)]

\* A recount that differs from the row, and damage, open a discrepancy.
Discrepancy(row, m) ==
  \/ m.type = "count" /\ m.subject \in Lots /\ m.quantity # row.quantity
  \/ m.type = "damage"

\* The LogisticsEvent row; "scan" is the key of the scan that caused it.
Event(r, m, scan) ==
  [type |-> m.type, subject |-> m.subject,
   sequence |-> r[m.subject].sequence + 1,
   destination |-> m.destination, custodian |-> Projected(r[m.subject], m).custodian,
   quantity |-> m.quantity, manifested |-> m.manifested, scan |-> scan,
   discrepancy |-> Discrepancy(r[m.subject], m)]

----------------------------------------------------------------------------
(***************************************************************************)
(* On-line commands                                                        *)
(***************************************************************************)

\* record_logistics_event, with the sequence number the client last saw.
RecordEvent(m, expected) ==
  /\ Accepts(rows, log, m, expected)
  /\ Len(SelectSeq(log, LAMBDA e : e.scan = 0)) < MaxEvents
  /\ log' = Append(log, Event(rows, m, 0))
  /\ rows' = [rows EXCEPT ![m.subject] = Projected(@, m)]
  /\ version' = version + 1
  /\ UNCHANGED <<manifest, queue, scanned, receipts, batches>>

\* The movement record_manifest_receipt makes of a line.
ReceiptMovement(line) ==
  [type |-> "receive", subject |-> line.subject, source |-> None,
   destination |-> LineDestination(line), recipient |-> None,
   quantity |-> IF line.subject \in Lots THEN line.quantity ELSE None,
   condition |-> "good", manifested |-> TRUE]

\* record_manifest_receipt
RecordManifestReceipt(expected) ==
  /\ manifest.status \in {"sealed", "completed"}
  /\ manifest.kind \in Inbound
  /\ \E line \in manifest.lines : /\ LineDestination(line) # None
                                  /\ RecordEvent(ReceiptMovement(line), expected)

\* A serialized subject is listed once, and only by one.
LineFits(line) == line.subject \notin Lots => line.quantity = 1

\* create_logistics_manifest
CreateManifest(route, line) ==
  /\ manifest = NoManifest
  /\ route.vehicle # None => KindOf[route.vehicle] = "vehicle"
  /\ LineFits(line)
  /\ line.packedIn # None => KindOf[line.packedIn] \in {"box", "container", "vehicle"}
  /\ manifest' = [status |-> "draft", lines |-> {line}, kind |-> route.kind,
                  source |-> route.source, vehicle |-> route.vehicle,
                  destination |-> route.destination]
  /\ UNCHANGED <<rows, log, version, queue, scanned, receipts, batches>>

\* add_manifest_line
AddManifestLine(line) ==
  /\ manifest.status = "draft"
  /\ LineFits(line)
  /\ \A other \in manifest.lines : other.subject # line.subject
  /\ line.packedIn # None => KindOf[line.packedIn] \in {"box", "container", "vehicle"}
  /\ manifest' = [manifest EXCEPT !.lines = @ \cup {line}]
  /\ UNCHANGED <<rows, log, version, queue, scanned, receipts, batches>>

\* A line of a carried manifest can be sealed: the subject is tracked, whole
\* and somewhere within the source.
Sealable(line) ==
  /\ rows[line.subject].sequence > 0
  /\ line.subject \in Lots => line.quantity = rows[line.subject].quantity
  /\ manifest.source # None => StateWithinNode(rows, line.subject, manifest.source)

\* change_manifest_state
ChangeManifestState(from, to) ==
  /\ <<from, to>> \in {<<"draft", "sealed">>, <<"sealed", "completed">>,
                       <<"draft", "cancelled">>, <<"sealed", "cancelled">>}
  /\ manifest.status = from
  /\ to = "sealed" /\ manifest.kind \in Carried =>
       \A line \in manifest.lines : Sealable(line)
  /\ manifest' = [manifest EXCEPT !.status = to]
  /\ UNCHANGED <<rows, log, version, queue, scanned, receipts, batches>>

----------------------------------------------------------------------------
(***************************************************************************)
(* The scanning device and ingest_offline_scan_batch                       *)
(***************************************************************************)

NoReceipt == [position |-> 0, event |-> 0, discrepancy |-> FALSE]

\* The device queues a scan with the sequence number it expects: that of a
\* snapshot of the rows, old or new, plus its own queued scans of the subject.
\* A scan carries no recipient and no manifest.
Scan(m, expected) ==
  /\ scanned < MaxScans
  /\ LET latest == rows[m.subject].sequence
                     + Len(SelectSeq(queue, LAMBDA q : q.movement.subject = m.subject))
     IN  expected <= latest /\ latest <= expected + MaxBehind
  /\ scanned' = scanned + 1
  /\ queue' = Append(queue, [key |-> scanned + 1, expected |-> expected, movement |-> m])
  /\ UNCHANGED <<rows, log, version, manifest, receipts, batches>>

\* Every label code the scan carries is the active label of a subject.
LabelsKnown(m) ==
  /\ m.subject \in Labelled
  /\ m.source # None => m.source \in Labelled
  /\ m.destination # None => m.destination \in Labelled

\* The test of the database on an operation filed as a state conflict: the
\* operation must not be one that could have been appended.
RemainsAppendable(r, scan) ==
  LET m == scan.movement
      row == r[m.subject]
      ancestor == Climb(r, m.destination)
  IN /\ scan.expected = row.sequence
     /\ (row.sequence = 0 /\ m.type = "receive")
        \/ (row.sequence > 0 /\ m.type # "receive")
     /\ m.source = None \/ m.source = row.node
     /\ \/ m.type \in Moving /\ m.destination # None
        \/ /\ m.type \in {"count", "condition", "damage"}
           /\ m.source = None /\ m.destination = None
        \/ m.type = "return" /\ m.destination # None
     /\ \/ m.subject \notin Nodes
        \/ m.destination = None
        \/ /\ KindOf[m.destination] \in ParentKinds[KindOf[m.subject]]
           /\ \A depth \in 1..MaxDepth : ancestor[depth] # None =>
                ancestor[depth] # m.subject /\ depth < MaxDepth
     /\ m.type \notin {"receive", "damage"} \/ m.condition # None
     /\ \/ /\ m.subject \in Lots /\ m.quantity # None
           /\ \/ m.type = "receive" /\ m.quantity <= InitialQuantity
              \/ m.type = "count"
              \/ m.type \notin {"receive", "count"} /\ m.quantity = row.quantity
        \/ m.subject \notin Lots /\ m.quantity \in {None, 1}

\* Variant for mutation: the receipts of earlier batches are not consulted.
ResultWithoutReceipt(done, scan, position) ==
  CASE ~LabelsKnown(scan.movement) -> "unknown"
    [] LabelsKnown(scan.movement)
         /\ ~Accepts(done.rows, done.log, scan.movement, scan.expected) -> "conflict"
    [] OTHER -> "applied"

\* The result of one operation of a batch, the effect of the ones before it
\* being in "done": the same scan again at the same position reuses its
\* receipt (the position is part of the digest), another use of the key, an
\* unknown label or a refused movement is filed for review, and a movement
\* that is accepted is applied.
Result(done, scan, position) ==
  LET prior == done.receipts[scan.key]
      m == scan.movement
  IN CASE prior # NoReceipt /\ prior.position = position -> "duplicate"
       [] prior # NoReceipt /\ prior.position # position -> "reused"
       [] prior = NoReceipt /\ ~LabelsKnown(m) -> "unknown"
       [] prior = NoReceipt /\ LabelsKnown(m)
            /\ ~Accepts(done.rows, done.log, m, scan.expected) -> "conflict"
       [] OTHER -> "applied"

\* The event and the discrepancy that the operation is filed with.
Outcome(done, scan, position, result) ==
  CASE result = "duplicate" -> done.receipts[scan.key]
    [] result = "applied" ->
         [position |-> position, event |-> Len(done.log) + 1,
          discrepancy |-> Discrepancy(done.rows[scan.movement.subject], scan.movement)]
    [] OTHER -> [position |-> position, event |-> 0, discrepancy |-> TRUE]

\* One operation of a batch is reconciled and filed.
ReconcileScan(done, scan) ==
  LET position == Len(done.operations) + 1
      result == Result(done, scan, position)
      outcome == Outcome(done, scan, position, result)
      m == scan.movement
      applied == result = "applied"
  IN [rows |-> IF applied THEN [done.rows EXCEPT ![m.subject] = Projected(@, m)]
               ELSE done.rows,
      log |-> IF applied THEN Append(done.log, Event(done.rows, m, scan.key))
              ELSE done.log,
      version |-> IF applied THEN done.version + 1 ELSE done.version,
      receipts |-> IF result \in {"duplicate", "reused"} THEN done.receipts
                   ELSE [done.receipts EXCEPT ![scan.key] = outcome],
      operations |-> Append(done.operations,
                            [key |-> scan.key, result |-> result,
                             event |-> outcome.event,
                             discrepancy |-> outcome.discrepancy]),
      refused |-> \/ done.refused
                  \/ result = "conflict" /\ RemainsAppendable(done.rows, scan)]

\* Variant for mutation: a repetition of a reviewed scan asks for no review.
NeedsFirstReview(operations) ==
  \E i \in DOMAIN operations :
    operations[i].discrepancy /\ operations[i].result # "duplicate"

\* needs_review
NeedsReview(operations) == \E i \in DOMAIN operations : operations[i].discrepancy

\* What the transaction of a batch has written after its last operation: the
\* singleton of the state that reconciling the scans one by one leads to.
Reconciled(batch) ==
  LET after[n \in 0..Len(batch)] ==
        IF n = 0
          THEN {[rows |-> rows, log |-> log, version |-> version, receipts |-> receipts,
                 operations |-> <<>>, refused |-> FALSE]}
          ELSE {ReconcileScan(done, batch[n]) : done \in after[n - 1]}
  IN  after[Len(batch)]

\* ingest_offline_scan_batch for the scans from "first" on, in one
\* transaction: a test of the database that refuses one operation refuses the
\* batch.  The answer may be lost, and then the device keeps the scans.
IngestOfflineScanBatch(first, answered) ==
  LET batch == SubSeq(queue, first, Len(queue)) IN
  /\ Len(batches) < MaxBatches
     \/ \E i \in DOMAIN batch : receipts[batch[i].key] = NoReceipt
  /\ \E done \in Reconciled(batch) :
       /\ ~done.refused
       /\ rows' = done.rows
       /\ log' = done.log
       /\ version' = done.version
       /\ receipts' = done.receipts
       /\ batches' = Append(batches,
                       [operations |-> done.operations,
                        status |-> IF NeedsReview(done.operations)
                                     THEN "review" ELSE "applied"])
  /\ queue' = IF answered THEN SubSeq(queue, 1, first - 1) ELSE queue
  /\ UNCHANGED <<manifest, scanned>>

\* The device repeats an upload whose answer was lost with the same key: the
\* server answers from the receipt of the command.
ReplayBatch(first) ==
  /\ \E i \in DOMAIN batches :
       /\ Len(batches[i].operations) = Len(queue) - first + 1
       /\ \A k \in DOMAIN batches[i].operations :
            batches[i].operations[k].key = queue[first + k - 1].key
  /\ queue' = SubSeq(queue, 1, first - 1)
  /\ UNCHANGED <<rows, log, version, manifest, scanned, receipts, batches>>

----------------------------------------------------------------------------
Init ==
  /\ rows = [s \in Subjects |-> NoRow]
  /\ log = <<>>
  /\ version = 0
  /\ manifest = NoManifest
  /\ queue = <<>>
  /\ scanned = 0
  /\ receipts = [k \in 1..MaxScans |-> NoReceipt]
  /\ batches = <<>>

Record == \E m \in Movements, n \in 0..(MaxEvents + MaxScans) : RecordEvent(m, n)

ReceiveLine == \E n \in 0..(MaxEvents + MaxScans) : RecordManifestReceipt(n)

ManageManifest ==
  \/ \E route \in Routes, line \in Lines : CreateManifest(route, line)
  \/ \E line \in Lines : AddManifestLine(line)
  \/ \E from \in {"draft", "sealed"}, to \in {"sealed", "completed", "cancelled"} :
       ChangeManifestState(from, to)

UseDevice == \E m \in Scans, n \in 0..(MaxEvents + MaxScans) : Scan(m, n)

Upload == \E first \in DOMAIN queue, answered \in BOOLEAN :
            IngestOfflineScanBatch(first, answered)

Replay == \E first \in DOMAIN queue : ReplayBatch(first)

Next == Record \/ ReceiveLine \/ ManageManifest \/ UseDevice \/ Upload \/ Replay

Spec == Init /\ [][Next]_vars
----------------------------------------------------------------------------
(***************************************************************************)
(* Properties                                                              *)
(***************************************************************************)

\* A row exists exactly for the subjects that have been received, a lot that
\* is tracked has a quantity, nothing else has one, and the tables of the
\* device and its batches are well formed.
TypeOK ==
  /\ \A s \in Subjects :
       /\ rows[s] = NoRow \/ rows[s].sequence \in Nat \ {0}
       /\ rows[s].node \in Nodes \cup {None}
       /\ rows[s].custodian \in {None, "party"}
       /\ rows[s].condition \in {None, "good", "damaged"}
       /\ rows[s].quantity \in Nat <=> s \in Lots /\ rows[s].sequence > 0
       /\ rows[s].state \in {"stored", "in_transit", "issued", "returned"}
            <=> rows[s].sequence > 0
  /\ version \in Nat
  /\ \/ manifest = NoManifest
     \/ /\ manifest.status \in {"draft", "sealed", "completed", "cancelled"}
        /\ manifest.lines \subseteq Lines /\ manifest.lines # {}
  /\ scanned \in 0..MaxScans
  /\ \A i \in DOMAIN queue : queue[i].key \in 1..scanned
  /\ \A k \in 1..MaxScans : receipts[k].event \in 0..Len(log)
  /\ \A i \in DOMAIN batches : batches[i].operations # <<>>

\* The rows r hold each other without a cycle.
Acyclic(r) == \A S \in SUBSET Nodes : S # {} => \E n \in S : r[n].node \notin S

KindsFit(r) ==
  \A n \in Nodes : r[n].node # None => KindOf[r[n].node] \in ParentKinds[KindOf[n]]

\* Containers hold each other without a cycle: in every set of nodes one is
\* not held by another of the set, and a node is only held by a node of a kind
\* that may hold it.  Two moves that are harmless one by one, by two clients
\* or a client and a late batch, would close a cycle together.
ContainmentIsATree == Acyclic(rows) /\ KindsFit(rows)

\* The places of the log l that hold the events of a subject.
EventsOf(l, s) == {i \in DOMAIN l : l[i].subject = s}

LastOf(places) == CHOOSE i \in places : \A j \in places : j <= i

\* The row of s is what a reader derives from its events in the log l.
RowReplays(row, l, s) ==
  LET events == EventsOf(l, s)
      moves == {i \in events : l[i].type \notin Resting}
      counts == {i \in events : l[i].type \in {"receive", "count"}}
  IN /\ row.sequence = Cardinality(events)
     /\ \A i \in events : l[i].sequence = Cardinality(events \cap 1..i)
     /\ row.node = IF moves = {} THEN None ELSE l[LastOf(moves)].destination
     /\ row.custodian = IF events = {} THEN None ELSE l[LastOf(events)].custodian
     /\ s \in Lots =>
          row.quantity = IF counts = {} THEN None ELSE l[LastOf(counts)].quantity

\* The row of a subject is what a reader of its log derives: as many events as
\* the row counts, numbered without a gap, the place the last movement or
\* return led to, the quantity last received or counted and the custodian the
\* last event names; the version of the edition counts all events.  Events
\* reach the log on line, from manifests and in the middle of a batch.
RowsReplayTheLog ==
  version = Len(log) /\ \A s \in Subjects : RowReplays(rows[s], log, s)

\* A scan that is applied continues the history that its device has counted:
\* exactly as many events of its subject come before its own, however late, in
\* whatever batch, and after whatever on-line events the scan arrives.  (The
\* scans of the queue are those whose device can still tell: a scan stays there
\* when the answer to its batch is lost.)
ScansContinueHistory ==
  \A i \in DOMAIN queue :
    LET event == receipts[queue[i].key].event IN
    event # 0 => Cardinality(EventsOf(log, queue[i].movement.subject) \cap 1..(event - 1))
                   = queue[i].expected

\* However often and in whatever batches a scan is uploaded, it has at most
\* one event, its receipt names that event, one operation of one batch files
\* it, and every exact repetition is answered from that receipt.
ScansAppliedOnce ==
  \A k \in 1..MaxScans :
    /\ \A i \in DOMAIN log : log[i].scan = k <=> receipts[k].event = i
    /\ LET of(f) == batches[f[1]].operations[f[2]]
           filings == {f \in (DOMAIN batches) \X (1..MaxScans) :
                         f[2] \in DOMAIN batches[f[1]].operations /\ of(f).key = k}
           first == {f \in filings : of(f).result \notin {"duplicate", "reused"}}
       IN /\ Cardinality(first) = IF filings = {} THEN 0 ELSE 1
          /\ \A f \in filings : of(f).result # "reused" =>
               of(f).event = receipts[k].event /\ of(f).discrepancy = receipts[k].discrepancy

\* A batch that is closed as applied needs no one's attention: every scan in
\* it stands in the log with an event of its own that opened no discrepancy;
\* a batch with any other scan, a repetition of one included, is closed for
\* review.
AppliedBatchesAreClean ==
  \A b \in DOMAIN batches :
    batches[b].status = "applied" <=>
      \A i \in DOMAIN batches[b].operations :
        LET op == batches[b].operations[i] IN
        op.event # 0 /\ log[op.event].scan = op.key /\ ~log[op.event].discrepancy

\* Whatever a device has queued, the database accepts the batch it uploads: no
\* scan that the service files for review is one the database holds to be
\* appendable, which would refuse the whole batch, and each retry of it.
EveryBatchCommits ==
  \A first \in DOMAIN queue :
    \A done \in Reconciled(SubSeq(queue, first, Len(queue))) : ~done.refused
=============================================================================
