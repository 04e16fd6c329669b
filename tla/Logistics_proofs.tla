-------------------------- MODULE Logistics_proofs --------------------------
(***************************************************************************)
(* Proofs about Logistics for every containment hierarchy, every set of    *)
(* lots, movements, scans, routes and lines, every depth limit and any     *)
(* number of events, scans and batches.                                    *)
(***************************************************************************)
EXTENDS Logistics, FiniteSetTheorems, SequenceTheorems, WellFoundedInduction, TLAPS

-----------------------------------------------------------------------------
(***************************************************************************)
(* The inductive invariant                                                 *)
(***************************************************************************)

Row ==
    [sequence : Nat, node : Nodes \cup {None}, custodian : {None, "party"},
     quantity : Nat \cup {None}, condition : {None, "good", "damaged"},
     state : {None, "stored", "in_transit", "issued", "returned"}]

\* A subject without events has the empty row; a lot has a quantity from its
\* first event on and nothing else ever has one.
RowsOK(r) ==
    /\ r \in [Subjects -> Row]
    /\ \A s \in Subjects :
          /\ r[s].sequence = 0 => r[s] = NoRow
          /\ r[s].quantity \in Nat <=> s \in Lots /\ r[s].sequence > 0
          /\ r[s].state # None <=> r[s].sequence > 0

LogEvent ==
    [type : EventTypes, subject : Subjects, sequence : Nat,
     destination : Nodes \cup {None}, custodian : {None, "party"},
     quantity : Nat \cup {None}, manifested : BOOLEAN, scan : 0 .. MaxScans,
     discrepancy : BOOLEAN]

Receipt == [position : Nat, event : Nat, discrepancy : BOOLEAN]

\* Event and receipt of a scan name each other and agree on the discrepancy,
\* and a receipt without an event is one for review.
ReceiptsOK(l, rc) ==
    /\ rc \in [1 .. MaxScans -> Receipt]
    /\ \A k \in 1 .. MaxScans :
          /\ rc[k].event \in 0 .. Len(l)
          /\ \A i \in DOMAIN l : l[i].scan = k <=> rc[k].event = i
          /\ rc[k].event # 0 => rc[k].discrepancy = l[rc[k].event].discrepancy
          /\ rc[k] # NoReceipt => rc[k].position > 0
          /\ rc[k] # NoReceipt /\ rc[k].event = 0 => rc[k].discrepancy

Operation ==
    [key : 1 .. MaxScans,
     result : {"duplicate", "reused", "unknown", "conflict", "applied"},
     event : Nat, discrepancy : BOOLEAN]

FiledFirst(op) == op.result \notin {"duplicate", "reused"}

\* An operation carries an event of its scan or asks for a review, and unless
\* it reuses a key it carries what the receipt says.
OperationOK(op, l, rc) ==
    /\ op.event # 0 =>
          /\ op.event \in DOMAIN l
          /\ l[op.event].scan = op.key
          /\ l[op.event].discrepancy = op.discrepancy
    /\ op.event = 0 => op.discrepancy
    /\ rc[op.key] # NoReceipt
    /\ op.result # "reused" =>
          op.event = rc[op.key].event /\ op.discrepancy = rc[op.key].discrepancy

\* The operations that file a key, filed being the lists of the operations of
\* all batches: every operation is in order, a key with a receipt has been
\* filed, and no key was filed twice for the first time.
FilingsOK(filed, l, rc) ==
    /\ \A b \in DOMAIN filed : \A i \in DOMAIN filed[b] : OperationOK(filed[b][i], l, rc)
    /\ \A k \in 1 .. MaxScans : rc[k] # NoReceipt =>
          \E b \in DOMAIN filed : \E i \in DOMAIN filed[b] :
             filed[b][i].key = k /\ FiledFirst(filed[b][i])
    /\ \A b, c \in DOMAIN filed : \A i \in DOMAIN filed[b], j \in DOMAIN filed[c] :
          FiledFirst(filed[b][i]) /\ FiledFirst(filed[c][j])
            /\ filed[b][i].key = filed[c][j].key => b = c /\ i = j

\* What every command and every operation of a batch keeps.
StoreOK(r, l, v, rc, filed) ==
    /\ RowsOK(r)
    /\ l \in Seq(LogEvent)
    /\ Acyclic(r) /\ KindsFit(r)
    /\ v = Len(l)
    /\ \A s \in Subjects : RowReplays(r[s], l, s)
    /\ ReceiptsOK(l, rc)
    /\ filed \in Seq(Seq(Operation))
    /\ FilingsOK(filed, l, rc)

Filed == [b \in DOMAIN batches |-> batches[b].operations]

BatchesOK ==
    /\ batches \in Seq([operations : Seq(Operation), status : {"review", "applied"}])
    /\ \A b \in DOMAIN batches :
          /\ batches[b].operations # <<>>
          /\ Len(batches[b].operations) <= MaxScans
          /\ batches[b].status = "applied" <=> ~ NeedsReview(batches[b].operations)

Queued == [key : 1 .. MaxScans, expected : Nat, movement : Scans]

QueueOK ==
    /\ scanned \in 0 .. MaxScans
    /\ queue \in Seq(Queued)
    /\ Len(queue) <= scanned
    /\ \A i \in DOMAIN queue : queue[i].key <= scanned

Manifests ==
    [status : {"draft", "sealed", "completed", "cancelled"},
     lines : (SUBSET Lines) \ {{}}, kind : Inbound \cup Carried,
     source : Nodes \cup {None}, vehicle : Nodes \cup {None},
     destination : Nodes \cup {None}]

ManifestOK == manifest = NoManifest \/ manifest \in Manifests

IInv ==
    /\ StoreOK(rows, log, version, receipts, Filed)
    /\ BatchesOK
    /\ QueueOK
    /\ ManifestOK

-----------------------------------------------------------------------------
(***************************************************************************)
(* Walks                                                                   *)
(*                                                                         *)
(* The walk up the rows and the course of a batch are defined by recursion *)
(* over the number of their steps.  That they exist, and what holds of     *)
(* each of their steps, follows from a least counterexample.               *)
(***************************************************************************)

\* Every nonempty set of numbers has a least one.
LEMMA LeastNumber ==
    ASSUME NEW T, T \subseteq Nat, T # {}
    PROVE  \E m \in T : \A k \in T : m <= k
<1>1. PICK m \in T : \A k \in T : ~ (<<k, m>> \in OpToRel(<, Nat))
  BY WFMin, NatLessThanWellFounded
<1>2. \A k \in T : ~ (k < m)
  BY <1>1 DEF OpToRel
<1> QED
  BY <1>2

\* The walk up the rows takes the steps that the code takes.
LEMMA ClimbSteps ==
    ASSUME NEW r, NEW node
    PROVE  /\ Climb(r, node)[1] = node
           /\ \A k \in 2 .. MaxDepth :
                 Climb(r, node)[k] = IF Climb(r, node)[k - 1] = None THEN None
                                     ELSE r[Climb(r, node)[k - 1]].node
<1> DEFINE Walk(c, n) ==
             c = [k \in 1 .. n |->
                    IF k = 1 THEN node
                    ELSE IF c[k - 1] = None THEN None ELSE r[c[k - 1]].node]
           Missing == {n \in Nat : ~ \E c : Walk(c, n)}
<1>1. Missing = {}
  <2> SUFFICES ASSUME Missing # {} PROVE FALSE
    OBVIOUS
  <2>1. PICK n \in Missing : \A k \in Missing : n <= k
    <3> Missing \subseteq Nat
      OBVIOUS
    <3> HIDE DEF Missing
    <3> QED
      BY LeastNumber
  <2> n \in Nat
    OBVIOUS
  <2>2. n # 0
    <3> SUFFICES ASSUME n = 0 PROVE FALSE
      OBVIOUS
    <3> DEFINE empty == [k \in 1 .. 0 |-> node]
    <3>1. 1 .. 0 = {}
      OBVIOUS
    <3>2. Walk(empty, 0)
      BY <3>1
    <3>3. \E c : Walk(c, n)
      BY <3>2
    <3> HIDE DEF Walk
    <3> QED
      BY <2>1, <3>3
  <2>3. n - 1 \in Nat
    BY <2>2
  <2>4. n - 1 \notin Missing
    <3> HIDE DEF Missing
    <3> SUFFICES ASSUME n - 1 \in Missing PROVE FALSE
      OBVIOUS
    <3>1. n <= n - 1
      BY <2>1
    <3> QED
      BY <2>3, <3>1
  <2>5. PICK c : Walk(c, n - 1)
    BY <2>3, <2>4
  <2> DEFINE longer == [k \in 1 .. n |->
                    IF k = 1 THEN node
                    ELSE IF c[k - 1] = None THEN None ELSE r[c[k - 1]].node]
  <2>6. \A k \in 1 .. n - 1 : longer[k] = c[k]
    <3> TAKE k \in 1 .. n - 1
    <3>1. k \in 1 .. n
      BY <2>3
    <3> QED
      BY <2>5, <3>1
  <2>7. Walk(longer, n)
    <3>1. \A k \in 1 .. n : k # 1 => k - 1 \in 1 .. n - 1
      BY <2>3
    <3> QED
      BY <2>6, <3>1
  <2> QED
    BY <2>7
<1>2. \E c : Walk(c, MaxDepth)
  BY <1>1, LogisticsAssumption
<1>3. Climb(r, node) = CHOOSE c : Walk(c, MaxDepth)
  BY DEF Climb
<1> DEFINE w == Climb(r, node)
<1>4. Walk(w, MaxDepth)
  BY <1>2, <1>3
<1> HIDE DEF w
<1>5. w[1] = node
  <2>1. 1 \in 1 .. MaxDepth
    BY LogisticsAssumption
  <2> QED
    BY <1>4, <2>1
<1>6. ASSUME NEW k \in 2 .. MaxDepth
      PROVE  w[k] = IF w[k - 1] = None THEN None ELSE r[w[k - 1]].node
  <2>1. k \in 1 .. MaxDepth /\ k # 1
    OBVIOUS
  <2> QED
    BY <1>4, <2>1
<1> QED
  BY <1>5, <1>6 DEF w

\* The state of the transaction of a batch before its first operation.
Begun ==
    [rows |-> rows, log |-> log, version |-> version, receipts |-> receipts,
     operations |-> <<>>, refused |-> FALSE]

\* A batch reconciles its scans one after another.
LEMMA ReconciledSteps ==
    ASSUME NEW batch, Len(batch) \in Nat
    PROVE  \E after :
              /\ Reconciled(batch) = after[Len(batch)]
              /\ after[0] = {Begun}
              /\ \A n \in 1 .. Len(batch) :
                    after[n] = {ReconcileScan(done, batch[n]) : done \in after[n - 1]}
<1> DEFINE Course(a, n) ==
             a = [k \in 0 .. n |->
                    IF k = 0 THEN {Begun}
                    ELSE {ReconcileScan(done, batch[k]) : done \in a[k - 1]}]
           Missing == {n \in Nat : ~ \E a : Course(a, n)}
<1>1. Missing = {}
  <2> SUFFICES ASSUME Missing # {} PROVE FALSE
    OBVIOUS
  <2>1. PICK n \in Missing : \A k \in Missing : n <= k
    <3> Missing \subseteq Nat
      OBVIOUS
    <3> HIDE DEF Missing
    <3> QED
      BY LeastNumber
  <2> n \in Nat
    OBVIOUS
  <2>2. n # 0
    <3> SUFFICES ASSUME n = 0 PROVE FALSE
      OBVIOUS
    <3> DEFINE begin == [k \in 0 .. 0 |-> {Begun}]
    <3>1. 0 .. 0 = {0}
      OBVIOUS
    <3>2. Course(begin, 0)
      BY <3>1
    <3>3. \E a : Course(a, n)
      BY <3>2
    <3> HIDE DEF Course
    <3> QED
      BY <2>1, <3>3
  <2>3. n - 1 \in Nat
    BY <2>2
  <2>4. n - 1 \notin Missing
    <3> HIDE DEF Missing
    <3> SUFFICES ASSUME n - 1 \in Missing PROVE FALSE
      OBVIOUS
    <3>1. n <= n - 1
      BY <2>1
    <3> QED
      BY <2>3, <3>1
  <2>5. PICK a : Course(a, n - 1)
    BY <2>3, <2>4
  <2> DEFINE longer == [k \in 0 .. n |->
                    IF k = 0 THEN {Begun}
                    ELSE {ReconcileScan(done, batch[k]) : done \in a[k - 1]}]
  <2>6. \A k \in 0 .. n - 1 : longer[k] = a[k]
    <3> TAKE k \in 0 .. n - 1
    <3>1. k \in 0 .. n
      BY <2>3
    <3> QED
      BY <2>5, <3>1
  <2>7. Course(longer, n)
    <3>1. \A k \in 0 .. n : k # 0 => k - 1 \in 0 .. n - 1
      BY <2>3
    <3> QED
      BY <2>6, <3>1
  <2> QED
    BY <2>7
<1>2. \E a : Course(a, Len(batch))
  BY <1>1
<1> DEFINE after == CHOOSE a : Course(a, Len(batch))
<1>3. Course(after, Len(batch))
  BY <1>2
<1>4. Reconciled(batch) = after[Len(batch)]
  BY DEF Reconciled, Begun
<1> HIDE DEF after
<1>5. after[0] = {Begun}
  <2>1. 0 \in 0 .. Len(batch)
    OBVIOUS
  <2> QED
    BY <1>3, <2>1
<1>6. \A n \in 1 .. Len(batch) :
         after[n] = {ReconcileScan(done, batch[n]) : done \in after[n - 1]}
  <2> TAKE n \in 1 .. Len(batch)
  <2>1. n \in 0 .. Len(batch) /\ n # 0
    OBVIOUS
  <2> QED
    BY <1>3, <2>1
<1> QED
  BY <1>4, <1>5, <1>6

-----------------------------------------------------------------------------
(***************************************************************************)
(* One movement                                                            *)
(***************************************************************************)

\* An accepted movement leaves well formed rows.
LEMMA MovementKeepsRows ==
    ASSUME NEW r, RowsOK(r), NEW l, NEW m \in Movement, NEW expected,
           Accepts(r, l, m, expected)
    PROVE  RowsOK([r EXCEPT ![m.subject] = Projected(@, m)])
<1> DEFINE s == m.subject
           row == r[s]
           new == Projected(row, m)
<1>1. s \in Subjects /\ row \in Row /\ row.sequence \in Nat
  BY DEF RowsOK, Movement, Row
<1>2. new \in Row
  <2>1. row.sequence + 1 \in Nat
    BY <1>1
  <2>2. (IF m.type \in Resting THEN row.node ELSE m.destination) \in Nodes \cup {None}
    BY <1>1 DEF Row, Movement
  <2>3. (IF m.type \in {"handover", "return"} \/ m.recipient # None
           THEN m.recipient ELSE row.custodian) \in {None, "party"}
    BY <1>1 DEF Row, Movement
  <2>4. (IF m.subject \in Lots /\ m.type \in {"receive", "count"}
           THEN m.quantity ELSE row.quantity) \in Nat \cup {None}
    BY <1>1 DEF Row, Movement
  <2>5. (IF m.condition # None THEN m.condition ELSE row.condition) \in {None, "good", "damaged"}
    BY <1>1 DEF Row, Movement
  <2>6. EventState(m.type, row.state) \in {None, "stored", "in_transit", "issued", "returned"}
    BY <1>1 DEF Row, EventState
  <2> QED
    BY <2>1, <2>2, <2>3, <2>4, <2>5, <2>6 DEF Projected, Row
<1>3. new.sequence > 0
  BY <1>1 DEF Projected
<1>4. new.quantity \in Nat <=> s \in Lots
  <2>1. CASE s \in Lots /\ m.type \in {"receive", "count"}
    BY <2>1 DEF Accepts, QuantityFits, Projected, Movement
  <2>2. CASE s \in Lots /\ m.type \notin {"receive", "count"}
    BY <1>1, <2>2 DEF Accepts, Projected, RowsOK
  <2>3. CASE s \notin Lots
    BY <1>1, <2>3 DEF Projected, RowsOK
  <2> QED
    BY <2>1, <2>2, <2>3
<1>5. new.state # None
  <2>1. CASE m.type \in Moving \cup {"handover", "return"}
    BY <2>1, LogisticsAssumption DEF Projected, EventState, Moving
  <2>2. CASE m.type \notin Moving \cup {"handover", "return"}
    <3>1. row.state # None
      BY <1>1, <2>2 DEF Accepts, RowsOK, Moving
    <3> QED
      BY <2>2, <3>1 DEF Projected, EventState, Moving
  <2> QED
    BY <2>1, <2>2
<1> HIDE DEF new
<1>6. [r EXCEPT ![s] = new] \in [Subjects -> Row]
  BY <1>1, <1>2 DEF RowsOK
<1>7. \A t \in Subjects :
         [r EXCEPT ![s] = new][t] = IF t = s THEN new ELSE r[t]
  BY <1>1 DEF RowsOK
<1>8. RowsOK([r EXCEPT ![s] = new])
  BY <1>2, <1>3, <1>4, <1>5, <1>6, <1>7 DEF RowsOK, Row
<1> QED
  BY <1>8 DEF new

\* An accepted movement closes no cycle: a set of nodes that all are held in
\* the set would contain the subject, with it the destination, and so every
\* node of the walk to the top.
LEMMA MovementKeepsTree ==
    ASSUME NEW r, RowsOK(r), NEW l, NEW m \in Movement, NEW expected,
           Accepts(r, l, m, expected), Acyclic(r), KindsFit(r)
    PROVE  LET q == [r EXCEPT ![m.subject] = Projected(@, m)]
           IN  Acyclic(q) /\ KindsFit(q)
<1> DEFINE s == m.subject
           d == m.destination
           q == [r EXCEPT ![s] = Projected(@, m)]
<1>1. /\ s \in Subjects
      /\ \A t \in Subjects : q[t] = IF t = s THEN Projected(r[s], m) ELSE r[t]
      /\ Nodes \subseteq Subjects
      /\ d \in Nodes \cup {None}
  BY DEF RowsOK, Movement, Subjects
<1>2. q[s].node = IF m.type \in Resting THEN r[s].node ELSE d
  BY <1>1 DEF Projected
<1> HIDE DEF q
<1>3. ASSUME NEW S \in SUBSET Nodes, S # {}, \A n \in S : q[n].node \in S
      PROVE  FALSE
  <2>1. s \in S /\ m.type \notin Resting
    <3>1. PICK n \in S : r[n].node \notin S
      BY <1>3 DEF Acyclic
    <3>2. q[n].node \in S
      BY <1>3
    <3>3. n \in Subjects
      BY <1>1
    <3>4. n = s
      BY <1>1, <3>1, <3>2, <3>3
    <3> QED
      BY <1>2, <3>1, <3>2, <3>4
  <2>2. d \in S
    BY <1>2, <1>3, <2>1
  <2>3. None \notin S
    BY <1>1, LogisticsAssumption
  <2> DEFINE c == Climb(r, d)
  <2>4. PICK top \in 1 .. MaxDepth : c[top] = None /\ \A k \in 1 .. (top - 1) : c[k] # s
    BY <2>1, <2>2, <2>3 DEF Accepts, AcyclicDestination
  <2>5. /\ c[1] = d
        /\ \A k \in 2 .. MaxDepth : c[k] = IF c[k - 1] = None THEN None ELSE r[c[k - 1]].node
    BY ClimbSteps
  <2> HIDE DEF c
  <2> DEFINE Out == {k \in 1 .. top : c[k] \notin S}
  <2>6. PICK k \in Out : \A j \in Out : k <= j
    <3>1. top \in Out
      BY <2>3, <2>4
    <3>2. Out \subseteq Nat
      OBVIOUS
    <3> HIDE DEF Out
    <3> QED
      BY <3>1, <3>2, LeastNumber
  <2>7. k # 1
    BY <2>2, <2>5, <2>6
  <2>8. k \in 2 .. MaxDepth /\ k - 1 \in 1 .. (top - 1) /\ k - 1 \in 1 .. top
    BY <2>6, <2>7, LogisticsAssumption
  <2>9. c[k - 1] \in S
    <3>1. k - 1 \notin Out
      <4> SUFFICES ASSUME k - 1 \in Out PROVE FALSE
        OBVIOUS
      <4>1. k <= k - 1
        BY <2>6
      <4> QED
        BY <2>8, <4>1
    <3> QED
      BY <2>8, <3>1
  <2>10. c[k - 1] # s /\ c[k - 1] # None
    BY <2>3, <2>4, <2>8, <2>9
  <2>11. c[k] = q[c[k - 1]].node
    BY <1>1, <2>5, <2>8, <2>9, <2>10
  <2> QED
    BY <1>3, <2>6, <2>9, <2>11
<1>4. Acyclic(q)
  BY <1>3 DEF Acyclic
<1>5. KindsFit(q)
  <2> SUFFICES ASSUME NEW n \in Nodes, q[n].node # None
               PROVE  KindOf[q[n].node] \in ParentKinds[KindOf[n]]
    BY DEF KindsFit
  <2>1. CASE n = s /\ m.type \notin Resting
    BY <1>2, <2>1 DEF Accepts, ParentKindFits
  <2>2. CASE n # s \/ m.type \in Resting
    <3>1. q[n].node = r[n].node
      BY <1>1, <1>2, <2>2
    <3> QED
      BY <3>1 DEF KindsFit
  <2> QED
    BY <2>1, <2>2
<1> QED
  BY <1>4, <1>5 DEF q

\* A nonempty set of places of the log has a last one.
LEMMA LastExists ==
    ASSUME NEW n \in Nat, NEW places \in SUBSET (1 .. n), places # {}
    PROVE  LastOf(places) \in places
<1> DEFINE Above == {k \in 0 .. n : \A j \in places : j <= k}
<1>1. PICK k \in Above : \A j \in Above : k <= j
  <2>1. n \in Above /\ Above \subseteq Nat
    OBVIOUS
  <2> HIDE DEF Above
  <2> QED
    BY <2>1, LeastNumber
<1>2. k \in places
  <2> SUFFICES ASSUME k \notin places PROVE FALSE
    OBVIOUS
  <2>1. \A j \in places : j \in 1 .. n /\ j <= k /\ j # k
    BY <1>1
  <2>2. k - 1 \in Above
    <3>1. PICK i \in places : TRUE
      OBVIOUS
    <3>2. k \in Nat /\ i \in Nat /\ 1 <= i /\ i <= k /\ i # k /\ k <= n
      BY <2>1, <1>1
    <3>3. k - 1 \in 0 .. n
      BY <3>2
    <3>4. \A j \in places : j <= k - 1
      BY <2>1
    <3> QED
      BY <3>3, <3>4
  <2>3. k <= k - 1
    BY <1>1, <2>2
  <2> QED
    BY <2>3
<1>3. \A j \in places : j <= k
  BY <1>1
<1> QED
  BY <1>2, <1>3 DEF LastOf

\* The place after all others is the last one.
LEMMA LastAppended ==
    ASSUME NEW n \in Nat, NEW places \in SUBSET (1 .. n)
    PROVE  LastOf(places \cup {n + 1}) = n + 1
<1> DEFINE all == places \cup {n + 1}
<1>1. n + 1 \in all /\ \A j \in all : j <= n + 1
  OBVIOUS
<1>2. \A i \in all : (\A j \in all : j <= i) => i = n + 1
  OBVIOUS
<1> HIDE DEF all
<1>3. LastOf(all) = n + 1
  BY <1>1, <1>2 DEF LastOf
<1> QED
  BY <1>3 DEF all

\* An appended event of another subject changes nothing for the reader of s.
LEMMA OtherEventReplays ==
    ASSUME NEW l \in Seq(LogEvent), NEW e \in LogEvent, NEW s, e.subject # s,
           NEW row, RowReplays(row, l, s)
    PROVE  RowReplays(row, Append(l, e), s)
<1> DEFINE n == Len(l)
           l2 == Append(l, e)
           events == EventsOf(l, s)
           moves == {i \in events : l[i].type \notin Resting}
           counts == {i \in events : l[i].type \in {"receive", "count"}}
<1>1. /\ n \in Nat /\ DOMAIN l = 1 .. n /\ DOMAIN l2 = 1 .. n + 1
      /\ \A i \in 1 .. n : l2[i] = l[i]
      /\ l2[n + 1] = e
  OBVIOUS
<1> HIDE DEF n, l2
<1>2. EventsOf(l2, s) = events
  BY <1>1 DEF EventsOf
<1>3. events \in SUBSET (1 .. n) /\ moves \in SUBSET (1 .. n) /\ counts \in SUBSET (1 .. n)
  BY <1>1 DEF EventsOf
<1>4. /\ {i \in events : l2[i].type \notin Resting} = moves
      /\ {i \in events : l2[i].type \in {"receive", "count"}} = counts
      /\ \A i \in events : l2[i].sequence = l[i].sequence
  BY <1>1, <1>3
<1>5. /\ moves # {} => l2[LastOf(moves)] = l[LastOf(moves)]
      /\ counts # {} => l2[LastOf(counts)] = l[LastOf(counts)]
      /\ events # {} => l2[LastOf(events)] = l[LastOf(events)]
  BY <1>1, <1>3, LastExists
<1>6. RowReplays(row, l2, s)
  <2>1. /\ row.sequence = Cardinality(events)
        /\ \A i \in events : l[i].sequence = Cardinality(events \cap 1..i)
        /\ row.node = IF moves = {} THEN None ELSE l[LastOf(moves)].destination
        /\ row.custodian = IF events = {} THEN None ELSE l[LastOf(events)].custodian
        /\ s \in Lots =>
             row.quantity = IF counts = {} THEN None ELSE l[LastOf(counts)].quantity
    BY DEF RowReplays
  <2> HIDE DEF events, moves, counts
  <2>2. /\ \A i \in events : l2[i].sequence = Cardinality(events \cap 1..i)
        /\ row.node = IF moves = {} THEN None ELSE l2[LastOf(moves)].destination
        /\ row.custodian = IF events = {} THEN None ELSE l2[LastOf(events)].custodian
        /\ s \in Lots =>
             row.quantity = IF counts = {} THEN None ELSE l2[LastOf(counts)].quantity
    BY <1>4, <1>5, <2>1
  <2> QED
    BY <1>2, <1>4, <2>1, <2>2 DEF RowReplays
<1> QED
  BY <1>6 DEF l2

\* The event of a movement is well formed.
LEMMA EventTyped ==
    ASSUME NEW r, RowsOK(r), NEW m \in Movement, NEW scan \in 0 .. MaxScans
    PROVE  Event(r, m, scan) \in LogEvent
<1> DEFINE row == r[m.subject]
           e == Event(r, m, scan)
<1>1. row \in Row /\ m.subject \in Subjects
  BY DEF RowsOK, Movement
<1>2. row.sequence + 1 \in Nat
  BY <1>1 DEF Row
<1>3. Projected(row, m).custodian \in {None, "party"}
  BY <1>1 DEF Row, Movement, Projected
<1>4. Discrepancy(row, m) \in BOOLEAN
  BY DEF Discrepancy
<1> QED
  BY <1>1, <1>2, <1>3, <1>4 DEF Event, LogEvent, Movement

\* The row after a movement is what a reader of the longer log derives.
LEMMA OwnEventReplays ==
    ASSUME NEW r, RowsOK(r), NEW l \in Seq(LogEvent), NEW m \in Movement,
           NEW scan \in 0 .. MaxScans, RowReplays(r[m.subject], l, m.subject)
    PROVE  RowReplays(Projected(r[m.subject], m), Append(l, Event(r, m, scan)), m.subject)
<1> DEFINE s == m.subject
           row == r[s]
           new == Projected(row, m)
           e == Event(r, m, scan)
           n == Len(l)
           l2 == Append(l, e)
           events == EventsOf(l, s)
           moves == {i \in events : l[i].type \notin Resting}
           counts == {i \in events : l[i].type \in {"receive", "count"}}
           events2 == EventsOf(l2, s)
           moves2 == {i \in events2 : l2[i].type \notin Resting}
           counts2 == {i \in events2 : l2[i].type \in {"receive", "count"}}
<1>1. /\ n \in Nat /\ DOMAIN l = 1 .. n
      /\ \A i \in 1 .. n : l2[i] = l[i]
      /\ l2[n + 1] = e
  BY EventTyped
<1>2. DOMAIN l2 = 1 .. n + 1
  BY EventTyped
<1>3. /\ e.subject = s /\ e.type = m.type /\ e.sequence = row.sequence + 1
      /\ e.destination = m.destination /\ e.custodian = new.custodian
      /\ e.quantity = m.quantity
  BY DEF Event
<1>4. /\ row.sequence = Cardinality(events)
      /\ \A i \in events : l[i].sequence = Cardinality(events \cap 1..i)
      /\ row.node = IF moves = {} THEN None ELSE l[LastOf(moves)].destination
      /\ row.custodian = IF events = {} THEN None ELSE l[LastOf(events)].custodian
      /\ s \in Lots =>
           row.quantity = IF counts = {} THEN None ELSE l[LastOf(counts)].quantity
  BY DEF RowReplays
<1>5. /\ new.sequence = row.sequence + 1
      /\ new.node = IF m.type \in Resting THEN row.node ELSE m.destination
      /\ new.quantity = IF s \in Lots /\ m.type \in {"receive", "count"}
                          THEN m.quantity ELSE row.quantity
  BY DEF Projected
<1> HIDE DEF l2, n, e, new, row
<1>6. events2 = events \cup {n + 1}
  BY <1>1, <1>2, <1>3 DEF EventsOf
<1>7. events \in SUBSET (1 .. n) /\ moves \in SUBSET (1 .. n) /\ counts \in SUBSET (1 .. n)
  BY <1>1 DEF EventsOf
<1> HIDE DEF events, events2
<1>8. n + 1 \notin 1 .. n
  BY <1>1
<1>9. /\ m.type \in Resting => moves2 = moves
      /\ m.type \notin Resting => moves2 = moves \cup {n + 1}
  BY <1>1, <1>3, <1>6, <1>7, <1>8
<1>10. /\ m.type \notin {"receive", "count"} => counts2 = counts
       /\ m.type \in {"receive", "count"} => counts2 = counts \cup {n + 1}
  BY <1>1, <1>3, <1>6, <1>7, <1>8
<1> HIDE DEF moves, counts, moves2, counts2
<1>11. Cardinality(events2) = row.sequence + 1
  <2>1. IsFiniteSet(events)
    <3>1. IsFiniteSet(1 .. n)
      BY <1>1, FS_Interval
    <3> QED
      BY <1>7, <3>1, FS_Subset
  <2> QED
    BY <1>4, <1>6, <1>7, <1>8, <2>1, FS_AddElement
<1>12. ASSUME NEW i \in events2 PROVE l2[i].sequence = Cardinality(events2 \cap 1..i)
  <2>1. CASE i = n + 1
    <3>1. events2 \subseteq 1 .. i
      BY <1>1, <1>6, <1>7, <2>1
    <3>2. events2 \cap 1..i = events2
      BY <3>1
    <3> QED
      BY <1>1, <1>3, <1>11, <2>1, <3>2
  <2>2. CASE i \in events
    <3>1. n + 1 \notin 1 .. i
      BY <1>1, <1>7, <2>2
    <3>2. events2 \cap 1..i = events \cap 1..i
      BY <1>6, <3>1
    <3> QED
      BY <1>1, <1>4, <1>7, <2>2, <3>2
  <2> QED
    BY <1>6, <2>1, <2>2
<1>13. new.node = IF moves2 = {} THEN None ELSE l2[LastOf(moves2)].destination
  <2>1. CASE m.type \in Resting
    <3>1. moves # {} => l2[LastOf(moves)] = l[LastOf(moves)]
      BY <1>1, <1>7, LastExists
    <3> QED
      BY <1>4, <1>5, <1>9, <2>1, <3>1
  <2>2. CASE m.type \notin Resting
    <3>1. LastOf(moves2) = n + 1
      BY <1>1, <1>7, <1>9, <2>2, LastAppended
    <3> QED
      BY <1>1, <1>3, <1>5, <1>9, <2>2, <3>1
  <2> QED
    BY <2>1, <2>2
<1>14. new.custodian = IF events2 = {} THEN None ELSE l2[LastOf(events2)].custodian
  <2>1. LastOf(events2) = n + 1
    BY <1>1, <1>6, <1>7, LastAppended
  <2> QED
    BY <1>1, <1>3, <1>6, <2>1
<1>15. ASSUME s \in Lots
       PROVE  new.quantity = IF counts2 = {} THEN None ELSE l2[LastOf(counts2)].quantity
  <2>1. CASE m.type \notin {"receive", "count"}
    <3>1. counts # {} => l2[LastOf(counts)] = l[LastOf(counts)]
      BY <1>1, <1>7, LastExists
    <3> QED
      BY <1>4, <1>5, <1>10, <1>15, <2>1, <3>1
  <2>2. CASE m.type \in {"receive", "count"}
    <3>1. LastOf(counts2) = n + 1
      BY <1>1, <1>7, <1>10, <2>2, LastAppended
    <3> QED
      BY <1>1, <1>3, <1>5, <1>10, <1>15, <2>2, <3>1
  <2> QED
    BY <2>1, <2>2
<1>16. RowReplays(new, l2, s)
  BY <1>5, <1>11, <1>12, <1>13, <1>14, <1>15 DEF RowReplays, events2, moves2, counts2
<1> QED
  BY <1>16 DEF new, l2, e, row

\* After a movement every row is what a reader of the log derives.
LEMMA MovementReplays ==
    ASSUME NEW r, RowsOK(r), NEW l \in Seq(LogEvent), NEW m \in Movement,
           NEW scan \in 0 .. MaxScans, \A s \in Subjects : RowReplays(r[s], l, s)
    PROVE  \A s \in Subjects :
              RowReplays([r EXCEPT ![m.subject] = Projected(@, m)][s],
                         Append(l, Event(r, m, scan)), s)
<1> TAKE s \in Subjects
<1>1. m.subject \in Subjects /\ Event(r, m, scan) \in LogEvent
  BY EventTyped DEF Movement
<1>2. [r EXCEPT ![m.subject] = Projected(@, m)][s]
        = IF s = m.subject THEN Projected(r[m.subject], m) ELSE r[s]
  BY <1>1 DEF RowsOK
<1>3. CASE s = m.subject
  BY <1>1, <1>2, <1>3, OwnEventReplays
<1>4. CASE s # m.subject
  <2>1. Event(r, m, scan).subject # s
    BY <1>4 DEF Event
  <2>2. RowReplays(r[s], Append(l, Event(r, m, scan)), s)
    BY <1>1, <2>1, OtherEventReplays
  <2> QED
    BY <1>2, <1>4, <2>2
<1> QED
  BY <1>3, <1>4

\* Operations stay in order when the log grows.
LEMMA GrowingLogKeepsFilings ==
    ASSUME NEW l \in Seq(LogEvent), NEW e \in LogEvent, NEW rc, NEW filed,
           FilingsOK(filed, l, rc)
    PROVE  FilingsOK(filed, Append(l, e), rc)
<1> DEFINE l2 == Append(l, e)
<1>1. DOMAIN l \subseteq DOMAIN l2 /\ \A i \in DOMAIN l : l2[i] = l[i]
  OBVIOUS
<1> HIDE DEF l2
<1>2. \A op : OperationOK(op, l, rc) => OperationOK(op, l2, rc)
  BY <1>1 DEF OperationOK
<1>3. FilingsOK(filed, l2, rc)
  BY <1>2 DEF FilingsOK
<1> QED
  BY <1>3 DEF l2

\* An event recorded on line concerns no receipt.
LEMMA OnlineEventKeepsReceipts ==
    ASSUME NEW l \in Seq(LogEvent), NEW e \in LogEvent, e.scan = 0, NEW rc, ReceiptsOK(l, rc)
    PROVE  ReceiptsOK(Append(l, e), rc)
<1> DEFINE l2 == Append(l, e)
           n == Len(l)
<1>1. /\ n \in Nat /\ DOMAIN l = 1 .. n /\ DOMAIN l2 = 1 .. n + 1 /\ Len(l2) = n + 1
      /\ \A i \in 1 .. n : l2[i] = l[i]
      /\ l2[n + 1] = e
  OBVIOUS
<1> HIDE DEF l2, n
<1>2. ReceiptsOK(l2, rc)
  <2> SUFFICES ASSUME NEW k \in 1 .. MaxScans
               PROVE  /\ rc[k].event \in 0 .. Len(l2)
                      /\ \A i \in DOMAIN l2 : l2[i].scan = k <=> rc[k].event = i
                      /\ rc[k].event # 0 => rc[k].discrepancy = l2[rc[k].event].discrepancy
                      /\ rc[k] # NoReceipt => rc[k].position > 0
                      /\ rc[k] # NoReceipt /\ rc[k].event = 0 => rc[k].discrepancy
    BY DEF ReceiptsOK
  <2>1. /\ rc[k].event \in 0 .. n
        /\ \A i \in 1 .. n : l[i].scan = k <=> rc[k].event = i
        /\ rc[k].event # 0 => rc[k].discrepancy = l[rc[k].event].discrepancy
        /\ rc[k] # NoReceipt => rc[k].position > 0
        /\ rc[k] # NoReceipt /\ rc[k].event = 0 => rc[k].discrepancy
    BY <1>1 DEF ReceiptsOK, n
  <2>2. rc[k].event \in 0 .. Len(l2) /\ rc[k].event # n + 1
    BY <1>1, <2>1
  <2>3. \A i \in DOMAIN l2 : l2[i].scan = k <=> rc[k].event = i
    <3> TAKE i \in DOMAIN l2
    <3>1. CASE i = n + 1
      BY <1>1, <2>2, <3>1
    <3>2. CASE i \in 1 .. n
      BY <1>1, <2>1, <3>2
    <3> QED
      BY <1>1, <3>1, <3>2
  <2>4. rc[k].event # 0 => rc[k].discrepancy = l2[rc[k].event].discrepancy
    BY <1>1, <2>1
  <2> QED
    BY <2>1, <2>2, <2>3, <2>4
<1> QED
  BY <1>2 DEF l2

\* A movement recorded on line keeps the store in order.
LEMMA MovementKeepsStore ==
    ASSUME NEW r, NEW l, NEW v, NEW rc, NEW filed, StoreOK(r, l, v, rc, filed),
           NEW m \in Movement, NEW expected, Accepts(r, l, m, expected)
    PROVE  StoreOK([r EXCEPT ![m.subject] = Projected(@, m)], Append(l, Event(r, m, 0)), v + 1,
                   rc, filed)
<1> DEFINE q == [r EXCEPT ![m.subject] = Projected(@, m)]
           e == Event(r, m, 0)
<1>1. RowsOK(r) /\ l \in Seq(LogEvent) /\ \A s \in Subjects : RowReplays(r[s], l, s)
  BY DEF StoreOK
<1>2. 0 \in 0 .. MaxScans
  BY LogisticsAssumption
<1>3. e \in LogEvent /\ e.scan = 0
  BY <1>1, <1>2, EventTyped DEF Event
<1>4. RowsOK(q)
  BY <1>1, MovementKeepsRows
<1>5. Acyclic(q) /\ KindsFit(q)
  BY <1>1, MovementKeepsTree DEF StoreOK
<1>6. \A s \in Subjects : RowReplays(q[s], Append(l, e), s)
  BY <1>1, <1>2, MovementReplays
<1>7. ReceiptsOK(Append(l, e), rc)
  BY <1>1, <1>3, OnlineEventKeepsReceipts DEF StoreOK
<1>8. FilingsOK(filed, Append(l, e), rc)
  BY <1>1, <1>3, GrowingLogKeepsFilings DEF StoreOK
<1>9. Append(l, e) \in Seq(LogEvent) /\ v + 1 = Len(Append(l, e))
  BY <1>1, <1>3 DEF StoreOK
<1> HIDE DEF q, e
<1>10. StoreOK(q, Append(l, e), v + 1, rc, filed)
  BY <1>4, <1>5, <1>6, <1>7, <1>8, <1>9 DEF StoreOK
<1> QED
  BY <1>10 DEF q, e

-----------------------------------------------------------------------------
(***************************************************************************)
(* One operation of a batch                                                *)
(***************************************************************************)

\* The lists of operations when the list of the running batch gets one more.
LEMMA OneMoreOperation ==
    ASSUME NEW earlier \in Seq(Seq(Operation)), NEW ops \in Seq(Operation), NEW op \in Operation
    PROVE  LET now == Append(earlier, ops)
               next == Append(earlier, Append(ops, op))
               b == Len(earlier) + 1
               i == Len(ops) + 1
           IN /\ now \in Seq(Seq(Operation)) /\ next \in Seq(Seq(Operation))
              /\ DOMAIN next = DOMAIN now
              /\ b \in DOMAIN next /\ i \in DOMAIN next[b] /\ next[b][i] = op
              /\ \A c \in DOMAIN now : \A j \in DOMAIN now[c] :
                    j \in DOMAIN next[c] /\ next[c][j] = now[c][j]
              /\ \A c \in DOMAIN next : \A j \in DOMAIN next[c] :
                    (c = b /\ j = i) \/ j \in DOMAIN now[c]
<1> DEFINE now == Append(earlier, ops)
           more == Append(ops, op)
           next == Append(earlier, more)
           n == Len(earlier)
           k == Len(ops)
<1>1. /\ more \in Seq(Operation)
      /\ k \in Nat /\ DOMAIN ops = 1 .. k /\ DOMAIN more = 1 .. k + 1
      /\ \A j \in 1 .. k : more[j] = ops[j]
      /\ more[k + 1] = op
  OBVIOUS
<1> HIDE DEF more, k
<1>2. /\ now \in Seq(Seq(Operation)) /\ next \in Seq(Seq(Operation))
      /\ n \in Nat /\ DOMAIN now = 1 .. n + 1 /\ DOMAIN next = 1 .. n + 1
      /\ \A c \in 1 .. n : now[c] = earlier[c] /\ next[c] = earlier[c]
      /\ now[n + 1] = ops /\ next[n + 1] = more
  BY <1>1
<1> HIDE DEF now, next, n
<1>3. n + 1 \in DOMAIN next /\ k + 1 \in DOMAIN next[n + 1] /\ next[n + 1][k + 1] = op
  BY <1>1, <1>2
<1>4. ASSUME NEW c \in DOMAIN now, NEW j \in DOMAIN now[c]
      PROVE  j \in DOMAIN next[c] /\ next[c][j] = now[c][j]
  <2>1. CASE c = n + 1
    BY <1>1, <1>2, <2>1
  <2>2. CASE c \in 1 .. n
    BY <1>2, <2>2
  <2> QED
    BY <1>2, <2>1, <2>2
<1>5. ASSUME NEW c \in DOMAIN next, NEW j \in DOMAIN next[c]
      PROVE  (c = n + 1 /\ j = k + 1) \/ j \in DOMAIN now[c]
  <2>1. CASE c = n + 1
    BY <1>1, <1>2, <2>1
  <2>2. CASE c \in 1 .. n
    BY <1>2, <2>2
  <2> QED
    BY <1>2, <2>1, <2>2
<1> QED
  BY <1>2, <1>3, <1>4, <1>5 DEF now, next, n, k, more

\* An operation that repeats or reuses a key is filed beside the first one.
LEMMA FileAgain ==
    ASSUME NEW earlier \in Seq(Seq(Operation)), NEW ops \in Seq(Operation), NEW op \in Operation,
           NEW l, NEW rc, FilingsOK(Append(earlier, ops), l, rc),
           OperationOK(op, l, rc), ~ FiledFirst(op)
    PROVE  FilingsOK(Append(earlier, Append(ops, op)), l, rc)
<1> DEFINE now == Append(earlier, ops)
           next == Append(earlier, Append(ops, op))
           b == Len(earlier) + 1
           i == Len(ops) + 1
<1>1. /\ DOMAIN next = DOMAIN now
      /\ b \in DOMAIN next /\ i \in DOMAIN next[b] /\ next[b][i] = op
      /\ \A c \in DOMAIN now : \A j \in DOMAIN now[c] :
            j \in DOMAIN next[c] /\ next[c][j] = now[c][j]
      /\ \A c \in DOMAIN next : \A j \in DOMAIN next[c] :
            (c = b /\ j = i) \/ j \in DOMAIN now[c]
  BY OneMoreOperation
<1>2. FilingsOK(now, l, rc)
  OBVIOUS
<1> HIDE DEF now, next, b, i
<1>3. \A c \in DOMAIN next : \A j \in DOMAIN next[c] : OperationOK(next[c][j], l, rc)
  BY <1>1, <1>2 DEF FilingsOK
<1>4. \A k \in 1 .. MaxScans : rc[k] # NoReceipt =>
         \E c \in DOMAIN next : \E j \in DOMAIN next[c] :
            next[c][j].key = k /\ FiledFirst(next[c][j])
  <2> SUFFICES ASSUME NEW k \in 1 .. MaxScans, rc[k] # NoReceipt
               PROVE  \E c \in DOMAIN next : \E j \in DOMAIN next[c] :
                         next[c][j].key = k /\ FiledFirst(next[c][j])
    OBVIOUS
  <2>1. PICK c \in DOMAIN now : \E j \in DOMAIN now[c] : now[c][j].key = k /\ FiledFirst(now[c][j])
    BY <1>2 DEF FilingsOK
  <2>2. PICK j \in DOMAIN now[c] : now[c][j].key = k /\ FiledFirst(now[c][j])
    BY <2>1
  <2> QED
    BY <1>1, <2>2
<1>5. \A c, d \in DOMAIN next : \A j \in DOMAIN next[c], k \in DOMAIN next[d] :
         FiledFirst(next[c][j]) /\ FiledFirst(next[d][k])
           /\ next[c][j].key = next[d][k].key => c = d /\ j = k
  <2> SUFFICES ASSUME NEW c \in DOMAIN next, NEW d \in DOMAIN next,
                      NEW j \in DOMAIN next[c], NEW k \in DOMAIN next[d],
                      FiledFirst(next[c][j]), FiledFirst(next[d][k]),
                      next[c][j].key = next[d][k].key
               PROVE  c = d /\ j = k
    OBVIOUS
  <2>1. j \in DOMAIN now[c] /\ next[c][j] = now[c][j] /\ c \in DOMAIN now
    BY <1>1
  <2>2. k \in DOMAIN now[d] /\ next[d][k] = now[d][k] /\ d \in DOMAIN now
    BY <1>1
  <2> QED
    BY <2>1, <2>2, <1>2 DEF FilingsOK
<1>6. FilingsOK(next, l, rc)
  BY <1>3, <1>4, <1>5 DEF FilingsOK
<1> QED
  BY <1>6 DEF next

\* An operation that files a key for the first time gives the key its receipt.
LEMMA FileFirst ==
    ASSUME NEW earlier \in Seq(Seq(Operation)), NEW ops \in Seq(Operation), NEW op \in Operation,
           NEW l, NEW rc, FilingsOK(Append(earlier, ops), l, rc),
           rc \in [1 .. MaxScans -> Receipt], rc[op.key] = NoReceipt,
           NEW receipt \in Receipt,
           OperationOK(op, l, [rc EXCEPT ![op.key] = receipt]), FiledFirst(op)
    PROVE  FilingsOK(Append(earlier, Append(ops, op)), l, [rc EXCEPT ![op.key] = receipt])
<1> DEFINE now == Append(earlier, ops)
           next == Append(earlier, Append(ops, op))
           b == Len(earlier) + 1
           i == Len(ops) + 1
           rc2 == [rc EXCEPT ![op.key] = receipt]
<1>1. /\ DOMAIN next = DOMAIN now
      /\ b \in DOMAIN next /\ i \in DOMAIN next[b] /\ next[b][i] = op
      /\ \A c \in DOMAIN now : \A j \in DOMAIN now[c] :
            j \in DOMAIN next[c] /\ next[c][j] = now[c][j]
      /\ \A c \in DOMAIN next : \A j \in DOMAIN next[c] :
            (c = b /\ j = i) \/ j \in DOMAIN now[c]
  BY OneMoreOperation
<1>2. /\ op.key \in 1 .. MaxScans
      /\ \A k \in 1 .. MaxScans : k # op.key => rc2[k] = rc[k]
  BY DEF Operation
<1>3. now \in Seq(Seq(Operation))
  OBVIOUS
<1>4. FilingsOK(now, l, rc)
  OBVIOUS
<1> HIDE DEF now, next, b, i, rc2
<1>5. ASSUME NEW c \in DOMAIN now, NEW j \in DOMAIN now[c]
      PROVE  now[c][j].key # op.key /\ OperationOK(now[c][j], l, rc2)
  <2>1. OperationOK(now[c][j], l, rc) /\ rc[now[c][j].key] # NoReceipt
    BY <1>4 DEF FilingsOK, OperationOK
  <2>2. now[c][j].key \in 1 .. MaxScans
    <3>1. now[c][j] \in Operation
      <4>1. now[c] \in Seq(Operation)
        BY <1>3
      <4> QED
        BY <4>1
    <3> QED
      BY <3>1 DEF Operation
  <2>3. now[c][j].key # op.key
    BY <2>1
  <2>4. rc2[now[c][j].key] = rc[now[c][j].key]
    BY <1>2, <2>2, <2>3
  <2> QED
    BY <2>1, <2>3, <2>4 DEF OperationOK
<1>6. \A c \in DOMAIN next : \A j \in DOMAIN next[c] : OperationOK(next[c][j], l, rc2)
  BY <1>1, <1>5 DEF rc2
<1>7. \A k \in 1 .. MaxScans : rc2[k] # NoReceipt =>
         \E c \in DOMAIN next : \E j \in DOMAIN next[c] :
            next[c][j].key = k /\ FiledFirst(next[c][j])
  <2> SUFFICES ASSUME NEW k \in 1 .. MaxScans, rc2[k] # NoReceipt
               PROVE  \E c \in DOMAIN next : \E j \in DOMAIN next[c] :
                         next[c][j].key = k /\ FiledFirst(next[c][j])
    OBVIOUS
  <2>1. CASE k = op.key
    BY <1>1, <2>1
  <2>2. CASE k # op.key
    <3>1. rc[k] # NoReceipt
      BY <1>2, <2>2
    <3>2. PICK c \in DOMAIN now : \E j \in DOMAIN now[c] : now[c][j].key = k /\ FiledFirst(now[c][j])
      BY <3>1, <1>4 DEF FilingsOK
    <3>3. PICK j \in DOMAIN now[c] : now[c][j].key = k /\ FiledFirst(now[c][j])
      BY <3>2
    <3> QED
      BY <1>1, <3>3
  <2> QED
    BY <2>1, <2>2
<1>8. \A c, d \in DOMAIN next : \A j \in DOMAIN next[c], k \in DOMAIN next[d] :
         FiledFirst(next[c][j]) /\ FiledFirst(next[d][k])
           /\ next[c][j].key = next[d][k].key => c = d /\ j = k
  <2> SUFFICES ASSUME NEW c \in DOMAIN next, NEW d \in DOMAIN next,
                      NEW j \in DOMAIN next[c], NEW k \in DOMAIN next[d],
                      FiledFirst(next[c][j]), FiledFirst(next[d][k]),
                      next[c][j].key = next[d][k].key
               PROVE  c = d /\ j = k
    OBVIOUS
  <2>1. CASE c = b /\ j = i
    <3>1. ~ (k \in DOMAIN now[d])
      BY <1>1, <1>5, <2>1
    <3> QED
      BY <1>1, <2>1, <3>1
  <2>2. CASE d = b /\ k = i
    <3>1. ~ (j \in DOMAIN now[c])
      BY <1>1, <1>5, <2>2
    <3> QED
      BY <1>1, <2>2, <3>1
  <2>3. CASE j \in DOMAIN now[c] /\ k \in DOMAIN now[d]
    <3>1. c \in DOMAIN now /\ next[c][j] = now[c][j]
      BY <1>1, <2>3
    <3>2. d \in DOMAIN now /\ next[d][k] = now[d][k]
      BY <1>1, <2>3
    <3> QED
      BY <2>3, <3>1, <3>2, <1>4 DEF FilingsOK
  <2> QED
    BY <1>1, <2>1, <2>2, <2>3
<1>9. FilingsOK(next, l, rc2)
  BY <1>6, <1>7, <1>8 DEF FilingsOK
<1> QED
  BY <1>9 DEF next, rc2

\* A first operation without an event leaves a receipt that asks for review.
LEMMA ReviewKeepsReceipts ==
    ASSUME NEW l \in Seq(LogEvent), NEW rc, ReceiptsOK(l, rc), NEW key \in 1 .. MaxScans,
           rc[key] = NoReceipt, NEW position \in Nat \ {0}
    PROVE  ReceiptsOK(l, [rc EXCEPT ![key] =
                            [position |-> position, event |-> 0, discrepancy |-> TRUE]])
<1> DEFINE receipt == [position |-> position, event |-> 0, discrepancy |-> TRUE]
           rc2 == [rc EXCEPT ![key] = receipt]
<1>1. /\ rc2 \in [1 .. MaxScans -> Receipt]
      /\ \A k \in 1 .. MaxScans : rc2[k] = IF k = key THEN receipt ELSE rc[k]
  BY DEF ReceiptsOK, Receipt
<1>2. /\ receipt.event = 0 /\ receipt.discrepancy /\ receipt.position > 0
      /\ rc[key].event = 0
  BY DEF NoReceipt
<1>3. Len(l) \in Nat /\ 0 \in 0 .. Len(l) /\ \A i \in DOMAIN l : i # 0
  OBVIOUS
<1> HIDE DEF rc2, receipt
<1>4. ReceiptsOK(l, rc2)
  BY <1>1, <1>2, <1>3 DEF ReceiptsOK
<1> QED
  BY <1>4 DEF rc2, receipt

\* An applied operation leaves a receipt that names its event.
LEMMA ApplyKeepsReceipts ==
    ASSUME NEW l \in Seq(LogEvent), NEW rc, ReceiptsOK(l, rc), NEW key \in 1 .. MaxScans,
           rc[key] = NoReceipt, NEW position \in Nat \ {0},
           NEW e \in LogEvent, e.scan = key
    PROVE  ReceiptsOK(Append(l, e),
                      [rc EXCEPT ![key] =
                         [position |-> position, event |-> Len(l) + 1,
                          discrepancy |-> e.discrepancy]])
<1> DEFINE n == Len(l)
           l2 == Append(l, e)
           receipt == [position |-> position, event |-> n + 1, discrepancy |-> e.discrepancy]
           rc2 == [rc EXCEPT ![key] = receipt]
<1>1. /\ n \in Nat /\ DOMAIN l = 1 .. n /\ DOMAIN l2 = 1 .. n + 1 /\ Len(l2) = n + 1
      /\ \A i \in 1 .. n : l2[i] = l[i]
      /\ l2[n + 1] = e
  OBVIOUS
<1>2. /\ rc2 \in [1 .. MaxScans -> Receipt]
      /\ \A k \in 1 .. MaxScans : rc2[k] = IF k = key THEN receipt ELSE rc[k]
  BY DEF ReceiptsOK, Receipt, LogEvent
<1>3. /\ receipt.event = n + 1 /\ receipt.discrepancy = e.discrepancy /\ receipt.position > 0
      /\ rc[key].event = 0
  BY DEF NoReceipt
<1>4. \A k \in 1 .. MaxScans :
         /\ rc[k].event \in 0 .. n
         /\ \A i \in 1 .. n : l[i].scan = k <=> rc[k].event = i
         /\ rc[k].event # 0 => rc[k].discrepancy = l[rc[k].event].discrepancy
         /\ rc[k] # NoReceipt => rc[k].position > 0
         /\ rc[k] # NoReceipt /\ rc[k].event = 0 => rc[k].discrepancy
  BY <1>1 DEF ReceiptsOK
<1> HIDE DEF rc2, receipt, l2, n
<1>5. ASSUME NEW k \in 1 .. MaxScans
      PROVE  /\ rc2[k].event \in 0 .. Len(l2)
             /\ \A i \in DOMAIN l2 : l2[i].scan = k <=> rc2[k].event = i
             /\ rc2[k].event # 0 => rc2[k].discrepancy = l2[rc2[k].event].discrepancy
             /\ rc2[k] # NoReceipt => rc2[k].position > 0
             /\ rc2[k] # NoReceipt /\ rc2[k].event = 0 => rc2[k].discrepancy
  <2>1. CASE k = key
    <3>1. rc2[k] = receipt
      BY <1>2, <2>1
    <3>2. \A i \in DOMAIN l2 : l2[i].scan = k <=> n + 1 = i
      <4> TAKE i \in DOMAIN l2
      <4>1. CASE i = n + 1
        BY <1>1, <2>1, <4>1
      <4>2. CASE i \in 1 .. n
        <5>1. l[i].scan # k
          BY <1>3, <1>4, <2>1, <4>2
        <5> QED
          BY <1>1, <4>2, <5>1
      <4> QED
        BY <1>1, <4>1, <4>2
    <3> QED
      BY <1>1, <1>3, <3>1, <3>2
  <2>2. CASE k # key
    <3>1. rc2[k] = rc[k]
      BY <1>2, <2>2
    <3>2. rc[k].event \in 0 .. n /\ rc[k].event # n + 1 /\ rc[k].event \in 0 .. Len(l2)
      BY <1>1, <1>4
    <3>3. \A i \in DOMAIN l2 : l2[i].scan = k <=> rc[k].event = i
      <4> TAKE i \in DOMAIN l2
      <4>1. CASE i = n + 1
        BY <1>1, <2>2, <3>2, <4>1
      <4>2. CASE i \in 1 .. n
        BY <1>1, <1>4, <4>2
      <4> QED
        BY <1>1, <4>1, <4>2
    <3>4. rc[k].event # 0 => rc[k].discrepancy = l2[rc[k].event].discrepancy
      BY <1>1, <1>4, <3>2
    <3> QED
      BY <1>4, <3>1, <3>2, <3>3, <3>4
  <2> QED
    BY <2>1, <2>2
<1>6. ReceiptsOK(l2, rc2)
  BY <1>2, <1>5 DEF ReceiptsOK
<1> QED
  BY <1>6 DEF rc2, receipt, l2, n

\* What the service refuses, the database does not hold to be appendable.
LEMMA ConflictIsFinal ==
    ASSUME NEW r, RowsOK(r), NEW l, NEW scan \in Queued,
           ~ Accepts(r, l, scan.movement, scan.expected)
    PROVE  ~ RemainsAppendable(r, scan)
<1> DEFINE m == scan.movement
           row == r[m.subject]
           c == Climb(r, m.destination)
<1> SUFFICES ASSUME RemainsAppendable(r, scan)
             PROVE  Accepts(r, l, m, scan.expected)
  OBVIOUS
<1>1. m \in Movement /\ m.recipient = None /\ ~ m.manifested
  BY LogisticsAssumption DEF Queued
<1>2. m.subject \in Subjects /\ row \in Row /\ row.sequence \in Nat
  BY <1>1 DEF RowsOK, Movement, Row
<1>3. m.type \in EventTypes /\ m.type # "handover"
  BY <1>1 DEF RemainsAppendable, Movement, Moving
<1>4. /\ scan.expected = row.sequence
      /\ row.sequence = 0 <=> m.type = "receive"
      /\ m.source # None => m.source = row.node
  BY <1>2 DEF RemainsAppendable
<1>5. /\ m.type \in Moving => m.destination # None
      /\ m.type \in Resting => m.source = None /\ m.destination = None
      /\ m.type = "return" => m.destination # None
  BY <1>3 DEF RemainsAppendable, Moving, Resting
<1>6. ParentKindFits(m)
  BY DEF RemainsAppendable, ParentKindFits
<1>7. AcyclicDestination(r, m)
  <2> SUFFICES ASSUME m.subject \in Nodes, m.destination # None
               PROVE  \E top \in 1..MaxDepth :
                         c[top] = None /\ \A k \in 1..(top - 1) : c[k] # m.subject
    BY DEF AcyclicDestination
  <2>1. \A depth \in 1..MaxDepth : c[depth] # None => c[depth] # m.subject /\ depth < MaxDepth
    BY DEF RemainsAppendable
  <2> HIDE DEF c
  <2>2. MaxDepth \in 1 .. MaxDepth /\ \A k \in 1 .. (MaxDepth - 1) : k \in 1 .. MaxDepth
    BY LogisticsAssumption
  <2>3. c[MaxDepth] = None
    BY <2>1, <2>2
  <2>4. m.subject # None
    BY <1>2, LogisticsAssumption
  <2>5. \A k \in 1 .. (MaxDepth - 1) : c[k] # m.subject
    BY <2>1, <2>2, <2>4
  <2> QED
    BY <2>2, <2>3, <2>5
<1>8. m.type \in {"receive", "damage"} => m.condition # None
  BY DEF RemainsAppendable
<1>9. QuantityFits(row, m)
  BY DEF RemainsAppendable, QuantityFits
<1> QED
  BY <1>1, <1>3, <1>4, <1>5, <1>6, <1>7, <1>8, <1>9 DEF Accepts, SequenceFits

\* The transaction of a batch between two operations.
Working(d) ==
    /\ d.operations \in Seq(Operation)
    /\ StoreOK(d.rows, d.log, d.version, d.receipts, Append(Filed, d.operations))
    /\ d.refused = FALSE

\* Reconciling one scan keeps the store in order, and the database accepts it.
LEMMA ScanKeepsStore ==
    ASSUME Filed \in Seq(Seq(Operation)), NEW d, Working(d), NEW scan \in Queued
    PROVE  /\ Working(ReconcileScan(d, scan))
           /\ Len(ReconcileScan(d, scan).operations) = Len(d.operations) + 1
<1> DEFINE position == Len(d.operations) + 1
           result == Result(d, scan, position)
           outcome == Outcome(d, scan, position, result)
           m == scan.movement
           key == scan.key
           op == [key |-> key, result |-> result, event |-> outcome.event,
                  discrepancy |-> outcome.discrepancy]
           next == ReconcileScan(d, scan)
           r == d.rows
           l == d.log
           rc == d.receipts
<1>1. /\ key \in 1 .. MaxScans /\ m \in Movement
      /\ position \in Nat \ {0} /\ d.operations \in Seq(Operation)
  BY LogisticsAssumption DEF Queued, Working
<1>2. /\ RowsOK(r) /\ l \in Seq(LogEvent) /\ Acyclic(r) /\ KindsFit(r) /\ d.version = Len(l)
      /\ \A s \in Subjects : RowReplays(r[s], l, s)
      /\ ReceiptsOK(l, rc)
      /\ FilingsOK(Append(Filed, d.operations), l, rc)
  BY DEF Working, StoreOK
<1>3. rc \in [1 .. MaxScans -> Receipt] /\ rc[key] \in Receipt
  BY <1>1, <1>2 DEF ReceiptsOK
<1>4. /\ result \in {"duplicate", "reused", "unknown", "conflict", "applied"}
      /\ result \in {"duplicate", "reused"} <=> rc[key] # NoReceipt
      /\ result = "applied" => Accepts(r, l, m, scan.expected)
      /\ result = "conflict" => ~ Accepts(r, l, m, scan.expected)
  BY DEF Result
<1>5. /\ next.rows = IF result = "applied" THEN [r EXCEPT ![m.subject] = Projected(@, m)] ELSE r
      /\ next.log = IF result = "applied" THEN Append(l, Event(r, m, key)) ELSE l
      /\ next.version = IF result = "applied" THEN d.version + 1 ELSE d.version
      /\ next.receipts = IF result \in {"duplicate", "reused"} THEN rc
                          ELSE [rc EXCEPT ![key] = outcome]
      /\ next.operations = Append(d.operations, op)
      /\ next.refused = (d.refused \/ (result = "conflict" /\ RemainsAppendable(r, scan)))
  BY DEF ReconcileScan
<1>6. /\ result = "duplicate" => outcome = rc[key]
      /\ result = "applied" =>
           outcome = [position |-> position, event |-> Len(l) + 1,
                      discrepancy |-> Discrepancy(r[m.subject], m)]
      /\ result \in {"reused", "unknown", "conflict"} =>
           outcome = [position |-> position, event |-> 0, discrepancy |-> TRUE]
  BY <1>4 DEF Outcome
<1>7. outcome \in Receipt
  <2>1. Discrepancy(r[m.subject], m) \in BOOLEAN
    BY DEF Discrepancy
  <2>2. Len(l) + 1 \in Nat
    BY <1>2
  <2> HIDE DEF result, outcome, position
  <2> QED
    <3>1. CASE result = "duplicate"
      BY <1>3, <1>6, <3>1
    <3>2. CASE result = "applied"
      <4> DEFINE disc == Discrepancy(r[m.subject], m)
                 place == Len(l) + 1
      <4>1. outcome = [position |-> position, event |-> place, discrepancy |-> disc]
        BY <1>6, <3>2
      <4> HIDE DEF disc, place
      <4> QED
        BY <1>1, <2>1, <2>2, <4>1 DEF Receipt, disc, place
    <3>3. CASE result \in {"reused", "unknown", "conflict"}
      <4>1. outcome = [position |-> position, event |-> 0, discrepancy |-> TRUE]
        BY <1>6, <3>3
      <4>2. position \in Nat /\ 0 \in Nat /\ TRUE \in BOOLEAN
        BY <1>1
      <4> QED
        BY <4>1, <4>2 DEF Receipt
    <3> QED
      BY <1>4, <3>1, <3>2, <3>3
<1>8. op.key = key /\ op.result = result /\ op.event = outcome.event
      /\ op.discrepancy = outcome.discrepancy
  OBVIOUS
<1>9. op \in Operation
  <2> HIDE DEF result, outcome
  <2> QED
    BY <1>1, <1>4, <1>7 DEF Operation, Receipt
<1> HIDE DEF result, outcome, position, op, next
<1>10. next.refused = FALSE
  BY <1>2, <1>4, <1>5, ConflictIsFinal DEF Working
<1>11. next.operations \in Seq(Operation) /\ Len(next.operations) = Len(d.operations) + 1
  BY <1>1, <1>5, <1>9
<1>12. Append(Filed, next.operations) \in Seq(Seq(Operation))
  BY <1>11
<1>13. ASSUME result \in {"duplicate", "reused"} PROVE Working(next)
  <2>1. OperationOK(op, l, rc)
    <3>1. /\ rc[key] # NoReceipt
          /\ rc[key].event \in 0 .. Len(l)
          /\ \A i \in DOMAIN l : l[i].scan = key <=> rc[key].event = i
          /\ rc[key].event # 0 => rc[key].discrepancy = l[rc[key].event].discrepancy
          /\ rc[key].event = 0 => rc[key].discrepancy
      BY <1>1, <1>2, <1>4, <1>13 DEF ReceiptsOK
    <3>2. rc[key].event # 0 => rc[key].event \in DOMAIN l
      BY <1>2, <3>1
    <3>3. CASE result = "duplicate"
      BY <1>6, <1>8, <3>1, <3>2, <3>3 DEF OperationOK
    <3>4. CASE result = "reused"
      BY <1>6, <1>8, <3>1, <3>4 DEF OperationOK
    <3> QED
      BY <1>13, <3>3, <3>4
  <2>2. FilingsOK(Append(Filed, next.operations), l, rc)
    <3>1. ~ FiledFirst(op)
      BY <1>8, <1>13 DEF FiledFirst
    <3> QED
      BY <1>1, <1>2, <1>5, <1>9, <2>1, <3>1, FileAgain
  <2>3. StoreOK(next.rows, next.log, next.version, next.receipts, Append(Filed, next.operations))
    BY <1>2, <1>5, <1>12, <1>13, <2>2 DEF StoreOK
  <2> QED
    BY <1>10, <1>11, <2>3 DEF Working
<1>14. ASSUME result \in {"unknown", "conflict"} PROVE Working(next)
  <2> DEFINE rc2 == [rc EXCEPT ![key] = outcome]
  <2>1. rc[key] = NoReceipt
    BY <1>4, <1>14
  <2>2. ReceiptsOK(l, rc2)
    BY <1>1, <1>2, <1>6, <1>14, <2>1, ReviewKeepsReceipts
  <2>3. OperationOK(op, l, rc2)
    <3>1. rc2[key] = outcome
      BY <1>1, <1>3
    <3>2. outcome.event = 0 /\ outcome.discrepancy = TRUE /\ outcome # NoReceipt
      BY <1>6, <1>14 DEF NoReceipt
    <3> HIDE DEF rc2
    <3> QED
      BY <1>8, <3>1, <3>2 DEF OperationOK
  <2>4. FilingsOK(Append(Filed, next.operations), l, rc2)
    <3>1. FiledFirst(op)
      BY <1>8, <1>14 DEF FiledFirst
    <3> QED
      BY <1>1, <1>2, <1>3, <1>5, <1>7, <1>8, <1>9, <2>1, <2>3, <3>1, FileFirst
  <2>5. StoreOK(next.rows, next.log, next.version, next.receipts, Append(Filed, next.operations))
    BY <1>2, <1>5, <1>12, <1>14, <2>2, <2>4 DEF StoreOK
  <2> QED
    BY <1>10, <1>11, <2>5 DEF Working
<1>15. ASSUME result = "applied" PROVE Working(next)
  <2> DEFINE rc2 == [rc EXCEPT ![key] = outcome]
             e == Event(r, m, key)
             q == [r EXCEPT ![m.subject] = Projected(@, m)]
             l2 == Append(l, e)
  <2>1. rc[key] = NoReceipt /\ Accepts(r, l, m, scan.expected)
    BY <1>4, <1>15
  <2>2. e \in LogEvent /\ e.scan = key /\ e.discrepancy = Discrepancy(r[m.subject], m)
    <3>1. key \in 0 .. MaxScans
      BY <1>1
    <3> QED
      BY <1>1, <1>2, <3>1, EventTyped DEF Event
  <2>3. RowsOK(q) /\ Acyclic(q) /\ KindsFit(q)
    BY <1>1, <1>2, <2>1, MovementKeepsRows, MovementKeepsTree
  <2>4. \A s \in Subjects : RowReplays(q[s], l2, s)
    <3>1. key \in 0 .. MaxScans
      BY <1>1
    <3> QED
      BY <1>1, <1>2, <3>1, MovementReplays
  <2>5. outcome = [position |-> position, event |-> Len(l) + 1, discrepancy |-> e.discrepancy]
    BY <1>6, <1>15, <2>2
  <2> HIDE DEF e, q
  <2>6. /\ l2 \in Seq(LogEvent) /\ Len(l2) = Len(l) + 1
        /\ Len(l) + 1 \in DOMAIN l2 /\ l2[Len(l) + 1] = e /\ Len(l) + 1 # 0
    BY <1>2, <2>2
  <2>7. ReceiptsOK(l2, rc2)
    BY <1>1, <1>2, <2>1, <2>2, <2>5, ApplyKeepsReceipts
  <2>8. FilingsOK(Append(Filed, d.operations), l2, rc)
    BY <1>2, <2>2, GrowingLogKeepsFilings
  <2> HIDE DEF l2
  <2>9. OperationOK(op, l2, rc2)
    <3>1. rc2[key] = outcome
      BY <1>1, <1>3
    <3>2. outcome.event = Len(l) + 1 /\ outcome.discrepancy = e.discrepancy
      BY <2>5
    <3>3. outcome # NoReceipt
      BY <1>2, <2>6, <3>2 DEF NoReceipt
    <3> HIDE DEF rc2
    <3> QED
      BY <1>8, <2>2, <2>6, <3>1, <3>2, <3>3 DEF OperationOK
  <2>10. FilingsOK(Append(Filed, next.operations), l2, rc2)
    <3>1. FiledFirst(op)
      BY <1>8, <1>15 DEF FiledFirst
    <3> QED
      BY <1>1, <1>3, <1>5, <1>7, <1>8, <1>9, <2>1, <2>8, <2>9, <3>1, FileFirst
  <2>11. /\ next.rows = q /\ next.log = l2 /\ next.version = Len(l2) /\ next.receipts = rc2
    BY <1>2, <1>5, <1>15, <2>6 DEF q, l2, e
  <2> HIDE DEF rc2
  <2>12. StoreOK(next.rows, next.log, next.version, next.receipts, Append(Filed, next.operations))
    BY <1>12, <2>3, <2>4, <2>6, <2>7, <2>10, <2>11 DEF StoreOK
  <2> QED
    BY <1>10, <1>11, <2>12 DEF Working
<1> QED
  BY <1>4, <1>11, <1>13, <1>14, <1>15 DEF next

-----------------------------------------------------------------------------
(***************************************************************************)
(* A batch                                                                 *)
(***************************************************************************)

\* The lists of the operations of all batches.
LEMMA FiledLists ==
    ASSUME BatchesOK
    PROVE  /\ Filed \in Seq(Seq(Operation)) /\ Len(Filed) = Len(batches)
           /\ DOMAIN Filed = DOMAIN batches
           /\ \A b \in DOMAIN batches : Filed[b] = batches[b].operations
<1> DEFINE Batch == [operations : Seq(Operation), status : {"review", "applied"}]
<1>1. batches \in Seq(Batch)
  BY DEF BatchesOK
<1> HIDE DEF Batch
<1>2. Len(batches) \in Nat /\ DOMAIN batches = 1 .. Len(batches)
  BY <1>1
<1>3. \A b \in DOMAIN batches : batches[b] \in Batch
  BY <1>1
<1>4. Filed \in [1 .. Len(batches) -> Seq(Operation)]
  BY <1>2, <1>3 DEF Filed, Batch
<1>5. Filed \in Seq(Seq(Operation))
  BY <1>2, <1>4, SeqDef
<1>6. Len(Filed) = Len(batches)
  BY <1>2, <1>4, <1>5, LenProperties
<1> QED
  BY <1>2, <1>5, <1>6 DEF Filed

\* The scans of a batch are scans of the queue.
LEMMA BatchTyped ==
    ASSUME QueueOK, NEW first \in DOMAIN queue
    PROVE  LET batch == SubSeq(queue, first, Len(queue)) IN
           batch \in Seq(Queued) /\ Len(batch) \in 1 .. MaxScans
<1>1. queue \in Seq(Queued) /\ Len(queue) \in Nat /\ first \in 1 .. Len(queue)
      /\ Len(queue) <= MaxScans /\ MaxScans \in Nat
  BY LogisticsAssumption DEF QueueOK
<1> QED
  BY <1>1, SubSeqProperties

\* Reconciling the scans of a batch one after another keeps the store in order,
\* and the database accepts every operation of it.
LEMMA BatchKeepsStore ==
    ASSUME IInv, NEW first \in DOMAIN queue,
           NEW done \in Reconciled(SubSeq(queue, first, Len(queue)))
    PROVE  /\ Working(done)
           /\ Len(done.operations) = Len(SubSeq(queue, first, Len(queue)))
<1> DEFINE batch == SubSeq(queue, first, Len(queue))
           n == Len(batch)
<1>1. batch \in Seq(Queued) /\ n \in Nat
  BY BatchTyped DEF IInv
<1>2. Filed \in Seq(Seq(Operation))
  BY FiledLists DEF IInv
<1>3. PICK after :
         /\ Reconciled(batch) = after[n]
         /\ after[0] = {Begun}
         /\ \A k \in 1 .. n :
               after[k] = {ReconcileScan(d, batch[k]) : d \in after[k - 1]}
  BY <1>1, ReconciledSteps
<1>4. done \in after[n]
  BY <1>3
<1>5. \A k \in 1 .. n : batch[k] \in Queued
  BY <1>1
<1> HIDE DEF batch, n
<1> DEFINE Good(k) == \A d \in after[k] : Working(d) /\ Len(d.operations) = k
           Bad == {k \in 0 .. n : ~ Good(k)}
<1>6. Good(0)
  <2>1. Working(Begun)
    <3>1. /\ Begun.operations = <<>> /\ Begun.refused = FALSE /\ Begun.rows = rows
          /\ Begun.log = log /\ Begun.version = version /\ Begun.receipts = receipts
      BY DEF Begun
    <3>2. FilingsOK(Append(Filed, <<>>), log, receipts)
      <4> DEFINE more == Append(Filed, <<>>)
      <4>1. /\ DOMAIN Filed \subseteq DOMAIN more
            /\ \A b \in DOMAIN Filed : more[b] = Filed[b]
            /\ \A b \in DOMAIN more : b \in DOMAIN Filed \/ DOMAIN more[b] = {}
        BY <1>2
      <4>2. FilingsOK(Filed, log, receipts)
        BY DEF IInv, StoreOK
      <4> HIDE DEF more
      <4>3. \A b \in DOMAIN more : \A i \in DOMAIN more[b] : OperationOK(more[b][i], log, receipts)
        BY <4>1, <4>2 DEF FilingsOK
      <4>4. ASSUME NEW k \in 1 .. MaxScans, receipts[k] # NoReceipt
            PROVE  \E b \in DOMAIN more : \E i \in DOMAIN more[b] :
                      more[b][i].key = k /\ FiledFirst(more[b][i])
        <5>1. PICK b \in DOMAIN Filed : \E i \in DOMAIN Filed[b] :
                 Filed[b][i].key = k /\ FiledFirst(Filed[b][i])
          BY <4>2, <4>4 DEF FilingsOK
        <5> QED
          BY <4>1, <5>1
      <4>5. ASSUME NEW b \in DOMAIN more, NEW c \in DOMAIN more,
                   NEW i \in DOMAIN more[b], NEW j \in DOMAIN more[c],
                   FiledFirst(more[b][i]), FiledFirst(more[c][j]), more[b][i].key = more[c][j].key
            PROVE  b = c /\ i = j
        <5>1. b \in DOMAIN Filed /\ c \in DOMAIN Filed /\ more[b] = Filed[b] /\ more[c] = Filed[c]
          BY <4>1
        <5> QED
          BY <4>2, <4>5, <5>1 DEF FilingsOK
      <4>6. FilingsOK(more, log, receipts)
        BY <4>3, <4>4, <4>5 DEF FilingsOK
      <4> QED
        BY <4>6 DEF more
    <3>3. Append(Filed, <<>>) \in Seq(Seq(Operation)) /\ <<>> \in Seq(Operation)
      BY <1>2
    <3>4. StoreOK(rows, log, version, receipts, Append(Filed, <<>>))
      BY <3>2, <3>3 DEF IInv, StoreOK
    <3> QED
      BY <3>1, <3>3, <3>4 DEF Working
  <2>2. Len(Begun.operations) = 0
    BY DEF Begun
  <2> QED
    BY <1>3, <2>1, <2>2
<1>7. Bad = {}
  <2> SUFFICES ASSUME Bad # {} PROVE FALSE
    OBVIOUS
  <2>1. PICK k \in Bad : \A j \in Bad : k <= j
    <3>1. Bad \subseteq Nat
      BY <1>1
    <3> HIDE DEF Bad
    <3> QED
      BY <3>1, LeastNumber
  <2>2. k \in 1 .. n /\ k - 1 \in 0 .. n
    <3>1. k # 0
      BY <1>6, <2>1
    <3> HIDE DEF Good
    <3> QED
      BY <1>1, <2>1, <3>1
  <2>3. Good(k - 1)
    <3> SUFFICES ASSUME k - 1 \in Bad PROVE FALSE
      BY <2>2
    <3> HIDE DEF Bad, Good
    <3>1. k <= k - 1
      BY <2>1
    <3> QED
      BY <2>2, <3>1
  <2>4. Good(k)
    <3> SUFFICES ASSUME NEW d \in after[k - 1]
                 PROVE  /\ Working(ReconcileScan(d, batch[k]))
                        /\ Len(ReconcileScan(d, batch[k]).operations) = k
      BY <1>3, <2>2
    <3>1. Working(d) /\ Len(d.operations) = k - 1
      BY <2>3
    <3>2. batch[k] \in Queued
      BY <1>5, <2>2
    <3>3. k - 1 + 1 = k
      BY <2>2
    <3> QED
      BY <1>2, <3>1, <3>2, <3>3, ScanKeepsStore
  <2> HIDE DEF Good
  <2> QED
    BY <2>1, <2>4
<1>8. Good(n)
  <2>1. n \in 0 .. n
    BY <1>1
  <2> HIDE DEF Good
  <2> QED
    BY <1>7, <2>1
<1> QED
  BY <1>4, <1>8 DEF batch, n

-----------------------------------------------------------------------------
(***************************************************************************)
(* The invariant is inductive                                              *)
(***************************************************************************)

\* An edition without goods is in order.
LEMMA InitIInv == Init => IInv
<1> SUFFICES ASSUME Init PROVE IInv
  OBVIOUS
<1> USE DEF Init
<1>1. /\ rows \in [Subjects -> Row] /\ \A s \in Subjects : rows[s] = NoRow
      /\ NoRow.sequence = 0 /\ NoRow.node = None /\ NoRow.custodian = None
      /\ NoRow.quantity = None /\ NoRow.state = None
  BY DEF Row, NoRow
<1>2. RowsOK(rows)
  BY <1>1, LogisticsAssumption DEF RowsOK
<1>3. Acyclic(rows) /\ KindsFit(rows)
  BY <1>1, LogisticsAssumption DEF Acyclic, KindsFit, Subjects
<1>4. log \in Seq(LogEvent) /\ version = Len(log) /\ DOMAIN log = {}
  OBVIOUS
<1>5. \A s \in Subjects : RowReplays(rows[s], log, s)
  <2> TAKE s \in Subjects
  <2>1. EventsOf(log, s) = {}
    BY <1>4 DEF EventsOf
  <2>2. Cardinality({}) = 0
    BY FS_EmptySet
  <2> QED
    BY <1>1, <2>1, <2>2 DEF RowReplays
<1>6. ReceiptsOK(log, receipts)
  <2>1. NoReceipt \in Receipt /\ NoReceipt.event = 0
    BY DEF NoReceipt, Receipt
  <2>2. receipts \in [1 .. MaxScans -> Receipt] /\ \A k \in 1 .. MaxScans : receipts[k] = NoReceipt
    BY <2>1
  <2>3. Len(log) \in Nat /\ 0 \in 0 .. Len(log)
    BY <1>4
  <2> QED
    BY <1>4, <2>1, <2>2, <2>3 DEF ReceiptsOK
<1>7. BatchesOK
  <2>1. DOMAIN batches = {}
    OBVIOUS
  <2>2. batches \in Seq([operations : Seq(Operation), status : {"review", "applied"}])
    OBVIOUS
  <2> QED
    BY <2>1, <2>2 DEF BatchesOK
<1>8. Filed \in Seq(Seq(Operation)) /\ DOMAIN Filed = {}
  BY <1>7, FiledLists
<1>9. FilingsOK(Filed, log, receipts)
  BY <1>8 DEF FilingsOK
<1>10. QueueOK
  BY LogisticsAssumption DEF QueueOK
<1>11. ManifestOK
  BY DEF ManifestOK
<1> QED
  BY <1>2, <1>3, <1>4, <1>5, <1>6, <1>7, <1>8, <1>9, <1>10, <1>11 DEF IInv, StoreOK

\* record_logistics_event keeps the invariant.
LEMMA RecordEventKeepsIInv ==
    ASSUME IInv, NEW m \in Movement, NEW n, RecordEvent(m, n)
    PROVE  IInv'
<1>1. StoreOK(rows', log', version', receipts, Filed)
  BY MovementKeepsStore DEF IInv, RecordEvent
<1>2. Filed' = Filed /\ receipts' = receipts
  BY DEF Filed, RecordEvent
<1>3. BatchesOK' /\ QueueOK' /\ ManifestOK'
  BY DEF IInv, BatchesOK, QueueOK, ManifestOK, RecordEvent
<1> QED
  BY <1>1, <1>2, <1>3 DEF IInv

\* What leaves rows, log, receipts and batches alone keeps the store in order.
LEMMA StoreUnchanged ==
    ASSUME IInv, UNCHANGED <<rows, log, version, receipts, batches>>
    PROVE  StoreOK(rows', log', version', receipts', Filed') /\ BatchesOK'
<1>1. Filed' = Filed
  BY DEF Filed
<1> QED
  BY <1>1 DEF IInv, BatchesOK

\* The commands on manifests keep the invariant.
LEMMA ManageManifestKeepsIInv == IInv /\ ManageManifest => IInv'
<1> SUFFICES ASSUME IInv, ManageManifest PROVE IInv'
  OBVIOUS
<1>1. UNCHANGED <<rows, log, version, queue, scanned, receipts, batches>>
  BY DEF ManageManifest, CreateManifest, AddManifestLine, ChangeManifestState
<1>2. QueueOK'
  BY <1>1 DEF IInv, QueueOK
<1>3. ManifestOK'
  <2> USE DEF IInv, ManifestOK, NoManifest
  <2>1. ASSUME NEW route \in Routes, NEW line \in Lines, CreateManifest(route, line)
        PROVE  ManifestOK'
    BY <2>1, LogisticsAssumption DEF CreateManifest, Route, Manifests
  <2>2. ASSUME NEW line \in Lines, AddManifestLine(line)
        PROVE  ManifestOK'
    <3>1. manifest \in Manifests /\ manifest' = [manifest EXCEPT !.lines = @ \cup {line}]
      BY <2>2 DEF AddManifestLine
    <3>2. manifest.lines \cup {line} \in (SUBSET Lines) \ {{}}
      BY <3>1 DEF Manifests
    <3>3. manifest' \in Manifests
      BY <3>1, <3>2 DEF Manifests
    <3> QED
      BY <3>3
  <2>3. ASSUME NEW from, NEW to, ChangeManifestState(from, to)
        PROVE  ManifestOK'
    <3>1. /\ from \in {"draft", "sealed"} /\ to \in {"sealed", "completed", "cancelled"}
          /\ manifest.status = from /\ manifest' = [manifest EXCEPT !.status = to]
      BY <2>3 DEF ChangeManifestState
    <3>2. manifest \in Manifests
      BY <3>1
    <3>3. manifest' \in Manifests
      BY <3>1, <3>2 DEF Manifests
    <3> QED
      BY <3>3
  <2> QED
    BY <2>1, <2>2, <2>3 DEF ManageManifest
<1> QED
  BY <1>1, <1>2, <1>3, StoreUnchanged DEF IInv

\* A scan keeps the invariant.
LEMMA ScanKeepsIInv ==
    ASSUME IInv, NEW m \in Scans, NEW n \in Nat, Scan(m, n)
    PROVE  IInv'
<1>1. UNCHANGED <<rows, log, version, manifest, receipts, batches>>
  BY DEF Scan
<1>2. QueueOK'
  <2> DEFINE q == [key |-> scanned + 1, expected |-> n, movement |-> m]
  <2>1. /\ scanned \in Nat /\ scanned < MaxScans /\ scanned' = scanned + 1 /\ queue' = Append(queue, q)
        /\ queue \in Seq(Queued) /\ Len(queue) <= scanned
        /\ \A i \in DOMAIN queue : queue[i].key <= scanned
    BY DEF IInv, QueueOK, Scan
  <2>2. q \in Queued /\ q.key = scanned + 1
    BY <2>1, LogisticsAssumption DEF Queued
  <2> HIDE DEF q
  <2>3. scanned' \in 0 .. MaxScans
    BY <2>1, LogisticsAssumption
  <2>4. queue' \in Seq(Queued) /\ Len(queue') <= scanned'
    BY <2>1, <2>2
  <2>5. \A i \in DOMAIN queue' : queue'[i].key <= scanned'
    <3> TAKE i \in DOMAIN queue'
    <3>1. CASE i \in DOMAIN queue
      <4>1. queue'[i] = queue[i] /\ queue[i] \in Queued
        BY <2>1, <3>1
      <4> QED
        BY <2>1, <3>1, <4>1 DEF Queued
    <3>2. CASE i = Len(queue) + 1
      BY <2>1, <2>2, <3>2
    <3> QED
      BY <2>1, <2>2, <3>1, <3>2
  <2> QED
    BY <2>3, <2>4, <2>5 DEF QueueOK
<1>3. ManifestOK'
  BY <1>1 DEF IInv, ManifestOK
<1> QED
  BY <1>1, <1>2, <1>3, StoreUnchanged DEF IInv

\* A device that forgets the scans it has an answer for keeps a good queue.
LEMMA ShorterQueue ==
    ASSUME QueueOK, NEW first \in DOMAIN queue, scanned' = scanned,
           queue' = SubSeq(queue, 1, first - 1)
    PROVE  QueueOK'
<1>1. queue \in Seq(Queued) /\ Len(queue) \in Nat /\ first \in 1 .. Len(queue) /\ scanned \in Nat
      /\ Len(queue) <= scanned
  BY DEF QueueOK
<1>2. \A i \in 1 .. first - 1 : queue[i] \in Queued /\ i \in DOMAIN queue
  BY <1>1
<1>3. /\ queue' \in Seq(Queued) /\ Len(queue') = first - 1
      /\ \A i \in 1 .. first - 1 : queue'[i] = queue[i]
  <2>1. /\ 1 \in Int /\ first - 1 \in Int
        /\ (IF 1 <= first - 1 THEN (first - 1) - 1 + 1 ELSE 0) = first - 1
        /\ (first - 1) - 1 + 1 = first - 1
        /\ \A i \in 1 .. first - 1 : 1 + i - 1 = i
    BY <1>1
  <2> QED
    BY <1>2, <2>1, SubSeqProperties
<1>4. DOMAIN queue' = 1 .. first - 1
  BY <1>3
<1>5. Len(queue') <= scanned
  BY <1>1, <1>3
<1>6. \A i \in DOMAIN queue' : queue'[i].key <= scanned
  <2> TAKE i \in DOMAIN queue'
  <2>1. i \in DOMAIN queue /\ queue'[i] = queue[i]
    BY <1>2, <1>3, <1>4
  <2>2. queue[i].key <= scanned
    BY <2>1 DEF QueueOK
  <2> QED
    BY <2>1, <2>2
<1>7. scanned' \in 0 .. MaxScans
  BY DEF QueueOK
<1> QED
  BY <1>3, <1>5, <1>6, <1>7 DEF QueueOK

\* ingest_offline_scan_batch keeps the invariant.
LEMMA IngestKeepsIInv ==
    ASSUME IInv, NEW first \in DOMAIN queue, NEW answered,
           IngestOfflineScanBatch(first, answered)
    PROVE  IInv'
<1> DEFINE batch == SubSeq(queue, first, Len(queue))
<1>1. PICK done \in Reconciled(batch) :
         /\ rows' = done.rows /\ log' = done.log /\ version' = done.version
         /\ receipts' = done.receipts
         /\ batches' = Append(batches,
                         [operations |-> done.operations,
                          status |-> IF NeedsReview(done.operations)
                                       THEN "review" ELSE "applied"])
  BY DEF IngestOfflineScanBatch
<1>2. Working(done) /\ Len(done.operations) = Len(batch)
  BY BatchKeepsStore
<1>3. Len(batch) \in 1 .. MaxScans
  BY BatchTyped DEF IInv
<1>4. QueueOK'
  <2>1. CASE answered
    <3>1. queue' = SubSeq(queue, 1, first - 1) /\ scanned' = scanned
      BY <2>1 DEF IngestOfflineScanBatch
    <3> QED
      BY <3>1, ShorterQueue DEF IInv
  <2>2. CASE ~ answered
    BY <2>2 DEF IInv, QueueOK, IngestOfflineScanBatch
  <2> QED
    BY <2>1, <2>2
<1>5. ManifestOK'
  BY DEF IInv, ManifestOK, IngestOfflineScanBatch
<1> DEFINE ops == done.operations
           new == [operations |-> ops, status |-> IF NeedsReview(ops) THEN "review" ELSE "applied"]
           Batch == [operations : Seq(Operation), status : {"review", "applied"}]
           n == Len(batches)
<1>6. /\ new \in Batch /\ new.operations = ops
      /\ new.status = "applied" <=> ~ NeedsReview(ops)
  BY <1>2 DEF Working
<1>7. batches' = Append(batches, new) /\ batches \in Seq(Batch)
  BY <1>1 DEF IInv, BatchesOK
<1>8. ops \in Seq(Operation) /\ ops # <<>> /\ Len(ops) <= MaxScans
  BY <1>2, <1>3, LogisticsAssumption DEF Working
<1> HIDE DEF new, Batch, ops, batch
<1>9. /\ batches' \in Seq(Batch) /\ n \in Nat /\ Len(batches') = n + 1
      /\ DOMAIN batches = 1 .. n /\ DOMAIN batches' = 1 .. n + 1
      /\ \A b \in 1 .. n : batches'[b] = batches[b]
      /\ batches'[n + 1] = new
  BY <1>6, <1>7
<1> HIDE DEF n
<1>10. BatchesOK'
  <2>1. ASSUME NEW b \in DOMAIN batches'
        PROVE  /\ batches'[b].operations # <<>>
               /\ Len(batches'[b].operations) <= MaxScans
               /\ batches'[b].status = "applied" <=> ~ NeedsReview(batches'[b].operations)
    <3>1. CASE b = n + 1
      BY <1>6, <1>8, <1>9, <3>1
    <3>2. CASE b \in 1 .. n
      BY <1>9, <3>2 DEF IInv, BatchesOK
    <3> QED
      BY <1>9, <3>1, <3>2
  <2> QED
    BY <1>9, <2>1 DEF BatchesOK, Batch
<1>11. Filed' = Append(Filed, ops)
  <2>1. /\ Filed \in Seq(Seq(Operation)) /\ Len(Filed) = n /\ DOMAIN Filed = 1 .. n
        /\ \A b \in 1 .. n : Filed[b] = batches[b].operations
    BY <1>9, FiledLists DEF IInv, n
  <2>2. Filed' = [b \in 1 .. n + 1 |-> batches'[b].operations]
    BY <1>9 DEF Filed
  <2>3. \A b \in 1 .. n + 1 : batches'[b].operations = IF b = n + 1 THEN ops ELSE Filed[b]
    <3> TAKE b \in 1 .. n + 1
    <3>1. CASE b = n + 1
      BY <1>6, <1>9, <3>1
    <3>2. CASE b # n + 1
      <4>1. b \in 1 .. n
        BY <1>9, <3>2
      <4> QED
        BY <1>9, <2>1, <3>2, <4>1
    <3> QED
      BY <3>1, <3>2
  <2>4. Append(Filed, ops) = [b \in 1 .. n + 1 |-> IF b = n + 1 THEN ops ELSE Filed[b]]
    <3> DEFINE more == Append(Filed, ops)
    <3>1. /\ more \in Seq(Seq(Operation)) /\ Len(more) = n + 1
          /\ \A b \in 1 .. n : more[b] = Filed[b]
          /\ more[n + 1] = ops
      BY <1>8, <2>1, AppendProperties
    <3> HIDE DEF more
    <3>2. more \in [1 .. n + 1 -> Seq(Operation)]
      BY <3>1, LenProperties
    <3>3. \A b \in 1 .. n + 1 : more[b] = IF b = n + 1 THEN ops ELSE Filed[b]
      <4> TAKE b \in 1 .. n + 1
      <4>1. b # n + 1 => b \in 1 .. n
        BY <1>9
      <4> QED
        BY <3>1, <4>1
    <3>4. more = [b \in 1 .. n + 1 |-> IF b = n + 1 THEN ops ELSE Filed[b]]
      BY <3>2, <3>3
    <3> QED
      BY <3>4 DEF more
  <2> QED
    BY <2>2, <2>3, <2>4
<1>12. StoreOK(rows', log', version', receipts', Filed')
  BY <1>1, <1>2, <1>11 DEF Working, ops
<1> QED
  BY <1>4, <1>5, <1>10, <1>12 DEF IInv

\* Every step keeps the invariant.
LEMMA NextIInv == IInv /\ [Next]_vars => IInv'
<1> SUFFICES ASSUME IInv, [Next]_vars PROVE IInv'
  OBVIOUS
<1>1. CASE Record
  <2>1. PICK m \in Movements, n \in 0 .. (MaxEvents + MaxScans) : RecordEvent(m, n)
    BY <1>1 DEF Record
  <2>2. m \in Movement
    BY LogisticsAssumption
  <2> QED
    BY <2>1, <2>2, RecordEventKeepsIInv
<1>2. CASE ReceiveLine
  <2>1. PICK n \in 0 .. (MaxEvents + MaxScans) : RecordManifestReceipt(n)
    BY <1>2 DEF ReceiveLine
  <2>2. PICK line \in manifest.lines : RecordEvent(ReceiptMovement(line), n)
    BY <2>1 DEF RecordManifestReceipt
  <2>3. manifest \in Manifests
    BY <2>1 DEF RecordManifestReceipt, IInv, ManifestOK, NoManifest
  <2>4. line \in Line /\ LineDestination(line) \in Nodes \cup {None}
    BY <2>3, LogisticsAssumption DEF Manifests, Line, LineDestination
  <2>5. ReceiptMovement(line) \in Movement
    BY <2>4 DEF ReceiptMovement, Movement, Line, EventTypes, Moving
  <2> QED
    BY <2>2, <2>5, RecordEventKeepsIInv
<1>3. CASE ManageManifest
  BY <1>3, ManageManifestKeepsIInv
<1>4. CASE UseDevice
  <2>1. PICK m \in Scans, n \in 0 .. (MaxEvents + MaxScans) : Scan(m, n)
    BY <1>4 DEF UseDevice
  <2>2. n \in Nat
    BY LogisticsAssumption
  <2> QED
    BY <2>1, <2>2, ScanKeepsIInv
<1>5. CASE Upload
  <2>1. PICK first \in DOMAIN queue, answered \in BOOLEAN : IngestOfflineScanBatch(first, answered)
    BY <1>5 DEF Upload
  <2> QED
    BY <2>1, IngestKeepsIInv
<1>6. CASE Replay
  <2>1. PICK first \in DOMAIN queue : ReplayBatch(first)
    BY <1>6 DEF Replay
  <2>2. QueueOK'
    BY <2>1, ShorterQueue DEF IInv, ReplayBatch
  <2>3. ManifestOK'
    BY <2>1 DEF IInv, ManifestOK, ReplayBatch
  <2> QED
    BY <2>1, <2>2, <2>3, StoreUnchanged DEF IInv, ReplayBatch
<1>7. CASE UNCHANGED vars
  <2>1. QueueOK' /\ ManifestOK'
    BY <1>7 DEF vars, IInv, QueueOK, ManifestOK
  <2> QED
    BY <1>7, <2>1, StoreUnchanged DEF IInv, vars
<1> QED
  BY <1>1, <1>2, <1>3, <1>4, <1>5, <1>6, <1>7 DEF Next

\* The invariant holds of every behaviour.
LEMMA Invariant == Spec => []IInv
BY InitIInv, NextIInv, PTL DEF Spec

-----------------------------------------------------------------------------
(***************************************************************************)
(* The theorems                                                            *)
(***************************************************************************)

\* Rows, manifests, queues, receipts and batches keep their types, a subject
\* has a row from its first event on and a quantity exactly if it is a lot.
THEOREM TypeCorrect == Spec => []TypeOK
<1>1. IInv => TypeOK
  <2> SUFFICES ASSUME IInv PROVE TypeOK
    OBVIOUS
  <2>1. ASSUME NEW s \in Subjects
        PROVE  /\ rows[s] = NoRow \/ rows[s].sequence \in Nat \ {0}
               /\ rows[s].node \in Nodes \cup {None}
               /\ rows[s].custodian \in {None, "party"}
               /\ rows[s].condition \in {None, "good", "damaged"}
               /\ rows[s].quantity \in Nat <=> s \in Lots /\ rows[s].sequence > 0
               /\ rows[s].state \in {"stored", "in_transit", "issued", "returned"}
                    <=> rows[s].sequence > 0
    <3>1. /\ rows[s] \in Row
          /\ rows[s].sequence = 0 => rows[s] = NoRow
          /\ rows[s].quantity \in Nat <=> s \in Lots /\ rows[s].sequence > 0
          /\ rows[s].state # None <=> rows[s].sequence > 0
      BY DEF IInv, StoreOK, RowsOK
    <3>2. rows[s].state \in {"stored", "in_transit", "issued", "returned"} <=> rows[s].state # None
      BY <3>1, LogisticsAssumption DEF Row
    <3> QED
      BY <3>1, <3>2 DEF Row
  <2>2. version \in Nat
    BY DEF IInv, StoreOK
  <2>3. \/ manifest = NoManifest
        \/ /\ manifest.status \in {"draft", "sealed", "completed", "cancelled"}
           /\ manifest.lines \subseteq Lines /\ manifest.lines # {}
    BY DEF IInv, ManifestOK, Manifests
  <2>4. scanned \in 0 .. MaxScans
    BY DEF IInv, QueueOK
  <2>5. ASSUME NEW i \in DOMAIN queue PROVE queue[i].key \in 1 .. scanned
    <3>1. queue[i] \in Queued /\ queue[i].key <= scanned
      BY DEF IInv, QueueOK
    <3> QED
      BY <2>4, <3>1 DEF Queued
  <2>6. \A k \in 1 .. MaxScans : receipts[k].event \in 0 .. Len(log)
    BY DEF IInv, StoreOK, ReceiptsOK
  <2>7. \A i \in DOMAIN batches : batches[i].operations # <<>>
    BY DEF IInv, BatchesOK
  <2> QED
    BY <2>1, <2>2, <2>3, <2>4, <2>5, <2>6, <2>7 DEF TypeOK
<1> QED
  BY <1>1, Invariant, PTL

\* Containers never hold each other in a circle, and each is held by a node of
\* a kind that may hold it, for every hierarchy and every depth limit: the
\* acyclicity test of one movement suffices, on line and within a batch.
THEOREM ContainmentStaysATree == Spec => []ContainmentIsATree
<1>1. IInv => ContainmentIsATree
  BY DEF IInv, StoreOK, ContainmentIsATree
<1> QED
  BY <1>1, Invariant, PTL

\* The row of every subject is what a reader of the log derives, for every
\* mixture of on-line events, manifest receipts and batches.
THEOREM RowsFollowTheLog == Spec => []RowsReplayTheLog
<1>1. IInv => RowsReplayTheLog
  BY DEF IInv, StoreOK, RowsReplayTheLog
<1> QED
  BY <1>1, Invariant, PTL

\* A scan has at most one event and one first filing, and every repetition is
\* answered from its receipt, however often and in whatever batches, at
\* whatever positions, it is uploaded.
THEOREM ScansCountOnce == Spec => []ScansAppliedOnce
<1>1. IInv => ScansAppliedOnce
  <2> SUFFICES ASSUME IInv, NEW k \in 1 .. MaxScans
               PROVE  /\ \A i \in DOMAIN log : log[i].scan = k <=> receipts[k].event = i
                      /\ LET of(f) == batches[f[1]].operations[f[2]]
                             filings == {f \in (DOMAIN batches) \X (1..MaxScans) :
                                           f[2] \in DOMAIN batches[f[1]].operations
                                             /\ of(f).key = k}
                             first == {f \in filings :
                                         of(f).result \notin {"duplicate", "reused"}}
                         IN /\ Cardinality(first) = IF filings = {} THEN 0 ELSE 1
                            /\ \A f \in filings : of(f).result # "reused" =>
                                 /\ of(f).event = receipts[k].event
                                 /\ of(f).discrepancy = receipts[k].discrepancy
    BY DEF ScansAppliedOnce
  <2> DEFINE of(f) == batches[f[1]].operations[f[2]]
             filings == {f \in (DOMAIN batches) \X (1..MaxScans) :
                           f[2] \in DOMAIN batches[f[1]].operations /\ of(f).key = k}
             first == {f \in filings : of(f).result \notin {"duplicate", "reused"}}
  <2>1. \A i \in DOMAIN log : log[i].scan = k <=> receipts[k].event = i
    BY DEF IInv, StoreOK, ReceiptsOK
  <2>2. /\ DOMAIN Filed = DOMAIN batches
        /\ \A b \in DOMAIN batches : Filed[b] = batches[b].operations
    BY FiledLists DEF IInv
  <2>3. FilingsOK(Filed, log, receipts)
    BY DEF IInv, StoreOK
  <2>4. ASSUME NEW b \in DOMAIN batches, NEW i \in DOMAIN batches[b].operations
        PROVE  i \in 1 .. MaxScans
    <3>1. Filed \in Seq(Seq(Operation)) /\ Filed[b] = batches[b].operations /\ b \in DOMAIN Filed
      BY <2>2, FiledLists DEF IInv
    <3>2. batches[b].operations \in Seq(Operation)
      BY <3>1
    <3>3. Len(batches[b].operations) <= MaxScans
      BY DEF IInv, BatchesOK
    <3> QED
      BY <3>2, <3>3, LogisticsAssumption
  <2>5. ASSUME NEW f \in filings
        PROVE  /\ OperationOK(of(f), log, receipts) /\ of(f).key = k
               /\ f[1] \in DOMAIN batches /\ f[2] \in DOMAIN Filed[f[1]]
               /\ of(f) = Filed[f[1]][f[2]] /\ f = <<f[1], f[2]>>
    BY <2>2, <2>3 DEF FilingsOK
  <2>6. \A f \in filings : of(f).result # "reused" =>
           of(f).event = receipts[k].event /\ of(f).discrepancy = receipts[k].discrepancy
    BY <2>5 DEF OperationOK
  <2>7. \A f, g \in first : f = g
    <3> SUFFICES ASSUME NEW f \in first, NEW g \in first PROVE f = g
      OBVIOUS
    <3>1. f \in filings /\ g \in filings
      OBVIOUS
    <3>2. FiledFirst(of(f)) /\ FiledFirst(of(g))
      BY DEF FiledFirst
    <3>3. f[1] = g[1] /\ f[2] = g[2]
      BY <2>2, <2>3, <2>5, <3>1, <3>2 DEF FilingsOK
    <3> QED
      BY <2>5, <3>1, <3>3
  <2>8. filings # {} => first # {}
    <3> SUFFICES ASSUME NEW f \in filings PROVE first # {}
      OBVIOUS
    <3>1. receipts[k] # NoReceipt
      BY <2>5 DEF OperationOK
    <3>2. PICK b \in DOMAIN Filed : \E i \in DOMAIN Filed[b] :
             Filed[b][i].key = k /\ FiledFirst(Filed[b][i])
      BY <2>3, <3>1 DEF FilingsOK
    <3>3. PICK i \in DOMAIN Filed[b] : Filed[b][i].key = k /\ FiledFirst(Filed[b][i])
      BY <3>2
    <3>4. b \in DOMAIN batches /\ i \in 1 .. MaxScans /\ Filed[b] = batches[b].operations
      BY <2>2, <2>4, <3>3
    <3>5. <<b, i>> \in first
      BY <3>3, <3>4 DEF FiledFirst
    <3> QED
      BY <3>5
  <2>9. Cardinality(first) = IF filings = {} THEN 0 ELSE 1
    <3>1. CASE filings = {}
      <4>1. first = {}
        BY <3>1
      <4> HIDE DEF first, filings
      <4> QED
        BY <3>1, <4>1, FS_EmptySet
    <3>2. CASE filings # {}
      <4> HIDE DEF first, filings
      <4>1. PICK f \in first : TRUE
        BY <2>8, <3>2
      <4>2. first = {f}
        BY <2>7, <4>1
      <4> QED
        BY <3>2, <4>2, FS_Singleton
    <3> QED
      BY <3>1, <3>2
  <2> QED
    BY <2>1, <2>6, <2>9
<1> QED
  BY <1>1, Invariant, PTL

\* A batch is closed as applied exactly if each of its scans has an event of
\* its own without a discrepancy.
THEOREM CleanBatchesAreApplied == Spec => []AppliedBatchesAreClean
<1>1. IInv => AppliedBatchesAreClean
  <2> SUFFICES ASSUME IInv, NEW b \in DOMAIN batches
               PROVE  batches[b].status = "applied" <=>
                        \A i \in DOMAIN batches[b].operations :
                          LET op == batches[b].operations[i] IN
                          op.event # 0 /\ log[op.event].scan = op.key /\ ~log[op.event].discrepancy
    BY DEF AppliedBatchesAreClean
  <2>1. batches[b].status = "applied" <=> ~ NeedsReview(batches[b].operations)
    BY DEF IInv, BatchesOK
  <2>2. ASSUME NEW i \in DOMAIN batches[b].operations
        PROVE  LET op == batches[b].operations[i] IN
               ~ op.discrepancy <=>
                 op.event # 0 /\ log[op.event].scan = op.key /\ ~log[op.event].discrepancy
    <3>1. OperationOK(batches[b].operations[i], log, receipts)
      BY FiledLists DEF IInv, StoreOK, FilingsOK
    <3> QED
      BY <3>1 DEF OperationOK
  <2> QED
    BY <2>1, <2>2 DEF NeedsReview
<1> QED
  BY <1>1, Invariant, PTL

\* The database accepts every batch a device uploads: it never finds a scan
\* appendable that the service has filed as a conflict.
THEOREM BatchesCommit == Spec => []EveryBatchCommits
<1>1. IInv => EveryBatchCommits
  <2> SUFFICES ASSUME IInv, NEW first \in DOMAIN queue,
                      NEW done \in Reconciled(SubSeq(queue, first, Len(queue)))
               PROVE  ~ done.refused
    BY DEF EveryBatchCommits
  <2>1. Working(done)
    BY BatchKeepsStore
  <2> QED
    BY <2>1 DEF Working
<1> QED
  BY <1>1, Invariant, PTL
=============================================================================
