--------------------------- MODULE SyncFeedProofs ---------------------------
(***************************************************************************)
(* What the feed keeps, for any number of devices, transactions, events,   *)
(* restores and places: cursors never go back and a bootstrap is justified *)
(* always; and as long as the log is in the order of created_at, every     *)
(* device stores the beginning of one history.                             *)
(***************************************************************************)
EXTENDS SyncFeed, FiniteSetTheorems, NaturalsInduction, WellFoundedInduction, TLAPS

(***************************************************************************)
(* The invariant.                                                          *)
(***************************************************************************)
Beginning(h, g) == Len(h) <= Len(g) /\ \A i \in 1..Len(h) : h[i] = g[i]

(* Every stored event is one of the history.                                *)
EventsOf(E, h) ==
  /\ IsFiniteSet(E)
  /\ \A e \in E : e.sequence <= Len(h) /\ e.epoch = h[e.sequence]

(* The workspace, its backup, and what a restore has cut: a backup is a
   beginning of the history, since the last restore all is of one epoch, and
   a snapshot is of that epoch.                                             *)
HistorySound ==
  /\ Len(history) <= MaxSequence
  /\ \A i \in 1..Len(history) : history[i] <= epoch
  /\ Beginning(backup.history, history)
  /\ EventsOf(events, history)
  /\ EventsOf(backup.events, backup.history)
  /\ \A h \in lost : h \in Seq(0..MaxEpoch) /\ \A i \in 1..Len(h) : h[i] < epoch
  /\ \A s \in Slots : snapshots[s] # None =>
       /\ snapshots[s].sequence <= Len(history)
       /\ \A i \in snapshots[s].sequence + 1 .. Len(history) : history[i] = epoch

(* Where the request of a device can stand while the server is in epoch e.   *)
RequestSound(v, e) ==
  /\ v.epoch <= v.carries /\ v.carries <= e
  /\ v.step \notin {"rebuild", "copying"} => v.carries = v.epoch
  /\ v.step \in {"asking", "reading"} => v.carries = e
  /\ v.step # "received" => v.page = {}
  /\ v.step = "copying" => v.snapshot \in Slots
  /\ IsFiniteSet(v.page)

RequestsSound ==
  /\ acks \subseteq [device : Devices, epoch : 0..MaxEpoch, through : 0..MaxSequence]
  /\ \A a \in acks : a.epoch <= device[a.device].epoch
  /\ \A d \in Devices : RequestSound(device[d], epoch)

(* A device of the present epoch is not ahead of the workspace.             *)
Within(v, n) == v.cursor <= n /\ \A e \in v.page : e.sequence <= n

CursorsWithin ==
  \A d \in Devices : device[d].epoch = epoch => Within(device[d], Len(history))

(* Transactions and readers are bounded by the timeouts.                    *)
OnTime ==
  /\ \A t \in Transactions : started[t] # None =>
       started[t] <= clock /\ clock <= started[t] + Patience
  /\ \A d \in Devices : device[d].step = "reading" =>
       device[d].since <= clock /\ clock <= device[d].since + Patience

(* A device's copy is the beginning of h as far as its cursor, and the page it
   was answered goes on from there.                                         *)
Follows(v, h) ==
  /\ v.cursor <= Len(h)
  /\ v.copy = [i \in 1..v.cursor |-> h[i]]
  /\ \A e \in v.page :
       /\ v.cursor < e.sequence /\ e.sequence <= Len(h) /\ e.epoch = h[e.sequence]
       /\ \A i \in v.cursor + 1 .. e.sequence : \E f \in v.page : f.sequence = i

Following(v, e, h, L) ==
  IF v.epoch = e THEN Follows(v, h) ELSE \E g \in L : Follows(v, g)

DevicesFollow == \A d \in Devices : Following(device[d], epoch, history, lost)

(* No event is missing between an event that is stored and the last one.    *)
Gapless(E, h) == \A e \in E : \A i \in e.sequence .. Len(h) : \E f \in E : f.sequence = i

(* What was written since a reader asked for the latest sequence is stored.  *)
Covered(v, E, n) ==
  v.step = "reading" =>
    /\ v.cursor <= v.latest
    /\ \A i \in v.latest + 1 .. n :
         \E e \in E : e.sequence = i /\ e.createdAt >= v.since - Patience

ReadersCovered == \A d \in Devices : Covered(device[d], events, Len(history))

(* A row of acknowledgements says of a device what its copy bears out.       *)
Held(row, v, h) ==
  row # None => \A i \in 1..row.acknowledged :
                  i <= Len(h) /\ i \in DOMAIN v.copy /\ v.copy[i] = h[i]

RowsHeld ==
  \A d \in Devices : /\ Held(cursors[d], device[d], history)
                     /\ Held(backup.cursors[d], device[d], backup.history)

(* An acknowledgement is of what its device stores.                          *)
AcksWithin ==
  \A a \in acks : a.epoch = device[a.device].epoch => a.through <= device[a.device].cursor

(* A snapshot that device d copies is no step back.                          *)
Ahead(v, d, S, row, old, e) ==
  (v.step = "copying" /\ v.carries = e /\ S[v.snapshot] # None /\ S[v.snapshot].device = d) =>
    /\ v.epoch = e => v.cursor <= S[v.snapshot].sequence
    /\ row # None => row.acknowledged <= S[v.snapshot].sequence
    /\ old # None => old.acknowledged <= S[v.snapshot].sequence

SnapshotsAhead ==
  \A d \in Devices : Ahead(device[d], d, snapshots, cursors[d], backup.cursors[d], epoch)

(* The log is in the order of created_at.                                   *)
Ordered(E) == \A e, f \in E : e.sequence < f.sequence => e.createdAt <= f.createdAt

InTimeOrder == Ordered(events)

(* What a session request has read bounds what is there now.                 *)
AnswerCurrent(v, E, n) ==
  v.step = "asking" =>
    /\ "latest" \notin v.unread => v.cursor <= v.latest /\ v.latest <= n
    /\ "oldest" \notin v.unread /\ v.oldest # None =>
         v.oldest <= n /\ \A e \in E : v.oldest <= e.sequence

AnswersCurrent == \A d \in Devices : AnswerCurrent(device[d], events, Len(history))

BaseInv ==
  TypeOK /\ HistorySound /\ RequestsSound /\ CursorsWithin /\ OnTime /\ AnswersCurrent
OrderInv == /\ Gapless(events, history) /\ Gapless(backup.events, backup.history)
            /\ DevicesFollow /\ ReadersCovered /\ RowsHeld /\ AcksWithin /\ SnapshotsAhead

(***************************************************************************)
(* Least and greatest elements, pages, and beginnings of sequences.        *)
(***************************************************************************)
LEMMA Least ==
  ASSUME NEW S \in SUBSET Nat, S # {}
  PROVE  Min(S) \in S /\ \A y \in S : Min(S) <= y
<1>1. PICK x \in S : \A y \in S : <<y, x>> \notin OpToRel(<, Nat)
  BY NatLessThanWellFounded, WFMin
<1>2. \A y \in S : x <= y
  <2> TAKE y \in S
  <2>1. <<y, x>> \in Nat \X Nat /\ <<y, x>>[1] = y /\ <<y, x>>[2] = x
    OBVIOUS
  <2>2. ~(y < x)
    BY <1>1, <2>1 DEF OpToRel
  <2> QED  BY <2>1, <2>2
<1> QED  BY <1>1, <1>2 DEF Min

LEMMA Greatest1 ==
  ASSUME NEW S \in SUBSET Nat, S # {}, NEW n \in Nat, \A y \in S : y <= n
  PROVE  Max(S) \in S /\ \A y \in S : y <= Max(S)
<1> DEFINE T == {n - y : y \in S}
<1>1. T \in SUBSET Nat /\ T # {}
  <2>1. \A y \in S : n - y \in Nat
    OBVIOUS
  <2>2. PICK y \in S : TRUE
    OBVIOUS
  <2> QED  BY <2>1, <2>2
<1> HIDE DEF T
<1>2. Min(T) \in T /\ \A y \in T : Min(T) <= y
  BY <1>1, Least
<1>3. PICK x \in S : Min(T) = n - x
  BY <1>2 DEF T
<1>4. \A y \in S : x >= y
  <2> TAKE y \in S
  <2>1. n - x <= n - y
    BY <1>2, <1>3 DEF T
  <2> QED  BY <2>1
<1> QED  BY <1>3, <1>4 DEF Max

(* What Older and a limit choose: the first rows, and one at least.         *)
FirstRows(E, n) == {e \in E : Cardinality({f \in E : Older(f, e)}) < n}

LEMMA FirstRowsBegin ==
  ASSUME NEW E, IsFiniteSet(E), \A e \in E : e.sequence \in Nat, NEW n \in Nat \ {0}
  PROVE  /\ FirstRows(E, n) \subseteq E /\ IsFiniteSet(FirstRows(E, n))
         /\ \A e \in FirstRows(E, n), f \in E :
              f.sequence <= e.sequence => f \in FirstRows(E, n)
         /\ \A f \in E : \E e \in FirstRows(E, n) :
              e.sequence <= f.sequence /\ \A g \in E : e.sequence <= g.sequence
<1>1. FirstRows(E, n) \subseteq E
  BY DEF FirstRows
<1>2. IsFiniteSet(FirstRows(E, n))
  BY <1>1, FS_Subset
<1>3. ASSUME NEW e \in FirstRows(E, n), NEW f \in E, f.sequence <= e.sequence
      PROVE  f \in FirstRows(E, n)
  <2> DEFINE A == {g \in E : Older(g, f)}
             B == {g \in E : Older(g, e)}
  <2>1. A \subseteq B
    BY <1>1, <1>3 DEF Older
  <2>2. B \subseteq E /\ Cardinality(B) < n
    BY DEF FirstRows
  <2> HIDE DEF A, B
  <2>3. IsFiniteSet(B)
    BY <2>2, FS_Subset
  <2>4. Cardinality(A) <= Cardinality(B) /\ Cardinality(A) \in Nat /\ Cardinality(B) \in Nat
    BY <2>1, <2>3, FS_Subset, FS_CardinalityType
  <2>5. Cardinality(A) < n
    BY <2>2, <2>4
  <2> QED  BY <2>5 DEF A, FirstRows
<1>4. ASSUME NEW f \in E
      PROVE  \E e \in FirstRows(E, n) :
               e.sequence <= f.sequence /\ \A g \in E : e.sequence <= g.sequence
  <2> DEFINE S == Sequences(E)
  <2>1. S \in SUBSET Nat /\ S # {} /\ \A g \in E : g.sequence \in S
    BY <1>4 DEF Sequences
  <2>2. PICK e \in E : e.sequence = Min(S)
    <3>1. Min(S) \in S
      BY <2>1, Least
    <3> QED  BY <3>1 DEF Sequences
  <2>3. \A g \in E : e.sequence <= g.sequence
    <3> HIDE DEF S
    <3> QED  BY <2>1, <2>2, Least
  <2>4. {g \in E : Older(g, e)} = {}
    BY <2>3 DEF Older
  <2>5. e \in FirstRows(E, n)
    BY <2>4, FS_EmptySet DEF FirstRows
  <2> QED  BY <2>3, <2>5
<1> QED  BY <1>1, <1>2, <1>3, <1>4

LEMMA Beginnings ==
  ASSUME NEW S, NEW h \in Seq(S), NEW n \in 0..Len(h)
  PROVE  /\ SubSeq(h, 1, n) = [i \in 1..n |-> h[i]]
         /\ SubSeq(h, 1, n) \in Seq(S) /\ Len(SubSeq(h, 1, n)) = n
<1> QED  OBVIOUS

(***************************************************************************)
(* What each step does to the row of its device.                           *)
(***************************************************************************)
Moved(d) ==
  /\ device' \in [Devices -> DeviceState]
  /\ \A x \in Devices \ {d} : device'[x] = device[x]
Kept(v, w) == w.epoch = v.epoch /\ w.cursor = v.cursor /\ w.copy = v.copy

LEMMA RowParts ==
  ASSUME NEW v \in DeviceState
  PROVE  /\ v.step \in Steps /\ v.epoch \in 0..MaxEpoch /\ v.carries \in 0..MaxEpoch
         /\ v.cursor \in 0..MaxSequence
         /\ v.copy \in UNION {[S -> 0..MaxEpoch] : S \in SUBSET (1..MaxSequence)}
         /\ v.since \in 0..MaxClock /\ v.unread \in SUBSET Reads
         /\ v.latest \in 0..MaxSequence /\ v.oldest \in 1..MaxSequence \cup {None}
         /\ v.known \in BOOLEAN /\ v.page \in SUBSET EventRow /\ v.more \in BOOLEAN
         /\ v.snapshot \in Slots \cup {None}
<1> QED  BY DEF DeviceState

(* One or two fields of a row at a time.                                    *)
LEMMA SetFields ==
  ASSUME NEW v \in DeviceState
  PROVE  /\ \A s \in Steps : [v EXCEPT !.step = s] \in DeviceState
         /\ \A s \in Steps, S \in SUBSET Reads :
              [v EXCEPT !.step = s, !.unread = S] \in DeviceState
         /\ \A s \in Steps, e \in 0..MaxEpoch :
              [v EXCEPT !.carries = e, !.step = s] \in DeviceState
         /\ \A s \in Steps, x \in Slots \cup {None} :
              [v EXCEPT !.step = s, !.snapshot = x] \in DeviceState
         /\ \A n \in 0..MaxSequence, S \in SUBSET Reads :
              [v EXCEPT !.latest = n, !.unread = S] \in DeviceState
         /\ \A n \in 1..MaxSequence \cup {None}, S \in SUBSET Reads :
              [v EXCEPT !.oldest = n, !.unread = S] \in DeviceState
         /\ \A k \in BOOLEAN, S \in SUBSET Reads :
              [v EXCEPT !.known = k, !.unread = S] \in DeviceState
         /\ \A s \in Steps, n \in 0..MaxSequence :
              [v EXCEPT !.step = s, !.latest = n] \in DeviceState
         /\ \A n \in 1..MaxSequence \cup {None}, k \in BOOLEAN :
              [v EXCEPT !.oldest = n, !.known = k] \in DeviceState
         /\ \A n \in 0..MaxSequence, c \in 0..MaxClock :
              [v EXCEPT !.latest = n, !.since = c] \in DeviceState
         /\ \A P \in SUBSET EventRow, m \in BOOLEAN :
              [v EXCEPT !.page = P, !.more = m] \in DeviceState
         /\ \A e \in 0..MaxEpoch, n \in 0..MaxSequence :
              [v EXCEPT !.epoch = e, !.cursor = n] \in DeviceState
         /\ \A n \in 0..MaxSequence,
               c \in UNION {[S -> 0..MaxEpoch] : S \in SUBSET (1..MaxSequence)} :
              [v EXCEPT !.cursor = n, !.copy = c] \in DeviceState
<1> QED  BY DEF DeviceState

LEMMA RefusedRow ==
  ASSUME TypeOK, NEW d \in Devices, Refused(d)
  PROVE  /\ Moved(d)
         /\ Kept(device[d], device'[d])
         /\ UNCHANGED <<server, acks, interruptions>>
         /\ device[d].step # "received"
         /\ device'[d].step = "rebuild"
         /\ device'[d].carries = epoch
         /\ device'[d].page = device[d].page
<1> DEFINE v == device[d]
           w == [v EXCEPT !.carries = epoch, !.step = "rebuild"]
<1>1. v \in DeviceState /\ device \in [Devices -> DeviceState]
  BY DEF TypeOK
<1>2. w \in DeviceState
  BY <1>1, BoundsAssumption, RowParts, SetFields DEF TypeOK, Steps
<1>3. device' = [device EXCEPT ![d] = w]
  BY <1>1 DEF Refused
<1>4. Moved(d) /\ device'[d] = w
  BY <1>1, <1>2, <1>3 DEF Moved
<1> QED  BY <1>1, <1>3, <1>4 DEF Refused, DeviceState, Kept

LEMMA AskRow ==
  ASSUME TypeOK, NEW d \in Devices, Ask(d)
  PROVE  /\ Moved(d)
         /\ Kept(device[d], device'[d])
         /\ UNCHANGED <<server, acks, interruptions>>
         /\ device[d].step = "idle" /\ device'[d].step = "asking"
         /\ device'[d].carries = device[d].carries /\ device[d].carries = epoch
         /\ device'[d].page = device[d].page
         /\ device'[d].unread = Reads
<1> DEFINE v == device[d]
           w == [v EXCEPT !.step = "asking", !.unread = Reads]
<1>1. v \in DeviceState /\ device \in [Devices -> DeviceState]
  BY DEF TypeOK
<1>2. w \in DeviceState
  BY <1>1, BoundsAssumption, RowParts, SetFields DEF TypeOK, Steps, SyncEpochCurrent
<1>3. device' = [device EXCEPT ![d] = w]
  BY <1>1 DEF Ask
<1>4. Moved(d) /\ device'[d] = w
  BY <1>1, <1>2, <1>3 DEF Moved
<1> QED  BY <1>1, <1>3, <1>4 DEF Ask, SyncEpochCurrent, DeviceState, Kept

LEMMA ReadLatestRow ==
  ASSUME TypeOK, NEW d \in Devices, ReadLatest(d), HistorySound
  PROVE  /\ Moved(d)
         /\ Kept(device[d], device'[d])
         /\ UNCHANGED <<server, acks, interruptions>>
         /\ device[d].step = "asking" /\ device'[d].step = "asking"
         /\ device'[d].carries = device[d].carries
         /\ device'[d].page = device[d].page
         /\ device'[d].unread = device[d].unread \ {"latest"}
         /\ device'[d].latest = latestSequence
         /\ device'[d].oldest = device[d].oldest
         /\ device'[d].known = device[d].known
<1> DEFINE v == device[d]
           w == [v EXCEPT !.latest = latestSequence, !.unread = @ \ {"latest"}]
<1>1. v \in DeviceState /\ device \in [Devices -> DeviceState]
  BY DEF TypeOK
<1>a. latestSequence \in 0..MaxSequence
  BY BoundsAssumption DEF TypeOK, HistorySound, latestSequence
<1>2. w \in DeviceState
  BY <1>1, <1>a, RowParts, SetFields
<1>3. device' = [device EXCEPT ![d] = w]
  BY <1>1 DEF ReadLatest
<1>4. Moved(d) /\ device'[d] = w
  BY <1>1, <1>2, <1>3 DEF Moved
<1> QED  BY <1>1, <1>3, <1>4 DEF ReadLatest, DeviceState, Kept

LEMMA ReadOldestRow ==
  ASSUME TypeOK, NEW d \in Devices, ReadOldest(d), HistorySound
  PROVE  /\ Moved(d)
         /\ Kept(device[d], device'[d])
         /\ UNCHANGED <<server, acks, interruptions>>
         /\ device[d].step = "asking" /\ device'[d].step = "asking"
         /\ device'[d].carries = device[d].carries
         /\ device'[d].page = device[d].page
         /\ device'[d].unread = device[d].unread \ {"oldest"}
         /\ device'[d].latest = device[d].latest
         /\ device'[d].known = device[d].known
         /\ device'[d].oldest # None => device'[d].oldest <= Len(history) /\ \A e \in events : device'[d].oldest <= e.sequence
         /\ device'[d].oldest = None => events = {}
<1> DEFINE v == device[d]
           w == [v EXCEPT !.oldest = IF events = {} THEN None ELSE Min(Sequences(events)),
                         !.unread = @ \ {"oldest"}]
<1>1. v \in DeviceState /\ device \in [Devices -> DeviceState]
  BY DEF TypeOK
<1>a. ASSUME events # {}
      PROVE  /\ Min(Sequences(events)) \in 1..MaxSequence /\ Min(Sequences(events)) <= Len(history)
             /\ \A e \in events : Min(Sequences(events)) <= e.sequence
  <2>1. /\ Sequences(events) \in SUBSET Nat /\ Sequences(events) # {}
        /\ \A e \in events : e.sequence \in Sequences(events)
    BY <1>a DEF Sequences, TypeOK, EventRow
  <2>2. /\ Min(Sequences(events)) \in Sequences(events)
        /\ \A y \in Sequences(events) : Min(Sequences(events)) <= y
    BY <2>1, Least
  <2>3. PICK e \in events : Min(Sequences(events)) = e.sequence
    BY <2>2 DEF Sequences
  <2> QED  BY <2>1, <2>2, <2>3 DEF TypeOK, EventRow, HistorySound, EventsOf
<1>b. (IF events = {} THEN None ELSE Min(Sequences(events))) \in 1..MaxSequence \cup {None}
  BY <1>a
<1>2. w \in DeviceState
  BY <1>1, <1>b, RowParts, SetFields
<1>3. device' = [device EXCEPT ![d] = w]
  BY <1>1 DEF ReadOldest
<1>4. Moved(d) /\ device'[d] = w
  BY <1>1, <1>2, <1>3 DEF Moved
<1>5. device'[d].oldest = IF events = {} THEN None ELSE Min(Sequences(events))
  BY <1>1, <1>4 DEF DeviceState
<1>6. device'[d].oldest = None => events = {}
  BY <1>5, <1>a, NoneAssumption
<1>7. device'[d].oldest # None =>
        device'[d].oldest <= Len(history) /\ \A e \in events : device'[d].oldest <= e.sequence
  BY <1>5, <1>a
<1>8. /\ Kept(v, device'[d]) /\ UNCHANGED <<server, acks, interruptions>>
      /\ v.step = "asking" /\ device'[d].step = "asking"
      /\ device'[d].carries = v.carries /\ device'[d].page = v.page
      /\ device'[d].unread = v.unread \ {"oldest"}
      /\ device'[d].latest = v.latest /\ device'[d].known = v.known
  BY <1>1, <1>3, <1>4 DEF ReadOldest, DeviceState, Kept
<1> QED  BY <1>4, <1>6, <1>7, <1>8

LEMMA ReadCursorRowRow ==
  ASSUME TypeOK, NEW d \in Devices, ReadCursorRow(d)
  PROVE  /\ Moved(d)
         /\ Kept(device[d], device'[d])
         /\ UNCHANGED <<server, acks, interruptions>>
         /\ device[d].step = "asking" /\ device'[d].step = "asking"
         /\ device'[d].carries = device[d].carries
         /\ device'[d].page = device[d].page
         /\ device'[d].unread = device[d].unread \ {"row"}
         /\ device'[d].latest = device[d].latest
         /\ device'[d].oldest = device[d].oldest
         /\ device'[d].known = (cursors[d] # None)
<1> DEFINE v == device[d]
           w == [v EXCEPT !.known = cursors[d] # None, !.unread = @ \ {"row"}]
<1>1. v \in DeviceState /\ device \in [Devices -> DeviceState]
  BY DEF TypeOK
<1>2. w \in DeviceState
  BY <1>1, BoundsAssumption, RowParts, SetFields DEF TypeOK, Steps
<1>3. device' = [device EXCEPT ![d] = w]
  BY <1>1 DEF ReadCursorRow
<1>4. Moved(d) /\ device'[d] = w
  BY <1>1, <1>2, <1>3 DEF Moved
<1> QED  BY <1>1, <1>3, <1>4 DEF ReadCursorRow, DeviceState, Kept

LEMMA AnswerRow ==
  ASSUME TypeOK, NEW d \in Devices, Answer(d)
  PROVE  /\ Moved(d)
         /\ Kept(device[d], device'[d])
         /\ UNCHANGED <<server, acks, interruptions>>
         /\ device[d].step = "asking" /\ device[d].unread = {}
         /\ device'[d].step = (IF BootstrapRequired(device[d]) THEN "rebuild" ELSE "pull")
         /\ device'[d].carries = device[d].carries
         /\ device'[d].page = device[d].page
<1> DEFINE v == device[d]
           w == [[v EXCEPT !.step = IF BootstrapRequired(v) THEN "rebuild" ELSE "pull", !.latest = 0]
                  EXCEPT !.oldest = None, !.known = FALSE]
<1>1. v \in DeviceState /\ device \in [Devices -> DeviceState]
  BY DEF TypeOK
<1>2. w \in DeviceState
  <2>1. 0 \in 0..MaxSequence /\ "rebuild" \in Steps /\ "pull" \in Steps
    BY BoundsAssumption DEF Steps
  <2>2. [v EXCEPT !.step = IF BootstrapRequired(v) THEN "rebuild" ELSE "pull", !.latest = 0] \in DeviceState
    BY <1>1, <2>1, SetFields
  <2> QED  BY <2>2, SetFields
<1>3. device' = [device EXCEPT ![d] = w]
  BY <1>1 DEF Answer
<1>4. Moved(d) /\ device'[d] = w
  BY <1>1, <1>2, <1>3 DEF Moved
<1> QED  BY <1>1, <1>3, <1>4 DEF Answer, DeviceState, Kept

LEMMA SnapshotGoneRow ==
  ASSUME TypeOK, NEW d \in Devices, SnapshotGone(d)
  PROVE  /\ Moved(d)
         /\ Kept(device[d], device'[d])
         /\ UNCHANGED <<server, acks, interruptions>>
         /\ device[d].step = "copying" /\ device'[d].step = "rebuild"
         /\ device'[d].carries = device[d].carries
         /\ device'[d].page = device[d].page
<1> DEFINE v == device[d]
           w == [v EXCEPT !.step = "rebuild", !.snapshot = None]
<1>1. v \in DeviceState /\ device \in [Devices -> DeviceState]
  BY DEF TypeOK
<1>2. w \in DeviceState
  BY <1>1, BoundsAssumption, RowParts, SetFields DEF TypeOK, Steps
<1>3. device' = [device EXCEPT ![d] = w]
  BY <1>1 DEF SnapshotGone
<1>4. Moved(d) /\ device'[d] = w
  BY <1>1, <1>2, <1>3 DEF Moved
<1> QED  BY <1>1, <1>3, <1>4 DEF SnapshotGone, DeviceState, Kept

LEMMA PullRow ==
  ASSUME TypeOK, NEW d \in Devices, Pull(d), HistorySound
  PROVE  /\ Moved(d)
         /\ Kept(device[d], device'[d])
         /\ UNCHANGED <<server, acks, interruptions>>
         /\ device[d].step = "pull"
         /\ device'[d].carries = device[d].carries /\ device[d].carries = epoch
         /\ device'[d].page = device[d].page
         /\ \/ device'[d].step = "idle"
            \/ /\ device'[d].step = "reading" /\ device[d].cursor <= latestSequence
               /\ device'[d].latest = latestSequence /\ device'[d].since = clock
<1> DEFINE v == device[d]
           w == [[v EXCEPT !.step = IF v.cursor > latestSequence THEN "idle" ELSE "reading"]
                  EXCEPT !.latest = IF v.cursor > latestSequence THEN 0 ELSE latestSequence,
                         !.since = IF v.cursor > latestSequence THEN 0 ELSE clock]
<1>1. v \in DeviceState /\ device \in [Devices -> DeviceState]
  BY DEF TypeOK
<1>a. latestSequence \in 0..MaxSequence /\ 0 \in 0..MaxSequence /\ clock \in 0..MaxClock /\ 0 \in 0..MaxClock
  BY BoundsAssumption DEF TypeOK, HistorySound, latestSequence
<1>b. v.cursor \in Int /\ latestSequence \in Int
  BY <1>1, <1>a, RowParts
<1>2. w \in DeviceState
  <2>1. [v EXCEPT !.step = IF v.cursor > latestSequence THEN "idle" ELSE "reading"] \in DeviceState
    BY <1>1, SetFields DEF Steps
  <2> QED  BY <1>a, <2>1, SetFields
<1>3. device' = [device EXCEPT ![d] = w]
  BY <1>1 DEF Pull
<1>4. Moved(d) /\ device'[d] = w
  BY <1>1, <1>2, <1>3 DEF Moved
<1> QED  BY <1>1, <1>3, <1>4, <1>b DEF Pull, SyncEpochCurrent, DeviceState, Kept

LEMMA DisconnectRow ==
  ASSUME TypeOK, NEW d \in Devices, Disconnect(d)
  PROVE  /\ Moved(d)
         /\ Kept(device[d], device'[d])
         /\ UNCHANGED <<server, acks>>
         /\ device'[d].step = "idle" /\ device'[d].carries = device[d].epoch
         /\ device'[d].page = {}
<1> DEFINE v == device[d]
           w == Interrupted(v)
<1>1. v \in DeviceState /\ device \in [Devices -> DeviceState]
  BY DEF TypeOK
<1>2. w \in DeviceState
  <2>1. 0 \in 0..MaxClock /\ 0 \in 0..MaxSequence /\ "idle" \in Steps
    BY BoundsAssumption DEF Steps
  <2>2. /\ v.epoch \in 0..MaxEpoch /\ v.cursor \in 0..MaxSequence
        /\ v.copy \in UNION {[S -> 0..MaxEpoch] : S \in SUBSET (1..MaxSequence)}
    BY <1>1, RowParts
  <2> QED  BY <2>1, <2>2 DEF Interrupted, DeviceState
<1>3. device' = [device EXCEPT ![d] = w]
  BY <1>1 DEF Disconnect
<1>4. Moved(d) /\ device'[d] = w
  BY <1>1, <1>2, <1>3 DEF Moved
<1> QED  BY <1>1, <1>3, <1>4 DEF Disconnect, Interrupted, DeviceState, Kept

LEMMA OpenSnapshotRow ==
  ASSUME TypeOK, NEW d \in Devices, OpenSnapshot(d)
  PROVE  /\ Moved(d)
         /\ Kept(device[d], device'[d])
         /\ UNCHANGED <<clock, epoch, history, events, started, cursors, cutoff,
                        backup, lost, acks, interruptions>>
         /\ device[d].step = "rebuild" /\ device'[d].step = "copying"
         /\ device'[d].carries = device[d].carries /\ device[d].carries = epoch
         /\ device'[d].page = device[d].page
         /\ \E s \in Slots :
              /\ snapshots[s] = None /\ device'[d].snapshot = s
              /\ snapshots' = [snapshots EXCEPT
                   ![s] = [device |-> d, sequence |-> latestSequence]]
<1>1. PICK s \in Slots :
        /\ snapshots[s] = None
        /\ snapshots' = [snapshots EXCEPT
             ![s] = [device |-> d, sequence |-> latestSequence]]
        /\ device' = [device EXCEPT ![d].step = "copying", ![d].snapshot = s]
  BY DEF OpenSnapshot
<1> DEFINE v == device[d]
           w == [v EXCEPT !.step = "copying", !.snapshot = s]
<1>2. v \in DeviceState /\ device \in [Devices -> DeviceState]
  BY DEF TypeOK
<1>3. w \in DeviceState
  BY <1>2, SetFields DEF Steps
<1>4. device' = [device EXCEPT ![d] = w]
  BY <1>1, <1>2
<1>5. Moved(d) /\ device'[d] = w
  BY <1>2, <1>3, <1>4 DEF Moved
<1> QED
  BY <1>1, <1>2, <1>5 DEF OpenSnapshot, SyncEpochCurrent, DeviceState, Kept

LEMMA FinishSnapshotRow ==
  ASSUME TypeOK, HistorySound, RequestsSound, NEW d \in Devices, FinishSnapshot(d)
  PROVE  /\ Moved(d)
         /\ UNCHANGED <<clock, epoch, history, events, started, cursors, cutoff,
                        backup, lost, acks, interruptions>>
         /\ device[d].step = "copying" /\ device'[d].step = "pull"
         /\ device[d].carries = epoch /\ device'[d].carries = epoch
         /\ device'[d].epoch = epoch /\ device'[d].page = device[d].page
         /\ device[d].snapshot \in Slots /\ SessionLives(d)
         /\ snapshots[device[d].snapshot].sequence \in 0..Len(history)
         /\ device'[d].cursor = snapshots[device[d].snapshot].sequence
         /\ device'[d].copy = [i \in 1..device'[d].cursor |-> history[i]]
         /\ snapshots' = [snapshots EXCEPT ![device[d].snapshot] = None]
<1> DEFINE v == device[d]
           s == v.snapshot
           n == snapshots[s].sequence
           u == [v EXCEPT !.step = "pull", !.snapshot = None]
           w == [[u EXCEPT !.epoch = v.carries, !.cursor = n]
                   EXCEPT !.cursor = n, !.copy = SubSeq(history, 1, n)]
<1>1. v \in DeviceState /\ device \in [Devices -> DeviceState]
  BY DEF TypeOK
<1>2. s \in Slots /\ snapshots[s] # None
  BY DEF FinishSnapshot, RequestsSound, RequestSound, SessionLives
<1>3. snapshots[s] \in SnapshotRow
  BY <1>2 DEF TypeOK
<1>4. n \in 0..MaxSequence /\ n <= Len(history) /\ history \in Seq(0..MaxEpoch)
  BY <1>2, <1>3 DEF TypeOK, HistorySound, SnapshotRow
<1>5. n \in 0..Len(history)
  BY <1>4
<1>a. \A j \in 1..Len(history) : history[j] \in 0..MaxEpoch
  <2>1. ASSUME NEW S, NEW h \in Seq(S), NEW j \in 1..Len(h)  PROVE h[j] \in S
    OBVIOUS
  <2> QED  BY <2>1, <1>4
<1>6. /\ SubSeq(history, 1, n) = [i \in 1..n |-> history[i]]
      /\ SubSeq(history, 1, n) \in [1..n -> 0..MaxEpoch]
  <2>1. SubSeq(history, 1, n) = [i \in 1..n |-> history[i]]
    BY <1>4, <1>5, Beginnings
  <2> HIDE DEF n
  <2>2. ASSUME NEW i \in 1..n  PROVE  history[i] \in 0..MaxEpoch
    <3>1. i \in 1..Len(history)
      BY <1>4, <1>5
    <3> QED  BY <1>a, <3>1
  <2> QED  BY <2>1, <2>2
<1>7. SubSeq(history, 1, n) \in UNION {[S -> 0..MaxEpoch] : S \in SUBSET (1..MaxSequence)}
  <2>1. 1..n \in SUBSET (1..MaxSequence)
    BY <1>4, BoundsAssumption
  <2> QED  BY <1>6, <2>1
<1>8. u \in DeviceState
  BY <1>1, SetFields DEF Steps
<1>9. w \in DeviceState
  <2>1. v.carries \in 0..MaxEpoch
    BY <1>1, RowParts
  <2>2. [u EXCEPT !.epoch = v.carries, !.cursor = n] \in DeviceState
    BY <1>4, <1>8, <2>1, SetFields
  <2> HIDE DEF u
  <2> QED  BY <1>4, <1>7, <2>2, SetFields
<1>10. /\ w.step = "pull" /\ w.epoch = v.carries /\ w.cursor = n
       /\ w.copy = SubSeq(history, 1, n) /\ w.carries = v.carries /\ w.page = v.page
  BY <1>1 DEF DeviceState
<1>11. device' = [device EXCEPT ![d] = w]
  BY <1>1 DEF FinishSnapshot, DeviceState
<1>12. Moved(d) /\ device'[d] = w
  BY <1>1, <1>9, <1>11 DEF Moved
<1>13. v.carries = epoch
  BY DEF FinishSnapshot, SyncEpochCurrent
<1> HIDE DEF w
<1> QED  BY <1>2, <1>5, <1>6, <1>10, <1>12, <1>13 DEF FinishSnapshot

Found(d) == {e \in events : e.sequence > device[d].cursor}

LEMMA ReadEventsRow ==
  ASSUME TypeOK, NEW d \in Devices, ReadEvents(d)
  PROVE  /\ Moved(d)
         /\ Kept(device[d], device'[d])
         /\ UNCHANGED <<server, acks, interruptions>>
         /\ device[d].step = "reading"
         /\ device'[d].carries = device[d].carries
         /\ \/ device'[d].step = "rebuild" /\ device'[d].page = device[d].page
            \/ /\ device'[d].step = "received"
               /\ device'[d].page = FirstRows(Found(d), PageSize)
               /\ ~Gap(device[d].cursor, device[d].latest, Found(d))
<1> DEFINE v == device[d]
           P == FirstRows(Found(d), PageSize)
           a == [[v EXCEPT !.step = "rebuild"] EXCEPT !.latest = 0, !.since = 0]
           b == [[[v EXCEPT !.step = "received"] EXCEPT !.page = P, !.more = (P # Found(d))]
                   EXCEPT !.latest = 0, !.since = 0]
<1>1. v \in DeviceState /\ device \in [Devices -> DeviceState]
  BY DEF TypeOK
<1>2. 0 \in 0..MaxSequence /\ 0 \in 0..MaxClock /\ P \in SUBSET EventRow /\ (P # Found(d)) \in BOOLEAN
  BY BoundsAssumption DEF TypeOK, FirstRows, Found
<1>3. a \in DeviceState
  <2>1. [v EXCEPT !.step = "rebuild"] \in DeviceState
    BY <1>1, SetFields DEF Steps
  <2> QED  BY <1>2, <2>1, SetFields
<1>4. b \in DeviceState
  <2>1. [v EXCEPT !.step = "received"] \in DeviceState
    BY <1>1, SetFields DEF Steps
  <2>2. [[v EXCEPT !.step = "received"] EXCEPT !.page = P, !.more = (P # Found(d))] \in DeviceState
    BY <1>2, <2>1, SetFields
  <2> QED  BY <1>2, <2>2, SetFields
<1>5. /\ a.step = "rebuild" /\ a.page = v.page /\ a.carries = v.carries /\ Kept(v, a)
      /\ b.step = "received" /\ b.page = P /\ b.carries = v.carries /\ Kept(v, b)
  BY <1>1 DEF DeviceState, Kept
<1>6. CASE Gap(v.cursor, v.latest, Found(d))
  <2>1. device' = [device EXCEPT ![d] = a]
    BY <1>1, <1>6 DEF ReadEvents, Found
  <2>2. Moved(d) /\ device'[d] = a
    BY <1>1, <1>3, <2>1 DEF Moved
  <2> HIDE DEF a, b
  <2> QED  BY <1>5, <2>2 DEF ReadEvents
<1>7. CASE ~Gap(v.cursor, v.latest, Found(d))
  <2>1. device' = [device EXCEPT ![d] = b]
    BY <1>1, <1>7 DEF ReadEvents, Found, FirstRows
  <2>2. Moved(d) /\ device'[d] = b
    BY <1>1, <1>4, <2>1 DEF Moved
  <2> HIDE DEF a, b
  <2> QED  BY <1>5, <1>7, <2>2 DEF ReadEvents
<1> QED  BY <1>6, <1>7

LEMMA NextCursorIs ==
  ASSUME NEW P \in SUBSET EventRow, NEW c \in 0..MaxSequence
  PROVE  /\ NextCursor(c, P) \in 0..MaxSequence
         /\ P = {} => NextCursor(c, P) = c
         /\ P # {} => \E e \in P : NextCursor(c, P) = e.sequence
         /\ \A e \in P : e.sequence <= NextCursor(c, P)
<1>1. CASE P = {}
  BY <1>1 DEF NextCursor
<1>2. CASE P # {}
  <2>1. /\ Sequences(P) \in SUBSET Nat /\ Sequences(P) # {}
        /\ \A e \in P : e.sequence \in Sequences(P)
        /\ \A y \in Sequences(P) : y <= MaxSequence
        /\ MaxSequence \in Nat
    BY <1>2, BoundsAssumption DEF Sequences, EventRow
  <2>2. /\ Max(Sequences(P)) \in Sequences(P)
        /\ \A y \in Sequences(P) : y <= Max(Sequences(P))
    BY <2>1, Greatest1
  <2>3. NextCursor(c, P) = Max(Sequences(P))
    BY <1>2 DEF NextCursor
  <2>4. PICK e \in P : Max(Sequences(P)) = e.sequence
    BY <2>2 DEF Sequences
  <2>5. e.sequence \in 0..MaxSequence
    BY <2>4 DEF EventRow
  <2> QED  BY <1>2, <2>1, <2>2, <2>3, <2>4, <2>5
<1> QED  BY <1>1, <1>2

Copies == UNION {[S -> 0..MaxEpoch] : S \in SUBSET (1..MaxSequence)}

LEMMA AppliedNew ==
  ASSUME NEW c, NEW P, NEW i \in Sequences(P)
  PROVE  \E e \in P : e.sequence = i /\ Applied(c, P)[i] = e.epoch
<1>1. \E e \in P : e.sequence = i
  BY DEF Sequences
<1>2. (CHOOSE e \in P : e.sequence = i) \in P /\ (CHOOSE e \in P : e.sequence = i).sequence = i
  BY <1>1
<1> QED  BY <1>2 DEF Applied

LEMMA AppliedOld ==
  ASSUME NEW c, NEW P, NEW i \in DOMAIN c, i \notin Sequences(P)
  PROVE  Applied(c, P)[i] = c[i]
<1> QED  BY DEF Applied

LEMMA AppliedIs ==
  ASSUME NEW c \in Copies, NEW P \in SUBSET EventRow
  PROVE  /\ Applied(c, P) \in Copies
         /\ DOMAIN Applied(c, P) = DOMAIN c \cup Sequences(P)
<1>1. PICK S \in SUBSET (1..MaxSequence) : c \in [S -> 0..MaxEpoch]
  BY DEF Copies
<1>2. Sequences(P) \in SUBSET (1..MaxSequence)
  BY DEF Sequences, EventRow
<1>3. ASSUME NEW i \in Sequences(P)
      PROVE  \E e \in P : e.sequence = i /\ Applied(c, P)[i] = e.epoch
  BY AppliedNew
<1>4. ASSUME NEW i \in DOMAIN c \ Sequences(P)  PROVE  Applied(c, P)[i] = c[i]
  BY AppliedOld
<1>5. DOMAIN Applied(c, P) = DOMAIN c \cup Sequences(P)
  BY DEF Applied
<1>6. \A i \in DOMAIN Applied(c, P) : Applied(c, P)[i] \in 0..MaxEpoch
  BY <1>1, <1>3, <1>4, <1>5 DEF EventRow
<1>7. Applied(c, P) \in [DOMAIN c \cup Sequences(P) -> 0..MaxEpoch]
  BY <1>5, <1>6 DEF Applied
<1>8. DOMAIN c \cup Sequences(P) \in SUBSET (1..MaxSequence)
  BY <1>1, <1>2
<1> QED  BY <1>5, <1>7, <1>8 DEF Copies

LEMMA ApplyRow ==
  ASSUME TypeOK, NEW d \in Devices, Apply(d)
  PROVE  /\ Moved(d)
         /\ UNCHANGED <<server, interruptions>>
         /\ device[d].step = "received" /\ device'[d].step \in {"idle", "pull"}
         /\ device'[d].epoch = device[d].epoch /\ device'[d].carries = device[d].carries
         /\ device'[d].cursor = NextCursor(device[d].cursor, device[d].page)
         /\ device'[d].copy = Applied(device[d].copy, device[d].page)
         /\ device'[d].page = {}
         /\ acks' = acks \cup {[device |-> d, epoch |-> device[d].epoch,
                                through |-> device'[d].cursor]}
<1> DEFINE v == device[d]
           n == NextCursor(v.cursor, v.page)
           c == Applied(v.copy, v.page)
           s == IF v.more THEN "pull" ELSE "idle"
           w == [[[v EXCEPT !.step = s] EXCEPT !.cursor = n, !.copy = c]
                   EXCEPT !.page = {}, !.more = FALSE]
<1>1. v \in DeviceState /\ device \in [Devices -> DeviceState]
  BY DEF TypeOK
<1>2. v.cursor \in 0..MaxSequence /\ v.copy \in Copies /\ v.page \in SUBSET EventRow
  BY <1>1, RowParts DEF Copies
<1>3. n \in 0..MaxSequence /\ c \in Copies /\ s \in Steps
  BY <1>2, NextCursorIs, AppliedIs DEF Steps
<1> HIDE DEF n, c, s
<1>4. w \in DeviceState
  <2>1. [v EXCEPT !.step = s] \in DeviceState
    BY <1>1, <1>3, SetFields
  <2>2. [[v EXCEPT !.step = s] EXCEPT !.cursor = n, !.copy = c] \in DeviceState
    BY <1>3, <2>1, SetFields DEF Copies
  <2>3. {} \in SUBSET EventRow /\ FALSE \in BOOLEAN
    OBVIOUS
  <2> QED  BY <2>2, <2>3, SetFields
<1>5. /\ w.step = s /\ w.epoch = v.epoch /\ w.carries = v.carries
      /\ w.cursor = n /\ w.copy = c /\ w.page = {}
  BY <1>1 DEF DeviceState
<1>6. device' = [device EXCEPT ![d] = w]
  BY <1>1 DEF Apply, n, c, s, DeviceState
<1>7. Moved(d) /\ device'[d] = w
  BY <1>1, <1>4, <1>6 DEF Moved
<1>8. /\ v.step = "received" /\ UNCHANGED <<server, interruptions>>
      /\ acks' = acks \cup {[device |-> d, epoch |-> v.epoch, through |-> n]}
  BY DEF Apply, n
<1>9. s \in {"idle", "pull"}
  BY DEF s
<1> HIDE DEF w
<1>10. device'[d].cursor = NextCursor(device[d].cursor, device[d].page)
  BY <1>5, <1>7 DEF n
<1>11. device'[d].copy = Applied(device[d].copy, device[d].page)
  BY <1>5, <1>7 DEF c
<1> QED  BY <1>5, <1>7, <1>8, <1>9, <1>10, <1>11

(***************************************************************************)
(* Types.                                                                  *)
(***************************************************************************)
(* A request that touches no table.                                         *)
Quiet(d) ==
  Refused(d) \/ Ask(d) \/ ReadLatest(d) \/ ReadOldest(d) \/ ReadCursorRow(d)
    \/ Answer(d) \/ SnapshotGone(d) \/ Pull(d) \/ ReadEvents(d)

LEMMA StepCases ==
  ASSUME [Next]_vars
  PROVE  \/ UNCHANGED vars
         \/ \E d \in Devices :
              Quiet(d) \/ OpenSnapshot(d) \/ FinishSnapshot(d) \/ Apply(d) \/ Disconnect(d)
                \/ Stall(d)
         \/ \E t \in Transactions : BeginCommand(t) \/ CommitCommand(t)
         \/ Tick \/ PruneEvents \/ PruneCursors \/ TakeBackup \/ Restore
         \/ \E s \in Slots : ExpireSnapshot(s)
         \/ \E a \in acks : Acknowledge(a)
<1> QED
  BY DEF Next, Commands, Maintenance, Request, Session, Bootstrap, Events,
         Acknowledgements, Quiet

LEMMA InterruptedTyped ==
  ASSUME NEW v \in DeviceState
  PROVE  Interrupted(v) \in DeviceState
<1>1. 0 \in 0..MaxClock /\ 0 \in 0..MaxSequence /\ "idle" \in Steps
  BY BoundsAssumption DEF Steps
<1> QED  BY <1>1, RowParts DEF Interrupted, DeviceState

LEMMA QuietMoves ==
  ASSUME TypeOK, HistorySound, NEW d \in Devices, Quiet(d)
  PROVE  Moved(d) /\ Kept(device[d], device'[d]) /\ UNCHANGED <<server, acks, interruptions>>
<1> QED
  BY RefusedRow, AskRow, ReadLatestRow, ReadOldestRow, ReadCursorRowRow, AnswerRow,
     SnapshotGoneRow, PullRow, ReadEventsRow DEF Quiet

LEMMA TypeInit ==
  ASSUME Init
  PROVE  TypeOK
<1>1. 0 \in 0..MaxEpoch /\ 0 \in 0..MaxClock /\ 0 \in 0..MaxSequence /\ 0 \in 0..MaxInterruptions
  BY BoundsAssumption
<1>2. <<>> \in Seq(0..MaxEpoch)
  OBVIOUS
<1>3. NoCursors \in [Devices -> CursorRow \cup {None}]
  BY DEF NoCursors
<1>4. Offline \in DeviceState
  <2>1. <<>> \in Copies
    <3>1. <<>> \in [{} -> 0..MaxEpoch]
      OBVIOUS
    <3> QED  BY <3>1 DEF Copies
  <2> QED  BY <1>1, <2>1 DEF Offline, DeviceState, Steps, Copies
<1>5. backup \in Backup
  BY <1>2, <1>3 DEF Init, Backup
<1> QED  BY <1>1, <1>2, <1>3, <1>4, <1>5 DEF Init, TypeOK

LEMMA BackupTyped ==
  ASSUME backup \in Backup
  PROVE  /\ backup.history \in Seq(0..MaxEpoch) /\ backup.events \subseteq EventRow
         /\ backup.cursors \in [Devices -> CursorRow \cup {None}]
<1> QED  BY DEF Backup

LEMMA TypeStep ==
  ASSUME TypeOK, HistorySound, RequestsSound, [Next]_vars
  PROVE  TypeOK'
<1>1. CASE UNCHANGED vars
  BY <1>1 DEF TypeOK, vars, server
<1>2. ASSUME NEW d \in Devices, Quiet(d)  PROVE TypeOK'
  BY <1>2, QuietMoves DEF TypeOK, Moved, server
<1>3. ASSUME NEW d \in Devices, OpenSnapshot(d)  PROVE TypeOK'
  <2>1. Moved(d) /\ UNCHANGED <<clock, epoch, history, events, started, cursors, cutoff,
                        backup, lost, acks, interruptions>>
    BY <1>3, OpenSnapshotRow
  <2>2. PICK s \in Slots : snapshots' = [snapshots EXCEPT
                   ![s] = [device |-> d, sequence |-> latestSequence]]
    BY <1>3, OpenSnapshotRow
  <2>3. [device |-> d, sequence |-> latestSequence] \in SnapshotRow
    BY BoundsAssumption DEF SnapshotRow, TypeOK, HistorySound, latestSequence
  <2>4. snapshots' \in [Slots -> SnapshotRow \cup {None}]
    BY <2>2, <2>3 DEF TypeOK
  <2> QED  BY <2>1, <2>4 DEF TypeOK, Moved
<1>4. ASSUME NEW d \in Devices, FinishSnapshot(d)  PROVE TypeOK'
  <2>1. Moved(d) /\ UNCHANGED <<clock, epoch, history, events, started, cursors, cutoff,
                        backup, lost, acks, interruptions>>
        /\ snapshots' = [snapshots EXCEPT ![device[d].snapshot] = None]
    BY <1>4, FinishSnapshotRow
  <2> QED  BY <2>1 DEF TypeOK, Moved
<1>5. ASSUME NEW d \in Devices, Apply(d)  PROVE TypeOK'
  BY <1>5, ApplyRow DEF TypeOK, Moved, server
<1>6. ASSUME NEW d \in Devices, Disconnect(d)  PROVE TypeOK'
  <2>1. interruptions' \in 0..MaxInterruptions
    BY <1>6, BoundsAssumption DEF Disconnect, TypeOK
  <2> QED  BY <1>6, <2>1, DisconnectRow DEF TypeOK, Moved, server
<1>7. ASSUME NEW d \in Devices, Stall(d)  PROVE TypeOK'
  <2>1. interruptions' \in 0..MaxInterruptions
    BY <1>7, BoundsAssumption DEF Stall, TypeOK
  <2> QED  BY <1>7, <2>1 DEF TypeOK, Stall
<1>8. ASSUME NEW t \in Transactions, BeginCommand(t)  PROVE TypeOK'
  BY <1>8 DEF TypeOK, BeginCommand
<1>9. ASSUME NEW t \in Transactions, CommitCommand(t)  PROVE TypeOK'
  <2>1. history' \in Seq(0..MaxEpoch)
    BY <1>9 DEF TypeOK, CommitCommand
  <2>2. started[t] \in 0..MaxClock /\ epoch \in 0..MaxEpoch
    BY <1>9 DEF TypeOK, CommitCommand
  <2>3. latestSequence + 1 \in 1..MaxSequence
    BY <1>9, BoundsAssumption DEF TypeOK, CommitCommand, latestSequence, HistorySound
  <2>4. [sequence |-> latestSequence + 1, createdAt |-> started[t], epoch |-> epoch] \in EventRow
    BY <2>2, <2>3 DEF EventRow
  <2>5. events' \subseteq EventRow
    BY <1>9, <2>4 DEF TypeOK, CommitCommand
  <2>6. started' \in [Transactions -> 0..MaxClock \cup {None}]
    BY <1>9 DEF TypeOK, CommitCommand
  <2> QED  BY <1>9, <2>1, <2>5, <2>6 DEF TypeOK, CommitCommand
<1>10. CASE Tick
  BY <1>10, BoundsAssumption DEF TypeOK, Tick
<1>11. CASE PruneEvents
  BY <1>11, BoundsAssumption DEF TypeOK, PruneEvents
<1>12. CASE PruneCursors
  BY <1>12 DEF TypeOK, PruneCursors
<1>13. CASE TakeBackup
  <2>1. backup' \in Backup
    BY <1>13 DEF TypeOK, TakeBackup, Backup
  <2> QED  BY <1>13, <2>1 DEF TypeOK, TakeBackup
<1>14. CASE Restore
  <2>1. epoch' \in 0..MaxEpoch
    BY <1>14, BoundsAssumption DEF TypeOK, Restore
  <2>2. /\ history' \in Seq(0..MaxEpoch) /\ events' \subseteq EventRow
        /\ cursors' \in [Devices -> CursorRow \cup {None}]
    BY <1>14, BackupTyped DEF TypeOK, Restore
  <2>3. device' \in [Devices -> DeviceState]
    BY <1>14, InterruptedTyped DEF TypeOK, Restore
  <2> QED  BY <1>14, <2>1, <2>2, <2>3 DEF TypeOK, Restore
<1>15. ASSUME NEW s \in Slots, ExpireSnapshot(s)  PROVE TypeOK'
  BY <1>15 DEF TypeOK, ExpireSnapshot
<1>16. ASSUME NEW a \in acks, Acknowledge(a)  PROVE TypeOK'
  <2>1. a.device \in Devices /\ a.through \in 0..MaxSequence
    BY DEF RequestsSound
  <2>2. Greatest(cursors[a.device], a.through) \in 0..MaxSequence
    BY <2>1 DEF Greatest, TypeOK, CursorRow
  <2>3. [acknowledged |-> Greatest(cursors[a.device], a.through), updatedAt |-> clock] \in CursorRow
    BY <2>2 DEF CursorRow, TypeOK
  <2>4. cursors' \in [Devices -> CursorRow \cup {None}]
    BY <1>16, <2>3 DEF TypeOK, Acknowledge
  <2> QED  BY <1>16, <2>4 DEF TypeOK, Acknowledge
<1> QED
  BY StepCases, <1>1, <1>2, <1>3, <1>4, <1>5, <1>6, <1>7, <1>8, <1>9, <1>10, <1>11,
     <1>12, <1>13, <1>14, <1>15, <1>16

(***************************************************************************)
(* Histories.                                                              *)
(***************************************************************************)
LEMMA Appended ==
  ASSUME NEW S, NEW h \in Seq(S), NEW x \in S
  PROVE  /\ Append(h, x) \in Seq(S) /\ Len(Append(h, x)) = Len(h) + 1
         /\ \A i \in 1..Len(h) : Append(h, x)[i] = h[i]
         /\ Append(h, x)[Len(h) + 1] = x
<1> QED  OBVIOUS

LEMMA Elements ==
  ASSUME NEW S, NEW h \in Seq(S)
  PROVE  \A i \in 1..Len(h) : h[i] \in S
<1> QED  OBVIOUS

LEMMA Committed ==
  ASSUME TypeOK, NEW t \in Transactions, CommitCommand(t)
  PROVE  /\ history \in Seq(0..MaxEpoch) /\ history' \in Seq(0..MaxEpoch)
         /\ Len(history) \in Nat /\ Len(history') = Len(history) + 1
         /\ \A i \in 1..Len(history) : history'[i] = history[i]
         /\ history'[Len(history) + 1] = epoch
         /\ events' = events \cup {[sequence |-> Len(history) + 1,
                                    createdAt |-> started[t], epoch |-> epoch]}
<1> QED  BY Appended DEF TypeOK, CommitCommand, latestSequence

LEMMA HistoryInit ==
  ASSUME Init
  PROVE  HistorySound
<1>1. Len(<<>>) = 0
  OBVIOUS
<1> QED
  BY <1>1, BoundsAssumption, FS_EmptySet DEF Init, HistorySound, Beginning, EventsOf

LEMMA SnapshotsKept ==
  ASSUME HistorySound, UNCHANGED <<epoch, history, events, backup, lost>>,
         \A s \in Slots : snapshots'[s] \in {None, snapshots[s]}
  PROVE  HistorySound'
<1> QED  BY DEF HistorySound, Beginning, EventsOf

LEMMA HistoryStep ==
  ASSUME TypeOK, HistorySound, RequestsSound, [Next]_vars
  PROVE  HistorySound'
<1> USE DEF HistorySound
<1>1. CASE UNCHANGED vars
  BY <1>1 DEF vars, server, Beginning, EventsOf
<1>2. ASSUME NEW d \in Devices, Quiet(d)  PROVE HistorySound'
  BY <1>2, QuietMoves DEF server, Beginning, EventsOf
<1>3. ASSUME NEW d \in Devices, OpenSnapshot(d)  PROVE HistorySound'
  <2>1. UNCHANGED <<clock, epoch, history, events, started, cursors, cutoff,
                    backup, lost, acks, interruptions>>
    BY <1>3, OpenSnapshotRow
  <2>2. PICK s \in Slots : snapshots' = [snapshots EXCEPT
                   ![s] = [device |-> d, sequence |-> latestSequence]]
    BY <1>3, OpenSnapshotRow
  <2>3. Len(history) \in Nat
    BY DEF TypeOK
  <2>4. ASSUME NEW x \in Slots, snapshots'[x] # None
        PROVE  /\ snapshots'[x].sequence <= Len(history)
               /\ \A i \in snapshots'[x].sequence + 1 .. Len(history) : history[i] = epoch
    <3>1. CASE x = s
      BY <2>2, <2>3, <3>1 DEF latestSequence, TypeOK
    <3>2. CASE x # s
      BY <2>2, <2>4, <3>2 DEF TypeOK
    <3> QED  BY <3>1, <3>2
  <2> QED  BY <2>1, <2>4 DEF Beginning, EventsOf
<1>4. ASSUME NEW d \in Devices, FinishSnapshot(d)  PROVE HistorySound'
  <2>1. /\ UNCHANGED <<clock, epoch, history, events, started, cursors, cutoff,
                       backup, lost, acks, interruptions>>
        /\ snapshots' = [snapshots EXCEPT ![device[d].snapshot] = None]
    BY <1>4, FinishSnapshotRow
  <2> QED  BY <2>1, SnapshotsKept DEF TypeOK
<1>5. ASSUME NEW d \in Devices, Apply(d)  PROVE HistorySound'
  BY <1>5, ApplyRow DEF server, Beginning, EventsOf
<1>6. ASSUME NEW d \in Devices, Disconnect(d)  PROVE HistorySound'
  BY <1>6, DisconnectRow DEF server, Beginning, EventsOf
<1>7. ASSUME NEW d \in Devices, Stall(d)  PROVE HistorySound'
  BY <1>7, SnapshotsKept DEF Stall, TypeOK
<1>8. ASSUME NEW t \in Transactions, BeginCommand(t)  PROVE HistorySound'
  BY <1>8 DEF BeginCommand, Beginning, EventsOf
<1>9. ASSUME NEW t \in Transactions, CommitCommand(t)  PROVE HistorySound'
  <2> DEFINE n == Len(history)
             new == [sequence |-> n + 1, createdAt |-> started[t], epoch |-> epoch]
  <2>1. /\ n \in Nat /\ Len(history') = n + 1 /\ history'[n + 1] = epoch
        /\ \A i \in 1..n : history'[i] = history[i]
        /\ events' = events \cup {new} /\ UNCHANGED <<epoch, backup, lost, snapshots>>
        /\ n < MaxSequence
    BY <1>9, Committed DEF CommitCommand, latestSequence
  <2>2. Len(history') <= MaxSequence
    BY <2>1, BoundsAssumption
  <2>3. \A i \in 1..Len(history') : history'[i] <= epoch'
    <3> TAKE i \in 1..Len(history')
    <3>1. i \in 1..n \/ i = n + 1
      BY <2>1
    <3> QED  BY <2>1, <3>1 DEF TypeOK
  <2>4. Beginning(backup.history, history')
    <3>1. backup.history \in Seq(0..MaxEpoch)
      BY BackupTyped DEF TypeOK
    <3> QED  BY <2>1, <3>1 DEF Beginning
  <2>5. EventsOf(events', history')
    <3>1. IsFiniteSet(events')
      BY <2>1, FS_AddElement DEF EventsOf
    <3>2. ASSUME NEW e \in events'  PROVE e.sequence <= Len(history') /\ e.epoch = history'[e.sequence]
      <4>1. CASE e \in events
        BY <2>1, <4>1 DEF EventsOf, TypeOK, EventRow
      <4>2. CASE e = new
        BY <2>1, <4>2
      <4> QED  BY <2>1, <3>2, <4>1, <4>2
    <3> QED  BY <3>1, <3>2 DEF EventsOf
  <2>6. ASSUME NEW s \in Slots, snapshots'[s] # None
        PROVE  /\ snapshots'[s].sequence <= Len(history')
               /\ \A i \in snapshots'[s].sequence + 1 .. Len(history') : history'[i] = epoch'
    <3>1. snapshots[s] # None /\ snapshots[s].sequence \in Nat /\ snapshots'[s] = snapshots[s]
      BY <2>1, <2>6 DEF TypeOK, SnapshotRow
    <3>2. ASSUME NEW i \in snapshots[s].sequence + 1 .. n + 1  PROVE history'[i] = epoch
      <4>1. i \in snapshots[s].sequence + 1 .. n \/ i = n + 1
        BY <2>1, <3>1
      <4>2. i \in snapshots[s].sequence + 1 .. n => i \in 1..n
        BY <2>1, <3>1
      <4> QED  BY <2>1, <3>1, <4>1, <4>2
    <3> QED  BY <2>1, <3>1, <3>2
  <2> QED  BY <2>1, <2>2, <2>3, <2>4, <2>5, <2>6
<1>10. CASE Tick
  BY <1>10 DEF Tick, Beginning, EventsOf
<1>11. CASE PruneEvents
  <2>1. events' \subseteq events /\ UNCHANGED <<epoch, history, backup, lost, snapshots>>
    BY <1>11 DEF PruneEvents
  <2>2. EventsOf(events', history')
    BY <2>1, FS_Subset DEF EventsOf
  <2> QED  BY <2>1, <2>2 DEF Beginning
<1>12. CASE PruneCursors
  BY <1>12 DEF PruneCursors, Beginning, EventsOf
<1>13. CASE TakeBackup
  BY <1>13 DEF TakeBackup, Beginning, EventsOf
<1>14. CASE Restore
  <2>1. /\ epoch \in Nat /\ epoch' = epoch + 1 /\ history' = backup.history
        /\ events' = backup.events /\ lost' = lost \cup {history} /\ backup' = backup
        /\ \A s \in Slots : snapshots'[s] = None
    BY <1>14 DEF Restore, TypeOK
  <2>2. backup.history \in Seq(0..MaxEpoch) /\ history \in Seq(0..MaxEpoch)
    BY BackupTyped DEF TypeOK
  <2>3. Len(backup.history) <= Len(history)
    BY DEF Beginning
  <2>4. Len(history') <= MaxSequence
    BY <2>1, <2>2, <2>3, BoundsAssumption
  <2>5. \A i \in 1..Len(history') : history'[i] <= epoch'
    <3> TAKE i \in 1..Len(history')
    <3>1. i \in 1..Len(history) /\ history'[i] = history[i]
      BY <2>1, <2>2, <2>3 DEF Beginning
    <3>2. history[i] \in 0..MaxEpoch /\ history[i] <= epoch
      BY <2>2, <3>1, Elements
    <3> QED  BY <2>1, <3>1, <3>2
  <2>6. \A h \in lost' : h \in Seq(0..MaxEpoch) /\ \A i \in 1..Len(h) : h[i] < epoch'
    <3> TAKE h \in lost'
    <3>1. h \in Seq(0..MaxEpoch) /\ \A i \in 1..Len(h) : h[i] <= epoch
      <4>1. CASE h = history
        BY <2>2, <4>1
      <4>2. CASE h \in lost
        <5> h \in Seq(0..MaxEpoch)
          BY <4>2
        <5>1. ASSUME NEW i \in 1..Len(h)  PROVE h[i] <= epoch
          <6>1. h[i] \in 0..MaxEpoch /\ h[i] < epoch
            BY <4>2, Elements
          <6> QED  BY <2>1, <6>1
        <5> QED  BY <5>1
      <4> QED  BY <2>1, <4>1, <4>2
    <3>2. ASSUME NEW i \in 1..Len(h)  PROVE h[i] < epoch'
      <4>1. h[i] \in 0..MaxEpoch /\ h[i] <= epoch
        BY <3>1, Elements
      <4> QED  BY <2>1, <4>1
    <3> QED  BY <3>1, <3>2
  <2>7. Beginning(backup.history, backup.history)
    BY <2>2 DEF Beginning
  <2> QED  BY <2>1, <2>4, <2>5, <2>6, <2>7
<1>15. ASSUME NEW s \in Slots, ExpireSnapshot(s)  PROVE HistorySound'
  BY <1>15, SnapshotsKept DEF ExpireSnapshot, TypeOK
<1>16. ASSUME NEW a \in acks, Acknowledge(a)  PROVE HistorySound'
  BY <1>16 DEF Acknowledge, Beginning, EventsOf
<1> QED
  BY StepCases, <1>1, <1>2, <1>3, <1>4, <1>5, <1>6, <1>7, <1>8, <1>9, <1>10, <1>11,
     <1>12, <1>13, <1>14, <1>15, <1>16

(***************************************************************************)
(* Requests.                                                               *)
(***************************************************************************)
LEMMA RequestsInit ==
  ASSUME Init
  PROVE  RequestsSound /\ CursorsWithin /\ OnTime /\ AnswersCurrent
<1>1. \A d \in Devices : device[d] = Offline
  BY DEF Init
<1>2. /\ Offline.step = "idle" /\ Offline.epoch = 0 /\ Offline.carries = 0
      /\ Offline.cursor = 0 /\ Offline.page = {}
  BY DEF Offline
<1>3. acks = {} /\ epoch = 0 /\ history = <<>> /\ \A t \in Transactions : started[t] = None
  BY DEF Init
<1>4. Len(<<>>) = 0
  OBVIOUS
<1>5. RequestsSound
  <2>1. RequestSound(Offline, 0)
    BY <1>2, FS_EmptySet DEF RequestSound
  <2>2. \A d \in Devices : RequestSound(device[d], epoch)
    BY <1>1, <1>3, <2>1
  <2> QED  BY <1>3, <2>2 DEF RequestsSound
<1>6. CursorsWithin /\ AnswersCurrent
  <2>1. Within(Offline, 0) /\ AnswerCurrent(Offline, events, 0)
    BY <1>2 DEF Within, AnswerCurrent
  <2> QED  BY <1>1, <1>3, <1>4, <2>1 DEF CursorsWithin, AnswersCurrent
<1>7. OnTime
  BY <1>1, <1>2, <1>3 DEF OnTime
<1> QED
  BY <1>5, <1>6, <1>7

LEMMA RequestMoves ==
  ASSUME TypeOK, RequestsSound, NEW d \in Devices, Moved(d), epoch' = epoch, acks' = acks,
         device'[d].epoch >= device[d].epoch, RequestSound(device'[d], epoch)
  PROVE  RequestsSound'
<1>1. ASSUME NEW a \in acks  PROVE a.epoch <= device'[a.device].epoch
  <2>1. /\ a.device \in Devices /\ a.epoch \in 0..MaxEpoch
        /\ a.epoch <= device[a.device].epoch
    BY DEF RequestsSound
  <2>2. device[a.device].epoch \in 0..MaxEpoch /\ device'[a.device].epoch \in 0..MaxEpoch
    BY <2>1, RowParts DEF TypeOK, Moved
  <2>3. device'[a.device].epoch >= device[a.device].epoch
    BY <2>1, <2>2 DEF Moved
  <2> QED  BY <2>1, <2>2, <2>3
<1>2. ASSUME NEW x \in Devices  PROVE RequestSound(device'[x], epoch')
  BY DEF Moved, RequestsSound
<1> QED  BY <1>1, <1>2 DEF RequestsSound

LEMMA QuietSound ==
  ASSUME TypeOK, HistorySound, RequestsSound, NEW d \in Devices, Quiet(d)
  PROVE  RequestSound(device'[d], epoch)
<1>1. RequestSound(device[d], epoch) /\ device[d] \in DeviceState
  BY DEF RequestsSound, TypeOK
<1>2. device[d].epoch \in Int /\ device[d].carries \in Int /\ epoch \in Int
  BY <1>1, RowParts DEF TypeOK
<1>3. CASE Refused(d)
  BY <1>1, <1>2, <1>3, RefusedRow DEF RequestSound, Kept
<1>4. CASE Ask(d)
  BY <1>1, <1>2, <1>4, AskRow DEF RequestSound, Kept
<1>5. CASE ReadLatest(d)
  BY <1>1, <1>2, <1>5, ReadLatestRow DEF RequestSound, Kept
<1>6. CASE ReadOldest(d)
  BY <1>1, <1>2, <1>6, ReadOldestRow DEF RequestSound, Kept
<1>7. CASE ReadCursorRow(d)
  BY <1>1, <1>2, <1>7, ReadCursorRowRow DEF RequestSound, Kept
<1>8. CASE Answer(d)
  BY <1>1, <1>2, <1>8, AnswerRow DEF RequestSound, Kept
<1>9. CASE SnapshotGone(d)
  BY <1>1, <1>2, <1>9, SnapshotGoneRow DEF RequestSound, Kept
<1>10. CASE Pull(d)
  BY <1>1, <1>2, <1>10, PullRow DEF RequestSound, Kept
<1>11. CASE ReadEvents(d)
  <2>1. IsFiniteSet(FirstRows(Found(d), PageSize))
    <3>1. Found(d) \subseteq events /\ FirstRows(Found(d), PageSize) \subseteq Found(d)
      BY DEF Found, FirstRows
    <3> QED  BY <3>1, FS_Subset DEF HistorySound, EventsOf
  <2> QED  BY <1>1, <1>2, <1>11, <2>1, ReadEventsRow DEF RequestSound, Kept
<1> QED  BY <1>3, <1>4, <1>5, <1>6, <1>7, <1>8, <1>9, <1>10, <1>11 DEF Quiet

LEMMA RequestsKept ==
  ASSUME RequestsSound, UNCHANGED <<epoch, device, acks>>
  PROVE  RequestsSound'
<1> QED  BY DEF RequestsSound

LEMMA RequestsStep ==
  ASSUME TypeOK, HistorySound, RequestsSound, [Next]_vars
  PROVE  RequestsSound'
<1>e. /\ epoch \in Int
      /\ \A d \in Devices : /\ device[d] \in DeviceState /\ device[d].epoch \in Int
                            /\ device[d].carries \in Int /\ RequestSound(device[d], epoch)
  BY RowParts DEF TypeOK, RequestsSound
<1>1. CASE UNCHANGED vars
  BY <1>1, RequestsKept DEF vars, server
<1>2. ASSUME NEW d \in Devices, Quiet(d)  PROVE RequestsSound'
  <2>1. Moved(d) /\ Kept(device[d], device'[d]) /\ epoch' = epoch /\ acks' = acks
    BY <1>2, QuietMoves DEF server
  <2>2. RequestSound(device'[d], epoch)
    BY <1>2, QuietSound
  <2>3. device'[d].epoch >= device[d].epoch
    BY <1>e, <2>1 DEF Kept
  <2> QED  BY <2>1, <2>2, <2>3, RequestMoves
<1>3. ASSUME NEW d \in Devices, OpenSnapshot(d)  PROVE RequestsSound'
  <2>1. /\ Moved(d) /\ Kept(device[d], device'[d]) /\ epoch' = epoch /\ acks' = acks
        /\ device'[d].snapshot \in Slots
    BY <1>3, OpenSnapshotRow
  <2>2. RequestSound(device'[d], epoch) /\ device'[d].epoch >= device[d].epoch
    BY <1>e, <1>3, <2>1, OpenSnapshotRow DEF RequestSound, Kept
  <2> QED  BY <2>1, <2>2, RequestMoves
<1>4. ASSUME NEW d \in Devices, FinishSnapshot(d)  PROVE RequestsSound'
  <2>1. Moved(d) /\ epoch' = epoch /\ acks' = acks
    BY <1>4, FinishSnapshotRow
  <2>2. RequestSound(device'[d], epoch) /\ device'[d].epoch >= device[d].epoch
    BY <1>e, <1>4, FinishSnapshotRow DEF RequestSound
  <2> QED  BY <2>1, <2>2, RequestMoves
<1>5. ASSUME NEW d \in Devices, Apply(d)  PROVE RequestsSound'
  <2> DEFINE a == [device |-> d, epoch |-> device[d].epoch, through |-> device'[d].cursor]
  <2>1. Moved(d) /\ epoch' = epoch /\ acks' = acks \cup {a} /\ device'[d].epoch = device[d].epoch
    BY <1>5, ApplyRow DEF server
  <2>2. RequestSound(device'[d], epoch)
    BY <1>e, <1>5, ApplyRow, FS_EmptySet DEF RequestSound
  <2>3. a \in [device : Devices, epoch : 0..MaxEpoch, through : 0..MaxSequence]
    BY <1>e, <2>1, RowParts DEF Moved
  <2>4. ASSUME NEW x \in acks'  PROVE x.epoch <= device'[x.device].epoch
    <3>1. CASE x = a
      BY <1>e, <2>1, <3>1
    <3>2. CASE x \in acks
      <4>1. x.device \in Devices /\ x.epoch <= device[x.device].epoch
        BY <3>2 DEF RequestsSound
      <4> QED  BY <2>1, <4>1 DEF Moved
    <3> QED  BY <2>1, <2>4, <3>1, <3>2
  <2>5. ASSUME NEW x \in Devices  PROVE RequestSound(device'[x], epoch')
    BY <1>e, <2>1, <2>2 DEF Moved
  <2> QED  BY <2>1, <2>3, <2>4, <2>5 DEF RequestsSound
<1>6. ASSUME NEW d \in Devices, Disconnect(d)  PROVE RequestsSound'
  <2>1. Moved(d) /\ epoch' = epoch /\ acks' = acks
    BY <1>6, DisconnectRow DEF server
  <2>2. RequestSound(device'[d], epoch) /\ device'[d].epoch >= device[d].epoch
    BY <1>e, <1>6, DisconnectRow, FS_EmptySet DEF RequestSound, Kept
  <2> QED  BY <2>1, <2>2, RequestMoves
<1>7. ASSUME NEW d \in Devices, Stall(d)  PROVE RequestsSound'
  BY <1>7, RequestsKept DEF Stall
<1>8. ASSUME NEW t \in Transactions, BeginCommand(t) \/ CommitCommand(t)  PROVE RequestsSound'
  BY <1>8, RequestsKept DEF BeginCommand, CommitCommand
<1>9. CASE Tick \/ PruneEvents \/ PruneCursors \/ TakeBackup
  BY <1>9, RequestsKept DEF Tick, PruneEvents, PruneCursors, TakeBackup
<1>10. CASE Restore
  <2>1. epoch' = epoch + 1 /\ acks' = acks
    BY <1>10 DEF Restore
  <2>2. ASSUME NEW d \in Devices
        PROVE  RequestSound(device'[d], epoch') /\ device'[d].epoch = device[d].epoch
    <3>1. CASE device[d].step \in {"asking", "reading"}
      <4>1. device'[d] = Interrupted(device[d])
        BY <1>10, <3>1 DEF Restore
      <4> QED  BY <1>e, <2>1, <4>1, FS_EmptySet DEF Interrupted, RequestSound
    <3>2. CASE device[d].step \notin {"asking", "reading"}
      <4>1. device'[d] = device[d]
        BY <1>10, <3>2 DEF Restore
      <4> QED  BY <1>e, <2>1, <3>2, <4>1 DEF RequestSound
    <3> QED  BY <3>1, <3>2
  <2> QED  BY <2>1, <2>2 DEF RequestsSound
<1>11. ASSUME NEW s \in Slots, ExpireSnapshot(s)  PROVE RequestsSound'
  BY <1>11, RequestsKept DEF ExpireSnapshot
<1>12. ASSUME NEW a \in acks, Acknowledge(a)  PROVE RequestsSound'
  BY <1>12, RequestsKept DEF Acknowledge
<1> QED
  BY StepCases, <1>1, <1>2, <1>3, <1>4, <1>5, <1>6, <1>7, <1>8, <1>9, <1>10, <1>11, <1>12

(***************************************************************************)
(* Cursors, time and answers.                                              *)
(***************************************************************************)
LEMMA CursorsMove ==
  ASSUME TypeOK, CursorsWithin, NEW d \in Devices, Moved(d), UNCHANGED <<epoch, history>>,
         device'[d].epoch = epoch => Within(device'[d], Len(history))
  PROVE  CursorsWithin'
<1> QED  BY DEF CursorsWithin, Moved

LEMMA CursorsGrow ==
  ASSUME TypeOK, CursorsWithin, UNCHANGED <<epoch, device>>, Len(history') \in Nat,
         Len(history) <= Len(history')
  PROVE  CursorsWithin'
<1>1. ASSUME NEW d \in Devices, device[d].epoch = epoch
      PROVE  Within(device[d], Len(history'))
  <2>1. Within(device[d], Len(history)) /\ device[d].cursor \in Nat
        /\ \A e \in device[d].page : e.sequence \in Nat
    BY <1>1, RowParts, BoundsAssumption DEF CursorsWithin, TypeOK, EventRow
  <2>2. Len(history) \in Nat
    BY DEF TypeOK
  <2> QED  BY <2>1, <2>2 DEF Within
<1> QED  BY <1>1 DEF CursorsWithin

LEMMA CursorsStep ==
  ASSUME TypeOK, HistorySound, RequestsSound, CursorsWithin, [Next]_vars
  PROVE  CursorsWithin'
<1>e. /\ Len(history) \in Nat
      /\ \A d \in Devices :
           /\ device[d] \in DeviceState /\ device[d].cursor \in 0..MaxSequence
           /\ device[d].page \in SUBSET EventRow
           /\ device[d].epoch \in Nat /\ RequestSound(device[d], epoch)
  BY RowParts DEF TypeOK, RequestsSound
<1>1. CASE UNCHANGED vars
  BY <1>1 DEF vars, server, CursorsWithin
<1>2. ASSUME NEW d \in Devices, Quiet(d)  PROVE CursorsWithin'
  <2>1. Moved(d) /\ Kept(device[d], device'[d]) /\ epoch' = epoch /\ history' = history
    BY <1>2, QuietMoves DEF server
  <2>2. device'[d].page = device[d].page \/ device'[d].page = FirstRows(Found(d), PageSize)
    BY <1>2, RefusedRow, AskRow, ReadLatestRow, ReadOldestRow, ReadCursorRowRow, AnswerRow,
       SnapshotGoneRow, PullRow, ReadEventsRow DEF Quiet
  <2>3. \A e \in FirstRows(Found(d), PageSize) : e.sequence <= Len(history)
    BY DEF FirstRows, Found, HistorySound, EventsOf
  <2>4. device'[d].epoch = epoch => Within(device'[d], Len(history))
    BY <2>1, <2>2, <2>3 DEF Kept, CursorsWithin, Within
  <2> QED  BY <2>1, <2>4, CursorsMove
<1>3. ASSUME NEW d \in Devices, OpenSnapshot(d)  PROVE CursorsWithin'
  <2>1. /\ Moved(d) /\ Kept(device[d], device'[d]) /\ epoch' = epoch /\ history' = history
        /\ device'[d].page = device[d].page
    BY <1>3, OpenSnapshotRow
  <2>2. device'[d].epoch = epoch => Within(device'[d], Len(history))
    BY <2>1 DEF Kept, CursorsWithin, Within
  <2> QED  BY <2>1, <2>2, CursorsMove
<1>4. ASSUME NEW d \in Devices, FinishSnapshot(d)  PROVE CursorsWithin'
  <2>1. /\ Moved(d) /\ epoch' = epoch /\ history' = history
        /\ device'[d].page = device[d].page /\ device[d].step = "copying"
        /\ device'[d].cursor \in 0..Len(history)
    BY <1>4, FinishSnapshotRow
  <2>2. device'[d].page = {}
    BY <1>e, <2>1 DEF RequestSound
  <2>3. Within(device'[d], Len(history))
    BY <1>e, <2>1, <2>2 DEF Within
  <2> QED  BY <2>1, <2>3, CursorsMove
<1>5. ASSUME NEW d \in Devices, Apply(d)  PROVE CursorsWithin'
  <2>1. /\ Moved(d) /\ epoch' = epoch /\ history' = history
        /\ device'[d].page = {} /\ device'[d].epoch = device[d].epoch
        /\ device'[d].cursor = NextCursor(device[d].cursor, device[d].page)
    BY <1>5, ApplyRow DEF server
  <2>2. ASSUME device[d].epoch = epoch
        PROVE  NextCursor(device[d].cursor, device[d].page) <= Len(history)
    <3>1. Within(device[d], Len(history))
      BY <2>2 DEF CursorsWithin
    <3>2. CASE device[d].page = {}
      BY <1>e, <3>1, <3>2, NextCursorIs DEF Within
    <3>3. CASE device[d].page # {}
      BY <1>e, <3>1, <3>3, NextCursorIs DEF Within
    <3> QED  BY <3>2, <3>3
  <2>3. device'[d].epoch = epoch => Within(device'[d], Len(history))
    BY <2>1, <2>2 DEF Within
  <2> QED  BY <2>1, <2>3, CursorsMove
<1>6. ASSUME NEW d \in Devices, Disconnect(d)  PROVE CursorsWithin'
  <2>1. /\ Moved(d) /\ Kept(device[d], device'[d]) /\ epoch' = epoch /\ history' = history
        /\ device'[d].page = {}
    BY <1>6, DisconnectRow DEF server
  <2>2. device'[d].epoch = epoch => Within(device'[d], Len(history))
    BY <2>1 DEF Kept, CursorsWithin, Within
  <2> QED  BY <2>1, <2>2, CursorsMove
<1>7. ASSUME NEW d \in Devices, Stall(d)  PROVE CursorsWithin'
  BY <1>7 DEF Stall, CursorsWithin
<1>8. ASSUME NEW t \in Transactions, BeginCommand(t)  PROVE CursorsWithin'
  BY <1>8 DEF BeginCommand, CursorsWithin
<1>9. ASSUME NEW t \in Transactions, CommitCommand(t)  PROVE CursorsWithin'
  <2>1. Len(history') = Len(history) + 1 /\ UNCHANGED <<epoch, device>>
    BY <1>9, Committed DEF CommitCommand
  <2> QED  BY <1>e, <2>1, CursorsGrow
<1>10. CASE Tick \/ PruneEvents \/ PruneCursors \/ TakeBackup
  BY <1>10 DEF Tick, PruneEvents, PruneCursors, TakeBackup, CursorsWithin
<1>11. CASE Restore
  <2>1. epoch' = epoch + 1 /\ epoch \in Nat
    BY <1>11 DEF Restore, TypeOK
  <2>2. \A d \in Devices : device'[d].epoch = device[d].epoch
    BY <1>11 DEF Restore, Interrupted
  <2>3. \A d \in Devices : device[d].epoch <= epoch
    BY <1>e, <2>1, RowParts DEF RequestSound
  <2> QED  BY <1>e, <2>1, <2>2, <2>3 DEF CursorsWithin
<1>12. ASSUME NEW s \in Slots, ExpireSnapshot(s)  PROVE CursorsWithin'
  BY <1>12 DEF ExpireSnapshot, CursorsWithin
<1>13. ASSUME NEW a \in acks, Acknowledge(a)  PROVE CursorsWithin'
  BY <1>13 DEF Acknowledge, CursorsWithin
<1> QED
  BY StepCases, <1>1, <1>2, <1>3, <1>4, <1>5, <1>6, <1>7, <1>8, <1>9, <1>10, <1>11,
     <1>12, <1>13

LEMMA TimeKept ==
  ASSUME TypeOK, OnTime, clock' = clock,
         \A t \in Transactions : started'[t] \in {None, started[t], clock},
         \A d \in Devices : device'[d].step = "reading" =>
           \/ device'[d].since = clock
           \/ device[d].step = "reading" /\ device'[d].since = device[d].since
  PROVE  OnTime'
<1>1. clock \in Nat /\ Patience \in Nat
  BY BoundsAssumption DEF TypeOK
<1>2. \A t \in Transactions : started'[t] # None =>
        started'[t] <= clock /\ clock <= started'[t] + Patience
  BY <1>1 DEF OnTime
<1>3. \A d \in Devices : device'[d].step = "reading" =>
        device'[d].since <= clock /\ clock <= device'[d].since + Patience
  BY <1>1 DEF OnTime
<1> QED  BY <1>2, <1>3 DEF OnTime

LEMMA OneReader ==
  ASSUME NEW d \in Devices, Moved(d),
         \/ device'[d].step # "reading"
         \/ device'[d].since = clock
  PROVE  \A x \in Devices : device'[x].step = "reading" =>
           \/ device'[x].since = clock
           \/ device[x].step = "reading" /\ device'[x].since = device[x].since
<1> QED  BY DEF Moved

LEMMA TimeStep ==
  ASSUME TypeOK, HistorySound, RequestsSound, OnTime, [Next]_vars
  PROVE  OnTime'
<1>1. CASE UNCHANGED vars
  BY <1>1, TimeKept DEF vars, server
<1>2. ASSUME NEW d \in Devices, Quiet(d)  PROVE OnTime'
  <2>1. Moved(d) /\ clock' = clock /\ started' = started
    BY <1>2, QuietMoves DEF server
  <2>2. device'[d].step # "reading" \/ device'[d].since = clock
    BY <1>2, RefusedRow, AskRow, ReadLatestRow, ReadOldestRow, ReadCursorRowRow, AnswerRow,
       SnapshotGoneRow, PullRow, ReadEventsRow DEF Quiet
  <2> QED  BY <2>1, <2>2, OneReader, TimeKept
<1>3. ASSUME NEW d \in Devices,
             OpenSnapshot(d) \/ FinishSnapshot(d) \/ Apply(d) \/ Disconnect(d)
      PROVE  OnTime'
  <2>1. /\ Moved(d) /\ clock' = clock /\ started' = started
        /\ device'[d].step # "reading"
    BY <1>3, OpenSnapshotRow, FinishSnapshotRow, ApplyRow, DisconnectRow DEF server
  <2> QED  BY <2>1, OneReader, TimeKept
<1>4. ASSUME NEW d \in Devices, Stall(d)  PROVE OnTime'
  BY <1>4, TimeKept DEF Stall
<1>5. ASSUME NEW t \in Transactions, BeginCommand(t) \/ CommitCommand(t)  PROVE OnTime'
  <2>1. UNCHANGED <<clock, device>>
    BY <1>5 DEF BeginCommand, CommitCommand
  <2>2. \A x \in Transactions : started'[x] \in {None, started[x], clock}
    BY <1>5 DEF BeginCommand, CommitCommand, TypeOK
  <2> QED  BY <2>1, <2>2, TimeKept
<1>6. CASE Tick
  <2>1. clock' = clock + 1 /\ UNCHANGED <<started, device>>
    BY <1>6 DEF Tick
  <2>2. clock \in Nat /\ Patience \in Nat
    BY BoundsAssumption DEF TypeOK
  <2>3. ASSUME NEW t \in Transactions, started[t] # None
        PROVE  started[t] <= clock + 1 /\ clock + 1 <= started[t] + Patience
    <3>1. started[t] \in Nat /\ started[t] <= clock /\ clock - started[t] < Patience
      BY <1>6, <2>3 DEF TypeOK, OnTime, Tick
    <3> QED  BY <2>2, <3>1
  <2>4. ASSUME NEW d \in Devices, device[d].step = "reading"
        PROVE  device[d].since <= clock + 1 /\ clock + 1 <= device[d].since + Patience
    <3>1. device[d].since \in Nat /\ device[d].since <= clock /\ clock - device[d].since < Patience
      BY <1>6, <2>4, RowParts DEF TypeOK, OnTime, Tick
    <3> QED  BY <2>2, <3>1
  <2> QED  BY <2>1, <2>3, <2>4 DEF OnTime
<1>7. CASE PruneEvents \/ PruneCursors \/ TakeBackup
  BY <1>7, TimeKept DEF PruneEvents, PruneCursors, TakeBackup
<1>8. CASE Restore
  <2>1. clock' = clock /\ \A t \in Transactions : started'[t] = None
    BY <1>8 DEF Restore
  <2>2. \A d \in Devices : device'[d].step # "reading"
    BY <1>8 DEF Restore, Interrupted
  <2> QED  BY <2>1, <2>2, TimeKept
<1>9. ASSUME NEW s \in Slots, ExpireSnapshot(s)  PROVE OnTime'
  BY <1>9, TimeKept DEF ExpireSnapshot
<1>10. ASSUME NEW a \in acks, Acknowledge(a)  PROVE OnTime'
  BY <1>10, TimeKept DEF Acknowledge
<1> QED
  BY StepCases, <1>1, <1>2, <1>3, <1>4, <1>5, <1>6, <1>7, <1>8, <1>9, <1>10

LEMMA AnswersMove ==
  ASSUME AnswersCurrent, NEW d \in Devices, Moved(d), UNCHANGED <<history, events>>,
         AnswerCurrent(device'[d], events, Len(history))
  PROVE  AnswersCurrent'
<1> QED  BY DEF AnswersCurrent, Moved

LEMMA AnswersKept ==
  ASSUME TypeOK, AnswersCurrent, UNCHANGED device, Len(history') \in Nat,
         Len(history) <= Len(history'),
         \A e \in events' : e \in events \/ (e.sequence > Len(history) /\ e.sequence \in Nat)
  PROVE  AnswersCurrent'
<1>1. Len(history) \in Nat
  BY DEF TypeOK
<1>2. ASSUME NEW d \in Devices  PROVE AnswerCurrent(device[d], events', Len(history'))
  <2>1. AnswerCurrent(device[d], events, Len(history)) /\ device[d] \in DeviceState
    BY DEF AnswersCurrent, TypeOK
  <2>2. device[d].latest \in Nat /\ (device[d].oldest # None => device[d].oldest \in Nat)
    BY <2>1, RowParts, BoundsAssumption
  <2> QED  BY <1>1, <2>1, <2>2 DEF AnswerCurrent
<1> QED  BY <1>2 DEF AnswersCurrent

LEMMA AnswersStep ==
  ASSUME TypeOK, HistorySound, RequestsSound, CursorsWithin, AnswersCurrent, [Next]_vars
  PROVE  AnswersCurrent'
<1>e. Len(history) \in Nat
  BY DEF TypeOK
<1>1. CASE UNCHANGED vars
  BY <1>1 DEF vars, server, AnswersCurrent
<1>2. ASSUME NEW d \in Devices, Quiet(d)  PROVE AnswersCurrent'
  <2>1. Moved(d) /\ history' = history /\ events' = events
    BY <1>2, QuietMoves DEF server
  <2>2. /\ AnswerCurrent(device[d], events, Len(history)) /\ device[d] \in DeviceState
        /\ RequestSound(device[d], epoch)
        /\ device[d].epoch = epoch => device[d].cursor <= Len(history)
    BY DEF AnswersCurrent, RequestsSound, CursorsWithin, Within, TypeOK
  <2>3. CASE Refused(d) \/ Answer(d) \/ SnapshotGone(d) \/ Pull(d) \/ ReadEvents(d)
    <3>1. device'[d].step # "asking"
      BY <2>3, RefusedRow, AnswerRow, SnapshotGoneRow, PullRow, ReadEventsRow
    <3> QED  BY <2>1, <3>1, AnswersMove DEF AnswerCurrent
  <2>4. CASE Ask(d)
    <3>1. device'[d].unread = Reads
      BY <2>4, AskRow
    <3> QED  BY <2>1, <3>1, AnswersMove DEF AnswerCurrent, Reads
  <2>5. CASE ReadLatest(d)
    <3>1. device[d].step = "asking" /\ device[d].epoch = epoch
      BY <2>2, <2>5, ReadLatestRow DEF RequestSound
    <3>2. AnswerCurrent(device'[d], events, Len(history))
      BY <1>e, <2>2, <2>5, <3>1, ReadLatestRow DEF AnswerCurrent, Kept, latestSequence
    <3> QED  BY <2>1, <3>2, AnswersMove
  <2>6. CASE ReadOldest(d)
    <3>1. AnswerCurrent(device'[d], events, Len(history))
      BY <2>2, <2>6, ReadOldestRow DEF AnswerCurrent, Kept
    <3> QED  BY <2>1, <3>1, AnswersMove
  <2>7. CASE ReadCursorRow(d)
    <3>1. AnswerCurrent(device'[d], events, Len(history))
      BY <2>2, <2>7, ReadCursorRowRow DEF AnswerCurrent, Kept
    <3> QED  BY <2>1, <3>1, AnswersMove
  <2> QED  BY <1>2, <2>3, <2>4, <2>5, <2>6, <2>7 DEF Quiet
<1>3. ASSUME NEW d \in Devices,
             OpenSnapshot(d) \/ FinishSnapshot(d) \/ Apply(d) \/ Disconnect(d)
      PROVE  AnswersCurrent'
  <2>1. /\ Moved(d) /\ history' = history /\ events' = events
        /\ device'[d].step # "asking"
    BY <1>3, OpenSnapshotRow, FinishSnapshotRow, ApplyRow, DisconnectRow DEF server
  <2> QED  BY <2>1, AnswersMove DEF AnswerCurrent
<1>4. ASSUME NEW d \in Devices, Stall(d)  PROVE AnswersCurrent'
  BY <1>4 DEF Stall, AnswersCurrent
<1>5. ASSUME NEW t \in Transactions, BeginCommand(t)  PROVE AnswersCurrent'
  BY <1>5 DEF BeginCommand, AnswersCurrent
<1>6. ASSUME NEW t \in Transactions, CommitCommand(t)  PROVE AnswersCurrent'
  <2>1. /\ Len(history') = Len(history) + 1 /\ device' = device
        /\ events' = events \cup {[sequence |-> Len(history) + 1,
                                   createdAt |-> started[t], epoch |-> epoch]}
    BY <1>6, Committed DEF CommitCommand
  <2>2. \A e \in events' : e \in events \/ (e.sequence > Len(history) /\ e.sequence \in Nat)
    BY <1>e, <2>1
  <2> QED  BY <1>e, <2>1, <2>2, AnswersKept
<1>7. CASE PruneEvents
  <2>1. events' \subseteq events /\ UNCHANGED <<history, device>>
    BY <1>7 DEF PruneEvents
  <2> QED  BY <1>e, <2>1, AnswersKept
<1>8. CASE Tick \/ PruneCursors \/ TakeBackup
  BY <1>8 DEF Tick, PruneCursors, TakeBackup, AnswersCurrent
<1>9. CASE Restore
  <2>1. \A d \in Devices : device'[d].step # "asking"
    BY <1>9 DEF Restore, Interrupted
  <2> QED  BY <2>1 DEF AnswersCurrent, AnswerCurrent
<1>10. ASSUME NEW s \in Slots, ExpireSnapshot(s)  PROVE AnswersCurrent'
  BY <1>10 DEF ExpireSnapshot, AnswersCurrent
<1>11. ASSUME NEW a \in acks, Acknowledge(a)  PROVE AnswersCurrent'
  BY <1>11 DEF Acknowledge, AnswersCurrent
<1> QED
  BY StepCases, <1>1, <1>2, <1>3, <1>4, <1>5, <1>6, <1>7, <1>8, <1>9, <1>10, <1>11

LEMMA BaseStep ==
  ASSUME BaseInv, [Next]_vars
  PROVE  BaseInv'
<1> QED
  BY TypeStep, HistoryStep, RequestsStep, CursorsStep, TimeStep, AnswersStep DEF BaseInv

LEMMA BaseHolds == Spec => []BaseInv
<1>1. Init => BaseInv
  BY TypeInit, HistoryInit, RequestsInit DEF BaseInv
<1>2. BaseInv /\ [Next]_vars => BaseInv'
  BY BaseStep
<1> QED  BY <1>1, <1>2, PTL DEF Spec

(* The tables and what the devices store keep their types; a device's       *)
(* cursor is a number whatever page it was answered.                        *)
THEOREM FeedTyped == Spec => []TypeOK
<1>1. BaseInv => TypeOK
  BY DEF BaseInv
<1> QED  BY <1>1, BaseHolds, PTL

(***************************************************************************)
(* What an acknowledgement and a session answer never do.                  *)
(***************************************************************************)
LEMMA CursorRowsStep ==
  ASSUME BaseInv, [Next]_vars, NEW d \in Devices,
         cursors[d] # None, cursors'[d] # None, epoch' = epoch
  PROVE  cursors'[d].acknowledged >= cursors[d].acknowledged
<1>e. TypeOK /\ RequestsSound /\ HistorySound
  BY DEF BaseInv
<1>r. cursors[d].acknowledged \in Nat
  BY <1>e DEF TypeOK, CursorRow
<1>1. CASE cursors'[d] = cursors[d]
  BY <1>r, <1>1
<1>2. CASE PruneCursors
  BY <1>r, <1>2 DEF PruneCursors
<1>3. ASSUME NEW a \in acks, Acknowledge(a)
      PROVE  cursors'[d].acknowledged >= cursors[d].acknowledged
  <2>1. a.device \in Devices /\ a.through \in 0..MaxSequence
    BY <1>e DEF RequestsSound
  <2>2. CASE a.device = d
    <3>1. cursors'[d].acknowledged = Greatest(cursors[d], a.through)
      BY <1>e, <1>3, <2>1, <2>2 DEF Acknowledge, TypeOK
    <3>2. Greatest(cursors[d], a.through) >= cursors[d].acknowledged
      BY <1>r, <2>1, BoundsAssumption DEF Greatest
    <3> QED  BY <3>1, <3>2
  <2>3. CASE a.device # d
    <3>1. cursors'[d] = cursors[d]
      BY <1>e, <1>3, <2>1, <2>3 DEF Acknowledge, TypeOK
    <3> QED  BY <1>r, <3>1
  <2> QED  BY <2>2, <2>3
<1>4. CASE Restore
  <2>1. epoch' = epoch + 1 /\ epoch \in Nat
    BY <1>e, <1>4 DEF Restore, TypeOK
  <2> QED  BY <2>1
<1>5. ASSUME NEW x \in Devices,
             Quiet(x) \/ OpenSnapshot(x) \/ FinishSnapshot(x) \/ Apply(x) \/ Disconnect(x)
               \/ Stall(x)
      PROVE  cursors' = cursors
  BY <1>e, <1>5, QuietMoves, OpenSnapshotRow, FinishSnapshotRow, ApplyRow, DisconnectRow
     DEF server, Stall
<1>6. CASE UNCHANGED vars
  BY <1>1, <1>6 DEF vars, server
<1>7. ASSUME NEW t \in Transactions, BeginCommand(t) \/ CommitCommand(t)
      PROVE  cursors' = cursors
  BY <1>7 DEF BeginCommand, CommitCommand
<1>8. ASSUME Tick \/ PruneEvents \/ TakeBackup \/ \E s \in Slots : ExpireSnapshot(s)
      PROVE  cursors' = cursors
  BY <1>8 DEF Tick, PruneEvents, TakeBackup, ExpireSnapshot
<1> QED
  BY StepCases, <1>1, <1>2, <1>3, <1>4, <1>5, <1>6, <1>7, <1>8

(* Late and repeated acknowledgements never take one back: acknowledge keeps
   the greatest sequence of a row within an epoch.                           *)
THEOREM AcknowledgementsMonotone == Spec => AcknowledgedMonotone
<1>1. BaseInv /\ [Next]_vars =>
        [\A d \in Devices :
           (cursors[d] # None /\ cursors'[d] # None /\ epoch' = epoch)
             => cursors'[d].acknowledged >= cursors[d].acknowledged]_vars
  BY CursorRowsStep
<1> QED  BY <1>1, BaseHolds, PTL DEF Spec, AcknowledgedMonotone

LEMMA RebuildIsAnswer ==
  ASSUME BaseInv, [Next]_vars, NEW d \in Devices,
         device[d].step = "asking", device'[d].step = "rebuild"
  PROVE  Answer(d)
<1>e. TypeOK /\ RequestsSound /\ HistorySound
  BY DEF BaseInv
<1>1. ASSUME NEW x \in Devices, x # d, Moved(x)  PROVE FALSE
  BY <1>1 DEF Moved
<1>2. ASSUME NEW x \in Devices,
             Quiet(x) \/ OpenSnapshot(x) \/ FinishSnapshot(x) \/ Apply(x) \/ Disconnect(x)
      PROVE  x = d
  <2>1. Moved(x)
    BY <1>e, <1>2, QuietMoves, OpenSnapshotRow, FinishSnapshotRow, ApplyRow, DisconnectRow
  <2> QED  BY <1>1, <2>1
<1>3. ~(OpenSnapshot(d) \/ FinishSnapshot(d) \/ Apply(d) \/ Disconnect(d))
  BY <1>e, OpenSnapshotRow, FinishSnapshotRow, ApplyRow, DisconnectRow
<1>4. Quiet(d) => Answer(d)
  BY <1>e, AskRow, ReadLatestRow, ReadOldestRow, ReadCursorRowRow, SnapshotGoneRow, PullRow,
     ReadEventsRow DEF Quiet, Refused
<1>5. ~Restore
  BY DEF Restore, Interrupted
<1>6. device' # device
  OBVIOUS
<1>7. /\ \A x \in Devices : ~Stall(x)
      /\ \A t \in Transactions : ~BeginCommand(t) /\ ~CommitCommand(t)
      /\ \A s \in Slots : ~ExpireSnapshot(s)
      /\ \A a \in acks : ~Acknowledge(a)
  BY <1>6 DEF Stall, BeginCommand, CommitCommand, ExpireSnapshot, Acknowledge
<1>8. ~(UNCHANGED vars \/ Tick \/ PruneEvents \/ PruneCursors \/ TakeBackup)
  BY <1>6 DEF vars, server, Tick, PruneEvents, PruneCursors, TakeBackup
<1> QED
  BY StepCases, <1>2, <1>3, <1>4, <1>5, <1>7, <1>8

LEMMA AnswerJustified ==
  ASSUME BaseInv, [Next]_vars, NEW d \in Devices,
         device[d].step = "asking", device'[d].step = "rebuild", device[d].known
  PROVE  \/ latestSequence - device[d].cursor > MaxLag
         \/ device[d].cursor + 1 \notin Sequences(events)
            /\ device[d].cursor < latestSequence
<1> DEFINE v == device[d]
<1>e. /\ TypeOK /\ RequestsSound /\ HistorySound
      /\ AnswerCurrent(v, events, Len(history))
  BY DEF BaseInv, AnswersCurrent
<1>1. Answer(d)
  BY RebuildIsAnswer
<1>2. v.unread = {} /\ BootstrapRequired(v)
  BY <1>e, <1>1, AnswerRow
<1>3. /\ v.cursor \in Nat /\ v.latest \in Nat /\ MaxLag \in Nat /\ latestSequence \in Nat
      /\ v.oldest # None => v.oldest \in Nat
      /\ \A e \in events : e.sequence \in Nat
  BY <1>e, RowParts, BoundsAssumption DEF TypeOK, latestSequence, EventRow
<1>4. /\ v.cursor <= v.latest /\ v.latest <= latestSequence
      /\ v.oldest # None => v.oldest <= latestSequence /\ \A e \in events : v.oldest <= e.sequence
  BY <1>e, <1>2 DEF AnswerCurrent, latestSequence
<1> HIDE DEF v
<1>5. CASE Expired(v.cursor, v.oldest)
  <2>1. v.oldest # None /\ v.cursor + 1 < v.oldest
    BY <1>5 DEF Expired
  <2>2. \A e \in events : e.sequence # v.cursor + 1
    BY <1>3, <1>4, <2>1
  <2>3. v.cursor + 1 \notin Sequences(events) /\ v.cursor < latestSequence
    BY <1>3, <1>4, <2>1, <2>2 DEF Sequences
  <2> QED  BY <2>3 DEF v
<1>6. CASE v.latest - v.cursor > MaxLag
  <2>1. latestSequence - v.cursor > MaxLag
    BY <1>3, <1>4, <1>6
  <2> QED  BY <2>1 DEF v
<1>7. v.known
  BY DEF v
<1> QED  BY <1>2, <1>3, <1>4, <1>5, <1>6, <1>7 DEF BootstrapRequired

(* A device the server knows is sent to a bootstrap only when the event after
   its cursor is gone or it is too far behind, though session reads the
   latest sequence, the oldest event and the cursor at different times.      *)
THEOREM BootstrapsJustified == Spec => BootstrapJustified
<1>1. BaseInv /\ [Next]_vars =>
        [\A d \in Devices :
           (device[d].step = "asking" /\ device'[d].step = "rebuild" /\ device[d].known)
             => \/ latestSequence - device[d].cursor > MaxLag
                \/ device[d].cursor + 1 \notin Sequences(events)
                   /\ device[d].cursor < latestSequence]_vars
  BY AnswerJustified
<1> QED  BY <1>1, BaseHolds, PTL DEF Spec, BootstrapJustified

(***************************************************************************)
(* While the log is in the order of created_at, no event is missing        *)
(* between one that is stored and the last.                                *)
(***************************************************************************)
LEMMA PruneKeepsOrder ==
  ASSUME BaseInv, Gapless(events, history), InTimeOrder, PruneEvents
  PROVE  Gapless(events', history)
<1> DEFINE limit == clock - Retention
           old == {e \in events : e.createdAt < limit}
           first == FirstRows(old, PruneLimit)
<1>1. events' = events \ first
  BY DEF PruneEvents, FirstRows
<1>2. /\ old \subseteq events /\ IsFiniteSet(old) /\ PruneLimit \in Nat \ {0}
      /\ \A e \in events : e.sequence \in Nat /\ e.createdAt \in Nat
      /\ limit \in Int /\ Len(history) \in Nat
  <2>1. IsFiniteSet(events)
    BY DEF BaseInv, HistorySound, EventsOf
  <2>2. \A e \in events : e.sequence \in Nat /\ e.createdAt \in Nat
    BY DEF BaseInv, TypeOK, EventRow
  <2>3. limit \in Int /\ PruneLimit \in Nat \ {0} /\ Len(history) \in Nat
    BY BoundsAssumption DEF BaseInv, TypeOK
  <2>4. old \subseteq events
    OBVIOUS
  <2> QED  BY <2>1, <2>2, <2>3, <2>4, FS_Subset
<1>3. \A e \in first, f \in old : f.sequence <= e.sequence => f \in first
  <2> HIDE DEF old
  <2> QED  BY <1>2, FirstRowsBegin
<1>4. first \subseteq old
  BY DEF FirstRows
<1>5. ASSUME NEW e \in events \ first, NEW i \in e.sequence .. Len(history)
      PROVE  \E f \in events \ first : f.sequence = i
  <2>1. PICK f \in events : f.sequence = i
    BY <1>5 DEF Gapless
  <2>2. CASE i = e.sequence
    BY <1>5, <2>2
  <2>3. CASE i # e.sequence
    <3>1. e.sequence < f.sequence /\ e.createdAt <= f.createdAt
      BY <1>2, <1>5, <2>1, <2>3 DEF InTimeOrder, Ordered
    <3>2. ASSUME f \in first  PROVE FALSE
      <4>1. f \in old /\ f.createdAt < limit
        BY <1>4, <3>2
      <4>2. e.createdAt < limit
        BY <1>2, <3>1, <4>1
      <4>3. e \in old
        BY <1>5, <4>2
      <4>4. e \in first
        BY <1>2, <1>3, <3>1, <3>2, <4>3
      <4> QED  BY <1>5, <4>4
    <3> QED  BY <2>1, <3>2
  <2> QED  BY <2>2, <2>3
<1> QED  BY <1>1, <1>5 DEF Gapless

LEMMA CommitKeepsOrder ==
  ASSUME BaseInv, Gapless(events, history), NEW t \in Transactions, CommitCommand(t)
  PROVE  Gapless(events', history')
<1> DEFINE n == Len(history)
           new == [sequence |-> n + 1, createdAt |-> started[t], epoch |-> epoch]
<1>1. /\ n \in Nat /\ Len(history') = n + 1 /\ events' = events \cup {new}
      /\ \A e \in events : e.sequence \in Nat
  BY Committed DEF BaseInv, TypeOK, EventRow
<1>2. ASSUME NEW e \in events', NEW i \in e.sequence .. n + 1
      PROVE  \E f \in events' : f.sequence = i
  <2>1. CASE i = n + 1
    <3>1. new \in events' /\ new.sequence = i
      BY <1>1, <2>1
    <3> QED  BY <3>1
  <2>2. CASE i # n + 1
    <3>1. e \in events
      BY <1>1, <1>2, <2>2
    <3>2. i \in e.sequence .. n
      BY <1>1, <1>2, <2>2, <3>1
    <3> QED  BY <1>1, <3>1, <3>2 DEF Gapless
  <2> QED  BY <2>1, <2>2
<1> QED  BY <1>1, <1>2 DEF Gapless

LEMMA TablesKept ==
  ASSUME BaseInv, [Next]_vars
  PROVE  \/ UNCHANGED <<history, events, backup, lost, epoch>>
         \/ PruneEvents \/ TakeBackup \/ Restore
         \/ \E t \in Transactions : CommitCommand(t)
<1>e. TypeOK /\ RequestsSound /\ HistorySound
  BY DEF BaseInv
<1>1. ASSUME NEW x \in Devices,
             Quiet(x) \/ OpenSnapshot(x) \/ FinishSnapshot(x) \/ Apply(x) \/ Disconnect(x)
               \/ Stall(x)
      PROVE  UNCHANGED <<history, events, backup, lost, epoch>>
  BY <1>e, <1>1, QuietMoves, OpenSnapshotRow, FinishSnapshotRow, ApplyRow, DisconnectRow
     DEF server, Stall
<1>2. CASE UNCHANGED vars
  BY <1>2 DEF vars, server
<1>3. ASSUME NEW t \in Transactions, BeginCommand(t)
      PROVE  UNCHANGED <<history, events, backup, lost, epoch>>
  BY <1>3 DEF BeginCommand
<1>4. ASSUME Tick \/ PruneCursors \/ (\E s \in Slots : ExpireSnapshot(s))
               \/ (\E a \in acks : Acknowledge(a))
      PROVE  UNCHANGED <<history, events, backup, lost, epoch>>
  BY <1>4 DEF Tick, PruneCursors, ExpireSnapshot, Acknowledge
<1> QED
  BY StepCases, <1>1, <1>2, <1>3, <1>4

LEMMA GaplessStep ==
  ASSUME BaseInv, InTimeOrder, [Next]_vars,
         Gapless(events, history), Gapless(backup.events, backup.history)
  PROVE  Gapless(events, history)' /\ Gapless(backup.events, backup.history)'
<1>1. CASE UNCHANGED <<history, events, backup, lost, epoch>>
  BY <1>1
<1>2. CASE PruneEvents
  <2>1. Gapless(events', history) /\ history' = history /\ backup' = backup
    BY <1>2, PruneKeepsOrder DEF PruneEvents
  <2> QED  BY <2>1
<1>3. CASE TakeBackup
  BY <1>3 DEF TakeBackup
<1>4. CASE Restore
  BY <1>4 DEF Restore
<1>5. ASSUME NEW t \in Transactions, CommitCommand(t)
      PROVE  Gapless(events, history)' /\ Gapless(backup.events, backup.history)'
  <2>1. Gapless(events', history') /\ backup' = backup
    BY <1>5, CommitKeepsOrder DEF CommitCommand
  <2> QED  BY <2>1
<1> QED  BY TablesKept, <1>1, <1>2, <1>3, <1>4, <1>5

(***************************************************************************)
(* What a reader has not counted yet is stored until it is done.           *)
(***************************************************************************)
LEMMA CoveredStep ==
  ASSUME BaseInv, ReadersCovered, [Next]_vars
  PROVE  ReadersCovered'
<1>e. /\ TypeOK /\ RequestsSound /\ HistorySound /\ OnTime
      /\ \A d \in Devices : Covered(device[d], events, Len(history))
      /\ Len(history) \in Nat /\ clock \in Nat /\ Patience \in Nat /\ Retention \in Nat
      /\ 2 * Patience <= Retention
      /\ \A d \in Devices : device[d].since \in Nat /\ device[d].latest \in Nat
  BY RowParts, BoundsAssumption DEF BaseInv, ReadersCovered, TypeOK
<1>s. SUFFICES \A d \in Devices : Covered(device'[d], events', Len(history'))
  BY DEF ReadersCovered
<1>1. ASSUME NEW d \in Devices, Moved(d), UNCHANGED <<events, history>>,
             Covered(device'[d], events, Len(history))
      PROVE  \A x \in Devices : Covered(device'[x], events', Len(history'))
  BY <1>e, <1>1 DEF Moved
<1>2. ASSUME NEW d \in Devices, Quiet(d)
      PROVE  \A x \in Devices : Covered(device'[x], events', Len(history'))
  <2>1. Moved(d) /\ UNCHANGED <<events, history>> /\ Kept(device[d], device'[d])
    BY <1>e, <1>2, QuietMoves DEF server
  <2>2. \/ device'[d].step # "reading"
        \/ device[d].cursor <= latestSequence /\ device'[d].latest = latestSequence
    BY <1>e, <1>2, RefusedRow, AskRow, ReadLatestRow, ReadOldestRow, ReadCursorRowRow, AnswerRow,
       SnapshotGoneRow, PullRow, ReadEventsRow DEF Quiet
  <2>3. Covered(device'[d], events, Len(history))
    BY <1>e, <2>1, <2>2 DEF Covered, Kept, latestSequence
  <2> QED  BY <1>1, <2>1, <2>3
<1>3. ASSUME NEW d \in Devices,
             OpenSnapshot(d) \/ FinishSnapshot(d) \/ Apply(d) \/ Disconnect(d)
      PROVE  \A x \in Devices : Covered(device'[x], events', Len(history'))
  <2>1. Moved(d) /\ UNCHANGED <<events, history>> /\ device'[d].step # "reading"
    BY <1>e, <1>3, OpenSnapshotRow, FinishSnapshotRow, ApplyRow, DisconnectRow DEF server
  <2> QED  BY <1>1, <2>1 DEF Covered
<1>4. ASSUME UNCHANGED <<events, history, device>>
      PROVE  \A x \in Devices : Covered(device'[x], events', Len(history'))
  BY <1>e, <1>4
<1>5. ASSUME NEW t \in Transactions, CommitCommand(t), NEW d \in Devices
      PROVE  Covered(device'[d], events', Len(history'))
  <2> DEFINE n == Len(history)
             new == [sequence |-> n + 1, createdAt |-> started[t], epoch |-> epoch]
  <2>1. Len(history') = n + 1 /\ events' = events \cup {new} /\ device' = device
    BY <1>e, <1>5, Committed DEF CommitCommand
  <2>2. started[t] \in Nat /\ clock <= started[t] + Patience
    BY <1>e, <1>5 DEF CommitCommand, OnTime, TypeOK
  <2>3. ASSUME device[d].step = "reading", NEW i \in device[d].latest + 1 .. n + 1
        PROVE  \E e \in events \cup {new} :
                 e.sequence = i /\ e.createdAt >= device[d].since - Patience
    <3>1. CASE i = n + 1
      <4>1. device[d].since <= clock
        BY <1>e, <2>3 DEF OnTime
      <4>2. new.createdAt >= device[d].since - Patience
        BY <1>e, <2>2, <4>1
      <4> QED  BY <3>1, <4>2
    <3>2. CASE i # n + 1
      <4>1. i \in device[d].latest + 1 .. n
        BY <1>e, <2>3, <3>2
      <4> QED  BY <1>e, <2>3, <4>1 DEF Covered
    <3> QED  BY <3>1, <3>2
  <2> QED  BY <1>e, <2>1, <2>3 DEF Covered
<1>6. ASSUME PruneEvents, NEW d \in Devices
      PROVE  Covered(device'[d], events', Len(history'))
  <2>1. /\ UNCHANGED <<history, device>>
        /\ \A e \in events : e.createdAt >= clock - Retention => e \in events'
    BY <1>e, <1>6 DEF PruneEvents, TypeOK, EventRow
  <2>2. ASSUME device[d].step = "reading", NEW i \in device[d].latest + 1 .. Len(history)
        PROVE  \E e \in events' : e.sequence = i /\ e.createdAt >= device[d].since - Patience
    <3>1. PICK e \in events : e.sequence = i /\ e.createdAt >= device[d].since - Patience
      BY <1>e, <2>2 DEF Covered
    <3>2. clock <= device[d].since + Patience /\ e.createdAt \in Nat
      BY <1>e, <2>2 DEF OnTime, TypeOK, EventRow
    <3>3. e.createdAt >= clock - Retention
      BY <1>e, <3>1, <3>2
    <3> QED  BY <2>1, <3>1, <3>3
  <2> QED  BY <1>e, <2>1, <2>2 DEF Covered
<1>7. ASSUME Restore, NEW d \in Devices
      PROVE  Covered(device'[d], events', Len(history'))
  <2>1. device'[d].step # "reading"
    BY <1>7 DEF Restore, Interrupted
  <2> QED  BY <2>1 DEF Covered
<1>8. ASSUME NEW d \in Devices, Stall(d)  PROVE UNCHANGED <<events, history, device>>
  BY <1>8 DEF Stall
<1>9. ASSUME NEW t \in Transactions, BeginCommand(t)  PROVE UNCHANGED <<events, history, device>>
  BY <1>9 DEF BeginCommand
<1>10. ASSUME Tick \/ PruneCursors \/ TakeBackup \/ (\E s \in Slots : ExpireSnapshot(s))
               \/ (\E a \in acks : Acknowledge(a)) \/ UNCHANGED vars
      PROVE  UNCHANGED <<events, history, device>>
  BY <1>10 DEF Tick, PruneCursors, TakeBackup, ExpireSnapshot, Acknowledge, vars, server
<1> QED
  BY StepCases, <1>2, <1>3, <1>4, <1>5, <1>6, <1>7, <1>8, <1>9, <1>10

(***************************************************************************)
(* While no event is missing, what a device stores is the beginning of a   *)
(* history.                                                                *)
(***************************************************************************)
LEMMA FollowsKept ==
  ASSUME NEW v, NEW w, NEW h, Kept(v, w), w.page = v.page \/ w.page = {}, Follows(v, h)
  PROVE  Follows(w, h)
<1> QED  BY DEF Kept, Follows

LEMMA FollowsGrows ==
  ASSUME NEW v \in DeviceState, NEW h \in Seq(0..MaxEpoch), NEW g \in Seq(0..MaxEpoch),
         Len(h) <= Len(g), \A i \in 1..Len(h) : g[i] = h[i], Follows(v, h)
  PROVE  Follows(v, g)
<1>1. /\ v.cursor \in Nat /\ v.cursor <= Len(h) /\ Len(h) \in Nat /\ Len(g) \in Nat
      /\ \A e \in v.page : e.sequence \in Nat \ {0}
  <2>1. v.cursor \in 0..MaxSequence /\ v.page \in SUBSET EventRow /\ MaxSequence \in Nat
    BY RowParts, BoundsAssumption
  <2>2. \A e \in v.page : e.sequence \in Nat \ {0}
    BY <2>1 DEF EventRow
  <2>3. v.cursor <= Len(h)
    BY DEF Follows
  <2> QED  BY <2>1, <2>2, <2>3
<1>2. [i \in 1..v.cursor |-> h[i]] = [i \in 1..v.cursor |-> g[i]]
  BY <1>1
<1>3. v.copy = [i \in 1..v.cursor |-> g[i]]
  BY <1>2 DEF Follows
<1>4. ASSUME NEW e \in v.page
      PROVE  e.sequence <= Len(g) /\ e.epoch = g[e.sequence]
  <2>1. e.sequence <= Len(h) /\ e.epoch = h[e.sequence]
    BY DEF Follows
  <2>2. e.sequence \in 1..Len(h)
    BY <1>1, <2>1
  <2> QED  BY <1>1, <2>1, <2>2
<1>5. v.cursor <= Len(g)
  BY <1>1
<1> QED  BY <1>3, <1>4, <1>5 DEF Follows

(* A function is what its values say.                                       *)
LEMMA CopyIs ==
  ASSUME NEW c \in Copies, NEW h, NEW n, DOMAIN c = 1..n, \A i \in 1..n : c[i] = h[i]
  PROVE  c = [i \in 1..n |-> h[i]]
<1>1. PICK S \in SUBSET (1..MaxSequence) : c \in [S -> 0..MaxEpoch]
  BY DEF Copies
<1>2. c = [i \in DOMAIN c |-> c[i]]
  BY <1>1
<1> QED  BY <1>2

LEMMA FollowsApply ==
  ASSUME NEW v \in DeviceState, NEW h \in Seq(0..MaxEpoch), Follows(v, h), NEW w,
         w.cursor = NextCursor(v.cursor, v.page), w.copy = Applied(v.copy, v.page),
         w.page = {}
  PROVE  Follows(w, h) /\ v.cursor <= w.cursor
<1> DEFINE c == v.cursor
           P == v.page
           m == NextCursor(c, P)
<1>1. /\ c \in 0..MaxSequence /\ c \in Nat /\ P \in SUBSET EventRow /\ v.copy \in Copies
      /\ \A e \in P : e.sequence \in Nat \ {0}
  BY RowParts, BoundsAssumption DEF EventRow, Copies
<1>2. /\ v.copy = [i \in 1..c |-> h[i]] /\ c <= Len(h) /\ Len(h) \in Nat
      /\ \A e \in P : /\ c < e.sequence /\ e.sequence <= Len(h) /\ e.epoch = h[e.sequence]
                      /\ \A i \in c + 1 .. e.sequence : \E f \in P : f.sequence = i
  BY DEF Follows
<1> HIDE DEF c, P
<1>3. /\ m \in Nat /\ c <= m /\ m <= Len(h)
      /\ Sequences(P) = c + 1 .. m
  <2>1. CASE P = {}
    <3>1. m = c
      BY <1>1, <2>1, NextCursorIs
    <3>2. Sequences(P) = {}
      BY <2>1 DEF Sequences
    <3> QED  BY <1>1, <1>2, <3>1, <3>2
  <2>2. CASE P # {}
    <3>1. PICK e \in P : m = e.sequence
      BY <1>1, <2>2, NextCursorIs
    <3>2. \A f \in P : f.sequence <= m
      BY <1>1, NextCursorIs
    <3> HIDE DEF m
    <3>3. m \in Nat /\ c < m /\ m <= Len(h)
      BY <1>1, <1>2, <3>1
    <3>4. Sequences(P) \subseteq c + 1 .. m
      BY <1>1, <1>2, <3>2, <3>3 DEF Sequences
    <3>5. ASSUME NEW i \in c + 1 .. m  PROVE i \in Sequences(P)
      <4>1. \E f \in P : f.sequence = i
        BY <1>2, <3>1
      <4> QED  BY <4>1 DEF Sequences
    <3>6. Sequences(P) = c + 1 .. m
      BY <3>4, <3>5
    <3> QED  BY <1>1, <3>3, <3>6
  <2> QED  BY <2>1, <2>2
<1>4. w.cursor = m /\ w.copy = Applied(v.copy, P)
  BY DEF c, P
<1> HIDE DEF m
<1>5. w.copy \in Copies /\ DOMAIN w.copy = 1..m
  <2>1. DOMAIN v.copy = 1..c
    BY <1>2
  <2>2. w.copy \in Copies /\ DOMAIN w.copy = 1..c \cup (c + 1 .. m)
    BY <1>1, <1>3, <1>4, <2>1, AppliedIs
  <2> QED  BY <1>1, <1>3, <2>2
<1>6. ASSUME NEW i \in 1..m  PROVE w.copy[i] = h[i]
  <2>1. CASE i \in c + 1 .. m
    <3>1. i \in Sequences(P)
      BY <1>3, <2>1
    <3>2. PICK e \in P : e.sequence = i /\ Applied(v.copy, P)[i] = e.epoch
      BY <3>1, AppliedNew
    <3> QED  BY <1>2, <1>4, <3>2
  <2>2. CASE i \in 1..c
    <3>1. i \in DOMAIN v.copy /\ i \notin Sequences(P) /\ v.copy[i] = h[i]
      BY <1>1, <1>2, <1>3, <2>2
    <3>2. w.copy[i] = v.copy[i]
      BY <1>4, <3>1, AppliedOld
    <3> QED  BY <3>1, <3>2
  <2> QED  BY <1>1, <1>3, <2>1, <2>2
<1>7. w.copy = [i \in 1..m |-> h[i]]
  BY <1>5, <1>6, CopyIs
<1> QED  BY <1>3, <1>4, <1>7 DEF Follows, c

(* A page that is not refused goes on from the cursor without a hole.        *)
LEMMA PageFollows ==
  ASSUME BaseInv, Gapless(events, history), ReadersCovered, NEW d \in Devices,
         device[d].step = "reading",
         ~Gap(device[d].cursor, device[d].latest, Found(d)),
         NEW e \in FirstRows(Found(d), PageSize),
         NEW i \in device[d].cursor + 1 .. e.sequence
  PROVE  \E f \in FirstRows(Found(d), PageSize) : f.sequence = i
<1> DEFINE c == device[d].cursor
           n == Len(history)
<1>1. /\ c \in Nat /\ n \in Nat /\ device[d].latest \in Nat
      /\ \A f \in events : f.sequence \in Nat /\ f.sequence <= n
      /\ IsFiniteSet(events) /\ PageSize \in Nat \ {0}
  <2>1. c \in 0..MaxSequence /\ device[d].latest \in 0..MaxSequence /\ MaxSequence \in Nat
        /\ PageSize \in Nat \ {0}
    BY RowParts, BoundsAssumption DEF BaseInv, TypeOK
  <2>2. \A f \in events : f.sequence \in Nat
    BY DEF BaseInv, TypeOK, EventRow
  <2>4. n \in Nat
    BY DEF BaseInv, TypeOK
  <2>3. IsFiniteSet(events) /\ \A f \in events : f.sequence <= n
    BY DEF BaseInv, HistorySound, EventsOf
  <2> QED  BY <2>1, <2>2, <2>3, <2>4
<1>2. e \in Found(d) /\ Found(d) \subseteq events
  BY DEF FirstRows, Found
<1>3. PICK f \in events : f.sequence = i
  <2>1. CASE c < device[d].latest
    <3>1. Found(d) # {} /\ Min(Sequences(Found(d))) = c + 1
      BY <2>1 DEF Gap
    <3>2. Sequences(Found(d)) \in SUBSET Nat /\ Sequences(Found(d)) # {}
      BY <1>1, <1>2 DEF Sequences
    <3>3. Min(Sequences(Found(d))) \in Sequences(Found(d))
      BY <3>2, Least
    <3>4. PICK g \in events : g.sequence = c + 1
      BY <1>2, <3>1, <3>3 DEF Sequences
    <3>5. i \in g.sequence .. n
      BY <1>1, <1>2, <3>4
    <3> QED  BY <3>5 DEF Gapless
  <2>2. CASE ~(c < device[d].latest)
    <3>1. Covered(device[d], events, n)
      BY DEF ReadersCovered
    <3>2. i \in device[d].latest + 1 .. n
      BY <1>1, <1>2, <2>2, <3>1 DEF Covered
    <3> QED  BY <3>1, <3>2 DEF Covered
  <2> QED  BY <2>1, <2>2
<1>4. f \in Found(d) /\ f.sequence <= e.sequence
  BY <1>1, <1>2, <1>3 DEF Found
<1>5. IsFiniteSet(Found(d)) /\ \A g \in Found(d) : g.sequence \in Nat
  BY <1>1, <1>2, FS_Subset
<1>6. f \in FirstRows(Found(d), PageSize)
  <2> HIDE DEF c, n
  <2> QED  BY <1>1, <1>4, <1>5, FirstRowsBegin
<1> QED  BY <1>3, <1>6

LEMMA FollowingMove ==
  ASSUME DevicesFollow, NEW d \in Devices, Moved(d), UNCHANGED <<epoch, history, lost>>,
         Following(device'[d], epoch, history, lost)
  PROVE  DevicesFollow'
<1> QED  BY DEF DevicesFollow, Moved

LEMMA FollowingKept ==
  ASSUME DevicesFollow, UNCHANGED <<epoch, history, lost, device>>
  PROVE  DevicesFollow'
<1> QED  BY DEF DevicesFollow

LEMMA FollowingRow ==
  ASSUME NEW v, NEW w, NEW e, NEW h, NEW L, Kept(v, w), w.page = v.page \/ w.page = {},
         Following(v, e, h, L)
  PROVE  Following(w, e, h, L)
<1>1. w.epoch = v.epoch
  BY DEF Kept
<1>2. CASE v.epoch = e
  BY <1>1, <1>2, FollowsKept DEF Following
<1>3. CASE v.epoch # e
  <2>1. PICK g \in L : Follows(v, g)
    BY <1>3 DEF Following
  <2>2. Follows(w, g)
    BY <2>1, FollowsKept
  <2> QED  BY <1>1, <1>3, <2>2 DEF Following
<1> QED  BY <1>2, <1>3

LEMMA CommitFollows ==
  ASSUME BaseInv, DevicesFollow, NEW t \in Transactions, CommitCommand(t)
  PROVE  DevicesFollow'
<1>1. /\ history \in Seq(0..MaxEpoch) /\ history' \in Seq(0..MaxEpoch)
      /\ Len(history) <= Len(history') /\ \A i \in 1..Len(history) : history'[i] = history[i]
  BY Committed DEF BaseInv
<1>2. UNCHANGED <<epoch, lost, device>>
  BY DEF CommitCommand
<1>3. ASSUME NEW d \in Devices  PROVE Following(device[d], epoch, history', lost)
  <2>1. Following(device[d], epoch, history, lost) /\ device[d] \in DeviceState
    BY DEF DevicesFollow, BaseInv, TypeOK
  <2>2. CASE device[d].epoch = epoch
    <3>1. Follows(device[d], history)
      BY <2>1, <2>2 DEF Following
    <3>2. Follows(device[d], history')
      BY <1>1, <2>1, <3>1, FollowsGrows
    <3> QED  BY <2>2, <3>2 DEF Following
  <2>3. CASE device[d].epoch # epoch
    BY <2>1, <2>3 DEF Following
  <2> QED  BY <2>2, <2>3
<1> QED  BY <1>2, <1>3 DEF DevicesFollow

LEMMA ReadFollows ==
  ASSUME BaseInv, DevicesFollow, Gapless(events, history), ReadersCovered,
         NEW d \in Devices, ReadEvents(d)
  PROVE  Following(device'[d], epoch, history, lost)
<1>e. /\ TypeOK /\ Following(device[d], epoch, history, lost) /\ RequestSound(device[d], epoch)
      /\ Moved(d) /\ Kept(device[d], device'[d]) /\ device[d].step = "reading"
  BY ReadEventsRow DEF BaseInv, RequestsSound, DevicesFollow
<1>1. CASE device'[d].page = device[d].page
  BY <1>e, <1>1, FollowingRow
<1>2. CASE /\ device'[d].page = FirstRows(Found(d), PageSize)
           /\ ~Gap(device[d].cursor, device[d].latest, Found(d))
  <2>1. device[d].epoch = epoch /\ device'[d].epoch = epoch
    BY <1>e DEF RequestSound, Kept
  <2>2. Follows(device[d], history)
    BY <1>e, <2>1 DEF Following
  <2>3. device'[d].cursor = device[d].cursor /\ device'[d].copy = device[d].copy
    BY <1>e DEF Kept
  <2>4. ASSUME NEW e \in FirstRows(Found(d), PageSize)
        PROVE  /\ device[d].cursor < e.sequence /\ e.sequence <= Len(history)
               /\ e.epoch = history[e.sequence]
               /\ \A i \in device[d].cursor + 1 .. e.sequence :
                    \E f \in FirstRows(Found(d), PageSize) : f.sequence = i
    <3>1. e \in events /\ e.sequence > device[d].cursor
      BY DEF FirstRows, Found
    <3>2. e.sequence <= Len(history) /\ e.epoch = history[e.sequence]
      BY <3>1 DEF BaseInv, HistorySound, EventsOf
    <3>3. \A i \in device[d].cursor + 1 .. e.sequence :
            \E f \in FirstRows(Found(d), PageSize) : f.sequence = i
      BY <1>e, <1>2, PageFollows
    <3>4. device[d].cursor \in Int /\ e.sequence \in Int
      BY <1>e, <3>1, RowParts DEF TypeOK, EventRow
    <3> QED  BY <3>1, <3>2, <3>3, <3>4
  <2>5. Follows(device'[d], history)
    BY <1>2, <2>2, <2>3, <2>4 DEF Follows
  <2> QED  BY <2>1, <2>5 DEF Following
<1> QED  BY <1>e, <1>1, <1>2, ReadEventsRow

LEMMA ApplyFollows ==
  ASSUME BaseInv, DevicesFollow, NEW d \in Devices, Apply(d)
  PROVE  \E h \in lost \cup {history} :
           /\ h \in Seq(0..MaxEpoch) /\ Follows(device[d], h) /\ Follows(device'[d], h)
           /\ device[d].epoch = epoch => h = history
           /\ device[d].epoch # epoch => h \in lost
           /\ device[d].cursor <= device'[d].cursor
<1>1. PICK h \in lost \cup {history} :
        /\ h \in Seq(0..MaxEpoch) /\ Follows(device[d], h)
        /\ device[d].epoch = epoch => h = history
        /\ device[d].epoch # epoch => h \in lost
  <2>1. /\ Following(device[d], epoch, history, lost)
        /\ history \in Seq(0..MaxEpoch) /\ \A h \in lost : h \in Seq(0..MaxEpoch)
    BY DEF DevicesFollow, BaseInv, TypeOK, HistorySound
  <2> QED  BY <2>1 DEF Following
<1>2. /\ device'[d].cursor = NextCursor(device[d].cursor, device[d].page)
      /\ device'[d].copy = Applied(device[d].copy, device[d].page)
      /\ device'[d].page = {} /\ device[d] \in DeviceState
  BY ApplyRow DEF BaseInv, TypeOK
<1>3. Follows(device'[d], h) /\ device[d].cursor <= device'[d].cursor
  BY <1>1, <1>2, FollowsApply
<1> QED  BY <1>1, <1>3

LEMMA FinishFollows ==
  ASSUME BaseInv, NEW d \in Devices, FinishSnapshot(d)
  PROVE  Follows(device'[d], history) /\ device'[d].epoch = epoch
<1>1. /\ device'[d].epoch = epoch /\ device'[d].page = device[d].page
      /\ device[d].step = "copying"
      /\ device'[d].cursor \in 0..Len(history)
      /\ device'[d].copy = [i \in 1..device'[d].cursor |-> history[i]]
  BY FinishSnapshotRow DEF BaseInv
<1>2. device'[d].page = {} /\ Len(history) \in Nat
  BY <1>1 DEF BaseInv, RequestsSound, RequestSound, TypeOK
<1> QED  BY <1>1, <1>2 DEF Follows

LEMMA DevicesStep ==
  ASSUME BaseInv, DevicesFollow, Gapless(events, history), ReadersCovered, [Next]_vars
  PROVE  DevicesFollow'
<1>e. /\ TypeOK /\ RequestsSound /\ HistorySound
      /\ \A d \in Devices : Following(device[d], epoch, history, lost)
  BY DEF BaseInv, DevicesFollow
<1>1. CASE UNCHANGED vars
  BY <1>1, FollowingKept DEF vars, server
<1>2. ASSUME NEW d \in Devices, Quiet(d)  PROVE DevicesFollow'
  <2>1. Moved(d) /\ Kept(device[d], device'[d]) /\ UNCHANGED <<epoch, history, lost>>
    BY <1>e, <1>2, QuietMoves DEF server
  <2>2. ReadEvents(d) \/ device'[d].page = device[d].page
    BY <1>e, <1>2, RefusedRow, AskRow, ReadLatestRow, ReadOldestRow, ReadCursorRowRow, AnswerRow,
       SnapshotGoneRow, PullRow DEF Quiet
  <2>3. Following(device'[d], epoch, history, lost)
    BY <1>e, <2>1, <2>2, ReadFollows, FollowingRow
  <2> QED  BY <2>1, <2>3, FollowingMove
<1>3. ASSUME NEW d \in Devices, OpenSnapshot(d) \/ Disconnect(d)  PROVE DevicesFollow'
  <2>1. /\ Moved(d) /\ Kept(device[d], device'[d]) /\ UNCHANGED <<epoch, history, lost>>
        /\ device'[d].page = device[d].page \/ device'[d].page = {}
    BY <1>e, <1>3, OpenSnapshotRow, DisconnectRow DEF server
  <2>2. Following(device'[d], epoch, history, lost)
    BY <1>e, <2>1, FollowingRow
  <2> QED  BY <2>1, <2>2, FollowingMove
<1>4. ASSUME NEW d \in Devices, FinishSnapshot(d)  PROVE DevicesFollow'
  <2>1. Moved(d) /\ UNCHANGED <<epoch, history, lost>>
    BY <1>e, <1>4, FinishSnapshotRow
  <2>2. Following(device'[d], epoch, history, lost)
    BY <1>4, FinishFollows DEF Following
  <2> QED  BY <2>1, <2>2, FollowingMove
<1>5. ASSUME NEW d \in Devices, Apply(d)  PROVE DevicesFollow'
  <2>1. Moved(d) /\ UNCHANGED <<epoch, history, lost>> /\ device'[d].epoch = device[d].epoch
    BY <1>e, <1>5, ApplyRow DEF server
  <2>2. Following(device'[d], epoch, history, lost)
    BY <1>5, <2>1, ApplyFollows DEF Following
  <2> QED  BY <2>1, <2>2, FollowingMove
<1>6. ASSUME NEW d \in Devices, Stall(d)  PROVE DevicesFollow'
  BY <1>6, FollowingKept DEF Stall
<1>7. ASSUME NEW t \in Transactions, BeginCommand(t)  PROVE DevicesFollow'
  BY <1>7, FollowingKept DEF BeginCommand
<1>8. ASSUME NEW t \in Transactions, CommitCommand(t)  PROVE DevicesFollow'
  BY <1>8, CommitFollows
<1>9. CASE Tick \/ PruneEvents \/ PruneCursors \/ TakeBackup
  BY <1>9, FollowingKept DEF Tick, PruneEvents, PruneCursors, TakeBackup
<1>10. CASE Restore
  <2>1. epoch' = epoch + 1 /\ lost' = lost \cup {history} /\ epoch \in Nat
    BY <1>e, <1>10 DEF Restore, TypeOK
  <2>2. ASSUME NEW d \in Devices
        PROVE  \E g \in lost' : Follows(device'[d], g)
    <3>1. PICK g \in lost' : Follows(device[d], g)
      <4>1. Following(device[d], epoch, history, lost)
        BY <1>e
      <4> QED  BY <2>1, <4>1 DEF Following
    <3>2. Kept(device[d], device'[d]) /\ (device'[d].page = device[d].page \/ device'[d].page = {})
      BY <1>e, <1>10 DEF Restore, Interrupted, Kept, TypeOK
    <3> QED  BY <3>1, <3>2, FollowsKept
  <2>3. ASSUME NEW d \in Devices  PROVE device'[d].epoch # epoch'
    <3>1. device'[d].epoch = device[d].epoch
      BY <1>e, <1>10 DEF Restore, Interrupted, TypeOK
    <3>2. device[d].epoch \in Nat /\ device[d].epoch <= epoch
      BY <1>e, <2>1, RowParts DEF TypeOK, RequestsSound, RequestSound
    <3> QED  BY <2>1, <3>1, <3>2
  <2> QED  BY <2>2, <2>3 DEF DevicesFollow, Following
<1>11. ASSUME NEW s \in Slots, ExpireSnapshot(s)  PROVE DevicesFollow'
  BY <1>11, FollowingKept DEF ExpireSnapshot
<1>12. ASSUME NEW a \in acks, Acknowledge(a)  PROVE DevicesFollow'
  BY <1>12, FollowingKept DEF Acknowledge
<1> QED
  BY StepCases, <1>1, <1>2, <1>3, <1>4, <1>5, <1>6, <1>7, <1>8, <1>9, <1>10, <1>11, <1>12

(***************************************************************************)
(* Acknowledgements.                                                       *)
(***************************************************************************)
LEMMA AcksKept ==
  ASSUME RequestsSound, AcksWithin, acks' = acks,
         \A d \in Devices : device'[d].epoch = device[d].epoch /\ device'[d].cursor = device[d].cursor
  PROVE  AcksWithin'
<1>1. \A a \in acks : a.device \in Devices
  BY DEF RequestsSound
<1> QED  BY <1>1 DEF AcksWithin

LEMMA KeptAll ==
  ASSUME NEW d \in Devices, Moved(d), Kept(device[d], device'[d])
  PROVE  \A x \in Devices : Kept(device[x], device'[x])
<1> QED  BY DEF Moved, Kept

LEMMA AcksStep ==
  ASSUME BaseInv, DevicesFollow, AcksWithin, SnapshotsAhead, [Next]_vars
  PROVE  AcksWithin'
<1>e. /\ TypeOK /\ RequestsSound /\ HistorySound
      /\ \A a \in acks : /\ a.device \in Devices /\ a.epoch \in Int /\ a.through \in Int
                         /\ a.epoch <= device[a.device].epoch
      /\ \A d \in Devices : device[d].epoch \in Int /\ device[d].cursor \in Int
                            /\ RequestSound(device[d], epoch)
      /\ epoch \in Int
  BY RowParts DEF BaseInv, TypeOK, RequestsSound
<1>k. ASSUME acks' = acks, \A d \in Devices : Kept(device[d], device'[d])
      PROVE  AcksWithin'
  BY <1>e, <1>k, AcksKept DEF Kept
<1>1. CASE UNCHANGED <<acks, device>>
  BY <1>1, <1>k DEF Kept
<1>2. ASSUME NEW d \in Devices, Quiet(d) \/ OpenSnapshot(d) \/ Disconnect(d)  PROVE AcksWithin'
  <2>1. Moved(d) /\ Kept(device[d], device'[d]) /\ acks' = acks
    BY <1>e, <1>2, QuietMoves, OpenSnapshotRow, DisconnectRow
  <2> QED  BY <1>k, <2>1, KeptAll
<1>3. ASSUME NEW d \in Devices, FinishSnapshot(d)  PROVE AcksWithin'
  <2> DEFINE n == snapshots[device[d].snapshot].sequence
  <2>1. /\ Moved(d) /\ acks' = acks /\ device'[d].epoch = epoch /\ device'[d].cursor = n
        /\ device[d].step = "copying" /\ device[d].carries = epoch /\ SessionLives(d)
        /\ n \in 0..Len(history)
    BY <1>e, <1>3, FinishSnapshotRow
  <2>2. device[d].epoch = epoch => device[d].cursor <= n
    BY <2>1 DEF SnapshotsAhead, Ahead, SessionLives
  <2>i. n \in Int
    BY <2>1
  <2> HIDE DEF n
  <2>3. ASSUME NEW a \in acks, a.epoch = device'[a.device].epoch
        PROVE  a.through <= device'[a.device].cursor
    <3>1. CASE a.device = d
      <4>1. a.epoch = epoch /\ device[d].epoch = epoch
        BY <1>e, <2>1, <2>3, <3>1 DEF RequestSound
      <4>2. a.through <= device[d].cursor
        BY <3>1, <4>1 DEF AcksWithin
      <4> QED  BY <1>e, <2>1, <2>2, <2>i, <3>1, <4>1, <4>2
    <3>2. CASE a.device # d
      BY <1>e, <2>1, <2>3, <3>2 DEF Moved, AcksWithin
    <3> QED  BY <3>1, <3>2
  <2> QED  BY <2>1, <2>3 DEF AcksWithin
<1>4. ASSUME NEW d \in Devices, Apply(d)  PROVE AcksWithin'
  <2> DEFINE new == [device |-> d, epoch |-> device[d].epoch, through |-> device'[d].cursor]
  <2>1. /\ Moved(d) /\ acks' = acks \cup {new} /\ device'[d].epoch = device[d].epoch
        /\ device'[d].cursor \in Int
    BY <1>e, <1>4, ApplyRow, RowParts DEF Moved
  <2>2. device[d].cursor <= device'[d].cursor
    BY <1>4, ApplyFollows
  <2>3. ASSUME NEW a \in acks', a.epoch = device'[a.device].epoch
        PROVE  a.through <= device'[a.device].cursor
    <3>1. CASE a = new
      BY <2>1, <3>1
    <3>2. CASE a \in acks /\ a.device = d
      <4>1. a.through <= device[d].cursor
        BY <2>1, <2>3, <3>2 DEF AcksWithin
      <4> QED  BY <1>e, <2>1, <2>2, <3>2, <4>1
    <3>3. CASE a \in acks /\ a.device # d
      BY <1>e, <2>1, <2>3, <3>3 DEF Moved, AcksWithin
    <3> QED  BY <2>1, <2>3, <3>1, <3>2, <3>3
  <2> QED  BY <2>3 DEF AcksWithin
<1>5. CASE Restore
  <2>1. acks' = acks /\ \A d \in Devices : Kept(device[d], device'[d])
    BY <1>e, <1>5 DEF Restore, Interrupted, Kept, TypeOK
  <2> QED  BY <1>k, <2>1
<1>6. ASSUME NEW d \in Devices, Stall(d)  PROVE UNCHANGED <<acks, device>>
  BY <1>6 DEF Stall
<1>7. ASSUME NEW t \in Transactions, BeginCommand(t) \/ CommitCommand(t)
      PROVE  UNCHANGED <<acks, device>>
  BY <1>7 DEF BeginCommand, CommitCommand
<1>8. ASSUME Tick \/ PruneEvents \/ PruneCursors \/ TakeBackup \/ UNCHANGED vars
               \/ (\E s \in Slots : ExpireSnapshot(s)) \/ (\E a \in acks : Acknowledge(a))
      PROVE  UNCHANGED <<acks, device>>
  BY <1>8 DEF Tick, PruneEvents, PruneCursors, TakeBackup, ExpireSnapshot, Acknowledge, vars, server
<1> QED
  BY StepCases, <1>1, <1>2, <1>3, <1>4, <1>5, <1>6, <1>7, <1>8

(* What a row says stays borne out when the copy and the history grow.       *)
LEMMA HeldGrows ==
  ASSUME NEW row \in CursorRow \cup {None}, NEW v, NEW w,
         NEW h \in Seq(0..MaxEpoch), NEW g \in Seq(0..MaxEpoch),
         Held(row, v, h), Len(h) <= Len(g), \A i \in 1..Len(h) : g[i] = h[i],
         \A i \in DOMAIN v.copy : i \in DOMAIN w.copy /\ w.copy[i] = v.copy[i]
  PROVE  Held(row, w, g)
<1>1. ASSUME row # None, NEW i \in 1..row.acknowledged
      PROVE  i <= Len(g) /\ i \in DOMAIN w.copy /\ w.copy[i] = g[i]
  <2>1. i <= Len(h) /\ i \in DOMAIN v.copy /\ v.copy[i] = h[i]
    BY <1>1 DEF Held
  <2>2. i \in 1..Len(h) /\ i <= Len(g)
    BY <1>1, <2>1
  <2> QED  BY <2>1, <2>2
<1> QED  BY <1>1 DEF Held

LEMMA NoRowHeld ==
  ASSUME NEW v, NEW h
  PROVE  Held(None, v, h)
<1> QED  BY DEF Held

Grown(v, w) == \A i \in DOMAIN v.copy : i \in DOMAIN w.copy /\ w.copy[i] = v.copy[i]

LEMMA RowsKept ==
  ASSUME BaseInv, RowsHeld, backup' = backup,
         \A d \in Devices : cursors'[d] = None \/ cursors'[d] = cursors[d],
         \A d \in Devices : Grown(device[d], device'[d]),
         history' \in Seq(0..MaxEpoch), Len(history) <= Len(history'),
         \A i \in 1..Len(history) : history'[i] = history[i]
  PROVE  RowsHeld'
<1>1. /\ history \in Seq(0..MaxEpoch) /\ backup.history \in Seq(0..MaxEpoch)
      /\ \A d \in Devices : cursors[d] \in CursorRow \cup {None}
                            /\ backup.cursors[d] \in CursorRow \cup {None}
  BY BackupTyped DEF BaseInv, TypeOK
<1>2. ASSUME NEW d \in Devices  PROVE Held(cursors'[d], device'[d], history')
  <2>1. CASE cursors'[d] = None
    BY <2>1, NoRowHeld
  <2>2. CASE cursors'[d] = cursors[d]
    <3>1. Held(cursors[d], device[d], history) /\ Grown(device[d], device'[d])
      BY DEF RowsHeld
    <3>2. Held(cursors[d], device'[d], history')
      BY <1>1, <3>1, HeldGrows DEF Grown
    <3> QED  BY <2>2, <3>2
  <2> QED  BY <2>1, <2>2
<1>3. ASSUME NEW d \in Devices  PROVE Held(backup.cursors[d], device'[d], backup.history)
  <2>1. Held(backup.cursors[d], device[d], backup.history) /\ Grown(device[d], device'[d])
    BY DEF RowsHeld
  <2> DEFINE h == backup.history
             row == backup.cursors[d]
  <2>2. /\ h \in Seq(0..MaxEpoch) /\ row \in CursorRow \cup {None}
        /\ Len(h) <= Len(h) /\ \A i \in 1..Len(h) : h[i] = h[i]
    BY <1>1
  <2>3. Held(row, device[d], h) /\ Grown(device[d], device'[d])
    BY <2>1
  <2> HIDE DEF h, row
  <2>4. Held(row, device'[d], h)
    BY <2>2, <2>3, HeldGrows DEF Grown
  <2> QED  BY <2>4 DEF h, row
<1> QED  BY <1>2, <1>3 DEF RowsHeld

LEMMA FinishHeld ==
  ASSUME BaseInv, RowsHeld, SnapshotsAhead, NEW d \in Devices, FinishSnapshot(d)
  PROVE  /\ Held(cursors[d], device'[d], history)
         /\ Held(backup.cursors[d], device'[d], backup.history)
<1> DEFINE n == snapshots[device[d].snapshot].sequence
<1>1. /\ device'[d].cursor = n /\ device'[d].copy = [i \in 1..device'[d].cursor |-> history[i]]
      /\ device[d].step = "copying" /\ device[d].carries = epoch /\ SessionLives(d)
      /\ n \in 0..Len(history)
  BY FinishSnapshotRow DEF BaseInv
<1>2. /\ cursors[d] # None => cursors[d].acknowledged <= n
      /\ backup.cursors[d] # None => backup.cursors[d].acknowledged <= n
  BY <1>1 DEF SnapshotsAhead, Ahead, SessionLives
<1> HIDE DEF n
<1>3. /\ cursors[d] \in CursorRow \cup {None} /\ backup.cursors[d] \in CursorRow \cup {None}
      /\ Beginning(backup.history, history) /\ Len(history) \in Nat
      /\ backup.history \in Seq(0..MaxEpoch)
  BY BackupTyped DEF BaseInv, TypeOK, HistorySound
<1>4. \A i \in 1..n : i \in DOMAIN device'[d].copy /\ device'[d].copy[i] = history[i]
  BY <1>1
<1>5. ASSUME cursors[d] # None, NEW i \in 1..cursors[d].acknowledged
      PROVE  i <= Len(history) /\ i \in DOMAIN device'[d].copy /\ device'[d].copy[i] = history[i]
  <2>1. cursors[d].acknowledged \in Int
    BY <1>3, <1>5 DEF CursorRow
  <2>2. i \in 1..n /\ i <= Len(history)
    BY <1>1, <1>2, <1>3, <1>5, <2>1
  <2> QED  BY <1>4, <2>2
<1>6. ASSUME backup.cursors[d] # None, NEW i \in 1..backup.cursors[d].acknowledged
      PROVE  /\ i <= Len(backup.history) /\ i \in DOMAIN device'[d].copy
             /\ device'[d].copy[i] = backup.history[i]
  <2>1. backup.cursors[d].acknowledged \in Int
    BY <1>3, <1>6 DEF CursorRow
  <2>2. i \in 1..n
    BY <1>1, <1>2, <1>3, <1>6, <2>1
  <2>3. i <= Len(backup.history)
    BY <1>6 DEF RowsHeld, Held
  <2>4. i \in 1..Len(backup.history) /\ backup.history[i] = history[i]
    BY <1>3, <2>2, <2>3 DEF Beginning
  <2> QED  BY <1>4, <2>2, <2>3, <2>4
<1> QED  BY <1>5, <1>6 DEF Held

LEMMA AcknowledgeHeld ==
  ASSUME BaseInv, DevicesFollow, RowsHeld, AcksWithin, NEW a \in acks, Acknowledge(a)
  PROVE  /\ a.device \in Devices /\ device[a.device].epoch = epoch
         /\ a.through <= device[a.device].cursor
         /\ Held(cursors'[a.device], device[a.device], history)
<1> DEFINE d == a.device
<1>1. /\ d \in Devices /\ a.epoch \in Int /\ a.through \in 0..MaxSequence
      /\ a.epoch <= device[d].epoch /\ RequestSound(device[d], epoch)
      /\ device[d] \in DeviceState /\ epoch \in Int
      /\ cursors \in [Devices -> CursorRow \cup {None}]
      /\ device[d].cursor \in Int /\ device[d].epoch \in Int /\ device[d].carries \in Int
      /\ Len(history) \in Nat
  BY RowParts DEF BaseInv, TypeOK, RequestsSound
<1>2. a.epoch = epoch /\ a.through <= Len(history)
  BY DEF Acknowledge, SyncEpochCurrent, latestSequence
<1>3. device[d].epoch = epoch
  BY <1>1, <1>2 DEF RequestSound
<1>4. a.through <= device[d].cursor
  BY <1>1, <1>2, <1>3 DEF AcksWithin
<1>5. Follows(device[d], history)
  BY <1>1, <1>3 DEF DevicesFollow, Following
<1>6. Held(cursors[d], device[d], history)
  BY <1>1 DEF RowsHeld
<1>7. cursors'[d].acknowledged = Greatest(cursors[d], a.through)
  BY <1>1 DEF Acknowledge
<1> HIDE DEF d
<1>8. ASSUME NEW i \in 1..Greatest(cursors[d], a.through)
      PROVE  i <= Len(history) /\ i \in DOMAIN device[d].copy /\ device[d].copy[i] = history[i]
  <2>1. CASE cursors[d] # None /\ cursors[d].acknowledged > a.through
    BY <1>6, <1>8, <2>1 DEF Greatest, Held
  <2>2. CASE ~(cursors[d] # None /\ cursors[d].acknowledged > a.through)
    <3>1. i \in 1..a.through
      BY <1>8, <2>2 DEF Greatest
    <3>2. i \in 1..device[d].cursor /\ i <= Len(history)
      BY <1>1, <1>2, <1>4, <3>1
    <3>3. device[d].copy = [j \in 1..device[d].cursor |-> history[j]]
      BY <1>5 DEF Follows
    <3> QED  BY <3>2, <3>3
  <2> QED  BY <2>1, <2>2
<1>9. Held(cursors'[d], device[d], history)
  BY <1>7, <1>8 DEF Held
<1> QED  BY <1>1, <1>3, <1>4, <1>9 DEF d

LEMMA RowsStep ==
  ASSUME BaseInv, DevicesFollow, RowsHeld, AcksWithin, SnapshotsAhead, [Next]_vars
  PROVE  RowsHeld'
<1>e. /\ TypeOK /\ RequestsSound /\ HistorySound
      /\ history \in Seq(0..MaxEpoch) /\ Len(history) \in Nat
  BY DEF BaseInv, TypeOK
<1>k. ASSUME UNCHANGED <<backup, history>>,
             \A d \in Devices : cursors'[d] = None \/ cursors'[d] = cursors[d],
             \A d \in Devices : Grown(device[d], device'[d])
      PROVE  RowsHeld'
  <2>1. /\ history' \in Seq(0..MaxEpoch) /\ Len(history) <= Len(history')
        /\ \A i \in 1..Len(history) : history'[i] = history[i]
    BY <1>e, <1>k
  <2> QED  BY <1>k, <2>1, RowsKept
<1>g. \A d \in Devices : Kept(device[d], device'[d]) => Grown(device[d], device'[d])
  BY DEF Kept, Grown
<1>1. ASSUME UNCHANGED <<backup, history, cursors, device>>  PROVE RowsHeld'
  BY <1>1, <1>k DEF Grown
<1>2. ASSUME NEW d \in Devices, Quiet(d) \/ OpenSnapshot(d) \/ Disconnect(d)  PROVE RowsHeld'
  <2>1. Moved(d) /\ Kept(device[d], device'[d]) /\ UNCHANGED <<backup, history, cursors>>
    BY <1>e, <1>2, QuietMoves, OpenSnapshotRow, DisconnectRow DEF server
  <2>2. \A x \in Devices : Kept(device[x], device'[x])
    BY <2>1, KeptAll
  <2> QED  BY <1>g, <1>k, <2>1, <2>2
<1>3. ASSUME NEW d \in Devices, FinishSnapshot(d)  PROVE RowsHeld'
  <2>1. Moved(d) /\ UNCHANGED <<backup, history, cursors>>
    BY <1>e, <1>3, FinishSnapshotRow
  <2>2. /\ Held(cursors[d], device'[d], history)
        /\ Held(backup.cursors[d], device'[d], backup.history)
    BY <1>3, FinishHeld
  <2> QED  BY <2>1, <2>2 DEF RowsHeld, Moved
<1>4. ASSUME NEW d \in Devices, Apply(d)  PROVE RowsHeld'
  <2>1. Moved(d) /\ UNCHANGED <<backup, history, cursors>>
    BY <1>e, <1>4, ApplyRow DEF server
  <2>2. PICK h : /\ Follows(device[d], h) /\ Follows(device'[d], h)
                 /\ device[d].cursor <= device'[d].cursor
    BY <1>4, ApplyFollows
  <2>3. device[d].cursor \in Int /\ device'[d].cursor \in Int
    BY <1>e, <2>1, RowParts DEF TypeOK, Moved
  <2>4. Grown(device[d], device'[d])
    BY <2>2, <2>3 DEF Follows, Grown
  <2>5. \A x \in Devices : Grown(device[x], device'[x])
    BY <2>1, <2>4 DEF Moved, Grown
  <2> QED  BY <1>k, <2>1, <2>5
<1>5. ASSUME NEW t \in Transactions, CommitCommand(t)  PROVE RowsHeld'
  <2>1. /\ history' \in Seq(0..MaxEpoch) /\ Len(history) <= Len(history')
        /\ \A i \in 1..Len(history) : history'[i] = history[i]
    BY <1>e, <1>5, Committed
  <2>2. UNCHANGED <<backup, cursors, device>>
    BY <1>5 DEF CommitCommand
  <2>3. \A d \in Devices : Grown(device[d], device'[d])
    BY <2>2 DEF Grown
  <2> QED  BY <2>1, <2>2, <2>3, RowsKept
<1>6. CASE PruneCursors
  <2>1. UNCHANGED <<backup, history, device>>
    BY <1>6 DEF PruneCursors
  <2>2. \A d \in Devices : cursors'[d] = None \/ cursors'[d] = cursors[d]
    BY <1>6 DEF PruneCursors
  <2> QED  BY <1>k, <2>1, <2>2 DEF Grown
<1>7. CASE TakeBackup
  <2>1. /\ UNCHANGED <<cursors, history, device>>
        /\ backup'.cursors = cursors /\ backup'.history = history
    BY <1>7 DEF TakeBackup
  <2> QED  BY <2>1 DEF RowsHeld
<1>8. CASE Restore
  <2>1. /\ cursors' = backup.cursors /\ history' = backup.history /\ backup' = backup
    BY <1>8 DEF Restore
  <2>2. \A d \in Devices : Kept(device[d], device'[d])
    BY <1>e, <1>8 DEF Restore, Interrupted, Kept, TypeOK
  <2>3. ASSUME NEW d \in Devices  PROVE Held(backup.cursors[d], device'[d], backup.history)
    <3>1. Held(backup.cursors[d], device[d], backup.history) /\ device'[d].copy = device[d].copy
      BY <2>2 DEF RowsHeld, Kept
    <3> QED  BY <3>1 DEF Held
  <2> QED  BY <2>1, <2>3 DEF RowsHeld
<1>9. ASSUME NEW a \in acks, Acknowledge(a)  PROVE RowsHeld'
  <2>1. a.device \in Devices /\ Held(cursors'[a.device], device[a.device], history)
    BY <1>9, AcknowledgeHeld
  <2>2. /\ UNCHANGED <<backup, history, device>>
        /\ \A d \in Devices : d # a.device => cursors'[d] = cursors[d]
    BY <1>e, <1>9 DEF Acknowledge, TypeOK
  <2> QED  BY <2>1, <2>2 DEF RowsHeld
<1>10. ASSUME NEW d \in Devices, Stall(d)  PROVE UNCHANGED <<backup, history, cursors, device>>
  BY <1>10 DEF Stall
<1>11. ASSUME NEW t \in Transactions, BeginCommand(t)
       PROVE  UNCHANGED <<backup, history, cursors, device>>
  BY <1>11 DEF BeginCommand
<1>12. ASSUME Tick \/ PruneEvents \/ UNCHANGED vars \/ (\E s \in Slots : ExpireSnapshot(s))
       PROVE  UNCHANGED <<backup, history, cursors, device>>
  BY <1>12 DEF Tick, PruneEvents, ExpireSnapshot, vars, server
<1> QED
  BY StepCases, <1>1, <1>2, <1>3, <1>4, <1>5, <1>6, <1>7, <1>8, <1>9, <1>10, <1>11, <1>12

LEMMA AheadKept ==
  ASSUME BaseInv, SnapshotsAhead, epoch' = epoch,
         \A d \in Devices : device'[d] = device[d] \/ device'[d].step # "copying",
         \A s \in Slots : snapshots'[s] = None \/ snapshots'[s] = snapshots[s],
         \A d \in Devices : cursors'[d] = None \/ cursors'[d] = cursors[d],
         backup'.cursors = backup.cursors \/ backup'.cursors = cursors
  PROVE  SnapshotsAhead'
<1>1. ASSUME NEW d \in Devices
      PROVE  Ahead(device'[d], d, snapshots', cursors'[d], backup'.cursors[d], epoch)
  <2>1. CASE device'[d].step # "copying"
    BY <2>1 DEF Ahead
  <2>2. CASE device'[d] = device[d] /\ device[d].step = "copying"
    <3> DEFINE s == device[d].snapshot
    <3>1. s \in Slots
      BY <2>2 DEF BaseInv, RequestsSound, RequestSound
    <3>2. Ahead(device[d], d, snapshots, cursors[d], backup.cursors[d], epoch)
      BY DEF SnapshotsAhead
    <3>3. CASE snapshots'[s] = None
      BY <2>2, <3>3 DEF Ahead
    <3>4. CASE snapshots'[s] = snapshots[s]
      BY <2>2, <3>2, <3>4 DEF Ahead
    <3> QED  BY <3>1, <3>3, <3>4
  <2> QED  BY <2>1, <2>2
<1> QED  BY <1>1 DEF SnapshotsAhead

LEMMA OpenAhead ==
  ASSUME BaseInv, RowsHeld, SnapshotsAhead, NEW d \in Devices, OpenSnapshot(d)
  PROVE  SnapshotsAhead'
<1> DEFINE n == Len(history)
<1>e. /\ TypeOK /\ n \in Nat /\ device[d].cursor \in Int
      /\ Len(backup.history) \in Nat /\ Len(backup.history) <= n
      /\ cursors[d] \in CursorRow \cup {None} /\ backup.cursors[d] \in CursorRow \cup {None}
  BY RowParts, BackupTyped DEF BaseInv, TypeOK, HistorySound, Beginning
<1>1. /\ Moved(d) /\ Kept(device[d], device'[d]) /\ UNCHANGED <<epoch, cursors, backup>>
  BY <1>e, OpenSnapshotRow
<1>2. PICK s \in Slots :
        /\ snapshots[s] = None /\ device'[d].snapshot = s
        /\ snapshots' = [snapshots EXCEPT ![s] = [device |-> d, sequence |-> n]]
  BY <1>e, OpenSnapshotRow DEF latestSequence
<1> HIDE DEF n
<1>3. snapshots'[s] = [device |-> d, sequence |-> n] /\ snapshots'[s].sequence = n
  BY <1>e, <1>2 DEF TypeOK
<1>4. device[d].epoch = epoch => device[d].cursor <= n
  BY DEF BaseInv, CursorsWithin, Within, n
<1>5. cursors[d] # None => cursors[d].acknowledged <= n
  <2>1. ASSUME cursors[d] # None, cursors[d].acknowledged > 0
        PROVE  cursors[d].acknowledged <= n
    <3>1. cursors[d].acknowledged \in 1..cursors[d].acknowledged
      BY <1>e, <2>1 DEF CursorRow
    <3> QED  BY <2>1, <3>1 DEF RowsHeld, Held, n
  <2> QED  BY <1>e, <2>1 DEF CursorRow
<1>6. backup.cursors[d] # None => backup.cursors[d].acknowledged <= n
  <2>1. ASSUME backup.cursors[d] # None, backup.cursors[d].acknowledged > 0
        PROVE  backup.cursors[d].acknowledged <= n
    <3>1. backup.cursors[d].acknowledged \in 1..backup.cursors[d].acknowledged
      BY <1>e, <2>1 DEF CursorRow
    <3>2. backup.cursors[d].acknowledged <= Len(backup.history)
      BY <2>1, <3>1 DEF RowsHeld, Held
    <3> QED  BY <1>e, <3>1, <3>2
  <2> QED  BY <1>e, <2>1 DEF CursorRow
<1>7. Ahead(device'[d], d, snapshots', cursors[d], backup.cursors[d], epoch)
  BY <1>1, <1>2, <1>3, <1>4, <1>5, <1>6 DEF Ahead, Kept
<1>8. ASSUME NEW x \in Devices, x # d
      PROVE  Ahead(device'[x], x, snapshots', cursors[x], backup.cursors[x], epoch)
  <2>1. device'[x] = device[x]
    BY <1>1, <1>8 DEF Moved
  <2>2. Ahead(device[x], x, snapshots, cursors[x], backup.cursors[x], epoch)
    BY DEF SnapshotsAhead
  <2>3. CASE device[x].snapshot = s
    <3>1. snapshots'[device[x].snapshot].device # x
      BY <1>3, <1>8, <2>3
    <3> QED  BY <2>1, <3>1 DEF Ahead
  <2>4. CASE device[x].snapshot # s /\ device[x].step = "copying"
    <3>1. device[x].snapshot \in Slots
      BY <2>4 DEF BaseInv, RequestsSound, RequestSound
    <3>2. snapshots'[device[x].snapshot] = snapshots[device[x].snapshot]
      BY <1>e, <1>2, <2>4, <3>1 DEF TypeOK
    <3> QED  BY <2>1, <2>2, <3>2 DEF Ahead
  <2>5. CASE device[x].step # "copying"
    BY <2>1, <2>5 DEF Ahead
  <2> QED  BY <2>3, <2>4, <2>5
<1> QED  BY <1>1, <1>7, <1>8 DEF SnapshotsAhead

LEMMA AheadStep ==
  ASSUME BaseInv, DevicesFollow, RowsHeld, AcksWithin, SnapshotsAhead, [Next]_vars
  PROVE  SnapshotsAhead'
<1>e. TypeOK /\ RequestsSound /\ HistorySound
  BY DEF BaseInv
<1>1. ASSUME UNCHANGED <<epoch, device, backup>>,
             \A s \in Slots : snapshots'[s] = None \/ snapshots'[s] = snapshots[s],
             \A d \in Devices : cursors'[d] = None \/ cursors'[d] = cursors[d]
      PROVE  SnapshotsAhead'
  BY <1>1, AheadKept
<1>2. ASSUME NEW d \in Devices, Quiet(d) \/ FinishSnapshot(d) \/ Apply(d) \/ Disconnect(d)
      PROVE  SnapshotsAhead'
  <2>1. Moved(d) /\ UNCHANGED <<epoch, cursors, backup>>
    BY <1>e, <1>2, QuietMoves, FinishSnapshotRow, ApplyRow, DisconnectRow DEF server
  <2>2. device'[d].step # "copying"
    BY <1>e, <1>2, RefusedRow, AskRow, ReadLatestRow, ReadOldestRow, ReadCursorRowRow, AnswerRow,
       SnapshotGoneRow, PullRow, ReadEventsRow, FinishSnapshotRow, ApplyRow, DisconnectRow DEF Quiet
  <2>3. \A s \in Slots : snapshots'[s] = None \/ snapshots'[s] = snapshots[s]
    <3>1. CASE FinishSnapshot(d)
      <4>1. snapshots' = [snapshots EXCEPT ![device[d].snapshot] = None]
        BY <1>e, <3>1, FinishSnapshotRow
      <4> QED  BY <1>e, <4>1 DEF TypeOK
    <3>2. CASE ~FinishSnapshot(d)
      BY <1>e, <1>2, <3>2, QuietMoves, ApplyRow, DisconnectRow DEF server
    <3> QED  BY <3>1, <3>2
  <2>4. \A x \in Devices : device'[x] = device[x] \/ device'[x].step # "copying"
    BY <2>1, <2>2 DEF Moved
  <2> QED  BY <2>1, <2>3, <2>4, AheadKept
<1>3. ASSUME NEW d \in Devices, OpenSnapshot(d)  PROVE SnapshotsAhead'
  BY <1>3, OpenAhead
<1>4. ASSUME NEW d \in Devices, Stall(d)  PROVE SnapshotsAhead'
  BY <1>e, <1>1, <1>4 DEF Stall, TypeOK
<1>5. ASSUME NEW t \in Transactions, BeginCommand(t) \/ CommitCommand(t)  PROVE SnapshotsAhead'
  BY <1>1, <1>5 DEF BeginCommand, CommitCommand
<1>6. CASE Tick \/ PruneEvents \/ UNCHANGED vars
  BY <1>1, <1>6 DEF Tick, PruneEvents, vars, server
<1>7. CASE PruneCursors
  <2>1. UNCHANGED <<epoch, device, backup, snapshots>>
    BY <1>7 DEF PruneCursors
  <2>2. \A d \in Devices : cursors'[d] = None \/ cursors'[d] = cursors[d]
    BY <1>7 DEF PruneCursors
  <2> QED  BY <1>1, <2>1, <2>2
<1>8. CASE TakeBackup
  <2>1. UNCHANGED <<epoch, device, snapshots, cursors>> /\ backup'.cursors = cursors
    BY <1>8 DEF TakeBackup
  <2> QED  BY <2>1, AheadKept
<1>9. CASE Restore
  <2>1. \A s \in Slots : snapshots'[s] = None
    BY <1>9 DEF Restore
  <2>2. ASSUME NEW d \in Devices, device'[d].step = "copying"
        PROVE  snapshots'[device'[d].snapshot] = None
    <3>1. device'[d] = device[d]
      BY <1>e, <1>9, <2>2 DEF Restore, Interrupted, TypeOK
    <3>2. device[d].snapshot \in Slots
      BY <1>e, <2>2, <3>1 DEF RequestsSound, RequestSound
    <3> QED  BY <2>1, <3>1, <3>2
  <2> QED  BY <2>2 DEF SnapshotsAhead, Ahead
<1>10. ASSUME NEW s \in Slots, ExpireSnapshot(s)  PROVE SnapshotsAhead'
  BY <1>e, <1>1, <1>10 DEF ExpireSnapshot, TypeOK
<1>11. ASSUME NEW a \in acks, Acknowledge(a)  PROVE SnapshotsAhead'
  <2> DEFINE d == a.device
  <2>1. /\ d \in Devices /\ device[d].epoch = epoch /\ a.through <= device[d].cursor
    BY <1>11, AcknowledgeHeld
  <2>2. /\ UNCHANGED <<epoch, backup, snapshots, device>>
        /\ \A x \in Devices : x # d => cursors'[x] = cursors[x]
        /\ cursors'[d].acknowledged = Greatest(cursors[d], a.through)
    BY <1>e, <1>11, <2>1 DEF Acknowledge, TypeOK
  <2>3. a.through \in Int /\ device[d].cursor \in Int
        /\ (cursors[d] # None => cursors[d].acknowledged \in Int)
    BY <1>e, <2>1, RowParts DEF RequestsSound, TypeOK, CursorRow
  <2>4. ASSUME NEW x \in Devices
        PROVE  Ahead(device[x], x, snapshots, cursors'[x], backup.cursors[x], epoch)
    <3>1. Ahead(device[x], x, snapshots, cursors[x], backup.cursors[x], epoch)
      BY DEF SnapshotsAhead
    <3>2. CASE x = d
      <4>1. ASSUME device[d].step = "copying", device[d].carries = epoch,
                   snapshots[device[d].snapshot] # None,
                   snapshots[device[d].snapshot].device = d
            PROVE  cursors'[d].acknowledged <= snapshots[device[d].snapshot].sequence
        <5> DEFINE n == snapshots[device[d].snapshot].sequence
        <5>1. /\ device[d].cursor <= n
              /\ cursors[d] # None => cursors[d].acknowledged <= n
          BY <2>1, <3>1, <3>2, <4>1 DEF Ahead
        <5>2. device[d].snapshot \in Slots
          BY <1>e, <2>1, <4>1 DEF RequestsSound, RequestSound
        <5>3. n \in Int
          BY <1>e, <4>1, <5>2 DEF TypeOK, SnapshotRow
        <5> HIDE DEF n, d
        <5>4. Greatest(cursors[d], a.through) <= n
          BY <2>1, <2>3, <5>1, <5>3 DEF Greatest
        <5> QED  BY <2>2, <5>4 DEF n
      <4> QED  BY <3>1, <3>2, <4>1 DEF Ahead
    <3>3. CASE x # d
      BY <2>2, <3>1, <3>3
    <3> QED  BY <3>2, <3>3
  <2> QED  BY <2>2, <2>4 DEF SnapshotsAhead
<1> QED
  BY StepCases, <1>2, <1>3, <1>4, <1>5, <1>6, <1>7, <1>8, <1>9, <1>10, <1>11

LEMMA OrderInit ==
  ASSUME Init
  PROVE  OrderInv
<1>1. /\ events = {} /\ history = <<>> /\ acks = {} /\ epoch = 0 /\ lost = {}
      /\ backup.events = {} /\ backup.cursors = NoCursors /\ backup.history = <<>>
      /\ cursors = NoCursors /\ \A d \in Devices : device[d] = Offline
  BY DEF Init
<1>2. Gapless(events, history) /\ Gapless(backup.events, backup.history) /\ AcksWithin
  BY <1>1 DEF Gapless, AcksWithin
<1>3. Offline.step = "idle" /\ Offline.epoch = 0 /\ Offline.cursor = 0 /\ Offline.page = {}
      /\ Offline.copy = <<>>
  BY DEF Offline
<1>4. DevicesFollow
  <2>1. Len(<<>>) = 0 /\ <<>> = [i \in 1..0 |-> <<>>[i]]
    OBVIOUS
  <2>2. Follows(Offline, <<>>)
    BY <1>3, <2>1 DEF Follows
  <2> QED  BY <1>1, <1>3, <2>2 DEF DevicesFollow, Following
<1>5. ReadersCovered /\ SnapshotsAhead
  BY <1>1, <1>3 DEF ReadersCovered, Covered, SnapshotsAhead, Ahead
<1>6. RowsHeld
  BY <1>1 DEF RowsHeld, Held, NoCursors
<1> QED  BY <1>2, <1>4, <1>5, <1>6 DEF OrderInv

LEMMA OrderStep ==
  ASSUME BaseInv, OrderInv, InTimeOrder, [Next]_vars
  PROVE  OrderInv'
<1> QED
  BY GaplessStep, CoveredStep, DevicesStep, AcksStep, RowsStep, AheadStep DEF OrderInv

LEMMA OrderHolds == Spec /\ []InTimeOrder => []OrderInv
<1>1. Init => OrderInv
  BY OrderInit
<1>2. BaseInv /\ OrderInv /\ InTimeOrder /\ [Next]_vars => OrderInv'
  BY OrderStep
<1> QED  BY <1>1, <1>2, BaseHolds, PTL DEF Spec

(***************************************************************************)
(* The feed implements EventDelivery.                                      *)
(***************************************************************************)
Part(h, n) == [i \in 1..n |-> h[i]]

LEMMA PartOf ==
  ASSUME NEW S, NEW h \in Seq(S), NEW n \in 0..Len(h)
  PROVE  /\ Part(h, n) \in Seq(S) /\ Len(Part(h, n)) = n
         /\ Part(h, n) \in Delivery!BeginningsOf(h)
<1>1. SubSeq(h, 1, n) = Part(h, n)
  BY Beginnings DEF Part
<1>2. SubSeq(h, 1, n) \in Seq(S) /\ Len(SubSeq(h, 1, n)) = n
  BY Beginnings
<1> QED  BY <1>1, <1>2 DEF Delivery!BeginningsOf

LEMMA PartOfPart ==
  ASSUME NEW S, NEW h \in Seq(S), NEW n \in 0..Len(h), NEW m \in 0..n
  PROVE  Part(h, m) \in Delivery!BeginningsOf(Part(h, n))
<1> DEFINE c == Part(h, n)
<1>1. c \in Seq(S) /\ Len(c) = n
  BY PartOf
<1>2. Part(c, m) = Part(h, m)
  BY DEF Part
<1> HIDE DEF c
<1>3. Part(c, m) \in Delivery!BeginningsOf(c)
  BY <1>1, PartOf
<1> QED  BY <1>2, <1>3 DEF c

LEMMA BeginningIsPart ==
  ASSUME NEW S, NEW h \in Seq(S), NEW c \in Delivery!BeginningsOf(h)
  PROVE  \E n \in 0..Len(h) : c = Part(h, n) /\ Len(c) = n
<1>1. PICK n \in 0..Len(h) : c = SubSeq(h, 1, n)
  BY DEF Delivery!BeginningsOf
<1> QED  BY <1>1, Beginnings DEF Part

copies == [d \in Devices |-> device[d].copy]

LEMMA OnlyCopy ==
  ASSUME NEW d \in Devices, Moved(d), UNCHANGED <<history, lost>>
  PROVE  copies' = [copies EXCEPT ![d] = device'[d].copy]
<1> QED  BY DEF Moved, copies

LEMMA DeliveryInit ==
  ASSUME Init
  PROVE  Delivery!Init
<1>1. \A d \in Devices : device[d].copy = <<>>
  BY DEF Init, Offline
<1> QED  BY <1>1 DEF Init, Delivery!Init

LEMMA ApplyAdvances ==
  ASSUME BaseInv, DevicesFollow, NEW d \in Devices, Apply(d)
  PROVE  Delivery!Advance(d)
<1>1. Moved(d) /\ UNCHANGED <<history, lost>>
  BY ApplyRow DEF BaseInv, server
<1>2. PICK h \in lost \cup {history} :
        /\ h \in Seq(0..MaxEpoch) /\ Follows(device[d], h) /\ Follows(device'[d], h)
        /\ device[d].cursor <= device'[d].cursor
  BY ApplyFollows
<1> DEFINE m == device[d].cursor
           n == device'[d].cursor
<1>3. /\ device[d].copy = Part(h, m) /\ device'[d].copy = Part(h, n)
      /\ n \in 0..Len(h) /\ m \in 0..n
  <2>1. m \in 0..MaxSequence /\ n \in 0..MaxSequence
    BY <1>1, RowParts DEF BaseInv, TypeOK, Moved
  <2>2. m <= n /\ n <= Len(h) /\ Len(h) \in Nat
    BY <1>2 DEF Follows
  <2>3. device[d].copy = Part(h, m) /\ device'[d].copy = Part(h, n)
    BY <1>2 DEF Follows, Part
  <2> HIDE DEF m, n
  <2> QED  BY <2>1, <2>2, <2>3
<1> HIDE DEF m, n
<1>4. Part(h, n) \in Delivery!BeginningsOf(h) /\ Part(h, m) \in Delivery!BeginningsOf(Part(h, n))
  BY <1>2, <1>3, PartOf, PartOfPart
<1>5. copies' = [copies EXCEPT ![d] = Part(h, n)] /\ copies[d] = Part(h, m)
  BY <1>1, <1>3, OnlyCopy DEF copies
<1> QED  BY <1>1, <1>2, <1>4, <1>5 DEF Delivery!Advance, copies

LEMMA FinishDelivers ==
  ASSUME BaseInv, DevicesFollow, SnapshotsAhead, NEW d \in Devices, FinishSnapshot(d)
  PROVE  Delivery!Advance(d) \/ Delivery!Rejoin(d)
<1> DEFINE n == device'[d].cursor
           m == device[d].cursor
           s == device[d].snapshot
<1>1. /\ Moved(d) /\ UNCHANGED <<history, lost>>
      /\ device[d].step = "copying" /\ device[d].carries = epoch /\ SessionLives(d)
      /\ s \in Slots /\ n = snapshots[s].sequence /\ n \in 0..Len(history)
      /\ device'[d].copy = Part(history, n)
  BY FinishSnapshotRow DEF BaseInv, Part
<1>2. /\ history \in Seq(0..MaxEpoch) /\ Len(history) \in Nat /\ epoch \in Nat
      /\ m \in Nat /\ device[d].epoch \in Nat /\ device[d].epoch <= epoch
      /\ Following(device[d], epoch, history, lost)
  <2>1. device[d].epoch \in 0..MaxEpoch /\ m \in 0..MaxSequence /\ RequestSound(device[d], epoch)
    BY RowParts DEF BaseInv, TypeOK, RequestsSound
  <2>2. Following(device[d], epoch, history, lost) /\ history \in Seq(0..MaxEpoch) /\ epoch \in Nat
    BY DEF DevicesFollow, BaseInv, TypeOK
  <2>3. device[d].epoch <= epoch
    BY <1>1, <2>1 DEF RequestSound
  <2> QED  BY <2>1, <2>2, <2>3
<1>3. copies' = [copies EXCEPT ![d] = Part(history, n)]
  BY <1>1, OnlyCopy
<1>4. Part(history, n) \in Delivery!BeginningsOf(history)
  BY <1>1, <1>2, PartOf
<1>5. /\ snapshots[s].sequence \in Nat
      /\ \A i \in snapshots[s].sequence + 1 .. Len(history) : history[i] = epoch
  BY <1>1 DEF BaseInv, HistorySound, SessionLives, TypeOK, SnapshotRow
<1>6. device[d].epoch = epoch => m <= n
  BY <1>1 DEF SnapshotsAhead, Ahead, SessionLives
<1> HIDE DEF n, m, s
<1>7. ASSUME copies[d] \in Delivery!BeginningsOf(Part(history, n))
      PROVE  Delivery!Advance(d)
  BY <1>1, <1>3, <1>4, <1>7 DEF Delivery!Advance, copies
<1>8. CASE device[d].epoch = epoch
  <2>1. Follows(device[d], history) /\ copies[d] = device[d].copy
    BY <1>2, <1>8 DEF Following, copies
  <2>2. copies[d] = Part(history, m) /\ m \in 0..n
    BY <1>1, <1>2, <1>6, <1>8, <2>1 DEF Follows, Part, m
  <2>3. copies[d] \in Delivery!BeginningsOf(Part(history, n))
    BY <1>1, <1>2, <2>2, PartOfPart
  <2> QED  BY <1>7, <2>3
<1>9. CASE device[d].epoch # epoch
  <2>1. PICK h \in lost : Follows(device[d], h)
    BY <1>2, <1>9 DEF Following
  <2>2. h \in Seq(0..MaxEpoch) /\ \A i \in 1..Len(h) : h[i] < epoch
    BY DEF BaseInv, HistorySound
  <2>3. copies[d] = Part(h, m) /\ m \in 0..Len(h)
    BY <1>2, <2>1, <2>2 DEF Follows, Part, copies, m
  <2>4. Len(copies[d]) = m
    BY <2>2, <2>3, PartOf
  <2>5. ASSUME copies[d] \in Delivery!BeginningsOf(history)
        PROVE  copies[d] \in Delivery!BeginningsOf(Part(history, n))
    <3>1. PICK k \in 0..Len(history) : copies[d] = Part(history, k) /\ Len(copies[d]) = k
      BY <1>2, <2>5, BeginningIsPart
    <3>2. k = m
      BY <2>4, <3>1
    <3>3. CASE m <= n
      <4>1. m \in 0..n
        BY <1>1, <1>2, <3>3
      <4> QED  BY <1>1, <1>2, <3>1, <3>2, <4>1, PartOfPart
    <3>4. CASE ~(m <= n)
      <4>1. m \in n + 1 .. Len(history) /\ m \in 1..Len(h) /\ m \in 1..m
        BY <1>1, <1>2, <2>3, <3>1, <3>2, <3>4
      <4>2. history[m] = epoch
        BY <1>1, <1>5, <4>1
      <4>3. copies[d][m] = history[m]
        BY <3>1, <3>2, <4>1 DEF Part
      <4>4. copies[d][m] = h[m]
        BY <2>3, <4>1 DEF Part
      <4>5. h[m] < epoch
        BY <2>2, <4>1
      <4> QED  BY <1>2, <4>2, <4>3, <4>4, <4>5
    <3> QED  BY <3>3, <3>4
  <2>6. CASE copies[d] \in Delivery!BeginningsOf(history)
    BY <1>7, <2>5, <2>6
  <2>7. CASE copies[d] \notin Delivery!BeginningsOf(history)
    BY <1>1, <1>3, <1>4, <2>7 DEF Delivery!Rejoin, copies
  <2> QED  BY <2>6, <2>7
<1> QED  BY <1>8, <1>9

LEMMA RestoreDelivers ==
  ASSUME BaseInv, Restore
  PROVE  Delivery!Restore
<1>1. /\ history' = backup.history /\ lost' = lost \cup {history}
      /\ \A d \in Devices : device'[d].copy = device[d].copy
  BY DEF Restore, Interrupted
<1>2. /\ backup.history \in Seq(0..MaxEpoch) /\ history \in Seq(0..MaxEpoch)
      /\ Beginning(backup.history, history)
  BY BackupTyped DEF BaseInv, TypeOK, HistorySound
<1> DEFINE n == Len(backup.history)
<1>3. n \in 0..Len(history) /\ backup.history = Part(history, n)
  <2>1. backup.history = Part(backup.history, n)
    BY <1>2 DEF Part
  <2>2. Part(backup.history, n) = Part(history, n)
    BY <1>2 DEF Part, Beginning
  <2> QED  BY <1>2, <2>1, <2>2 DEF Beginning
<1> HIDE DEF n
<1>4. backup.history \in Delivery!BeginningsOf(history)
  BY <1>2, <1>3, PartOf
<1>5. copies' = copies
  BY <1>1 DEF copies
<1> QED  BY <1>1, <1>4, <1>5 DEF Delivery!Restore, copies

LEMMA DeliveryStep ==
  ASSUME BaseInv, OrderInv, [Next]_vars
  PROVE  [Delivery!Next]_(Delivery!vars)
<1>e. /\ TypeOK /\ RequestsSound /\ HistorySound /\ DevicesFollow /\ SnapshotsAhead
  BY DEF BaseInv, OrderInv
<1>s. ASSUME UNCHANGED <<history, lost>>, \A d \in Devices : device'[d].copy = device[d].copy
      PROVE  UNCHANGED Delivery!vars
  <2>1. copies' = copies
    BY <1>s DEF copies
  <2> QED  BY <1>s, <2>1 DEF Delivery!vars, copies
<1>1. ASSUME NEW d \in Devices, Quiet(d) \/ OpenSnapshot(d) \/ Disconnect(d)
      PROVE  UNCHANGED Delivery!vars
  <2>1. Moved(d) /\ Kept(device[d], device'[d]) /\ UNCHANGED <<history, lost>>
    BY <1>e, <1>1, QuietMoves, OpenSnapshotRow, DisconnectRow DEF server
  <2>2. \A x \in Devices : device'[x].copy = device[x].copy
    BY <2>1 DEF Moved, Kept
  <2> QED  BY <1>s, <2>1, <2>2
<1>2. ASSUME NEW d \in Devices, FinishSnapshot(d)  PROVE Delivery!Next
  BY <1>e, <1>2, FinishDelivers DEF Delivery!Next
<1>3. ASSUME NEW d \in Devices, Apply(d)  PROVE Delivery!Next
  BY <1>e, <1>3, ApplyAdvances DEF Delivery!Next
<1>4. CASE Restore
  BY <1>4, RestoreDelivers DEF Delivery!Next
<1>5. ASSUME NEW t \in Transactions, CommitCommand(t)  PROVE Delivery!Next
  <2>1. /\ history' = Append(history, epoch) /\ UNCHANGED <<lost, device>>
        /\ epoch \in 0..MaxEpoch
    BY <1>e, <1>5 DEF CommitCommand, TypeOK
  <2>2. Delivery!Publish
    BY <2>1 DEF Delivery!Publish
  <2> QED  BY <2>2 DEF Delivery!Next
<1>6. ASSUME UNCHANGED <<history, lost, device>>  PROVE UNCHANGED Delivery!vars
  BY <1>6, <1>s
<1>7. ASSUME NEW d \in Devices, Stall(d)  PROVE UNCHANGED <<history, lost, device>>
  BY <1>7 DEF Stall
<1>8. ASSUME NEW t \in Transactions, BeginCommand(t)
      PROVE  UNCHANGED <<history, lost, device>>
  BY <1>8 DEF BeginCommand
<1>9. ASSUME Tick \/ PruneEvents \/ PruneCursors \/ TakeBackup \/ UNCHANGED vars
               \/ (\E s \in Slots : ExpireSnapshot(s)) \/ (\E a \in acks : Acknowledge(a))
      PROVE  UNCHANGED <<history, lost, device>>
  BY <1>9 DEF Tick, PruneEvents, PruneCursors, TakeBackup, ExpireSnapshot, Acknowledge, vars, server
<1> QED
  BY StepCases, <1>1, <1>2, <1>3, <1>4, <1>5, <1>6, <1>7, <1>8, <1>9

(* What a device stores is always the beginning of a history the server
   served, whatever prune, pages, snapshots and restores do, as long as the
   log is in the order of created_at (MCSyncFeedGap: it need not be).        *)
THEOREM InOrderDelivers == Spec /\ []InTimeOrder => Delivered
<1>1. Init => Delivery!Init
  BY DeliveryInit
<1>2. BaseInv /\ OrderInv /\ [Next]_vars => [Delivery!Next]_(Delivery!vars)
  BY DeliveryStep
<1> QED  BY <1>1, <1>2, BaseHolds, OrderHolds, PTL DEF Spec, Delivered, Delivery!Spec

(* In that order a device misses no event, and what it acknowledged it holds,
   also after a restore of the server.                                      *)
THEOREM InOrderKept == Spec /\ []InTimeOrder => CursorsKept /\ []NoSilentGap
<1>1. BaseInv /\ OrderInv => AcknowledgedHeld
  <2> SUFFICES ASSUME BaseInv, OrderInv, NEW d \in Devices, cursors[d] # None,
                      NEW i \in 1..cursors[d].acknowledged
               PROVE  i \in DOMAIN device[d].copy /\ device[d].copy[i] = history[i]
    BY DEF AcknowledgedHeld
  <2>1. Held(cursors[d], device[d], history)
    BY DEF OrderInv, RowsHeld
  <2> QED  BY <2>1 DEF Held
<1>2. BaseInv /\ OrderInv => NoSilentGap
  <2> SUFFICES ASSUME BaseInv, OrderInv, NEW d \in Devices
               PROVE  DOMAIN device[d].copy = 1..device[d].cursor
    BY DEF NoSilentGap
  <2>1. Following(device[d], epoch, history, lost)
    BY DEF OrderInv, DevicesFollow
  <2>2. PICK h : Follows(device[d], h)
    BY <2>1 DEF Following
  <2> QED  BY <2>2 DEF Follows
<1> QED
  BY <1>1, <1>2, BaseHolds, OrderHolds, AcknowledgementsMonotone, BootstrapsJustified, PTL
     DEF CursorsKept

(***************************************************************************)
(* When no two command transactions of the workspace overlap, the log is   *)
(* in that order.                                                          *)
(***************************************************************************)
WriterInv ==
  /\ InTimeOrder
  /\ Ordered(backup.events)
  /\ \A e \in events \cup backup.events : e.createdAt <= clock
  /\ \A t \in Transactions : started[t] # None => \A e \in events : e.createdAt <= started[t]

LEMMA WriterKept ==
  ASSUME WriterInv, UNCHANGED <<clock, backup, started>>, events' \subseteq events
  PROVE  WriterInv'
<1> QED  BY DEF WriterInv, InTimeOrder, Ordered

LEMMA WriterStep ==
  ASSUME \A t, u \in Transactions : t = u, BaseInv, WriterInv, [Next]_vars
  PROVE  WriterInv'
<1>e. /\ TypeOK /\ RequestsSound /\ HistorySound /\ clock \in Nat
      /\ \A e \in events \cup backup.events : e.createdAt \in Nat /\ e.sequence \in Nat
      /\ \A t \in Transactions : started[t] # None => started[t] \in Nat
  BY BackupTyped DEF BaseInv, TypeOK, EventRow
<1>1. ASSUME NEW d \in Devices,
             Quiet(d) \/ OpenSnapshot(d) \/ FinishSnapshot(d) \/ Apply(d) \/ Disconnect(d)
               \/ Stall(d)
      PROVE  UNCHANGED <<clock, backup, started, events>>
  BY <1>e, <1>1, QuietMoves, OpenSnapshotRow, FinishSnapshotRow, ApplyRow, DisconnectRow
     DEF server, Stall
<1>2. CASE UNCHANGED <<clock, backup, started, events>>
  BY <1>2, WriterKept
<1>3. ASSUME NEW t \in Transactions, BeginCommand(t)  PROVE WriterInv'
  <2>1. /\ UNCHANGED <<clock, backup, events>>
        /\ \A u \in Transactions : started'[u] = started[u] \/ started'[u] = clock
    BY <1>e, <1>3 DEF BeginCommand, TypeOK
  <2> QED  BY <2>1 DEF WriterInv, InTimeOrder, Ordered
<1>4. ASSUME NEW t \in Transactions, CommitCommand(t)  PROVE WriterInv'
  <2> DEFINE n == Len(history)
             new == [sequence |-> n + 1, createdAt |-> started[t], epoch |-> epoch]
  <2>1. /\ UNCHANGED <<clock, backup>> /\ events' = events \cup {new}
        /\ n \in Nat /\ \A e \in events : e.sequence <= n
    BY <1>e, <1>4, Committed DEF CommitCommand, HistorySound, EventsOf
  <2>2. \A u \in Transactions : started'[u] = None
    BY <1>e, <1>4 DEF CommitCommand, TypeOK
  <2>3. /\ started[t] \in Nat /\ started[t] <= clock
        /\ \A e \in events : e.createdAt <= started[t]
    BY <1>e, <1>4 DEF CommitCommand, WriterInv, BaseInv, OnTime
  <2>4. new.sequence = n + 1 /\ new.createdAt = started[t]
    OBVIOUS
  <2> HIDE DEF new
  <2>5. Ordered(events')
    <3> SUFFICES ASSUME NEW e \in events', NEW f \in events', e.sequence < f.sequence
                 PROVE  e.createdAt <= f.createdAt
      BY DEF Ordered
    <3>1. CASE e \in events /\ f \in events
      BY <3>1 DEF WriterInv, InTimeOrder, Ordered
    <3>2. CASE e \in events /\ f = new
      BY <2>3, <2>4, <3>2
    <3>3. CASE e = new /\ f \in events
      BY <1>e, <2>1, <2>4, <3>3
    <3>4. CASE e = new /\ f = new
      BY <2>1, <2>4, <3>4
    <3> QED  BY <2>1, <3>1, <3>2, <3>3, <3>4
  <2>6. \A e \in events' \cup backup'.events : e.createdAt <= clock
    BY <2>1, <2>3, <2>4 DEF WriterInv
  <2> QED  BY <2>1, <2>2, <2>5, <2>6 DEF WriterInv, InTimeOrder
<1>5. CASE Tick
  <2>1. clock' = clock + 1 /\ UNCHANGED <<events, backup, started>>
    BY <1>5 DEF Tick
  <2>2. \A e \in events \cup backup.events : e.createdAt <= clock + 1
    BY <1>e DEF WriterInv
  <2> QED  BY <2>1, <2>2 DEF WriterInv, InTimeOrder, Ordered
<1>6. CASE PruneEvents
  BY <1>6, WriterKept DEF PruneEvents
<1>7. CASE TakeBackup
  <2>1. backup'.events = events /\ UNCHANGED <<clock, events, started>>
    BY <1>7 DEF TakeBackup
  <2> QED  BY <2>1 DEF WriterInv, InTimeOrder, Ordered
<1>8. CASE Restore
  <2>1. /\ events' = backup.events /\ UNCHANGED <<clock, backup>>
        /\ \A t \in Transactions : started'[t] = None
    BY <1>8 DEF Restore
  <2> QED  BY <2>1 DEF WriterInv, InTimeOrder, Ordered
<1>9. ASSUME PruneCursors \/ UNCHANGED vars
               \/ (\E s \in Slots : ExpireSnapshot(s)) \/ (\E a \in acks : Acknowledge(a))
      PROVE  UNCHANGED <<clock, backup, started, events>>
  BY <1>9 DEF PruneCursors, ExpireSnapshot, Acknowledge, vars, server
<1> QED
  BY StepCases, <1>1, <1>2, <1>3, <1>4, <1>5, <1>6, <1>7, <1>8, <1>9

LEMMA OneWriterInOrder ==
  ASSUME \A t, u \in Transactions : t = u
  PROVE  Spec => []InTimeOrder
<1>1. Init => WriterInv
  BY DEF Init, WriterInv, InTimeOrder, Ordered
<1>2. BaseInv /\ WriterInv /\ [Next]_vars => WriterInv'
  BY WriterStep
<1>3. WriterInv => InTimeOrder
  BY DEF WriterInv
<1> QED  BY <1>1, <1>2, <1>3, BaseHolds, PTL DEF Spec

(* With one writer at a time, the feed implements EventDelivery outright: no
   event is missed or mixed in, whatever prune, pages, snapshots, restores
   and late acknowledgements do.                                            *)
THEOREM OneWriterDelivers ==
  ASSUME \A t, u \in Transactions : t = u
  PROVE  Spec => Delivered
<1> QED  BY OneWriterInOrder, InOrderDelivers, PTL

(* ... and the server never believes that a device has an event it has not.  *)
THEOREM OneWriterKept ==
  ASSUME \A t, u \in Transactions : t = u
  PROVE  Spec => CursorsKept
<1> QED  BY OneWriterInOrder, InOrderKept, PTL

================================================================================
