----------------------- MODULE AccountDeletionProofs -----------------------
(***************************************************************************)
(* What the deletion of an account guarantees, for any number of requests, *)
(* crashes, boots and restores; what a restored backup may not bring back  *)
(* into effect, for any accounts and work; and what its support cases keep *)
(* to, for any requests of the customer and the staff, checked by TLAPS.   *)
(***************************************************************************)
EXTENDS DeletionPromise, RestorePromise, SequenceTheorems, WellFoundedInduction, TLAPS

(* The bounds of the model are numbers.                                     *)
DeletionBounds == MaxCases \in Nat /\ MaxMishaps \in Nat /\ MaxRestores \in Nat

(* The rows of a database, the one that is served or the copy of it.        *)
Rows ==
  [cases : [Deletion!Cases -> [status : Deletion!InProgress \cup {"none", "canceled", "completed"},
                      linked : BOOLEAN]],
   account : {"active", "disabled", "gone"}, library : {"live", "deleted", "old", "gone"},
   hold : BOOLEAN, fenced : BOOLEAN, ledger : {Deletion!NoRow} \cup (Deletion!Cases \X Deletion!Stamps),
   outbox : [Deletion!Cases -> {"none", "pending", "delivered"}]]

-----------------------------------------------------------------------------
(* What holds of the rows d of either database, given the ages a of the cases
   and the files r of the receipt store, which no restore takes back.       *)

Open(d) == {c \in Deletion!Cases : d.cases[c].linked /\ d.cases[c].status \in Deletion!InProgress}
Filed(r) == {c \in Deletion!Cases : r[c] \in Deletion!Stamps}

(* At most one case is open, and while it is nothing of the account is.     *)
Closing(d) ==
  /\ \A b, c \in Open(d) : b = c
  /\ Open(d) # {} => d.account = "disabled" /\ d.library # "live" /\ d.fenced
  /\ d.account = "gone" => Open(d) = {} /\ d.library = "gone"

(* What follows the term of a case came after it.                           *)
AfterTerm(d, a) ==
  /\ \A c \in Deletion!Cases :
       /\ d.cases[c].linked /\ d.cases[c].status \in {"scheduled", "purging"} => a[c] = "due"
       /\ d.outbox[c] # "none" => a[c] = "due"
       /\ d.outbox[c] = "pending" => ~d.cases[c].linked
  /\ d.ledger # Deletion!NoRow => a[d.ledger[1]] = "due"

(* What is settled has its receipt; the ledger's row tells of no other deletion
   than the receipts; and its account is gone, or closed for it.            *)
Attested(d, r) ==
  /\ \A c \in Deletion!Cases : d.cases[c].status = "completed" \/ d.outbox[c] = "delivered" => c \in Filed(r)
  /\ \A c \in Filed(r) : d.ledger \in {Deletion!NoRow, <<c, r[c]>>}
  /\ d.ledger # Deletion!NoRow =>
       d.account = "gone" \/ (d.account = "disabled" /\ Open(d) \subseteq {d.ledger[1]})

Sound(d, a, r) == d \in Rows /\ Closing(d) /\ AfterTerm(d, a) /\ Attested(d, r)

(* The library of d is going for good: its case cannot be cancelled.        *)
Going(d, a) == d.library # "live" /\ \E c \in Open(d) : a[c] = "due"

(* One deletion has receipts; the ledger's row is there wherever one is, and is
   the one that was copied.                                                 *)
ReceiptsSound ==
  /\ \A c \in Deletion!Cases : receipts[c] # Deletion!Absent => Deletion!Due(c)
  /\ \A b, c \in Deletion!Recorded : b = c
  /\ served /\ Deletion!Recorded # {} => records.ledger # Deletion!NoRow
  /\ copy.db.ledger # Deletion!NoRow => records.ledger = copy.db.ledger

(* A removal under way keeps holds and cancellations out; a receipt under way
   is the one that the ledger's row owes.                                   *)
Removing == worker.at \in {"locked", "cleared"}
WorkerSound ==
  /\ Removing => /\ served /\ records.library \in {"deleted", "old"} /\ ~records.hold
                 /\ \A c \in Open(records) : Deletion!Due(c)
  /\ worker.at = "opened" => worker.case \in Deletion!Cases /\ receipts[worker.case] = Deletion!Torn /\ Deletion!Owed(worker.case)
  /\ worker.at = "written" => worker.case \in Deletion!Recorded

(* Blobs are missing only of a library that is gone, or going, or whose removal
   was halted.                                                              *)
BytesKept ==
  /\ \/ bytes \/ spent.halted \/ records.library = "gone" \/ Going(records, age)
     \/ records.library # "live" /\ Removing
  /\ copy.bytes \/ spent.halted \/ copy.db.library = "gone" \/ Going(copy.db, age)

Counted ==
  /\ spent.stamps \in Nat /\ spent.restores \in Nat /\ spent.halted \in BOOLEAN
  /\ DOMAIN spent = {"stamps", "mishaps", "restores", "halted"}
  /\ copy.bytes \in BOOLEAN

DeletionInv ==
  /\ Deletion!TypeOK /\ Counted /\ Sound(records, age, receipts) /\ Sound(copy.db, age, receipts)
  /\ ReceiptsSound /\ WorkerSound /\ BytesKept

-----------------------------------------------------------------------------
(* Neither the clock nor a receipt, unless it is another deletion's, disturbs
   the rows of a database.                                                  *)
LEMMA SoundLasts ==
  ASSUME NEW d, NEW a, NEW b, NEW r, NEW s, Sound(d, a, r),
         \A c \in Deletion!Cases : a[c] = "due" => b[c] = "due",
         Filed(r) \subseteq Filed(s),
         \A c \in Filed(s) : d.ledger \in {Deletion!NoRow, <<c, s[c]>>}
  PROVE  Sound(d, b, s)
<1>1. d.ledger # Deletion!NoRow => d.ledger[1] \in Deletion!Cases
  BY DEF Sound, Rows
<1>2. AfterTerm(d, b)
  BY <1>1 DEF Sound, AfterTerm
<1>3. Attested(d, s)
  BY DEF Sound, Attested
<1> QED  BY <1>2, <1>3 DEF Sound

(* A step that changes the rows of the database and no more.                *)
LEMMA RowsKeep ==
  ASSUME DeletionInv, Sound(records', age', receipts),
         age' \in [Deletion!Cases -> {"none", "cancelable", "kept", "due"}],
         \A c \in Deletion!Cases : Deletion!Due(c) => age'[c] = "due",
         UNCHANGED <<Deletion!outside, worker, spent>>,
         records'.ledger = records.ledger, records'.outbox = records.outbox,
         records.library = "gone" => records'.library = "gone",
         Going(records, age) => Going(records', age'),
         Removing => /\ records'.library \in {"deleted", "old"} /\ records'.hold = records.hold
                     /\ Open(records') = Open(records)
  PROVE  DeletionInv'
<1>1. /\ Deletion!TypeOK /\ Counted /\ Sound(records, age, receipts) /\ Sound(copy.db, age, receipts)
      /\ ReceiptsSound /\ WorkerSound /\ BytesKept
      /\ UNCHANGED <<bytes, receipts, copy, served, worker, spent>>
  BY DEF DeletionInv, Deletion!outside
<1>2. Deletion!TypeOK'
  BY <1>1 DEF Deletion!TypeOK, Sound, Rows
<1>3. Counted'
  BY <1>1 DEF Counted
<1>4. Sound(copy.db, age', receipts)
  <2>1. \A c \in Filed(receipts) : copy.db.ledger \in {Deletion!NoRow, <<c, receipts[c]>>}
    BY <1>1 DEF Sound, Attested
  <2>2. \A c \in Deletion!Cases : age[c] = "due" => age'[c] = "due"
    BY DEF Deletion!Due
  <2> QED  BY <1>1, <2>1, <2>2, SoundLasts
<1>5. ReceiptsSound'
  BY <1>1 DEF ReceiptsSound, Deletion!Due, Deletion!Recorded
<1>6. WorkerSound'
  BY <1>1 DEF WorkerSound, Removing, Deletion!Owed, Deletion!Recorded, Deletion!Due, Open
<1>7. Going(copy.db, age) => Going(copy.db, age')
  BY DEF Going, Deletion!Due, Open
<1>8. BytesKept'
  BY <1>1, <1>7 DEF BytesKept, Removing, WorkerSound
<1> QED  BY <1>1, <1>2, <1>3, <1>4, <1>5, <1>6, <1>8 DEF DeletionInv

(* A case that goes from a stage to the next, while it is open.             *)
LEMMA StageMoves ==
  ASSUME NEW d, NEW e, NEW a, NEW r, Sound(d, a, r), e \in Rows,
         e.account = d.account, e.library = d.library, e.fenced = d.fenced,
         e.ledger = d.ledger, e.outbox = d.outbox,
         \A c \in Deletion!Cases :
           \/ e.cases[c] = d.cases[c]
           \/ /\ d.cases[c].linked /\ d.cases[c].status \in Deletion!InProgress
              /\ e.cases[c].linked /\ e.cases[c].status \in Deletion!InProgress
              /\ e.cases[c].status \in {"scheduled", "purging"} => a[c] = "due"
  PROVE  Sound(e, a, r) /\ Open(e) = Open(d)
<1>1. Open(e) = Open(d)
  BY DEF Open
<1>2. Closing(e)
  BY <1>1 DEF Sound, Closing
<1>3. AfterTerm(e, a)
  BY DEF Sound, AfterTerm
<1>4. Attested(e, r)
  <2>1. "completed" \notin Deletion!InProgress
    BY DEF Deletion!InProgress
  <2> QED  BY <1>1, <2>1 DEF Sound, Attested
<1> QED  BY <1>1, <1>2, <1>3, <1>4 DEF Sound

LEMMA StagesKeep ==
  ASSUME DeletionInv, ~Removing, records' \in Rows, UNCHANGED <<Deletion!outside, age, worker, spent>>,
         records'.account = records.account, records'.library = records.library,
         records'.fenced = records.fenced,
         records'.ledger = records.ledger, records'.outbox = records.outbox,
         \A c \in Deletion!Cases :
           \/ records'.cases[c] = records.cases[c]
           \/ /\ Deletion!Linked(c) /\ Deletion!Status(c) \in Deletion!InProgress
              /\ records'.cases[c].linked /\ records'.cases[c].status \in Deletion!InProgress
              /\ records'.cases[c].status \in {"scheduled", "purging"} => Deletion!Due(c)
  PROVE  DeletionInv'
<1>1. Sound(records', age, receipts) /\ Open(records') = Open(records)
  BY StageMoves DEF DeletionInv, Deletion!Linked, Deletion!Status, Deletion!Due
<1>2. Going(records, age) => Going(records', age)
  BY <1>1 DEF Going
<1>3. age \in [Deletion!Cases -> {"none", "cancelable", "kept", "due"}]
  BY DEF DeletionInv, Deletion!TypeOK
<1> QED  BY <1>1, <1>2, <1>3, RowsKeep DEF Deletion!Due

-----------------------------------------------------------------------------
(* The rows of both databases, field by field.                              *)
LEMMA Fields ==
  ASSUME DeletionInv
  PROVE  /\ records \in Rows /\ copy.db \in Rows
         /\ records.cases \in [Deletion!Cases -> [status : Deletion!InProgress \cup {"none", "canceled", "completed"},
                                         linked : BOOLEAN]]
         /\ records.library \in {"live", "deleted", "old", "gone"} /\ records.hold \in BOOLEAN
         /\ records.outbox \in [Deletion!Cases -> {"none", "pending", "delivered"}]
         /\ age \in [Deletion!Cases -> {"none", "cancelable", "kept", "due"}]
         /\ receipts \in [Deletion!Cases -> {Deletion!Absent, Deletion!Torn} \cup Deletion!Stamps]
BY DEF DeletionInv, Sound, Rows, Deletion!TypeOK

LEMMA HoldsKeep ==
  ASSUME DeletionInv, Deletion!Place \/ Deletion!Release
  PROVE  DeletionInv'
<1>1. ~Removing /\ UNCHANGED <<Deletion!outside, age, worker, spent>>
  BY SMTT(40) DEF Deletion!Place, Deletion!Release, Deletion!Unlocked, Removing
<1>2. PICK h \in BOOLEAN, f \in {Deletion!Held, Deletion!Released} : records' = [records EXCEPT !.hold = h, !.cases = f]
  BY DEF Deletion!Place, Deletion!Release
<1>3. f \in [Deletion!Cases -> [status : Deletion!InProgress \cup {"none", "canceled", "completed"}, linked : BOOLEAN]]
  BY <1>2, Fields DEF Deletion!Held, Deletion!Released, Deletion!Has, Deletion!InProgress
<1>4. /\ records' \in Rows /\ records'.cases = f
      /\ records'.account = records.account /\ records'.library = records.library
      /\ records'.fenced = records.fenced
      /\ records'.ledger = records.ledger /\ records'.outbox = records.outbox
  BY <1>2, <1>3, Fields DEF Rows
<1>5. ASSUME NEW c \in Deletion!Cases, f[c] # records.cases[c]
      PROVE  /\ Deletion!Linked(c) /\ Deletion!Status(c) \in Deletion!InProgress
             /\ f[c].linked /\ f[c].status \in Deletion!InProgress
             /\ f[c].status \in {"scheduled", "purging"} => Deletion!Due(c)
  BY <1>2, <1>5, Fields DEF Deletion!Held, Deletion!Released, Deletion!Has, Deletion!InProgress, Deletion!Linked, Deletion!Status
<1> QED  BY <1>1, <1>4, <1>5, StagesKeep

LEMMA StageKeeps ==
  ASSUME DeletionInv, NEW c \in Deletion!Cases, Deletion!Advance(c) \/ Deletion!StartPurge(c)
  PROVE  DeletionInv'
<1>1. ~Removing /\ UNCHANGED <<Deletion!outside, age, worker, spent>>
  BY DEF Deletion!Advance, Deletion!StartPurge, Deletion!Cleaned, Deletion!Unlocked, Removing
<1>2. PICK s \in {"held", "scheduled", "purging"} :
        /\ records' = [records EXCEPT !.cases = Deletion!SetCase(c, s)]
        /\ Deletion!Linked(c) /\ Deletion!Status(c) \in Deletion!InProgress /\ (s # "held" => Deletion!Due(c))
  <2>1. CASE Deletion!Advance(c)
    BY <2>1 DEF Deletion!Advance, Deletion!InProgress
  <2>2. CASE Deletion!StartPurge(c)
    BY <2>2 DEF Deletion!StartPurge, Deletion!Cleaned, Deletion!Has, Deletion!InProgress, DeletionInv, Sound, AfterTerm, Deletion!Due, Deletion!Linked,
         Deletion!Status
  <2> QED  BY <2>1, <2>2
<1>3. Deletion!SetCase(c, s) \in [Deletion!Cases -> [status : Deletion!InProgress \cup {"none", "canceled", "completed"},
                                   linked : BOOLEAN]]
  BY Fields DEF Deletion!SetCase, Deletion!InProgress
<1>4. /\ records' \in Rows /\ records'.cases = Deletion!SetCase(c, s)
      /\ records'.account = records.account /\ records'.library = records.library
      /\ records'.fenced = records.fenced
      /\ records'.ledger = records.ledger /\ records'.outbox = records.outbox
  BY <1>2, <1>3, Fields DEF Rows
<1>5. ASSUME NEW b \in Deletion!Cases, Deletion!SetCase(c, s)[b] # records.cases[b]
      PROVE  /\ Deletion!Linked(b) /\ Deletion!Status(b) \in Deletion!InProgress
             /\ Deletion!SetCase(c, s)[b].linked /\ Deletion!SetCase(c, s)[b].status \in Deletion!InProgress
             /\ Deletion!SetCase(c, s)[b].status \in {"scheduled", "purging"} => Deletion!Due(b)
  <2>1. b = c
    BY <1>5, Fields DEF Deletion!SetCase
  <2>2. Deletion!SetCase(c, s)[c].linked = records.cases[c].linked /\ Deletion!SetCase(c, s)[c].status = s
    BY Fields DEF Deletion!SetCase
  <2> QED  BY <1>2, <2>1, <2>2 DEF Deletion!Linked, Deletion!InProgress
<1> QED  BY <1>1, <1>4, <1>5, StagesKeep

(* The case is the only one that is open, and has a term to be cancelled in. *)
LEMMA RequestKeeps ==
  ASSUME DeletionInv, NEW c \in Deletion!Cases, Deletion!Request(c)
  PROVE  DeletionInv'
<1> DEFINE row == [status |-> IF records.hold THEN "held" ELSE "cooling_off", linked |-> TRUE]
<1>1. /\ age[c] = "none" /\ Open(records) = {} /\ records.account = "active" /\ ~Removing
      /\ UNCHANGED <<Deletion!outside, worker, spent>> /\ age' = [age EXCEPT ![c] = "cancelable"]
  BY DEF Deletion!Request, Open, Deletion!Pending, Deletion!Linked, Deletion!Status, Deletion!Unlocked, Removing
<1>2. row.linked /\ row.status \in {"held", "cooling_off"}
      /\ row \in [status : Deletion!InProgress \cup {"none", "canceled", "completed"}, linked : BOOLEAN]
  BY DEF Deletion!InProgress
<1>3. records' = [records EXCEPT !.cases = [records.cases EXCEPT ![c] = row],
                    !.fenced = TRUE, !.account = "disabled", !.library = Deletion!Became("deleted")]
  BY Fields DEF Deletion!Request, Rows
<1> HIDE DEF row
<1>4. /\ records'.cases = [records.cases EXCEPT ![c] = row] /\ records'.fenced = TRUE
      /\ records'.account = "disabled" /\ records'.library = Deletion!Became("deleted")
      /\ records'.ledger = records.ledger /\ records'.outbox = records.outbox
  BY <1>3, Fields DEF Rows
<1>5. Deletion!Became("deleted") \in {"deleted", "gone"} /\ (records.library = "gone" => Deletion!Became("deleted") = "gone")
  BY DEF Deletion!Became
<1>6. records' \in Rows
  BY <1>2, <1>3, <1>5, Fields DEF Rows
<1>7. /\ \A b \in Deletion!Cases \ {c} : records'.cases[b] = records.cases[b] /\ age'[b] = age[b]
      /\ records'.cases[c] = row /\ age'[c] = "cancelable"
  BY <1>1, <1>4, Fields
<1>8. Open(records') = {c}
  BY <1>1, <1>2, <1>7 DEF Open, Deletion!InProgress
<1>9. Closing(records')
  BY <1>4, <1>5, <1>8 DEF Closing
<1>10. AfterTerm(records', age')
  BY <1>1, <1>2, <1>4, <1>7, Fields DEF AfterTerm, DeletionInv, Sound, Rows, Deletion!NoRow
<1>11. Attested(records', receipts)
  BY <1>1, <1>2, <1>4, <1>7 DEF Attested, DeletionInv, Sound
<1>12. age' \in [Deletion!Cases -> {"none", "cancelable", "kept", "due"}] /\ \A b \in Deletion!Cases : Deletion!Due(b) => age'[b] = "due"
  BY <1>1, <1>7, Fields DEF Deletion!Due
<1>13. ~Going(records, age)
  BY <1>1 DEF Going
<1>14. Sound(records', age', receipts)
  BY <1>6, <1>9, <1>10, <1>11 DEF Sound
<1> QED  BY <1>1, <1>4, <1>5, <1>12, <1>13, <1>14, RowsKeep

(* A deletion that left a row in the ledger, or took the blobs, is past its term. *)
LEMMA CancelKeeps ==
  ASSUME DeletionInv, NEW c \in Deletion!Cases, Deletion!Cancel(c)
  PROVE  DeletionInv'
<1>1. /\ c \in Open(records) /\ age[c] = "cancelable" /\ ~Removing
      /\ UNCHANGED <<Deletion!outside, age, worker, spent>>
      /\ records' = [records EXCEPT !.cases = Deletion!SetCase(c, "canceled"), !.fenced = FALSE,
                                    !.account = "active", !.library = Deletion!Became("live")]
  BY DEF Deletion!Cancel, Deletion!Cancelable, Open, Deletion!InProgress, Deletion!Linked, Deletion!Status, Deletion!Unlocked, Removing
<1>2. Open(records) = {c} /\ ~Going(records, age)
  BY <1>1 DEF DeletionInv, Sound, Closing, Going
<1>3. Deletion!SetCase(c, "canceled") \in [Deletion!Cases -> [status : Deletion!InProgress \cup {"none", "canceled", "completed"},
                                            linked : BOOLEAN]]
  BY Fields DEF Deletion!SetCase
<1>4. Deletion!Became("live") \in {"live", "deleted", "old", "gone"} /\ (records.library = "gone" => Deletion!Became("live") = "gone")
  BY Fields DEF Deletion!Became
<1>5. /\ records' \in Rows /\ records'.cases = Deletion!SetCase(c, "canceled") /\ records'.account = "active"
      /\ records'.library = Deletion!Became("live")
      /\ records'.ledger = records.ledger /\ records'.outbox = records.outbox
  BY <1>1, <1>3, <1>4, Fields DEF Rows
<1>6. /\ \A b \in Deletion!Cases \ {c} : records'.cases[b] = records.cases[b]
      /\ records'.cases[c].status = "canceled" /\ records'.cases[c].linked = records.cases[c].linked
  BY <1>5, Fields DEF Deletion!SetCase
<1>7. Open(records') = {}
  BY <1>2, <1>6 DEF Open, Deletion!InProgress
<1>8. Closing(records')
  BY <1>5, <1>7 DEF Closing
<1>9. AfterTerm(records', age)
  BY <1>5, <1>6 DEF AfterTerm, DeletionInv, Sound
<1>10. Attested(records', receipts)
  <2>1. records.account = "disabled"
    BY <1>1 DEF DeletionInv, Sound, Closing
  <2>2. records.ledger = Deletion!NoRow
    BY <1>1, <1>2, <2>1 DEF DeletionInv, Sound, Attested, AfterTerm
  <2> QED  BY <1>5, <1>6, <2>2 DEF Attested, DeletionInv, Sound
<1>11. Sound(records', age, receipts)
  BY <1>5, <1>8, <1>9, <1>10 DEF Sound
<1>12. \A b \in Deletion!Cases : Deletion!Due(b) => age'[b] = "due"
  BY <1>1 DEF Deletion!Due
<1> QED  BY <1>1, <1>2, <1>4, <1>5, <1>11, <1>12, Fields, RowsKeep

(* The library of an account that is not fenced has no open case.           *)
LEMMA NoCaseUnfenced ==
  ASSUME DeletionInv, ~records.fenced
  PROVE  Open(records) = {} /\ ~Going(records, age)
BY DEF DeletionInv, Sound, Closing, Going

(* A library that changes, of an account without an open case or that stays
   closed.                                                                  *)
LEMMA LibraryMoves ==
  ASSUME DeletionInv, NEW l \in {"live", "deleted", "old", "gone"},
         records' = [records EXCEPT !.library = l],
         l = "live" => Open(records) = {},
         records.account = "gone" => l = "gone"
  PROVE  /\ Sound(records', age, receipts) /\ Open(records') = Open(records)
         /\ records'.library = l /\ records'.hold = records.hold
         /\ records'.account = records.account /\ records'.cases = records.cases
         /\ records'.ledger = records.ledger /\ records'.outbox = records.outbox
<1>1. /\ records' \in Rows /\ records'.library = l /\ records'.hold = records.hold
      /\ records'.cases = records.cases /\ records'.account = records.account
      /\ records'.fenced = records.fenced
      /\ records'.ledger = records.ledger /\ records'.outbox = records.outbox
  BY Fields DEF Rows
<1>2. Open(records') = Open(records)
  BY <1>1 DEF Open
<1>3. Closing(records')
  BY <1>1, <1>2 DEF Closing, DeletionInv, Sound
<1>4. AfterTerm(records', age)
  BY <1>1 DEF AfterTerm, DeletionInv, Sound
<1>5. Attested(records', receipts)
  BY <1>1, <1>2 DEF Attested, DeletionInv, Sound
<1> QED  BY <1>1, <1>2, <1>3, <1>4, <1>5 DEF Sound

LEMMA LibraryKeeps ==
  ASSUME DeletionInv, Deletion!DeleteLibrary \/ Deletion!TombstoneAges
  PROVE  DeletionInv'
<1>1. PICK l \in {"deleted", "old"} :
        /\ records' = [records EXCEPT !.library = l] /\ UNCHANGED <<Deletion!outside, age, worker, spent>>
        /\ records.library \in {"live", "deleted"} /\ records.account # "gone"
        /\ Removing => records.library = "deleted"
  BY DEF Deletion!DeleteLibrary, Deletion!TombstoneAges, Deletion!WriteAllowed, Deletion!Unlocked, Removing, DeletionInv, Sound, Closing
<1>2. /\ Sound(records', age, receipts) /\ Open(records') = Open(records)
      /\ records'.library = l /\ records'.hold = records.hold
      /\ records'.ledger = records.ledger /\ records'.outbox = records.outbox
  BY <1>1, LibraryMoves
<1>3. Going(records, age) => Going(records', age)
  BY <1>2 DEF Going
<1>4. \A c \in Deletion!Cases : Deletion!Due(c) => age'[c] = "due"
  BY <1>1 DEF Deletion!Due
<1> QED  BY <1>1, <1>2, <1>3, <1>4, Fields, RowsKeep

LEMMA CreateKeeps ==
  ASSUME DeletionInv, Deletion!CreateLibrary
  PROVE  DeletionInv'
<1>1. /\ records' = [records EXCEPT !.library = "live"] /\ bytes' = TRUE
      /\ UNCHANGED <<receipts, copy, served, age, worker, spent>>
      /\ records.account # "gone" /\ Open(records) = {} /\ ~Removing
  BY NoCaseUnfenced DEF Deletion!CreateLibrary, Deletion!WriteAllowed, Deletion!Unlocked, Removing
<1>2. /\ Sound(records', age, receipts) /\ Open(records') = Open(records)
      /\ records'.ledger = records.ledger /\ records'.outbox = records.outbox
  BY <1>1, LibraryMoves
<1>3. Deletion!TypeOK' /\ Counted'
  BY <1>1, <1>2 DEF DeletionInv, Deletion!TypeOK, Counted, Sound, Rows
<1>4. ReceiptsSound' /\ WorkerSound'
  BY <1>1, <1>2 DEF DeletionInv, ReceiptsSound, WorkerSound, Removing, Deletion!Owed, Deletion!Recorded, Deletion!Due
<1>5. BytesKept'
  BY <1>1 DEF DeletionInv, BytesKept
<1> QED  BY <1>1, <1>2, <1>3, <1>4, <1>5 DEF DeletionInv

(* Time passes, and takes nothing back.                                     *)
LEMMA LaterKeeps ==
  ASSUME DeletionInv, NEW c \in Deletion!Cases, Deletion!Later(c)
  PROVE  DeletionInv'
<1>1. /\ age' = [age EXCEPT ![c] = IF @ = "cancelable" THEN "kept" ELSE "due"]
      /\ UNCHANGED <<Deletion!outside, records, worker, spent>> /\ age[c] # "due"
  BY DEF Deletion!Later
<1>2. /\ age' \in [Deletion!Cases -> {"none", "cancelable", "kept", "due"}]
      /\ \A b \in Deletion!Cases : age[b] = "due" => age'[b] = "due"
  BY <1>1, Fields
<1>3. \A b \in Filed(receipts) : records.ledger \in {Deletion!NoRow, <<b, receipts[b]>>}
  BY DEF DeletionInv, Sound, Attested
<1>4. Sound(records, age', receipts)
  BY <1>2, <1>3, SoundLasts DEF DeletionInv
<1>5. Going(records, age) => Going(records, age')
  BY <1>2 DEF Going, Open
<1>6. Removing => records.library \in {"deleted", "old"}
  BY DEF DeletionInv, WorkerSound
<1> QED  BY <1>1, <1>2, <1>4, <1>5, <1>6, RowsKeep DEF Deletion!Due

-----------------------------------------------------------------------------
(* The removal of the library.                                              *)

LEMMA LockKeeps ==
  ASSUME DeletionInv, Deletion!LockLibrary
  PROVE  DeletionInv'
<1>1. /\ served /\ ~Removing /\ worker' = [at |-> "locked", case |-> 0]
      /\ UNCHANGED <<Deletion!outside, records, age, spent>>
      /\ records.library \in {"deleted", "old"} /\ ~records.hold /\ \A c \in Open(records) : Deletion!Due(c)
  BY DEF Deletion!LockLibrary, Deletion!Unlocked, Removing, Deletion!Removable, Open, Deletion!Pending, Deletion!Linked, Deletion!Status
<1>2. Deletion!TypeOK' /\ Counted'
  BY <1>1 DEF Deletion!outside, DeletionInv, Deletion!TypeOK, Counted
<1>3. Sound(records, age, receipts)' /\ Sound(copy.db, age, receipts)'
  BY <1>1 DEF Deletion!outside, DeletionInv
<1>4. ReceiptsSound'
  BY <1>1 DEF Deletion!outside, DeletionInv, ReceiptsSound, Deletion!Recorded, Deletion!Due
<1>5. WorkerSound'
  BY <1>1 DEF Deletion!outside, WorkerSound, Removing, Deletion!Due
<1>6. BytesKept'
  BY <1>1 DEF Deletion!outside, DeletionInv, BytesKept, Removing
<1> QED  BY <1>2, <1>3, <1>4, <1>5, <1>6 DEF DeletionInv

(* A removal that stops leaves a case past its term, or is remembered.      *)
LEMMA HaltKeeps ==
  ASSUME DeletionInv, worker' = Deletion!Idle, spent' = Deletion!Halted,
         bytes' = bytes \/ (bytes' = FALSE /\ Removing),
         UNCHANGED <<records, age, receipts, copy, served>>
  PROVE  DeletionInv'
<1>1. Deletion!TypeOK' /\ Counted'
  BY ZenonT(60) DEF DeletionInv, Deletion!TypeOK, Counted, Deletion!Halted, Deletion!Idle
<1>2. Sound(records, age, receipts)' /\ Sound(copy.db, age, receipts)'
  BY DEF DeletionInv
<1>3. ReceiptsSound'
  BY DEF DeletionInv, ReceiptsSound, Deletion!Recorded, Deletion!Due
<1>4. WorkerSound'
  BY DEF WorkerSound, Removing, Deletion!Idle
<1>5. spent.halted => spent'.halted
  BY DEF DeletionInv, Counted, Deletion!Halted
<1>6. copy'.bytes \/ spent'.halted \/ copy'.db.library = "gone" \/ Going(copy'.db, age')
  BY <1>5 DEF DeletionInv, BytesKept
<1>7. \/ bytes' \/ spent'.halted \/ records'.library = "gone" \/ Going(records', age')
      \/ records'.library # "live" /\ Removing'
  <2>1. CASE Removing
    <3>1. records.library # "live" /\ \A c \in Open(records) : Deletion!Due(c)
      BY <2>1 DEF DeletionInv, WorkerSound
    <3>2. CASE Open(records) = {}
      <4>1. spent'.halted
        BY <2>1, <3>2 DEF Deletion!Halted, Removing, Open, Deletion!Pending, Deletion!Linked, Deletion!Status, DeletionInv, Counted
      <4> QED  BY <4>1
    <3>3. CASE Open(records) # {}
      BY <3>1, <3>3 DEF Going, Deletion!Due
    <3> QED  BY <3>2, <3>3
  <2>2. CASE ~Removing
    BY <1>5, <2>2 DEF DeletionInv, BytesKept
  <2> QED  BY <2>1, <2>2
<1> QED  BY <1>1, <1>2, <1>3, <1>4, <1>6, <1>7 DEF DeletionInv, BytesKept

LEMMA ClearKeeps ==
  ASSUME DeletionInv, Deletion!ClearLibrary
  PROVE  DeletionInv'
<1>1. worker.at = "locked" /\ bytes' = FALSE /\ UNCHANGED <<records, age, receipts, copy, served>>
  BY DEF Deletion!ClearLibrary
<1>2. CASE worker' = [worker EXCEPT !.at = "cleared"] /\ UNCHANGED spent
  <2>1. worker'.at = "cleared" /\ Deletion!TypeOK'
    BY <1>1, <1>2 DEF DeletionInv, Deletion!TypeOK
  <2>2. Removing /\ Removing'
    BY <1>1, <2>1 DEF Removing
  <2>3. Counted' /\ Sound(records, age, receipts)' /\ Sound(copy.db, age, receipts)'
    BY <1>1, <1>2 DEF DeletionInv, Counted
  <2>4. ReceiptsSound'
    BY <1>1 DEF DeletionInv, ReceiptsSound, Deletion!Recorded, Deletion!Due
  <2>5. WorkerSound'
    BY <1>1, <2>1, <2>2 DEF DeletionInv, WorkerSound, Deletion!Due
  <2>6. BytesKept'
    BY <1>1, <1>2, <2>2 DEF DeletionInv, BytesKept, WorkerSound
  <2> QED  BY <2>1, <2>3, <2>4, <2>5, <2>6 DEF DeletionInv
<1>3. CASE spent' = Deletion!Halted /\ worker' = Deletion!Idle
  BY <1>1, <1>3, HaltKeeps DEF Removing
<1> QED  BY <1>2, <1>3 DEF Deletion!ClearLibrary

LEMMA RemoveKeeps ==
  ASSUME DeletionInv, Deletion!RemoveLibrary
  PROVE  DeletionInv'
<1>1. /\ worker.at = "cleared" /\ worker' = Deletion!Idle /\ UNCHANGED <<Deletion!outside, age, spent>>
      /\ records' = [records EXCEPT !.library = "gone"]
  BY DEF Deletion!RemoveLibrary
<1>2. /\ Sound(records', age, receipts) /\ records'.library = "gone"
      /\ records'.ledger = records.ledger
  BY <1>1, LibraryMoves
<1>3. Deletion!TypeOK' /\ Counted'
  BY <1>1, <1>2 DEF Deletion!outside, DeletionInv, Deletion!TypeOK, Counted, Sound, Rows, Deletion!Idle
<1>4. Sound(records, age, receipts)' /\ Sound(copy.db, age, receipts)'
  BY <1>1, <1>2 DEF Deletion!outside, DeletionInv
<1>5. ReceiptsSound' /\ WorkerSound'
  BY <1>1, <1>2 DEF Deletion!outside, DeletionInv, ReceiptsSound, WorkerSound, Removing, Deletion!Recorded, Deletion!Due, Deletion!Idle
<1>6. BytesKept'
  BY <1>1, <1>2 DEF Deletion!outside, DeletionInv, BytesKept
<1> QED  BY <1>3, <1>4, <1>5, <1>6 DEF DeletionInv

LEMMA CrashKeeps ==
  ASSUME DeletionInv, Deletion!Crash
  PROVE  DeletionInv'
BY HaltKeeps DEF Deletion!Crash, Deletion!outside

-----------------------------------------------------------------------------
(* The end of a case: the account's row, the receipt, and the case itself.  *)

(* What is written once the ledger has a row is the row.                    *)
LEMMA LedgerRow ==
  ASSUME DeletionInv, NEW c \in Deletion!Cases, Deletion!Owed(c)
  PROVE  /\ records.ledger # Deletion!NoRow /\ records.ledger = <<c, Deletion!Stamp>> /\ Deletion!Stamp \in Deletion!Stamps
         /\ Deletion!Due(c) /\ ~Deletion!Linked(c)
<1>1. records.ledger[1] = c /\ records.outbox[c] = "pending"
  BY DEF Deletion!Owed
<1>2. records.ledger # Deletion!NoRow
  BY <1>1 DEF Deletion!NoRow, Deletion!Cases
<1>3. records.ledger \in Deletion!Cases \X Deletion!Stamps
  BY <1>2, Fields DEF Rows
<1> QED  BY <1>1, <1>2, <1>3 DEF Deletion!Stamp, DeletionInv, Sound, AfterTerm, Deletion!Due, Deletion!Linked

LEMMA NoStamps ==
  ASSUME DeletionBounds
  PROVE  Deletion!Absent \notin Deletion!Stamps /\ Deletion!Torn \notin Deletion!Stamps /\ Deletion!Absent # Deletion!Torn
BY DEF DeletionBounds, Deletion!Stamps, Deletion!Absent, Deletion!Torn

LEMMA FinalizeKeeps ==
  ASSUME DeletionInv, NEW c \in Deletion!Cases, Deletion!Finalize(c)
  PROVE  DeletionInv'
<1> DEFINE stamp == spent.stamps + 1
           row   == [status |-> IF records.outbox[c] = "delivered" THEN "completed" ELSE "purging",
                     linked |-> FALSE]
           entry == IF records.ledger = Deletion!NoRow THEN <<c, stamp>> ELSE records.ledger
           mark  == IF records.outbox[c] = "none" THEN "pending" ELSE records.outbox[c]
<1>1. /\ served /\ worker = Deletion!Idle /\ c \in Open(records) /\ Deletion!Status(c) = "purging" /\ Deletion!Due(c)
      /\ records.library = "gone" /\ stamp \in Deletion!Stamps
      /\ UNCHANGED <<Deletion!outside, age, worker>> /\ spent' = [spent EXCEPT !.stamps = stamp]
  BY DEF Deletion!Finalize, Deletion!Cleaned, Deletion!Has, Open, Deletion!InProgress, Deletion!Linked, Deletion!Status, Deletion!Unlocked,
         DeletionInv, Sound, AfterTerm, Deletion!Due
<1>2. records' = [records EXCEPT !.account = "gone", !.cases = [records.cases EXCEPT ![c] = row],
                    !.ledger = entry, !.outbox = [records.outbox EXCEPT ![c] = mark]]
  BY Fields DEF Deletion!Finalize, Rows
<1>3. /\ row \in [status : Deletion!InProgress \cup {"none", "canceled", "completed"}, linked : BOOLEAN]
      /\ mark \in {"pending", "delivered"} /\ (mark = "delivered" <=> records.outbox[c] = "delivered")
      /\ (row.status = "completed" => records.outbox[c] = "delivered") /\ ~row.linked
  BY Fields DEF Deletion!InProgress
<1>4. /\ entry \in {Deletion!NoRow} \cup (Deletion!Cases \X Deletion!Stamps)
      /\ records.ledger # Deletion!NoRow => entry = records.ledger
      /\ records.ledger = Deletion!NoRow => entry[1] = c /\ Deletion!Recorded = {}
  BY <1>1, Fields DEF Rows, DeletionInv, ReceiptsSound
<1> HIDE DEF row, entry, mark, stamp
<1>5. /\ records' \in Rows /\ records'.account = "gone" /\ records'.ledger = entry
      /\ records'.cases = [records.cases EXCEPT ![c] = row] /\ records'.library = "gone"
      /\ records'.outbox = [records.outbox EXCEPT ![c] = mark]
  BY <1>1, <1>2, <1>3, <1>4, Fields DEF Rows
<1>6. /\ \A b \in Deletion!Cases \ {c} : records'.cases[b] = records.cases[b] /\ records'.outbox[b] = records.outbox[b]
      /\ records'.cases[c] = row /\ records'.outbox[c] = mark
  BY <1>5, Fields
<1>7. Open(records') = {}
  BY <1>1, <1>3, <1>6 DEF Open, DeletionInv, Sound, Closing
<1>8. Closing(records')
  BY <1>5, <1>7 DEF Closing
<1>9. AfterTerm(records', age)
  BY <1>1, <1>3, <1>4, <1>5, <1>6 DEF AfterTerm, DeletionInv, Sound, Deletion!Due
<1>10. Attested(records', receipts)
  <2>1. \A b \in Deletion!Cases : records'.cases[b].status = "completed" \/ records'.outbox[b] = "delivered"
                         => b \in Filed(receipts)
    BY <1>3, <1>6 DEF Attested, DeletionInv, Sound
  <2>2. \A b \in Filed(receipts) : entry \in {Deletion!NoRow, <<b, receipts[b]>>}
    BY <1>4 DEF Attested, DeletionInv, Sound, Deletion!Recorded, Filed
  <2> QED  BY <1>5, <2>1, <2>2 DEF Attested
<1>11. Sound(records, age, receipts)' /\ Sound(copy.db, age, receipts)'
  BY <1>1, <1>5, <1>8, <1>9, <1>10 DEF Deletion!outside, Sound, DeletionInv
<1>12. Deletion!TypeOK' /\ Counted'
  BY <1>1, <1>5 DEF Deletion!outside, DeletionInv, Deletion!TypeOK, Counted, Rows, Deletion!Stamps
<1>13. ReceiptsSound'
  BY <1>1, <1>4, <1>5 DEF Deletion!outside, DeletionInv, ReceiptsSound, Deletion!Recorded, Deletion!Due
<1>14. WorkerSound'
  BY <1>1 DEF WorkerSound, Removing, Deletion!Idle
<1>15. BytesKept'
  BY <1>1, <1>5 DEF Deletion!outside, DeletionInv, BytesKept, Counted
<1> QED  BY <1>11, <1>12, <1>13, <1>14, <1>15 DEF DeletionInv

(* A file that is there and not written belongs to nobody yet.              *)
LEMMA CreateReceiptKeeps ==
  ASSUME DeletionBounds, DeletionInv, NEW c \in Deletion!Cases, Deletion!CreateReceipt(c)
  PROVE  DeletionInv'
<1>1. /\ served /\ Deletion!Owed(c) /\ receipts[c] = Deletion!Absent /\ receipts' = [receipts EXCEPT ![c] = Deletion!Torn]
      /\ worker' = [at |-> "opened", case |-> c] /\ ~Removing
      /\ UNCHANGED <<records, age, bytes, copy, served, spent>>
  BY DEF Deletion!CreateReceipt, Removing, Deletion!Idle
<1>2. Filed(receipts') = Filed(receipts) /\ \A b \in Filed(receipts) : receipts'[b] = receipts[b]
  BY <1>1, NoStamps, Fields DEF Filed
<1>3. ASSUME NEW d, Sound(d, age, receipts) PROVE Sound(d, age, receipts')
  <2>1. \A b \in Filed(receipts') : d.ledger \in {Deletion!NoRow, <<b, receipts'[b]>>}
    BY <1>2, <1>3 DEF Sound, Attested
  <2> QED  BY <1>2, <1>3, <2>1, SoundLasts
<1>4. Sound(records, age, receipts)' /\ Sound(copy.db, age, receipts)'
  BY <1>1, <1>3 DEF DeletionInv
<1>5. Deletion!TypeOK' /\ Counted'
  BY <1>1, Fields DEF DeletionInv, Deletion!TypeOK, Counted
<1>6. Deletion!Due(c)
  BY <1>1, LedgerRow
<1>7. ReceiptsSound'
  BY <1>1, <1>2, <1>6, Fields DEF DeletionInv, ReceiptsSound, Deletion!Recorded, Filed, Deletion!Due
<1>8. WorkerSound'
  BY <1>1, Fields DEF WorkerSound, Removing, Deletion!Owed
<1>9. BytesKept'
  BY <1>1 DEF DeletionInv, BytesKept, Removing
<1> QED  BY <1>4, <1>5, <1>7, <1>8, <1>9 DEF DeletionInv

(* The receipt that is written is the ledger's row, and the first one.      *)
LEMMA WriteReceiptKeeps ==
  ASSUME DeletionBounds, DeletionInv, Deletion!WriteReceipt
  PROVE  DeletionInv'
<1> DEFINE c == worker.case
<1>1. /\ worker.at = "opened" /\ receipts' = [receipts EXCEPT ![c] = Deletion!Stamp]
      /\ worker' = [worker EXCEPT !.at = "written"]
      /\ UNCHANGED <<records, age, bytes, copy, served, spent>>
      /\ c \in Deletion!Cases /\ receipts[c] = Deletion!Torn /\ Deletion!Owed(c)
  BY DEF Deletion!WriteReceipt, DeletionInv, WorkerSound
<1>2. /\ records.ledger # Deletion!NoRow /\ records.ledger = <<c, Deletion!Stamp>> /\ Deletion!Stamp \in Deletion!Stamps /\ Deletion!Due(c)
  BY <1>1, LedgerRow
<1>3. worker' \in [at : {"idle", "locked", "cleared", "opened", "written"}, case : {0} \cup Deletion!Cases]
      /\ worker'.at = "written" /\ worker'.case = c
  BY <1>1 DEF DeletionInv, Deletion!TypeOK
<1> HIDE DEF c
<1>4. Filed(receipts) = {}
  BY <1>1, <1>2, NoStamps DEF DeletionInv, Sound, Attested, Filed
<1>5. Filed(receipts') = {c} /\ receipts'[c] = Deletion!Stamp
  BY <1>1, <1>2, <1>4, Fields DEF Filed
<1>6. ASSUME NEW d, Sound(d, age, receipts), d.ledger \in {Deletion!NoRow, records.ledger}
      PROVE  Sound(d, age, receipts')
  <2>1. \A b \in Filed(receipts') : d.ledger \in {Deletion!NoRow, <<b, receipts'[b]>>}
    BY <1>2, <1>5, <1>6
  <2> QED  BY <1>4, <1>6, <2>1, SoundLasts
<1>7. Sound(records, age, receipts)' /\ Sound(copy.db, age, receipts)'
  BY <1>1, <1>6 DEF DeletionInv, ReceiptsSound
<1>8. Deletion!TypeOK' /\ Counted'
  BY <1>1, <1>2, <1>3, Fields DEF DeletionInv, Deletion!TypeOK, Counted
<1>9. ReceiptsSound'
  BY <1>1, <1>2, <1>5, Fields DEF DeletionInv, ReceiptsSound, Deletion!Recorded, Filed, Deletion!Due
<1>10. WorkerSound'
  BY <1>3, <1>5 DEF WorkerSound, Removing, Deletion!Recorded, Filed
<1>11. BytesKept'
  BY <1>1, <1>3 DEF DeletionInv, BytesKept, Removing
<1> QED  BY <1>7, <1>8, <1>9, <1>10, <1>11 DEF DeletionInv

LEMMA FindReceiptKeeps ==
  ASSUME DeletionInv, NEW c \in Deletion!Cases, Deletion!FindReceipt(c)
  PROVE  DeletionInv'
<1>1. /\ worker' = [at |-> "written", case |-> c] /\ UNCHANGED <<Deletion!outside, records, age, spent>>
      /\ ~Removing /\ receipts[c] = Deletion!Stamp
  BY DEF Deletion!FindReceipt, Deletion!SameFile, Removing, Deletion!Idle
<1>2. Deletion!Stamp \in Deletion!Stamps
  BY LedgerRow DEF Deletion!FindReceipt
<1>3. WorkerSound'
  BY <1>1, <1>2 DEF Deletion!outside, WorkerSound, Removing, Deletion!Recorded
<1>4. Deletion!TypeOK' /\ Counted' /\ ReceiptsSound' /\ BytesKept'
  BY <1>1 DEF Deletion!outside, DeletionInv, Deletion!TypeOK, Counted, ReceiptsSound, Deletion!Recorded, Deletion!Due, BytesKept,
       Removing
<1>5. Sound(records, age, receipts)' /\ Sound(copy.db, age, receipts)'
  BY <1>1 DEF Deletion!outside, DeletionInv
<1> QED  BY <1>3, <1>4, <1>5 DEF DeletionInv

(* The case that is completed is not open any more, and has its receipt.    *)
LEMMA SettleKeeps ==
  ASSUME DeletionInv, Deletion!Settle
  PROVE  DeletionInv'
<1> DEFINE c == worker.case
<1>1. /\ c \in Deletion!Cases /\ c \in Filed(receipts) /\ worker' = Deletion!Idle /\ ~Removing
      /\ UNCHANGED <<Deletion!outside, age, spent>>
  BY DEF Deletion!Settle, DeletionInv, WorkerSound, Deletion!Recorded, Filed, Removing
<1>2. /\ Sound(records', age, receipts) /\ records'.ledger = records.ledger
      /\ records'.library = records.library /\ Open(records') = Open(records)
  <2>1. CASE UNCHANGED records
    BY <2>1 DEF DeletionInv
  <2>2. CASE /\ records.outbox[c] = "pending"
             /\ records' = [records EXCEPT !.outbox = [records.outbox EXCEPT ![c] = "delivered"],
                                           !.cases = Deletion!SetCase(c, "completed")]
    <3>1. /\ Deletion!SetCase(c, "completed") \in [Deletion!Cases -> [status : Deletion!InProgress \cup {"none", "canceled", "completed"},
                                                    linked : BOOLEAN]]
          /\ \A b \in Deletion!Cases \ {c} : Deletion!SetCase(c, "completed")[b] = records.cases[b]
          /\ Deletion!SetCase(c, "completed")[c].linked = records.cases[c].linked
      BY <1>1, Fields DEF Deletion!SetCase
    <3>2. /\ records' \in Rows /\ records'.account = records.account /\ records'.ledger = records.ledger
          /\ records'.cases = Deletion!SetCase(c, "completed") /\ records'.library = records.library
          /\ records'.outbox = [records.outbox EXCEPT ![c] = "delivered"]
          /\ records'.fenced = records.fenced
      BY <2>2, <3>1, Fields DEF Rows
    <3>3. ~records.cases[c].linked
      BY <1>1, <2>2 DEF DeletionInv, Sound, AfterTerm
    <3>4. Open(records') = Open(records)
      BY <3>1, <3>2, <3>3 DEF Open
    <3>5. /\ \A b \in Deletion!Cases \ {c} : records'.outbox[b] = records.outbox[b]
          /\ records'.outbox[c] = "delivered"
      BY <1>1, <3>2, Fields
    <3>6. Closing(records')
      BY <3>2, <3>4 DEF DeletionInv, Sound, Closing
    <3>7. AfterTerm(records', age)
      BY <1>1, <2>2, <3>1, <3>2, <3>3, <3>5 DEF DeletionInv, Sound, AfterTerm
    <3>8. Attested(records', receipts)
      BY <1>1, <3>1, <3>2, <3>4, <3>5 DEF DeletionInv, Sound, Attested
    <3> QED  BY <3>2, <3>4, <3>6, <3>7, <3>8 DEF Sound
  <2> QED  BY <2>1, <2>2, Fields DEF Deletion!Settle, Rows
<1>3. Sound(records, age, receipts)' /\ Sound(copy.db, age, receipts)'
  BY <1>1, <1>2 DEF Deletion!outside, DeletionInv
<1>4. Deletion!TypeOK' /\ Counted'
  BY <1>1, <1>2 DEF Deletion!outside, DeletionInv, Deletion!TypeOK, Counted, Sound, Rows, Deletion!Idle
<1>5. ReceiptsSound' /\ WorkerSound'
  BY <1>1, <1>2 DEF Deletion!outside, DeletionInv, ReceiptsSound, Deletion!Recorded, Deletion!Due, WorkerSound, Removing, Deletion!Idle
<1>6. BytesKept'
  BY <1>1, <1>2 DEF Deletion!outside, DeletionInv, BytesKept, Going
<1> QED  BY <1>3, <1>4, <1>5, <1>6 DEF DeletionInv

-----------------------------------------------------------------------------
(* Backups, restores, and the replay of the receipts.                       *)

LEMMA BackupKeeps ==
  ASSUME DeletionInv, Deletion!Backup
  PROVE  DeletionInv'
<1>1. /\ copy' = [db |-> records, bytes |-> bytes] /\ worker = Deletion!Idle /\ ~Removing
      /\ UNCHANGED <<records, age, bytes, receipts, worker, served, spent>>
  BY DEF Deletion!Backup, Deletion!Idle, Removing
<1>2. copy'.db = records /\ copy'.bytes = bytes
  BY <1>1
<1>3. Deletion!TypeOK' /\ Counted'
  BY <1>1, <1>2 DEF DeletionInv, Deletion!TypeOK, Counted
<1>4. Sound(records, age, receipts)' /\ Sound(copy.db, age, receipts)'
  BY <1>1, <1>2 DEF DeletionInv
<1>5. ReceiptsSound'
  BY <1>1, <1>2 DEF DeletionInv, ReceiptsSound, Deletion!Recorded, Deletion!Due
<1>6. WorkerSound' /\ BytesKept'
  BY <1>1, <1>2 DEF DeletionInv, WorkerSound, BytesKept, Removing, Deletion!Idle
<1> QED  BY <1>3, <1>4, <1>5, <1>6 DEF DeletionInv

LEMMA RestoreKeeps ==
  ASSUME DeletionInv, Deletion!Restore
  PROVE  DeletionInv'
<1>1. /\ records' = copy.db /\ bytes' = copy.bytes /\ spent' = [spent EXCEPT !.restores = @ + 1]
      /\ served' = FALSE /\ worker = Deletion!Idle /\ UNCHANGED <<age, receipts, worker, copy>>
  BY DEF Deletion!Restore
<1>2. Counted' /\ spent'.halted = spent.halted
  BY <1>1 DEF DeletionInv, Counted
<1>3. Sound(records, age, receipts)' /\ Sound(copy.db, age, receipts)'
  BY <1>1 DEF DeletionInv
<1>4. Deletion!TypeOK'
  BY <1>1, Fields, ZenonT(60) DEF DeletionInv, Deletion!TypeOK, Counted, Rows
<1>5. ReceiptsSound'
  BY <1>1 DEF DeletionInv, ReceiptsSound, Deletion!Recorded, Deletion!Due
<1>6. WorkerSound'
  BY <1>1 DEF WorkerSound, Removing, Deletion!Idle
<1>7. BytesKept'
  BY <1>1, <1>2 DEF DeletionInv, BytesKept
<1> QED  BY <1>2, <1>3, <1>4, <1>5, <1>6, <1>7 DEF DeletionInv

(* A replay closes what a restore had opened again, and opens nothing.      *)
LEMMA ReplayedSound ==
  ASSUME DeletionInv, NEW c \in Deletion!Recorded, Deletion!Agrees(c),
         records.account # "gone" => Open(records) \subseteq {c}
  PROVE  /\ Sound(Deletion!Replayed(c), age, receipts) /\ Deletion!Replayed(c).ledger = Deletion!Entry(c)
         /\ records.library = "gone" => Deletion!Replayed(c).library = "gone"
         /\ Going(records, age) => Going(Deletion!Replayed(c), age)
<1> DEFINE d == Deletion!Replayed(c)
<1>1. /\ c \in Deletion!Cases /\ c \in Filed(receipts) /\ receipts[c] \in Deletion!Stamps
      /\ \A b \in Filed(receipts) : b = c
  BY DEF DeletionInv, ReceiptsSound, Deletion!Recorded, Filed
<1>2. age[c] = "due"
  BY <1>1, Fields DEF DeletionInv, ReceiptsSound, Sound, Attested, Deletion!Due, Deletion!Recorded, Deletion!Stamps, Deletion!Absent
<1>3. Deletion!Entry(c) = <<c, receipts[c]>> /\ Deletion!Entry(c) \in Deletion!Cases \X Deletion!Stamps /\ Deletion!Entry(c)[1] = c
  BY <1>1 DEF Deletion!Entry
<1>4. CASE records.account = "gone"
  <2> DEFINE row == IF records.cases[c].status = "none" THEN [status |-> "completed", linked |-> FALSE]
                    ELSE records.cases[c]
  <2>1. d = [records EXCEPT !.ledger = Deletion!Entry(c), !.outbox = [records.outbox EXCEPT ![c] = "delivered"],
                            !.cases = [records.cases EXCEPT ![c] = row]]
    BY <1>4, Fields DEF Deletion!Replayed, Rows
  <2>2. row \in [status : Deletion!InProgress \cup {"none", "canceled", "completed"}, linked : BOOLEAN]
        /\ (row = records.cases[c] \/ ~row.linked)
    BY <1>1, Fields
  <2> HIDE DEF row, d
  <2>3. /\ d \in Rows /\ d.ledger = Deletion!Entry(c) /\ d.cases = [records.cases EXCEPT ![c] = row]
        /\ d.outbox = [records.outbox EXCEPT ![c] = "delivered"]
        /\ d.account = records.account /\ d.library = records.library
    BY <1>3, <2>1, <2>2, Fields DEF Rows
  <2>4. /\ \A b \in Deletion!Cases \ {c} : d.cases[b] = records.cases[b] /\ d.outbox[b] = records.outbox[b]
        /\ d.cases[c] = row /\ d.outbox[c] = "delivered"
    BY <1>1, <2>3, Fields
  <2>5. Open(records) = {} /\ Open(d) = {} /\ records.library = "gone"
    BY <1>4, <2>2, <2>4 DEF Open, DeletionInv, Sound, Closing
  <2>6. Closing(d)
    BY <2>3, <2>5 DEF Closing
  <2>7. AfterTerm(d, age)
    BY <1>2, <1>3, <2>2, <2>3, <2>4 DEF AfterTerm, DeletionInv, Sound
  <2>8. Attested(d, receipts)
    BY <1>1, <1>3, <1>4, <2>3, <2>4 DEF Attested, DeletionInv, Sound
  <2> QED  BY <2>3, <2>5, <2>6, <2>7, <2>8 DEF Sound, Going, d
<1>5. CASE records.account # "gone"
  <2> DEFINE row == [status |-> "scheduled", linked |-> TRUE]
  <2>1. d = [records EXCEPT !.ledger = Deletion!Entry(c), !.outbox = [records.outbox EXCEPT ![c] = "delivered"],
                            !.cases = [records.cases EXCEPT ![c] = row], !.fenced = TRUE,
                            !.account = "disabled", !.library = Deletion!Became("deleted")]
    BY <1>5, Fields DEF Deletion!Replayed, Rows
  <2>2. /\ row \in [status : Deletion!InProgress \cup {"none", "canceled", "completed"}, linked : BOOLEAN]
        /\ row.status = "scheduled" /\ row.linked
        /\ Deletion!Became("deleted") \in {"deleted", "gone"} /\ (records.library = "gone" => Deletion!Became("deleted") = "gone")
    BY DEF Deletion!InProgress, Deletion!Became
  <2> HIDE DEF row, d
  <2>3. /\ d \in Rows /\ d.ledger = Deletion!Entry(c) /\ d.cases = [records.cases EXCEPT ![c] = row]
        /\ d.outbox = [records.outbox EXCEPT ![c] = "delivered"]
        /\ d.account = "disabled" /\ d.library = Deletion!Became("deleted") /\ d.fenced = TRUE
    BY <1>3, <2>1, <2>2, Fields DEF Rows
  <2>4. /\ \A b \in Deletion!Cases \ {c} : d.cases[b] = records.cases[b] /\ d.outbox[b] = records.outbox[b]
        /\ d.cases[c] = row /\ d.outbox[c] = "delivered"
    BY <1>1, <2>3, Fields
  <2>5. Open(d) = {c}
    BY <1>1, <1>5, <2>2, <2>4 DEF Open, Deletion!InProgress
  <2>6. Closing(d)
    BY <2>2, <2>3, <2>5 DEF Closing
  <2>7. AfterTerm(d, age)
    BY <1>2, <1>3, <2>3, <2>4 DEF AfterTerm, DeletionInv, Sound
  <2>8. Attested(d, receipts)
    BY <1>1, <1>3, <2>2, <2>3, <2>4, <2>5 DEF Attested, DeletionInv, Sound
  <2>9. Going(d, age)
    BY <1>2, <2>2, <2>3, <2>5 DEF Going
  <2> QED  BY <2>2, <2>3, <2>6, <2>7, <2>8, <2>9 DEF Sound, d
<1> QED  BY <1>4, <1>5

LEMMA ReplayKeeps ==
  ASSUME DeletionInv, Deletion!Replay, ~Removing, spent' = [spent EXCEPT !.mishaps = @ + 1] \/ UNCHANGED spent
  PROVE  DeletionInv'
<1>1. /\ Deletion!Readable /\ served' = TRUE /\ UNCHANGED <<age, bytes, receipts, worker, copy>>
  BY DEF Deletion!Replay
<1>2. Counted' /\ spent'.halted = spent.halted
  BY <1>1 DEF DeletionInv, Counted
<1>3. /\ Sound(records', age, receipts) /\ (Deletion!Recorded # {} => records'.ledger # Deletion!NoRow)
      /\ records.library = "gone" => records'.library = "gone"
      /\ Going(records, age) => Going(records', age)
      /\ records.ledger # Deletion!NoRow => records'.ledger = records.ledger
  <2>1. CASE Deletion!Recorded = {} /\ UNCHANGED records
    BY <2>1 DEF DeletionInv
  <2>2. ASSUME NEW c \in Deletion!Recorded, Deletion!Agrees(c), records.account # "gone" => Deletion!Pending \subseteq {c},
               records' = Deletion!Replayed(c)
        PROVE  /\ Sound(records', age, receipts) /\ records'.ledger # Deletion!NoRow
               /\ records.library = "gone" => records'.library = "gone"
               /\ Going(records, age) => Going(records', age)
               /\ records.ledger # Deletion!NoRow => records'.ledger = records.ledger
    <3>1. Open(records) = Deletion!Pending
      BY DEF Open, Deletion!Pending, Deletion!Linked, Deletion!Status
    <3>2. Deletion!Entry(c) # Deletion!NoRow /\ (records.ledger # Deletion!NoRow => records.ledger = Deletion!Entry(c))
      BY <2>2 DEF Deletion!Agrees, Deletion!Entry, Deletion!NoRow, Deletion!Recorded, Deletion!Cases
    <3> QED  BY <2>2, <3>1, <3>2, ReplayedSound
  <2> QED  BY <2>1, <2>2 DEF Deletion!Replay, Deletion!Accepted
<1>4. Deletion!TypeOK'
  BY <1>1, <1>3 DEF DeletionInv, Deletion!TypeOK, Sound, Rows
<1>5. Sound(records, age, receipts)' /\ Sound(copy.db, age, receipts)'
  BY <1>1, <1>3 DEF DeletionInv
<1>6. ReceiptsSound'
  BY <1>1, <1>3 DEF DeletionInv, ReceiptsSound, Deletion!Recorded, Deletion!Due
<1>7. WorkerSound'
  <2>1. Deletion!Torn # Deletion!Absent
    BY DEF Deletion!Torn, Deletion!Absent
  <2> QED  BY <1>1, <2>1 DEF DeletionInv, WorkerSound, Removing, Deletion!Readable, Deletion!Recorded
<1>8. BytesKept'
  BY <1>1, <1>2, <1>3 DEF DeletionInv, BytesKept
<1> QED  BY <1>2, <1>4, <1>5, <1>6, <1>7, <1>8 DEF DeletionInv

(* A boot that is refused changes nothing but that the server is down.      *)
LEMMA RefusedKeeps ==
  ASSUME DeletionInv, Deletion!Refused, ~Removing, spent' = [spent EXCEPT !.mishaps = @ + 1]
  PROVE  DeletionInv'
<1>1. served' = FALSE /\ UNCHANGED <<records, age, bytes, receipts, worker, copy>>
  BY DEF Deletion!Refused
<1>2. Counted' /\ spent'.halted = spent.halted
  BY <1>1 DEF DeletionInv, Counted
<1>3. Deletion!TypeOK' /\ Sound(records, age, receipts)' /\ Sound(copy.db, age, receipts)'
  BY <1>1 DEF DeletionInv, Deletion!TypeOK
<1>4. ReceiptsSound'
  BY <1>1 DEF DeletionInv, ReceiptsSound, Deletion!Recorded, Deletion!Due
<1>5. WorkerSound'
  BY <1>1 DEF DeletionInv, WorkerSound, Removing, Deletion!Owed, Deletion!Recorded
<1>6. BytesKept'
  BY <1>1, <1>2 DEF DeletionInv, BytesKept, Removing
<1> QED  BY <1>2, <1>3, <1>4, <1>5, <1>6 DEF DeletionInv

-----------------------------------------------------------------------------
LEMMA DeletionInit == ASSUME DeletionBounds, Deletion!Init PROVE DeletionInv
<1>1. /\ records \in Rows /\ records.ledger = Deletion!NoRow /\ records.account = "active"
      /\ records.library = "live"
      /\ \A c \in Deletion!Cases : /\ records.cases[c] = [status |-> "none", linked |-> FALSE]
                          /\ records.outbox[c] = "none" /\ receipts[c] = Deletion!Absent /\ age[c] = "none"
  BY DEF Deletion!Init, Rows, Deletion!InProgress
<1>2. /\ bytes = TRUE /\ served = TRUE /\ worker = Deletion!Idle /\ copy.db = records /\ copy.bytes = TRUE
      /\ spent = [stamps |-> 0, mishaps |-> 0, restores |-> 0, halted |-> FALSE]
  BY DEF Deletion!Init
<1>3. Open(records) = {} /\ Filed(receipts) = {} /\ Deletion!Recorded = {}
  BY <1>1, NoStamps DEF Open, Filed, Deletion!Recorded
<1>4. Sound(records, age, receipts)
  BY <1>1, <1>3 DEF Sound, Closing, AfterTerm, Attested
<1>5. Deletion!TypeOK
  BY <1>1, <1>2 DEF Deletion!TypeOK, Rows, Deletion!Init, Deletion!Idle
<1>6. Counted /\ BytesKept
  BY <1>2 DEF Counted, BytesKept
<1>7. ReceiptsSound /\ WorkerSound
  BY <1>1, <1>2, <1>3 DEF ReceiptsSound, WorkerSound, Removing, Deletion!Idle
<1> QED  BY <1>2, <1>4, <1>5, <1>6, <1>7 DEF DeletionInv

LEMMA DeletionStep ==
  ASSUME DeletionBounds, DeletionInv, [Deletion!Next]_(Deletion!deletionVars)
  PROVE  DeletionInv'
<1>1. ASSUME NEW c \in Deletion!Cases, Deletion!Request(c) \/ Deletion!Cancel(c) \/ Deletion!Later(c) \/ Deletion!Stages(c)
      PROVE  DeletionInv'
  BY <1>1, RequestKeeps, CancelKeeps, LaterKeeps, StageKeeps, FinalizeKeeps, CreateReceiptKeeps,
     FindReceiptKeeps DEF Deletion!Stages
<1>2. CASE Deletion!InHand
  BY <1>2, ClearKeeps, RemoveKeeps, WriteReceiptKeeps, SettleKeeps DEF Deletion!InHand
<1>3. CASE Deletion!ReplayRestored
  <2>1. ~Removing
    BY <1>3 DEF Deletion!ReplayRestored, DeletionInv, WorkerSound
  <2> QED  BY <1>3, <2>1, ReplayKeeps DEF Deletion!ReplayRestored
<1>4. CASE Deletion!Boot
  BY <1>4, ReplayKeeps, RefusedKeeps DEF Deletion!Boot, Deletion!Unlocked, Removing
<1>5. CASE UNCHANGED Deletion!deletionVars
  BY <1>5 DEF Deletion!deletionVars, DeletionInv, Deletion!TypeOK, Counted, ReceiptsSound, WorkerSound, BytesKept,
              Deletion!Recorded, Removing, Deletion!Owed, Deletion!Due
<1> QED  BY <1>1, <1>2, <1>3, <1>4, <1>5, HoldsKeep, CreateKeeps, LibraryKeeps, LockKeeps,
     CrashKeeps,
            BackupKeeps, RestoreKeeps DEF Deletion!Next

(* For any number of requests to delete the account, crashes, boots and
   restores: a library that is open has its blobs, unless its removal was halted
   before the account's deletion was asked for; nothing of the account is open
   while its deletion is in progress; a case that is completed has its receipt;
   no database is served in which an account with a receipt is back, whether the
   ids of receipts are accepted and replayed or, as the check is written, refused
   with the server; and the ledger of the database that is served agrees with
   the receipts (AccountDeletionService, LegalHoldService, MaintenanceService,
   DeletionLedgerReplayService).                                            *)
THEOREM DeletionCorrect ==
  ASSUME DeletionBounds
  PROVE  Deletion!Spec => [](Deletion!TypeOK /\ DeletionSound)
<1>1. Deletion!Init => DeletionInv
  BY DeletionInit
<1>2. DeletionInv /\ [Deletion!Next]_(Deletion!deletionVars) => DeletionInv'
  BY DeletionStep
<1>3. ASSUME DeletionInv
      PROVE  Deletion!TypeOK /\ DeletionSound
  <2>1. Deletion!OpenLibraryWhole
    BY <1>3 DEF Deletion!OpenLibraryWhole, DeletionInv, BytesKept, Going
  <2>2. Deletion!Pending = Open(records) /\ Deletion!Recorded = Filed(receipts)
    BY DEF Deletion!Pending, Open, Deletion!Linked, Deletion!Status, Deletion!Recorded, Filed
  <2>3. Deletion!ClosedWhileDeleting
    BY <1>3, <2>2 DEF Deletion!ClosedWhileDeleting, DeletionInv, Sound, Closing
  <2>4. Deletion!CompletedHasReceipt
    BY <1>3 DEF Deletion!CompletedHasReceipt, Deletion!Status, DeletionInv, Sound, Attested, Filed
  <2>5. Deletion!DeletedStaysDeleted
    BY <1>3 DEF Deletion!DeletedStaysDeleted, DeletionInv, ReceiptsSound, Sound, Attested
  <2>6. Deletion!LedgerMatchesReceipts
    BY <1>3, <2>2 DEF Deletion!LedgerMatchesReceipts, Deletion!Agrees, DeletionInv, Sound, Attested
  <2> QED  BY <1>3, <2>1, <2>3, <2>4, <2>5, <2>6 DEF DeletionInv, DeletionSound
<1> QED  BY <1>1, <1>2, <1>3, PTL DEF Deletion!Spec

(* While a hold is placed no step but a restore destroys anything of the account:
   neither a stage that had begun before the hold, nor a replay (place).    *)
THEOREM HeldIsKept ==
  ASSUME DeletionBounds
  PROVE  Deletion!Spec => Deletion!HoldsPreserve
<1> DEFINE Kept == /\ bytes => bytes'
                   /\ records.library # "gone" => records'.library # "gone"
                   /\ records.account # "gone" => records'.account # "gone"
<1>1. ASSUME DeletionInv, Deletion!Next, spent'.restores = spent.restores, records.hold
      PROVE  Kept
  <2>1. ~Removing
    BY <1>1 DEF DeletionInv, WorkerSound
  <2>2. ASSUME NEW c \in Deletion!Cases, Deletion!Request(c) \/ Deletion!Cancel(c) \/ Deletion!Later(c) \/ Deletion!Advance(c) \/ Deletion!StartPurge(c)
        PROVE  Kept
    <3>1. \A s \in {"live", "deleted"} : records.library # "gone" => Deletion!Became(s) # "gone"
      BY DEF Deletion!Became
    <3>2. CASE Deletion!Request(c)
      BY <3>1, <3>2, Fields DEF Deletion!Request, Deletion!outside, Rows
    <3>3. CASE Deletion!Cancel(c)
      BY <3>1, <3>3, Fields DEF Deletion!Cancel, Deletion!outside, Rows
    <3>4. CASE Deletion!Later(c)
      BY <3>4 DEF Deletion!Later, Deletion!outside
    <3>5. CASE Deletion!Advance(c)
      BY <3>5, Fields DEF Deletion!Advance, Deletion!outside, Rows
    <3>6. CASE Deletion!StartPurge(c)
      BY <3>6, Fields DEF Deletion!StartPurge, Deletion!outside, Rows
    <3> QED  BY <2>2, <3>2, <3>3, <3>4, <3>5, <3>6
  <2>3. ASSUME NEW c \in Deletion!Cases, Deletion!CreateReceipt(c) \/ Deletion!FindReceipt(c)
        PROVE  Kept
    BY <2>3 DEF Deletion!CreateReceipt, Deletion!FindReceipt, Deletion!outside
  <2>4. ASSUME NEW c \in Deletion!Cases, Deletion!Finalize(c) PROVE FALSE
    BY <1>1, <2>4 DEF Deletion!Finalize, Deletion!Cleaned
  <2>5. ASSUME Deletion!Place \/ Deletion!Release \/ Deletion!CreateLibrary \/ Deletion!DeleteLibrary \/ Deletion!TombstoneAges PROVE Kept
    <3>1. CASE Deletion!Place \/ Deletion!Release
      <4>1. PICK h \in BOOLEAN, f \in {Deletion!Held, Deletion!Released} : records' = [records EXCEPT !.hold = h, !.cases = f]
        BY <3>1 DEF Deletion!Place, Deletion!Release
      <4>2. records'.account = records.account /\ records'.library = records.library
        BY <4>1, Fields DEF Rows
      <4> QED  BY <3>1, <4>2, SMTT(40) DEF Deletion!Place, Deletion!Release, Deletion!outside
    <3>2. CASE Deletion!CreateLibrary \/ Deletion!DeleteLibrary \/ Deletion!TombstoneAges
      <4>1. PICK l \in {"live", "deleted", "old"} : records' = [records EXCEPT !.library = l]
        BY <3>2 DEF Deletion!CreateLibrary, Deletion!DeleteLibrary, Deletion!TombstoneAges
      <4>2. records'.account = records.account /\ records'.library = l
        BY <4>1, Fields DEF Rows
      <4>3. bytes => bytes'
        BY <3>2 DEF Deletion!CreateLibrary, Deletion!DeleteLibrary, Deletion!TombstoneAges, Deletion!outside
      <4> QED  BY <4>2, <4>3
    <3> QED  BY <2>5, <3>1, <3>2
  <2>6. ASSUME Deletion!ClearLibrary \/ Deletion!RemoveLibrary PROVE FALSE
    BY <2>1, <2>6 DEF Deletion!ClearLibrary, Deletion!RemoveLibrary, Removing
  <2>7. ASSUME Deletion!Settle PROVE Kept
    BY <1>1, <2>7, Fields, ZenonT(60) DEF Deletion!Settle, Deletion!outside, Rows
  <2>8. ASSUME \/ Deletion!WriteReceipt \/ Deletion!LockLibrary \/ Deletion!Crash
               \/ Deletion!Backup \/ Deletion!Refused
        PROVE  Kept
    BY <2>8 DEF Deletion!WriteReceipt, Deletion!LockLibrary, Deletion!Crash, Deletion!Backup,
                Deletion!Refused, Deletion!outside
  <2>9. ASSUME Deletion!Restore PROVE FALSE
    <3>1. spent'.restores = spent.restores + 1
      BY <1>1, <2>9 DEF Deletion!Restore, DeletionInv, Counted
    <3> QED  BY <1>1, <3>1 DEF DeletionInv, Counted
  <2>10. ASSUME Deletion!Replay PROVE Kept
    <3>1. UNCHANGED bytes
      BY <2>10 DEF Deletion!Replay
    <3>2. CASE UNCHANGED records
      BY <3>1, <3>2
    <3>3. ASSUME NEW c \in Deletion!Recorded, records' = Deletion!Replayed(c) PROVE Kept
      <4>1. CASE records.account = "gone"
        <5>1. records.library = "gone"
          BY <1>1, <4>1 DEF DeletionInv, Sound, Closing
        <5> QED  BY <3>1, <4>1, <5>1
      <4>2. CASE records.account # "gone"
        <5>1. records'.account = "disabled" /\ records'.library = Deletion!Became("deleted")
          BY <3>3, <4>2, Fields DEF Deletion!Replayed, Rows
        <5> QED  BY <3>1, <5>1 DEF Deletion!Became
      <4> QED  BY <4>1, <4>2
    <3> QED  BY <2>10, <3>2, <3>3 DEF Deletion!Replay
  <2> QED  BY <1>1, <2>2, <2>3, <2>4, <2>5, <2>6, <2>7, <2>8, <2>9, <2>10
           DEF Deletion!Next, Deletion!Stages, Deletion!InHand, Deletion!ReplayRestored, Deletion!Boot
<1>2. ASSUME DeletionInv, [Deletion!Next]_(Deletion!deletionVars)
      PROVE  [spent'.restores = spent.restores /\ records.hold => Kept]_(Deletion!deletionVars)
  BY <1>1, <1>2
<1>3. Deletion!Init => DeletionInv
  BY DeletionInit
<1>4. DeletionInv /\ [Deletion!Next]_(Deletion!deletionVars) => DeletionInv'
  BY DeletionStep
<1> QED  BY <1>2, <1>3, <1>4, PTL DEF Deletion!Spec, Deletion!HoldsPreserve

-----------------------------------------------------------------------------
(* What else of a restored backup must not take effect again: credentials and
   background work (Restore).                                               *)

Credential ==
  [kind : {"session", "web", "approval", "invitation"}, account : Accounts,
   epoch : Nat, at : Nat, credentialEpoch : Nat, cutoff : Nat]

Marker == [after : Nat, complete : BOOLEAN]

Account == [epoch : Nat, disabled : BOOLEAN, review : Restores!Restrictions]

Database ==
  [mode : Restores!Modes, epoch : Nat, notBefore : Nat, enforced : BOOLEAN, markers : Seq(Marker),
   account : [Accounts -> Account], live : SUBSET Nat, reviews : SUBSET (Nat \X Accounts),
   work : [Work -> {"none", "pending", "running", "done", "quarantined"}]]

(* The types of the variables, and what bounds the stamps of a credential:  *)
(* it was issued by now, in a cutover that has come, and those of the       *)
(* present second in an epoch that has come.                                *)
Typed ==
  /\ db \in Database /\ backup \in Database
  /\ minted \in Seq(Credential)
  /\ db.live \subseteq DOMAIN minted /\ backup.live \subseteq DOMAIN minted
  /\ {kept, imported, running} \subseteq BOOLEAN
  /\ {seconds, cutoffs} \subseteq Nat
  /\ reviewed \cup handled \subseteq Accounts /\ done \cup held \subseteq Work

Stamped ==
  \A k \in DOMAIN minted :
    /\ minted[k].at <= seconds /\ minted[k].cutoff <= cutoffs
    /\ minted[k].at = seconds => minted[k].epoch <= db.epoch

(* The database is one a server may be started on.                          *)
Reconciled == ~imported /\ Restores!Pending = {}

ServedOnlyReconciled == running => Reconciled

Cut(c) == db.enforced /\ (c.at < db.notBefore \/ c.epoch < db.epoch)

OldOnesCut ==
  ~imported => \A k \in DOMAIN minted : minted[k].cutoff < cutoffs => Cut(minted[k])

OldRowsGone == Reconciled => \A k \in db.live : minted[k].cutoff = cutoffs

HeldWork ==
  \A w \in held :
    /\ w \notin done /\ db.work[w] \in {"pending", "running", "quarantined"}
    /\ Reconciled => db.work[w] = "quarantined"

ByAdministrators(d) == \A a \in Accounts : d.account[a].review \in {"staff", "expired"} => a \in handled

ReleasedByReview ==
  Restores!Restored /\ Reconciled => \A a \in Accounts : Restores!Unrestricted(a) => a \in reviewed \cup handled

FreshOnesReviewed ==
  Restores!Restored /\ ~imported => \A k \in DOMAIN minted :
    minted[k].kind \in {"session", "web"} /\ minted[k].cutoff = cutoffs
      => minted[k].account \in reviewed \cup handled

RestoreInv ==
  /\ Typed /\ Stamped /\ ServedOnlyReconciled
  /\ OldOnesCut /\ OldRowsGone
  /\ HeldWork
  /\ ByAdministrators(db) /\ ByAdministrators(backup)
  /\ ReleasedByReview /\ FreshOnesReviewed

-----------------------------------------------------------------------------
LEMMA InitInv == Restores!Init => RestoreInv
<1> SUFFICES ASSUME Restores!Init PROVE RestoreInv
    OBVIOUS
<1>1. db \in Database
  BY DEF Restores!Init, Database, Restores!Modes, Marker, Account, Restores!Restrictions,
       Restores!NoAccount
<1>2. minted \in Seq(Credential)
  BY DEF Restores!Init
<1>3. Typed
  <2>1. db.live = {} /\ backup = db
    BY DEF Restores!Init
  <2>2. {seconds, cutoffs} \subseteq Nat
    BY DEF Restores!Init
  <2>3. reviewed \cup handled \subseteq Accounts /\ done \cup held \subseteq Work
    BY DEF Restores!Init
  <2>4. {kept, imported, running} \subseteq BOOLEAN
    BY Zenon DEF Restores!Init
  <2> QED
    BY <1>1, <1>2, <2>1, <2>2, <2>3, <2>4 DEF Typed
<1>4. Stamped /\ OldOnesCut /\ OldRowsGone /\ HeldWork
  BY DEF Restores!Init, Stamped, OldOnesCut, OldRowsGone, HeldWork
<1>5. ServedOnlyReconciled
  BY DEF Restores!Init, ServedOnlyReconciled, Reconciled, Restores!Pending
<1>6. ByAdministrators(db) /\ ByAdministrators(backup)
  BY DEF Restores!Init, ByAdministrators, Restores!NoAccount
<1>7. ReleasedByReview /\ FreshOnesReviewed
  BY DEF Restores!Init, ReleasedByReview, FreshOnesReviewed, Restores!Restored
<1> QED
  BY <1>3, <1>4, <1>5, <1>6, <1>7 DEF RestoreInv

LEMMA CredentialTyped ==
  ASSUME Typed, NEW k \in DOMAIN minted
  PROVE  minted[k] \in Credential
<1>1. minted \in Seq(Credential)
  BY DEF Typed
<1>2. k \in 1..Len(minted)
  BY <1>1, LenProperties
<1> QED
  BY <1>1, <1>2, ElementOfSeq

(* A credential that is issued is of the present cutover, and is asked for  *)
(* of an account that was reviewed if it signs somebody in.                 *)
LEMMA MintKeeps ==
  ASSUME RestoreInv, running,
         NEW a \in Accounts, NEW kind \in {"session", "web", "approval", "invitation"}, NEW gone,
         kind \in {"session", "web"} => Restores!Unrestricted(a),
         Restores!Mint(kind, a, gone)
  PROVE  RestoreInv'
<1> DEFINE new == Len(minted) + 1
<1>1. Typed /\ minted \in Seq(Credential) /\ db \in Database /\ Len(minted) \in Nat
  BY DEF RestoreInv, Typed
<1>2. /\ Restores!Claims(kind, a) \in Credential
      /\ Restores!Claims(kind, a).kind = kind /\ Restores!Claims(kind, a).account = a
      /\ Restores!Claims(kind, a).epoch = db.epoch /\ Restores!Claims(kind, a).at = seconds
      /\ Restores!Claims(kind, a).cutoff = cutoffs
  BY <1>1 DEF Restores!Claims, Credential, Typed, Database, Account
<1>3. /\ minted' \in Seq(Credential) /\ Len(minted') = new
      /\ DOMAIN minted' = DOMAIN minted \cup {new}
      /\ minted'[new] = Restores!Claims(kind, a)
      /\ \A k \in DOMAIN minted : minted'[k] = minted[k]
  BY <1>1, <1>2 DEF Restores!Mint
<1>4. /\ db' \in Database /\ db'.live = (db.live \ gone) \cup {new}
      /\ db' = [db EXCEPT !.live = (@ \ gone) \cup {new}]
  <2> DEFINE live == (db.live \ gone) \cup {new}
  <2>1. db' = [db EXCEPT !.live = live]
    BY <1>3 DEF Restores!Mint
  <2>2. live \in SUBSET Nat
    BY <1>1 DEF Database
  <2> HIDE DEF live
  <2>3. db' \in Database /\ db'.live = live
    BY <2>1, <2>2, <1>1 DEF Database
  <2> QED
    BY <2>1, <2>3 DEF live
<1>5. /\ db'.markers = db.markers /\ db'.account = db.account /\ db'.work = db.work
      /\ db'.epoch = db.epoch /\ db'.notBefore = db.notBefore /\ db'.enforced = db.enforced
  BY <1>1, <1>4 DEF Database
<1>6. UNCHANGED <<backup, kept, imported, reviewed, held, running, seconds, cutoffs, handled, done>>
  BY DEF Restores!Mint, Restores!fence
<1>7. Reconciled /\ (Reconciled' <=> Reconciled) /\ (Restores!Restored' <=> Restores!Restored)
  BY <1>5, <1>6 DEF RestoreInv, ServedOnlyReconciled, Reconciled, Restores!Pending,
       Restores!Restored
<1>8. Typed'
  BY <1>1, <1>3, <1>4, <1>6 DEF Typed
<1>9. Stamped'
  BY <1>1, <1>2, <1>3, <1>5, <1>6 DEF RestoreInv, Stamped, Typed, Database
<1>10. OldOnesCut'
  BY <1>1, <1>2, <1>3, <1>5, <1>6 DEF RestoreInv, OldOnesCut, Cut, Typed
<1>11. OldRowsGone'
  BY <1>1, <1>2, <1>3, <1>4, <1>6, <1>7 DEF RestoreInv, OldRowsGone, Typed
<1>12. HeldWork'
  BY <1>5, <1>6, <1>7 DEF RestoreInv, HeldWork
<1>13. ByAdministrators(db)' /\ ByAdministrators(backup)'
  BY <1>5, <1>6 DEF RestoreInv, ByAdministrators
<1>14. ReleasedByReview'
  BY <1>5, <1>6, <1>7 DEF RestoreInv, ReleasedByReview, Restores!Unrestricted
<1>15. FreshOnesReviewed'
  <2> SUFFICES ASSUME Restores!Restored', NEW k \in DOMAIN minted',
                      minted'[k].kind \in {"session", "web"}, minted'[k].cutoff = cutoffs'
               PROVE  minted'[k].account \in (reviewed \cup handled)'
      BY DEF FreshOnesReviewed
  <2>1. CASE k \in DOMAIN minted
    BY <2>1, <1>3, <1>6, <1>7 DEF RestoreInv, FreshOnesReviewed, Reconciled
  <2>2. CASE k = new
    BY <2>2, <1>2, <1>3, <1>6, <1>7 DEF RestoreInv, ReleasedByReview
  <2> QED
    BY <2>1, <2>2, <1>3
<1>16. ServedOnlyReconciled'
  BY <1>6, <1>7 DEF RestoreInv, ServedOnlyReconciled
<1> QED
  BY <1>8, <1>9, <1>10, <1>11, <1>12, <1>13, <1>14, <1>15, <1>16 DEF RestoreInv

LEMMA SignInKeeps ==
  ASSUME RestoreInv, NEW a \in Accounts, NEW kind \in {"session", "web"}, Restores!SignIn(a, kind)
  PROVE  RestoreInv'
BY MintKeeps DEF Restores!SignIn, Restores!Writable

LEMMA InviteKeeps ==
  ASSUME RestoreInv, Reviewer \in Accounts, Restores!Invite
  PROVE  RestoreInv'
BY MintKeeps DEF Restores!Invite, Restores!Writable

(* Refresh, approval and exchange issue to the account of the credential.   *)
LEMMA PassedOnKeeps ==
  ASSUME RestoreInv, NEW k \in DOMAIN minted,
         Restores!Refresh(k) \/ Restores!Approve(k) \/ Restores!Exchange(k)
  PROVE  RestoreInv'
<1>1. minted[k].account \in Accounts
  BY CredentialTyped DEF RestoreInv, Credential
<1>2. CASE Restores!Refresh(k)
  BY <1>1, <1>2, MintKeeps DEF Restores!Refresh, Restores!RefreshAccepted
<1>3. CASE Restores!Approve(k)
  BY <1>1, <1>3, MintKeeps DEF Restores!Approve, Restores!Writable
<1>4. CASE Restores!Exchange(k)
  BY <1>1, <1>4, MintKeeps DEF Restores!Exchange, Restores!Writable, Restores!ApprovalAccepted
<1> QED
  BY <1>2, <1>3, <1>4

-----------------------------------------------------------------------------
(* An account's restriction changes: the operator or an administrator made   *)
(* the change, or the time of one of theirs was over.                       *)
LEMMA RestrictionKeeps ==
  ASSUME RestoreInv,
         NEW a \in Accounts, NEW r \in Restores!Restrictions,
         db' = [db EXCEPT !.account[a].review = r],
         handled \subseteq handled', handled' \subseteq Accounts, a \in handled',
         UNCHANGED <<Restores!fence, running, minted, seconds, cutoffs, done>>
  PROVE  RestoreInv'
<1>1. Typed /\ db \in Database
  BY DEF RestoreInv, Typed
<1>2. UNCHANGED <<backup, kept, imported, reviewed, held, running, minted, seconds, cutoffs, done>>
  BY DEF Restores!fence
<1>3. /\ db'.markers = db.markers /\ db'.work = db.work /\ db'.live = db.live
      /\ db'.epoch = db.epoch /\ db'.notBefore = db.notBefore /\ db'.enforced = db.enforced
  BY <1>1 DEF Database
<1>4. db'.account = [db.account EXCEPT ![a] = [@ EXCEPT !.review = r]]
  BY <1>1 DEF Database
<1>5. db'.account \in [Accounts -> Account]
  <2>1. db.account \in [Accounts -> Account]
    BY <1>1 DEF Database
  <2>2. [db.account[a] EXCEPT !.review = r] \in Account
    BY <2>1 DEF Account
  <2> QED
    BY <1>4, <2>1, <2>2
<1>6. db' \in Database
  <2>1. db' = [db EXCEPT !.account = db'.account]
    BY <1>1, <1>4 DEF Database
  <2> QED
    BY <1>1, <1>5, <2>1 DEF Database
<1>7. \A b \in Accounts : b # a => db'.account[b] = db.account[b]
  BY <1>1, <1>4 DEF Database
<1>8. (Reconciled' <=> Reconciled) /\ (Restores!Restored' <=> Restores!Restored)
  BY <1>2, <1>3 DEF Reconciled, Restores!Pending, Restores!Restored
<1>9. Typed'
  BY <1>1, <1>2, <1>3, <1>6 DEF Typed
<1>10. Stamped' /\ ServedOnlyReconciled' /\ OldOnesCut' /\ OldRowsGone' /\ HeldWork'
  BY <1>2, <1>3, <1>8
     DEF RestoreInv, Stamped, ServedOnlyReconciled, OldOnesCut, Cut, OldRowsGone, HeldWork
<1>11. ByAdministrators(db)' /\ ByAdministrators(backup)'
  BY <1>2, <1>7 DEF RestoreInv, ByAdministrators
<1>12. ReleasedByReview'
  BY <1>2, <1>7, <1>8 DEF RestoreInv, ReleasedByReview, Restores!Unrestricted
<1>13. FreshOnesReviewed'
  BY <1>2, <1>8 DEF RestoreInv, FreshOnesReviewed
<1> QED
  BY <1>9, <1>10, <1>11, <1>12, <1>13 DEF RestoreInv

LEMMA StaffKeeps ==
  ASSUME RestoreInv, NEW a \in Accounts,
         Restores!StaffRestrict(a) \/ Restores!StaffRelease(a) \/ Restores!RestrictionExpires(a)
  PROVE  RestoreInv'
<1>1. handled \subseteq Accounts
  BY DEF RestoreInv, Typed
<1>2. CASE Restores!StaffRestrict(a)
  BY <1>1, <1>2, RestrictionKeeps DEF Restores!StaffRestrict, Restores!Restrictions
<1>3. CASE Restores!StaffRelease(a)
  BY <1>1, <1>3, RestrictionKeeps DEF Restores!StaffRelease, Restores!Restrictions
<1>4. CASE Restores!RestrictionExpires(a)
  <2>1. a \in handled
    BY <1>4 DEF Restores!RestrictionExpires, RestoreInv, ByAdministrators
  <2> QED
    BY <1>1, <1>4, <2>1, RestrictionKeeps DEF Restores!RestrictionExpires, Restores!Restrictions
<1> QED
  BY <1>2, <1>3, <1>4

(* The worker's steps: what is quarantined is never the work of one.        *)
LEMMA WorkKeeps ==
  ASSUME RestoreInv, NEW w \in Work, Restores!Enqueue(w) \/ Restores!Claim(w) \/ Restores!Perform(w)
  PROVE  RestoreInv'
<1>1. PICK from \in {"none", "pending", "running"}, to \in {"pending", "running", "done"} :
        Restores!WorkStep(w, from, to) /\ done \subseteq done' /\ done' \subseteq done \cup {w}
  BY DEF Restores!Enqueue, Restores!Claim, Restores!Perform
<1>2. Typed /\ db \in Database
  BY DEF RestoreInv, Typed
<1>3. UNCHANGED <<backup, kept, imported, reviewed, held, running, minted, seconds, cutoffs, handled>>
  BY <1>1 DEF Restores!WorkStep, Restores!fence
<1>4. db.work[w] = from /\ db' = [db EXCEPT !.work[w] = to]
  BY <1>1 DEF Restores!WorkStep
<1>5. /\ db'.markers = db.markers /\ db'.account = db.account /\ db'.live = db.live
      /\ db'.epoch = db.epoch /\ db'.notBefore = db.notBefore /\ db'.enforced = db.enforced
      /\ db'.work = [db.work EXCEPT ![w] = to] /\ db' \in Database
  BY <1>2, <1>4 DEF Database
<1>6. Reconciled /\ (Reconciled' <=> Reconciled) /\ (Restores!Restored' <=> Restores!Restored)
  BY <1>1, <1>3, <1>5
     DEF RestoreInv, ServedOnlyReconciled, Restores!WorkStep, Restores!Writable, Reconciled, Restores!Pending, Restores!Restored
<1>7. w \notin held
  BY <1>4, <1>6 DEF RestoreInv, HeldWork
<1>8. Typed'
  BY <1>1, <1>2, <1>3, <1>5 DEF Typed
<1>9. HeldWork'
  BY <1>1, <1>2, <1>3, <1>5, <1>6, <1>7 DEF RestoreInv, HeldWork, Typed, Database
<1>10. Stamped' /\ ServedOnlyReconciled' /\ OldOnesCut' /\ OldRowsGone'
  BY <1>3, <1>5, <1>6 DEF RestoreInv, Stamped, ServedOnlyReconciled, OldOnesCut, Cut, OldRowsGone
<1>11. ByAdministrators(db)' /\ ByAdministrators(backup)' /\ ReleasedByReview' /\ FreshOnesReviewed'
  BY <1>3, <1>5, <1>6
     DEF RestoreInv, ByAdministrators, ReleasedByReview, Restores!Unrestricted, FreshOnesReviewed
<1> QED
  BY <1>8, <1>9, <1>10, <1>11 DEF RestoreInv

-----------------------------------------------------------------------------
LEMMA ModeKeeps ==
  ASSUME RestoreInv, NEW mode \in Restores!Modes, Restores!SetMode(mode)
  PROVE  RestoreInv'
<1>1. Typed /\ db \in Database
  BY DEF RestoreInv, Typed
<1>2. UNCHANGED <<backup, kept, imported, reviewed, held, running, minted, seconds, cutoffs, handled, done>>
  BY DEF Restores!SetMode, Restores!fence
<1>3. /\ db'.markers = db.markers /\ db'.account = db.account /\ db'.live = db.live
      /\ db'.epoch = db.epoch /\ db'.notBefore = db.notBefore /\ db'.enforced = db.enforced
      /\ db'.work = db.work /\ db' \in Database
  BY <1>1 DEF Restores!SetMode, Database
<1>4. (Reconciled' <=> Reconciled) /\ (Restores!Restored' <=> Restores!Restored)
  BY <1>2, <1>3 DEF Reconciled, Restores!Pending, Restores!Restored
<1>5. Typed'
  BY <1>1, <1>2, <1>3 DEF Typed
<1>6. Stamped' /\ ServedOnlyReconciled' /\ OldOnesCut' /\ OldRowsGone' /\ HeldWork'
  BY <1>2, <1>3, <1>4
     DEF RestoreInv, Stamped, ServedOnlyReconciled, OldOnesCut, Cut, OldRowsGone, HeldWork
<1>7. ByAdministrators(db)' /\ ByAdministrators(backup)' /\ ReleasedByReview' /\ FreshOnesReviewed'
  BY <1>2, <1>3, <1>4
     DEF RestoreInv, ByAdministrators, ReleasedByReview, Restores!Unrestricted, FreshOnesReviewed
<1> QED
  BY <1>5, <1>6, <1>7 DEF RestoreInv

(* A server stops or starts, or a backup is taken of the rows that are there. *)
LEMMA OperatorKeeps ==
  ASSUME RestoreInv, Restores!Stop \/ Restores!Boot \/ Restores!TakeBackup
  PROVE  RestoreInv'
<1>1. /\ UNCHANGED <<db, imported, reviewed, held, minted, seconds, cutoffs, handled, done>>
      /\ backup' \in {backup, db} /\ kept' \in BOOLEAN /\ running' \in BOOLEAN
      /\ running' => Reconciled
  <2>1. Typed /\ kept \in BOOLEAN /\ running \in BOOLEAN /\ (running => Reconciled)
    BY DEF RestoreInv, Typed, ServedOnlyReconciled
  <2>2. CASE Restores!Stop
    BY <2>1, <2>2 DEF Restores!Stop, Restores!fence
  <2>3. CASE Restores!Boot
    BY <2>1, <2>3 DEF Restores!Boot, Restores!fence, Reconciled
  <2>4. CASE Restores!TakeBackup
    BY <2>1, <2>4 DEF Restores!TakeBackup
  <2> QED
    BY <2>2, <2>3, <2>4
<1>2. (Reconciled' <=> Reconciled) /\ (Restores!Restored' <=> Restores!Restored)
  BY <1>1 DEF Reconciled, Restores!Pending, Restores!Restored
<1>3. Typed' /\ ServedOnlyReconciled'
  BY <1>1, <1>2 DEF RestoreInv, Typed, ServedOnlyReconciled
<1>4. Stamped' /\ OldOnesCut' /\ OldRowsGone' /\ HeldWork'
  BY <1>1, <1>2 DEF RestoreInv, Stamped, OldOnesCut, Cut, OldRowsGone, HeldWork
<1>5. ByAdministrators(db)' /\ ByAdministrators(backup)' /\ ReleasedByReview' /\ FreshOnesReviewed'
  BY <1>1, <1>2 DEF RestoreInv, ByAdministrators, ReleasedByReview, Restores!Unrestricted,
       FreshOnesReviewed
<1> QED
  BY <1>3, <1>4, <1>5 DEF RestoreInv

-----------------------------------------------------------------------------
(* A restore: what its database holds is not trusted until it is sanitized, *)
(* and every credential there is was issued in an earlier second.           *)
LEMMA ImportKeeps ==
  ASSUME RestoreInv, Restores!Import
  PROVE  RestoreInv'
<1>1. Typed /\ backup \in Database /\ seconds \in Nat
  BY DEF RestoreInv, Typed
<1>2. /\ db' = backup /\ imported' /\ ~running' /\ seconds' = seconds + 1
      /\ held' = Restores!Outstanding(backup.work) /\ done' = {} /\ reviewed' = {}
      /\ UNCHANGED <<backup, kept, running, minted, cutoffs, handled>>
  BY DEF Restores!Import
<1>3. held' \subseteq Work /\ \A w \in held' : backup.work[w] \in {"pending", "running"}
  BY <1>2 DEF Restores!Outstanding
<1>4. ~Reconciled'
  BY <1>2 DEF Reconciled
<1>5. Typed'
  <2>1. {kept, imported, running}' \subseteq BOOLEAN
    BY <1>1, <1>2 DEF Typed, Restores!Import
  <2> QED
    BY <1>1, <1>2, <1>3, <2>1 DEF Typed
<1>6. Stamped'
  <2>1. \A k \in DOMAIN minted : minted[k].at \in Nat
    BY <1>1, CredentialTyped DEF Credential
  <2> QED
    BY <1>1, <1>2, <2>1 DEF RestoreInv, Stamped
<1>7. ServedOnlyReconciled' /\ OldOnesCut' /\ OldRowsGone' /\ HeldWork'
  BY <1>2, <1>3, <1>4 DEF ServedOnlyReconciled, OldOnesCut, OldRowsGone, HeldWork
<1>8. ByAdministrators(db)' /\ ByAdministrators(backup)' /\ ReleasedByReview' /\ FreshOnesReviewed'
  BY <1>2, <1>4 DEF RestoreInv, ByAdministrators, ReleasedByReview, FreshOnesReviewed
<1> QED
  BY <1>5, <1>6, <1>7, <1>8 DEF RestoreInv

LEMMA LatestTyped ==
  ASSUME db \in Database
  PROVE  Restores!LatestAfter \in Nat
<1>1. CASE db.markers = <<>>
  BY <1>1 DEF Restores!LatestAfter
<1>2. CASE db.markers # <<>>
  <2>1. db.markers \in Seq(Marker)
    BY DEF Database
  <2>2. Len(db.markers) \in 1..Len(db.markers)
    BY <1>2, <2>1, EmptySeq
  <2>3. db.markers[Len(db.markers)] \in Marker
    BY <2>1, <2>2, ElementOfSeq
  <2> QED
    BY <1>2, <2>3 DEF Restores!LatestAfter, Marker
<1> QED
  BY <1>1, <1>2

(* After a cutover no credential there is passes: one of the present second  *)
(* is of an epoch below the new one.                                        *)
LEMMA CutoverCuts ==
  ASSUME RestoreInv,
         db' \in Database, db'.enforced, db'.notBefore = seconds, db'.epoch > db.epoch,
         UNCHANGED <<minted, seconds>>, cutoffs' = cutoffs + 1
  PROVE  /\ Stamped' /\ OldOnesCut'
         /\ FreshOnesReviewed'
<1>1. Typed /\ db \in Database /\ {seconds, cutoffs} \subseteq Nat
  BY DEF RestoreInv, Typed
<1>2. \A k \in DOMAIN minted :
        minted[k].at \in Nat /\ minted[k].epoch \in Nat /\ minted[k].cutoff \in Nat
  BY <1>1, CredentialTyped DEF Credential
<1>3. db.epoch \in Nat /\ db'.epoch \in Nat
  BY <1>1 DEF Database
<1>4. Stamped'
  BY <1>1, <1>2, <1>3 DEF RestoreInv, Stamped
<1>5. \A k \in DOMAIN minted : Cut(minted[k])'
  BY <1>1, <1>2, <1>3 DEF RestoreInv, Stamped, Cut
<1>6. OldOnesCut'
  BY <1>5 DEF OldOnesCut
<1>7. FreshOnesReviewed'
  BY <1>1, <1>2 DEF RestoreInv, Stamped, FreshOnesReviewed
<1> QED
  BY <1>4, <1>6, <1>7

LEMMA SanitizeKeeps ==
  ASSUME RestoreInv, Restores!Sanitize
  PROVE  RestoreInv'
<1> DEFINE next == 1 + (IF db.epoch > Restores!LatestAfter THEN db.epoch ELSE Restores!LatestAfter)
           marker == [after |-> next, complete |-> FALSE]
<1>1. Typed /\ db \in Database /\ {seconds, cutoffs} \subseteq Nat /\ db.epoch \in Nat
  BY DEF RestoreInv, Typed, Database
<1>2. next \in Nat /\ next > db.epoch
  BY <1>1, LatestTyped
<1>3. marker \in Marker /\ marker.complete = FALSE
  BY <1>2 DEF Marker
<1>4. /\ db' = [db EXCEPT !.epoch = next, !.notBefore = seconds, !.enforced = TRUE,
                          !.markers = Append(@, marker)]
      /\ ~running /\ ~running' /\ imported' = FALSE /\ cutoffs' = cutoffs + 1 /\ reviewed' = {}
      /\ UNCHANGED <<backup, kept, held, running, minted, seconds, handled, done>>
  BY DEF Restores!Sanitize
<1> HIDE DEF next, marker
<1>5. /\ Append(db.markers, marker) \in Seq(Marker)
      /\ Len(db.markers) + 1 \in DOMAIN Append(db.markers, marker)
      /\ Append(db.markers, marker)[Len(db.markers) + 1] = marker
  BY <1>1, <1>3 DEF Database
<1>6. /\ db' \in Database /\ db'.enforced /\ db'.notBefore = seconds /\ db'.epoch = next
      /\ db'.markers = Append(db.markers, marker)
      /\ db'.account = db.account /\ db'.live = db.live /\ db'.work = db.work
  BY <1>1, <1>2, <1>4, <1>5 DEF Database
<1>7. ~Reconciled'
  BY <1>3, <1>5, <1>6 DEF Reconciled, Restores!Pending
<1>8. Typed'
  <2>1. {kept, imported, running}' \subseteq BOOLEAN
    BY <1>1, <1>4 DEF Typed
  <2> QED
    BY <1>1, <1>4, <1>6, <2>1 DEF Typed
<1>9. Stamped' /\ OldOnesCut' /\ FreshOnesReviewed'
  BY <1>2, <1>4, <1>6, CutoverCuts
<1>10. ServedOnlyReconciled' /\ OldRowsGone' /\ ReleasedByReview'
  BY <1>4, <1>7 DEF ServedOnlyReconciled, OldRowsGone, ReleasedByReview
<1>11. HeldWork' /\ ByAdministrators(db)' /\ ByAdministrators(backup)'
  BY <1>4, <1>6, <1>7 DEF RestoreInv, HeldWork, ByAdministrators
<1> QED
  BY <1>8, <1>9, <1>10, <1>11 DEF RestoreInv

LEMMA EnforceKeeps ==
  ASSUME RestoreInv, Restores!EnforceAuthEpoch
  PROVE  RestoreInv'
<1>1. Typed /\ db \in Database /\ {seconds, cutoffs} \subseteq Nat /\ db.epoch \in Nat
  BY DEF RestoreInv, Typed, Database
<1>2. UNCHANGED <<backup, kept, imported, reviewed, held, running, minted, seconds, handled, done>>
  BY DEF Restores!EnforceAuthEpoch, Restores!fence
<1>3. /\ db' \in Database /\ db'.enforced /\ db'.notBefore = seconds /\ db'.epoch = db.epoch + 1
      /\ db'.markers = db.markers
      /\ db'.account = db.account /\ db'.live = {} /\ db'.work = db.work
  <2> DEFINE next == db.epoch + 1
  <2>1. next \in Nat
    BY <1>1
  <2>2. db' = [db EXCEPT !.epoch = next, !.notBefore = seconds, !.enforced = TRUE, !.live = {}]
    BY DEF Restores!EnforceAuthEpoch
  <2> HIDE DEF next
  <2>3. /\ db' \in Database /\ db'.enforced /\ db'.notBefore = seconds /\ db'.epoch = next
        /\ db'.markers = db.markers
        /\ db'.account = db.account /\ db'.live = {} /\ db'.work = db.work
    BY <1>1, <2>1, <2>2 DEF Database
  <2> QED
    BY <2>3 DEF next
<1>4. (Reconciled' <=> Reconciled) /\ (Restores!Restored' <=> Restores!Restored) /\ cutoffs' = cutoffs + 1
  BY <1>2, <1>3 DEF Restores!EnforceAuthEpoch, Reconciled, Restores!Pending, Restores!Restored
<1>5. Typed'
  BY <1>1, <1>2, <1>3, <1>4 DEF Typed
<1>6. Stamped' /\ OldOnesCut' /\ FreshOnesReviewed'
  BY <1>1, <1>2, <1>3, <1>4, CutoverCuts
<1>7. ServedOnlyReconciled' /\ OldRowsGone' /\ ReleasedByReview'
  BY <1>2, <1>3, <1>4 DEF RestoreInv, ServedOnlyReconciled, OldRowsGone, ReleasedByReview,
       Restores!Unrestricted
<1>8. HeldWork' /\ ByAdministrators(db)' /\ ByAdministrators(backup)'
  BY <1>2, <1>3, <1>4 DEF RestoreInv, HeldWork, ByAdministrators
<1> QED
  BY <1>5, <1>6, <1>7, <1>8 DEF RestoreInv

-----------------------------------------------------------------------------
(* A marker is reconciled: every row of a credential goes, what was          *)
(* outstanding is held, and no account is left without a restriction.       *)
LEMMA FencedAccounts ==
  ASSUME NEW x \in Account, NEW after \in Nat
  PROVE  /\ Restores!Fenced(x, after) \in Account
         /\ Restores!Fenced(x, after).review =
              IF x.review = "none" THEN "credential_review_required" ELSE x.review
BY DEF Account, Restores!Fenced, Restores!Restrictions

LEMMA ReconcileKeeps ==
  ASSUME RestoreInv, NEW m \in Restores!Pending, Restores!Reconcile(m)
  PROVE  RestoreInv'
<1> DEFINE after == db.markers[m].after
           markers == [db.markers EXCEPT ![m].complete = TRUE]
           account == [a \in Accounts |-> Restores!Fenced(db.account[a], after)]
           work == Restores!Quarantine(db.work)
<1>1. Typed /\ db \in Database /\ db.markers \in Seq(Marker) /\ m \in DOMAIN db.markers
  BY DEF RestoreInv, Typed, Database, Restores!Pending
<1>2. /\ UNCHANGED <<backup, kept, imported, reviewed, held, running, minted, seconds, cutoffs,
                     handled, done>>
      /\ ~running
  BY DEF Restores!Reconcile, Restores!fence
<1>3. db' = [db EXCEPT !.markers = markers, !.live = {}, !.work = work, !.account = account]
  BY <1>1 DEF Restores!Reconcile, Database
<1>4. m \in 1..Len(db.markers) /\ db.markers[m] \in Marker /\ after \in Nat
  <2>1. m \in 1..Len(db.markers)
    BY <1>1, LenProperties
  <2>2. db.markers[m] \in Marker
    BY <1>1, <2>1, ElementOfSeq
  <2> QED
    BY <2>1, <2>2 DEF Marker
<1>5. markers \in Seq(Marker) /\ Len(markers) = Len(db.markers)
  <2>1. [db.markers[m] EXCEPT !.complete = TRUE] \in Marker
    BY <1>4 DEF Marker
  <2>2. markers = [db.markers EXCEPT ![m] = [db.markers[m] EXCEPT !.complete = TRUE]]
    OBVIOUS
  <2> QED
    BY <1>1, <1>4, <2>1, <2>2, ExceptSeq
<1>6. account \in [Accounts -> Account]
  BY <1>1, <1>4, FencedAccounts DEF Database
<1>7. work \in [Work -> {"none", "pending", "running", "done", "quarantined"}]
  BY <1>1 DEF Database, Restores!Quarantine
<1> HIDE DEF markers, account, work
<1>8. /\ db' \in Database /\ db'.live = {} /\ db'.markers = markers
      /\ db'.account = account /\ db'.work = work
      /\ db'.epoch = db.epoch /\ db'.notBefore = db.notBefore /\ db'.enforced = db.enforced
  BY <1>1, <1>3, <1>5, <1>6, <1>7 DEF Database
<1>9. Restores!Restored /\ (Restores!Restored' <=> Restores!Restored)
  BY <1>1, <1>4, <1>5, <1>8, EmptySeq DEF Restores!Restored
<1>10. \A a \in Accounts :
         /\ account[a].review # "none"
         /\ account[a].review \in {"staff", "expired"} => a \in handled
  <2> SUFFICES ASSUME NEW a \in Accounts
               PROVE  /\ account[a].review # "none"
                      /\ account[a].review \in {"staff", "expired"} => a \in handled
      OBVIOUS
  <2>1. db.account[a] \in Account
    BY <1>1 DEF Database
  <2>2. account[a].review =
          IF db.account[a].review = "none" THEN "credential_review_required" ELSE db.account[a].review
    BY <1>4, <2>1, FencedAccounts DEF account
  <2>3. db.account[a].review \in {"staff", "expired"} => a \in handled
    BY DEF RestoreInv, ByAdministrators
  <2> QED
    BY <2>2, <2>3
<1>11. Typed'
  BY <1>1, <1>2, <1>8 DEF Typed
<1>12. Stamped' /\ ServedOnlyReconciled' /\ OldOnesCut' /\ OldRowsGone'
  BY <1>2, <1>8 DEF RestoreInv, Stamped, ServedOnlyReconciled, OldOnesCut, Cut, OldRowsGone
<1>13. HeldWork'
  <2>1. \A w \in held : work[w] = "quarantined"
    BY <1>1 DEF RestoreInv, HeldWork, work, Restores!Quarantine, Restores!Outstanding, Typed
  <2> QED
    BY <1>2, <1>8, <2>1 DEF RestoreInv, HeldWork
<1>14. ByAdministrators(db)' /\ ByAdministrators(backup)'
  BY <1>2, <1>8, <1>10 DEF RestoreInv, ByAdministrators
<1>15. ReleasedByReview'
  BY <1>2, <1>8, <1>10 DEF ReleasedByReview, Restores!Unrestricted
<1>16. FreshOnesReviewed'
  BY <1>2, <1>9 DEF RestoreInv, FreshOnesReviewed
<1> QED
  BY <1>11, <1>12, <1>13, <1>14, <1>15, <1>16 DEF RestoreInv

(* The marker a review is about: there is a latest one.                      *)
LEMMA LatestMarker ==
  ASSUME NEW S, S \subseteq Nat, S # {}, NEW bound \in Nat, \A n \in S : n <= bound
  PROVE  \E n \in S : \A o \in S : o <= n
<1> DEFINE less == OpToRel(<, Nat)
           below == {bound - n : n \in S}
<1>1. IsWellFoundedOn(less, Nat)
  BY NatLessThanWellFounded
<1>2. below \subseteq Nat /\ below # {}
  <2>1. \A n \in S : bound - n \in Nat
    <3> SUFFICES ASSUME NEW n \in S PROVE bound - n \in Nat
        OBVIOUS
    <3>1. n \in Nat /\ n <= bound
      OBVIOUS
    <3> QED
      BY <3>1
  <2>2. PICK n \in S : TRUE
    OBVIOUS
  <2>3. bound - n \in below
    BY <2>2
  <2> QED
    BY <2>1, <2>3
<1>3. PICK x \in below : \A y \in below : <<y, x>> \notin less
  <2> HIDE DEF less, below
  <2> QED
    BY <1>1, <1>2, WFMin
<1>4. PICK n \in S : x = bound - n
  BY <1>3
<1>5. \A o \in S : ~(bound - o < bound - n)
  BY <1>2, <1>3, <1>4 DEF OpToRel
<1> QED
  BY <1>5

(* The operator's review is the one thing that lifts the restriction of a    *)
(* restored account, and it is remembered.                                  *)
LEMMA ReviewKeeps ==
  ASSUME RestoreInv, NEW a \in Accounts, NEW disable \in BOOLEAN,
         Restores!CredentialReview(a, disable)
  PROVE  RestoreInv'
<1> DEFINE m == CHOOSE n \in Restores!Complete : \A o \in Restores!Complete : o <= n
           reviews == db.reviews \cup {<<m, a>>}
           new == [epoch |-> db.account[a].epoch + 1, review |-> "none",
                   disabled |-> db.account[a].disabled \/ disable]
           account == [db.account EXCEPT ![a] = new]
           live == {k \in db.live : minted[k].kind = "invitation" \/ minted[k].account # a}
<1>1. Typed /\ db \in Database /\ db.account \in [Accounts -> Account]
  BY DEF RestoreInv, Typed, Database
<1>2. /\ UNCHANGED <<backup, kept, imported, held, running, minted, seconds, cutoffs, handled, done>>
      /\ reviewed' = reviewed \cup {a}
  BY DEF Restores!CredentialReview
<1>3. db' = [db EXCEPT !.reviews = reviews, !.account = account, !.live = live]
  BY <1>1 DEF Restores!CredentialReview, Database
<1>4. account \in [Accounts -> Account]
  BY <1>1 DEF Account, Restores!Restrictions
<1>5. account[a].review = "none" /\ \A b \in Accounts : b # a => account[b] = db.account[b]
  BY <1>1
<1>6. live \subseteq db.live
  OBVIOUS
<1>7. reviews \in SUBSET (Nat \X Accounts)
  <2>1. db.markers \in Seq(Marker) /\ DOMAIN db.markers = 1..Len(db.markers) /\ Len(db.markers) \in Nat
    BY <1>1, LenProperties DEF Database
  <2>2. Restores!Complete \subseteq Nat /\ Restores!Complete # {} /\ \A n \in Restores!Complete : n <= Len(db.markers)
    BY <2>1 DEF Restores!Complete, Restores!CredentialReview
  <2>3. \E n \in Restores!Complete : \A o \in Restores!Complete : o <= n
    BY <2>1, <2>2, LatestMarker
  <2>4. m \in Nat
    BY <2>2, <2>3
  <2> HIDE DEF m
  <2> QED
    BY <1>1, <2>4 DEF Database
<1> HIDE DEF m, reviews, account, live
<1>8. /\ db' \in Database /\ db'.live = live /\ db'.markers = db.markers
      /\ db'.account = account /\ db'.work = db.work
      /\ db'.epoch = db.epoch /\ db'.notBefore = db.notBefore /\ db'.enforced = db.enforced
  BY <1>1, <1>3, <1>4, <1>6, <1>7 DEF Database
<1>9. (Reconciled' <=> Reconciled) /\ (Restores!Restored' <=> Restores!Restored)
  BY <1>2, <1>8 DEF Reconciled, Restores!Pending, Restores!Restored
<1>10. Typed'
  BY <1>1, <1>2, <1>6, <1>8 DEF Typed
<1>11. Stamped' /\ ServedOnlyReconciled' /\ OldOnesCut' /\ OldRowsGone' /\ HeldWork'
  BY <1>2, <1>6, <1>8, <1>9
     DEF RestoreInv, Stamped, ServedOnlyReconciled, OldOnesCut, Cut, OldRowsGone, HeldWork
<1>12. ByAdministrators(db)' /\ ByAdministrators(backup)'
  BY <1>2, <1>5, <1>8 DEF RestoreInv, ByAdministrators
<1>13. ReleasedByReview'
  BY <1>2, <1>5, <1>8, <1>9 DEF RestoreInv, ReleasedByReview, Restores!Unrestricted
<1>14. FreshOnesReviewed'
  BY <1>2, <1>9 DEF RestoreInv, FreshOnesReviewed
<1> QED
  BY <1>10, <1>11, <1>12, <1>13, <1>14 DEF RestoreInv

-----------------------------------------------------------------------------
LEMMA StutterKeeps ==
  ASSUME RestoreInv, UNCHANGED Restores!restoreVars
  PROVE  RestoreInv'
<1>1. UNCHANGED <<db, backup, kept, imported, reviewed, held, running, minted, seconds, cutoffs,
                  handled, done>>
  BY DEF Restores!restoreVars, Restores!fence
<1> QED
  BY <1>1 DEF RestoreInv, Typed, Stamped, ServedOnlyReconciled, Reconciled, Restores!Pending,
       OldOnesCut, Cut,
       OldRowsGone, HeldWork, ByAdministrators, ReleasedByReview, Restores!Restored, Restores!Unrestricted,
       FreshOnesReviewed

LEMMA StepKeeps ==
  ASSUME Reviewer \in Accounts, RestoreInv, [Restores!Next]_(Restores!restoreVars)
  PROVE  RestoreInv'
<1>1. CASE Restores!Invite
  BY <1>1, InviteKeeps
<1>2. CASE \E a \in Accounts, kind \in {"session", "web"} : Restores!SignIn(a, kind)
  BY <1>2, SignInKeeps
<1>3. CASE \E k \in DOMAIN minted : Restores!Refresh(k) \/ Restores!Approve(k) \/ Restores!Exchange(k)
  BY <1>3, PassedOnKeeps
<1>4. CASE \E a \in Accounts :
             \/ Restores!StaffRestrict(a) \/ Restores!StaffRelease(a) \/ Restores!RestrictionExpires(a)
             \/ \E disable \in BOOLEAN : Restores!CredentialReview(a, disable)
  BY <1>4, StaffKeeps, ReviewKeeps
<1>5. CASE \E w \in Work : Restores!Enqueue(w) \/ Restores!Claim(w) \/ Restores!Perform(w)
  BY <1>5, WorkKeeps
<1>6. CASE \E mode \in Restores!Modes : Restores!SetMode(mode)
  BY <1>6, ModeKeeps
<1>7. CASE Restores!Stop \/ Restores!Boot \/ Restores!TakeBackup
  BY <1>7, OperatorKeeps
<1>8. CASE Restores!Import \/ Restores!Sanitize \/ Restores!EnforceAuthEpoch
  BY <1>8, ImportKeeps, SanitizeKeeps, EnforceKeeps
<1>9. CASE \E m \in Restores!Pending : Restores!Reconcile(m)
  BY <1>9, ReconcileKeeps
<1>10. CASE UNCHANGED Restores!restoreVars
  BY <1>10, StutterKeeps
<1> QED
  BY <1>1, <1>2, <1>3, <1>4, <1>5, <1>6, <1>7, <1>8, <1>9, <1>10 DEF Restores!Next

-----------------------------------------------------------------------------
LEMMA InvTyped == RestoreInv => Restores!TypeOK
<1> SUFFICES ASSUME RestoreInv PROVE Restores!TypeOK
    OBVIOUS
<1>1. Typed /\ db \in Database
  BY DEF RestoreInv, Typed
<1>2. DOMAIN minted = 1..Len(minted)
  BY <1>1, LenProperties DEF Typed
<1>3. db.markers \in Seq(Marker) /\ DOMAIN db.markers = 1..Len(db.markers)
  BY <1>1, LenProperties DEF Database
<1>4. \A m \in DOMAIN db.markers : db.markers[m] \in Marker
  BY <1>3, ElementOfSeq
<1>5. \A a \in Accounts : db.account[a] \in Account
  BY <1>1 DEF Database
<1> QED
  BY <1>1, <1>2, <1>3, <1>4, <1>5 DEF Restores!TypeOK, Typed, Database, Marker, Account

LEMMA InvRefuses == RestoreInv => Restores!OldCredentialsRefused
<1> SUFFICES ASSUME RestoreInv, Restores!Serving, NEW k \in DOMAIN minted, Restores!Accepted(k),
                    minted[k].cutoff # cutoffs
             PROVE  FALSE
    BY DEF Restores!OldCredentialsRefused
<1>1. Typed /\ db \in Database /\ cutoffs \in Nat /\ minted[k] \in Credential
  BY CredentialTyped DEF RestoreInv, Typed
<1>2. Reconciled
  BY DEF RestoreInv, ServedOnlyReconciled, Restores!Serving
<1>3. k \notin db.live
  BY <1>2 DEF RestoreInv, OldRowsGone
<1>4. minted[k].cutoff < cutoffs
  BY <1>1 DEF RestoreInv, Stamped, Credential
<1>5. Cut(minted[k])
  BY <1>2, <1>4 DEF RestoreInv, OldOnesCut, Reconciled
<1>6. ~Restores!Current(minted[k])
  BY <1>1, <1>5 DEF Cut, Restores!Current, Credential, Database
<1> QED
  BY <1>3, <1>6 DEF Restores!Accepted, Restores!AccessAccepted, Restores!RefreshAccepted,
       Restores!WebAccepted, Restores!ApprovalAccepted,
       Restores!InvitationAccepted

(* The type; that no credential of before the cutover is accepted again;     *)
(* that work outstanding in the backup is not done again; and that nobody    *)
(* signs in to a restored account before it was reviewed, or an administrator *)
(* decided about it.                                                        *)
THEOREM RestoreCorrect ==
  ASSUME Reviewer \in Accounts
  PROVE  Restores!Spec => [](Restores!TypeOK /\ RestoredSafely)
<1>1. Restores!Init => RestoreInv
  BY InitInv
<1>2. RestoreInv /\ [Restores!Next]_(Restores!restoreVars) => RestoreInv'
  BY StepKeeps
<1>3. RestoreInv => Restores!RestoredWorkHeld
  BY DEF RestoreInv, HeldWork, Restores!RestoredWorkHeld
<1>4. RestoreInv => Restores!ReviewedUnlessHandled
  BY DEF RestoreInv, Restores!ReviewedUnlessHandled, FreshOnesReviewed, ServedOnlyReconciled,
       Reconciled,
       Restores!Serving
<1> QED
  BY <1>1, <1>2, <1>3, <1>4, InvTyped, InvRefuses, PTL DEF Restores!Spec, RestoredSafely
-----------------------------------------------------------------------------
(* The support cases of an account (SupportCases), against its deletion and
   the purge that ends it.                                                  *)
CONSTANTS Requests, Staff, Keys, Bodies, None, MaxBegun
VARIABLES
  account, cases, messages, snapshot, task, lock, doomed, begun, named, crossed

Support == INSTANCE SupportCases

Written  == {"create", "append", "reply", "note"}
ByOwner  == {"create", "append", "grant", "revoke"}
Waiting  == {"waiting_for_support", "waiting_for_user"}
Sheet    == [op : Written, by : Staff \cup {Support!Customer}, key : Keys, body : Bodies,
             case : Nat, turn : Nat]
Task     == [op : Written \cup ByOwner \cup {"none"}, by : Staff \cup {Support!Customer, None},
             key : Keys \cup {None}, body : Bodies \cup {None}, case : Nat,
             at : {"idle", "begun", "in"}, found : Sheet \cup {None}, turn : Nat]

(* The customer is not of the staff, and null is none of the things that a
   column or a lock names.                                                  *)
SupportOK ==
  /\ Support!Customer \notin Staff /\ None \notin Sheet
  /\ None \notin Requests /\ Support!Purge \notin Requests \cup {None}
  /\ MaxCases \in Nat /\ MaxBegun \in Nat

SupportTyped ==
  /\ account \in {"open", "fenced", "purged", "dropped"}
  /\ cases \in Seq(Waiting) /\ Len(cases) <= MaxCases
  /\ messages \subseteq Sheet /\ doomed \subseteq messages
  /\ snapshot \in [Support!Numbers -> {"none", "live", "expired", "erased"}]
  /\ task \in [Requests -> Task]
  /\ lock \in Requests \cup {None, Support!Purge} /\ begun \in 0..MaxBegun

(* A message is in a case, and the customer's are those that the customer
   creates and appends; a transaction asks for one thing, of who may.       *)
MessagesPlaced ==
  \A m \in messages : /\ m.case \in DOMAIN cases /\ m.turn \in 1..begun
                      /\ m.by = Support!Customer <=> m.op \in ByOwner
AskedSound ==
  \A r \in Requests : task[r].at # "idle" =>
    /\ task[r].op # "none" /\ task[r].turn \in 1..begun
    /\ task[r].by = Support!Customer <=> task[r].op \in ByOwner
    /\ task[r].op \in Written =>
         /\ task[r].key \in Keys /\ task[r].body \in Bodies
         /\ task[r].by \in Staff \cup {Support!Customer}
    /\ task[r].op = "create" \/ task[r].case \in DOMAIN cases

(* A transaction of the customer that is past its checks has the account for
   itself, which is open, and knows whether its key was used.               *)
CustomerAlone ==
  \A r \in Requests : task[r].at = "in" /\ task[r].by = Support!Customer =>
    /\ lock = r /\ account = "open"
    /\ task[r].op = "create" =>
         IF task[r].found = None
         THEN \A m \in messages : m.by = Support!Customer => m.key # task[r].key
         ELSE task[r].found \in messages /\ task[r].found.key = task[r].key

(* The purge under way has deleted all that the customer wrote.             *)
PurgeUnderWay ==
  lock = Support!Purge =>
    account = "fenced" /\ \A m \in messages : m.by = Support!Customer => m \in doomed

(* The case that was named is the case of the message that created it.      *)
NamedIsThere ==
  /\ \A a \in named : \A m \in messages : m.op = "create" /\ m.key = a.key => m.case = a.case
  /\ account # "purged" => \A a \in named : \E m \in messages : m.op = "create" /\ m.key = a.key

SupportInv ==
  /\ SupportTyped /\ MessagesPlaced /\ AskedSound
  /\ CustomerAlone /\ PurgeUnderWay /\ NamedIsThere
  /\ Support!OneCasePerKey /\ Support!WaitsForTheOther /\ Support!PurgedIsClean

LEMMA SupportInitially ==
  ASSUME SupportOK, Support!Init
  PROVE  SupportInv
<1>1. Support!NoTask \in Task /\ Support!NoTask.at = "idle"
  BY DEF Support!NoTask, Task
<1>2. /\ account = "open" /\ cases = <<>> /\ messages = {} /\ lock = None /\ doomed = {}
      /\ begun = 0 /\ named = {} /\ crossed = {}
      /\ snapshot = [c \in Support!Numbers |-> "none"]
      /\ task = [r \in Requests |-> Support!NoTask]
  BY DEF Support!Init
<1>3. SupportTyped
  BY <1>1, <1>2 DEF SupportTyped, SupportOK
<1>4. \A r \in Requests : task[r].at = "idle"
  BY <1>1, <1>2
<1>5. Support!WaitsForTheOther
  BY <1>2 DEF Support!WaitsForTheOther
<1>6. CustomerAlone /\ PurgeUnderWay /\ AskedSound
  BY <1>2, <1>4 DEF CustomerAlone, PurgeUnderWay, AskedSound, SupportOK
<1>7. MessagesPlaced /\ NamedIsThere /\ Support!OneCasePerKey /\ Support!PurgedIsClean
  BY <1>2 DEF MessagesPlaced, NamedIsThere, Support!OneCasePerKey, Support!PurgedIsClean
<1> QED
  BY <1>3, <1>5, <1>6, <1>7 DEF SupportInv

(* Where neither messages nor cases change, what is told of them stays so.   *)
LEMMA CasesUntouched ==
  ASSUME SupportInv, messages' = messages, cases' = cases, named' = named, crossed' = crossed,
         begun' \in {begun, begun + 1},
         account' = account \/ (account \in {"open", "fenced"} /\ account' # "purged")
  PROVE  /\ MessagesPlaced' /\ NamedIsThere' /\ Support!OneCasePerKey'
         /\ Support!WaitsForTheOther'
<1>1. MessagesPlaced'
  BY DEF SupportInv, SupportTyped, MessagesPlaced
<1>2. NamedIsThere' /\ Support!OneCasePerKey'
  BY DEF SupportInv, NamedIsThere, Support!OneCasePerKey
<1>3. Support!WaitsForTheOther'
  <2>1. account' \in {"open", "fenced"} => account \in {"open", "fenced"}
    OBVIOUS
  <2> QED
    BY <2>1 DEF SupportInv, Support!WaitsForTheOther, Support!Seen, Support!Status
<1> QED
  BY <1>1, <1>2, <1>3

(* Nothing but the account and its lock changes: the deletion, and the end of
   an account without one.                                                  *)
LEMMA AccountSteps ==
  ASSUME SupportInv, SupportOK, Support!Fence \/ Support!StartPurge \/ Support!Drop
  PROVE  SupportInv'
<1>1. /\ messages' = messages /\ cases' = cases /\ named' = named /\ crossed' = crossed
      /\ begun' = begun /\ snapshot' = snapshot /\ task' = task /\ lock = None
  BY DEF Support!Fence, Support!StartPurge, Support!Drop
<1>2. account \in {"open", "fenced"} /\ account' \in {"open", "fenced", "dropped"}
  BY DEF Support!Fence, Support!StartPurge, Support!Drop
<1>3. \A r \in Requests : task[r].at = "in" => task[r].by # Support!Customer
  BY <1>1 DEF SupportInv, CustomerAlone, SupportOK
<1>4. lock' \in {None, Support!Purge} /\ doomed' \in {doomed, messages}
  BY <1>1 DEF Support!Fence, Support!StartPurge, Support!Drop
<1>5. PurgeUnderWay'
  <2>1. CASE Support!StartPurge
    BY <2>1 DEF PurgeUnderWay, Support!StartPurge
  <2>2. CASE Support!Fence \/ Support!Drop
    <3>1. lock' = None
      BY <2>2 DEF Support!Fence, Support!Drop
    <3> QED
      BY <3>1, SupportOK DEF PurgeUnderWay, SupportOK
  <2> QED
    BY <2>1, <2>2
<1>6. SupportTyped' /\ AskedSound' /\ CustomerAlone' /\ Support!PurgedIsClean'
  BY <1>1, <1>2, <1>3, <1>4 DEF SupportInv, SupportTyped, AskedSound, CustomerAlone,
                                    Support!PurgedIsClean
<1> QED
  BY <1>1, <1>2, <1>5, <1>6, CasesUntouched DEF SupportInv

(* The purge is committed.                                                  *)
LEMMA PurgeEnds ==
  ASSUME SupportInv, SupportOK, Support!EndPurge
  PROVE  SupportInv'
<1>1. /\ lock = Support!Purge /\ lock' = None /\ account' = "purged" /\ doomed' = {}
      /\ messages' = messages \ doomed /\ cases' = cases /\ task' = task /\ begun' = begun
      /\ named' = named /\ crossed' = crossed
      /\ snapshot' = [c \in Support!Numbers |-> IF snapshot[c] = "none" THEN "none" ELSE "erased"]
  BY DEF Support!EndPurge
<1>2. messages' \subseteq messages /\ \A m \in messages' : m.by # Support!Customer
  BY <1>1 DEF SupportInv, PurgeUnderWay
<1>3. \A r \in Requests : task[r].at = "in" => task[r].by # Support!Customer
  BY <1>1 DEF SupportInv, CustomerAlone, SupportOK
<1>4. SupportTyped'
  BY <1>1, <1>2 DEF SupportInv, SupportTyped
<1>5. MessagesPlaced' /\ NamedIsThere' /\ Support!OneCasePerKey'
  BY <1>1, <1>2 DEF SupportInv, MessagesPlaced, NamedIsThere, Support!OneCasePerKey
<1>6. AskedSound' /\ CustomerAlone' /\ PurgeUnderWay'
  BY <1>1, <1>3 DEF SupportInv, AskedSound, CustomerAlone, PurgeUnderWay, SupportOK
<1>7. Support!PurgedIsClean' /\ Support!WaitsForTheOther'
  BY <1>1, <1>2 DEF Support!PurgedIsClean, Support!WaitsForTheOther, Support!Written,
                    Support!OfAccount
<1> QED
  BY <1>4, <1>5, <1>6, <1>7 DEF SupportInv

(* Snapshots expire, and are erased.                                        *)
LEMMA SnapshotsAge ==
  ASSUME SupportInv, SupportOK, Support!Erase \/ \E c \in Support!Numbers : Support!Expire(c)
  PROVE  SupportInv'
<1>1. UNCHANGED <<account, cases, messages, task, lock, doomed, begun, named, crossed>>
  BY DEF Support!Erase, Support!Expire
<1>2. snapshot \in [Support!Numbers -> {"none", "live", "expired", "erased"}]
  BY DEF SupportInv, SupportTyped
<1>3. /\ snapshot' \in [Support!Numbers -> {"none", "live", "expired", "erased"}]
      /\ \A c \in Support!Numbers :
           snapshot[c] \in {"none", "erased"} => snapshot'[c] \in {"none", "erased"}
  <2>1. CASE Support!Erase
    BY <1>2, <2>1 DEF Support!Erase
  <2>2. ASSUME NEW c \in Support!Numbers, Support!Expire(c)
        PROVE  /\ snapshot' \in [Support!Numbers -> {"none", "live", "expired", "erased"}]
               /\ \A d \in Support!Numbers :
                    snapshot[d] \in {"none", "erased"} => snapshot'[d] \in {"none", "erased"}
    BY <1>2, <2>2 DEF Support!Expire
  <2> QED
    BY <2>1, <2>2
<1>4. SupportTyped' /\ AskedSound' /\ CustomerAlone' /\ PurgeUnderWay'
  BY <1>1, <1>3 DEF SupportInv, SupportTyped, AskedSound, CustomerAlone, PurgeUnderWay
<1>5. Support!PurgedIsClean'
  BY <1>1, <1>3 DEF SupportInv, Support!PurgedIsClean, Support!Written, Support!OfAccount
<1> QED
  BY <1>1, <1>4, <1>5, CasesUntouched DEF SupportInv

(* A transaction begins: it asks for what its caller may ask for.           *)
LEMMA SupportBegins ==
  ASSUME SupportInv, SupportOK, NEW r \in Requests, Support!Start(r)
  PROVE  SupportInv'
<1>1. PICK op \in Written \cup ByOwner, by \in Staff \cup {Support!Customer},
           key \in Keys \cup {None}, body \in Bodies \cup {None}, c \in {0} \cup DOMAIN cases :
        /\ Support!Begin(r, Support!Asked(op, by, key, body, c))
        /\ by = Support!Customer <=> op \in ByOwner
        /\ op \in Written => key \in Keys /\ body \in Bodies
        /\ op = "create" \/ c \in DOMAIN cases
  BY DEF Support!Start, Written, ByOwner, SupportOK
<1> DEFINE asked == Support!Asked(op, by, key, body, c)
<1>2. /\ UNCHANGED <<account, cases, messages, snapshot, lock, doomed, named, crossed>>
      /\ begun < MaxBegun /\ begun' = begun + 1
      /\ task' = [task EXCEPT ![r] = [asked EXCEPT !.at = "begun", !.turn = begun + 1]]
  BY <1>1 DEF Support!Begin
<1>3. c \in Nat /\ begun + 1 \in Nat /\ begun \in Nat /\ begun + 1 \in 0..MaxBegun
  BY <1>2, SupportOK DEF SupportInv, SupportTyped, SupportOK
<1>4. /\ asked \in Task /\ asked.op = op /\ asked.by = by /\ asked.key = key
      /\ asked.body = body /\ asked.case = c
  <2>1. Support!NoTask \in Task
    BY DEF Support!NoTask, Task
  <2> QED
    BY <1>3, <2>1 DEF Support!Asked, Task
<1> HIDE DEF asked
<1>5. /\ task' \in [Requests -> Task] /\ \A q \in Requests \ {r} : task'[q] = task[q]
      /\ task'[r].op = op /\ task'[r].by = by /\ task'[r].key = key /\ task'[r].body = body
      /\ task'[r].case = c /\ task'[r].at = "begun" /\ task'[r].turn = begun + 1
  <2>1. task \in [Requests -> Task]
    BY DEF SupportInv, SupportTyped
  <2> QED
    BY <1>2, <1>3, <1>4, <2>1 DEF Task
<1>6. SupportTyped'
  BY <1>2, <1>3, <1>5 DEF SupportInv, SupportTyped
<1>7. AskedSound'
  <2> SUFFICES ASSUME NEW q \in Requests, task'[q].at # "idle"
               PROVE  /\ task'[q].op # "none" /\ task'[q].turn \in 1..begun'
                      /\ task'[q].by = Support!Customer <=> task'[q].op \in ByOwner
                      /\ task'[q].op \in Written =>
                           /\ task'[q].key \in Keys /\ task'[q].body \in Bodies
                           /\ task'[q].by \in Staff \cup {Support!Customer}
                      /\ task'[q].op = "create" \/ task'[q].case \in DOMAIN cases'
    BY DEF AskedSound
  <2>1. CASE q = r
    BY <1>1, <1>2, <1>3, <1>5, <2>1 DEF Written, ByOwner
  <2>2. CASE q # r
    BY <1>2, <1>3, <1>5, <2>2 DEF SupportInv, AskedSound
  <2> QED
    BY <2>1, <2>2
<1>8. CustomerAlone' /\ PurgeUnderWay' /\ Support!PurgedIsClean'
  BY <1>2, <1>5 DEF SupportInv, CustomerAlone, PurgeUnderWay, Support!PurgedIsClean,
                    Support!Written, Support!OfAccount
<1> QED
  BY <1>2, <1>6, <1>7, <1>8, CasesUntouched DEF SupportInv

(* It takes its locks and reads; a customer's has the account for itself.   *)
LEMMA SupportEnters ==
  ASSUME SupportInv, SupportOK, NEW r \in Requests, Support!Enter(r)
  PROVE  SupportInv'
<1>1. /\ UNCHANGED <<account, cases, messages, snapshot, doomed, begun, named, crossed>>
      /\ task[r].at = "begun" /\ task[r] \in Task /\ task \in [Requests -> Task]
  BY DEF Support!Enter, SupportInv, SupportTyped
<1>2. CASE lock' = lock /\ task' = [task EXCEPT ![r] = Support!NoTask]
  <2>1. Support!NoTask \in Task /\ Support!NoTask.at = "idle"
    BY DEF Support!NoTask, Task
  <2>2. /\ task' \in [Requests -> Task] /\ task'[r].at = "idle"
        /\ \A q \in Requests \ {r} : task'[q] = task[q]
    BY <1>1, <1>2, <2>1
  <2>3. SupportTyped' /\ AskedSound' /\ CustomerAlone' /\ PurgeUnderWay' /\ Support!PurgedIsClean'
    BY <1>1, <1>2, <2>2 DEF SupportInv, SupportTyped, AskedSound, CustomerAlone, PurgeUnderWay,
                            Support!PurgedIsClean, Support!Written, Support!OfAccount
  <2> QED
    BY <1>1, <2>3, CasesUntouched DEF SupportInv
<1>3. ASSUME NEW m, Support!Allowed(task[r]), Support!HasAccount(task[r]),
             Support!LocksAccount(task[r]) => lock = None,
             m \in (IF Support!Writes(task[r]) /\ Support!Earlier(task[r]) # {}
                    THEN Support!Earlier(task[r]) ELSE {None}),
             task' = [task EXCEPT ![r] = [@ EXCEPT !.at = "in", !.found = m]],
             lock' = (IF Support!LocksAccount(task[r]) THEN r ELSE lock)
      PROVE  SupportInv'
  <2>1. m \in Sheet \cup {None}
    BY <1>3 DEF Support!Earlier, SupportInv, SupportTyped
  <2>2. /\ task' \in [Requests -> Task] /\ \A q \in Requests \ {r} : task'[q] = task[q]
        /\ task'[r].at = "in" /\ task'[r].found = m /\ task'[r].op = task[r].op
        /\ task'[r].by = task[r].by /\ task'[r].key = task[r].key /\ task'[r].body = task[r].body
        /\ task'[r].case = task[r].case /\ task'[r].turn = task[r].turn
    BY <1>1, <1>3, <2>1 DEF Task
  <2>3. task[r].by = Support!Customer => lock = None /\ lock' = r /\ account = "open"
    BY <1>3 DEF Support!Allowed, Support!HasAccount, Support!LocksAccount, Support!OfAccount,
                SupportInv, SupportTyped
  <2>4. task[r].by # Support!Customer => lock' = lock
    BY <1>3 DEF Support!LocksAccount, Support!OfAccount
  <2>5. task[r].op = "create" =>
          IF m = None THEN \A n \in messages : n.by = Support!Customer => n.key # task[r].key
                      ELSE m \in messages /\ m.key = task[r].key
    <3> SUFFICES ASSUME task[r].op = "create"
                 PROVE  IF m = None
                        THEN \A n \in messages : n.by = Support!Customer => n.key # task[r].key
                        ELSE m \in messages /\ m.key = task[r].key
      OBVIOUS
    <3>1. task[r].by = Support!Customer
      BY <1>1 DEF SupportInv, AskedSound, ByOwner
    <3>2. Support!Earlier(task[r]) =
            {n \in messages : n.key = task[r].key /\ n.by = Support!Customer}
      BY <3>1 DEF Support!Earlier
    <3>3. messages \subseteq Sheet
      BY DEF SupportInv, SupportTyped
    <3> QED
      BY <1>3, <3>2, <3>3, SupportOK DEF SupportOK, Support!Writes
  <2>6. SupportTyped'
    BY <1>1, <2>2, <2>3, <2>4 DEF SupportInv, SupportTyped
  <2>7. AskedSound'
    BY <1>1, <2>2 DEF SupportInv, AskedSound
  <2>8. CustomerAlone'
    <3> SUFFICES ASSUME NEW q \in Requests, task'[q].at = "in", task'[q].by = Support!Customer
                 PROVE  /\ lock' = q /\ account = "open"
                        /\ task'[q].op = "create" =>
                             IF task'[q].found = None
                             THEN \A n \in messages : n.by = Support!Customer => n.key # task'[q].key
                             ELSE task'[q].found \in messages /\ task'[q].found.key = task'[q].key
      BY <1>1 DEF CustomerAlone
    <3>1. CASE q = r
      BY <3>1, <2>2, <2>3, <2>5
    <3>2. CASE q # r
      <4>1. task'[q] = task[q] /\ lock = q
        BY <3>2, <2>2 DEF SupportInv, CustomerAlone
      <4>2. lock' = lock
        BY <4>1, <2>3, <2>4, SupportOK DEF SupportOK
      <4> QED
        BY <4>1, <4>2 DEF SupportInv, CustomerAlone
    <3> QED
      BY <3>1, <3>2
  <2>9. PurgeUnderWay' /\ Support!PurgedIsClean'
    BY <1>1, <2>3, <2>4, SupportOK
       DEF SupportInv, PurgeUnderWay, Support!PurgedIsClean, Support!Written, Support!OfAccount,
           SupportOK
  <2> QED
    BY <1>1, <2>6, <2>7, <2>8, <2>9, CasesUntouched DEF SupportInv
<1> QED
  BY <1>2, <1>3 DEF Support!Enter

(* A transaction that ends lets go of what it held.                         *)
LEMMA SupportLetsGo ==
  ASSUME SupportInv, SupportOK, NEW r \in Requests, Support!Ends(r)
  PROVE  /\ task[r].at = "in" /\ task' \in [Requests -> Task] /\ task'[r].at = "idle"
         /\ \A q \in Requests \ {r} : task'[q] = task[q]
         /\ account' = account /\ doomed' = doomed /\ begun' = begun
         /\ lock' = (IF lock = r THEN None ELSE lock)
<1>1. Support!NoTask \in Task /\ Support!NoTask.at = "idle"
  BY DEF Support!NoTask, Task
<1> QED
  BY <1>1 DEF Support!Ends, SupportInv, SupportTyped

(* ... and where no message was added, nothing else is disturbed.           *)
LEMMA SupportEnds ==
  ASSUME SupportInv, SupportOK, NEW r \in Requests, Support!Ends(r),
         messages' = messages, cases' = cases,
         snapshot' \in [Support!Numbers -> {"none", "live", "expired", "erased"}],
         snapshot' = snapshot \/ account = "open"
  PROVE  /\ SupportTyped' /\ MessagesPlaced' /\ AskedSound' /\ CustomerAlone'
         /\ PurgeUnderWay' /\ Support!PurgedIsClean'
<1>1. /\ task[r].at = "in" /\ task' \in [Requests -> Task] /\ task'[r].at = "idle"
      /\ \A q \in Requests \ {r} : task'[q] = task[q]
      /\ account' = account /\ doomed' = doomed /\ begun' = begun
      /\ lock' = (IF lock = r THEN None ELSE lock)
  BY SupportLetsGo
<1>2. SupportTyped' /\ AskedSound' /\ MessagesPlaced'
  BY <1>1 DEF SupportInv, SupportTyped, AskedSound, MessagesPlaced
<1>3. CustomerAlone' /\ PurgeUnderWay' /\ Support!PurgedIsClean'
  BY <1>1, SupportOK DEF SupportInv, CustomerAlone, PurgeUnderWay, Support!PurgedIsClean,
                         Support!Written, Support!OfAccount, SupportOK
<1> QED
  BY <1>2, <1>3

(* A request that is sent again gets the case of the first.                 *)
LEMMA SupportRepeats ==
  ASSUME SupportInv, SupportOK, NEW r \in Requests, Support!Repeat(r)
  PROVE  SupportInv'
<1>1. /\ Support!Ends(r) /\ UNCHANGED <<cases, messages, snapshot, crossed>>
      /\ task[r].found # None /\ account' = account /\ task[r].at = "in"
      /\ named' = IF task[r].op = "create" /\ Support!SameInput(task[r].found, task[r])
                  THEN named \cup {[key |-> task[r].key, case |-> task[r].found.case]} ELSE named
  BY DEF Support!Repeat, Support!Ends
<1>2. /\ SupportTyped' /\ MessagesPlaced' /\ AskedSound' /\ CustomerAlone'
      /\ PurgeUnderWay' /\ Support!PurgedIsClean'
  BY <1>1, SupportEnds DEF SupportInv, SupportTyped
<1>3. Support!WaitsForTheOther'
  BY <1>1 DEF SupportInv, Support!WaitsForTheOther, Support!Seen, Support!Status
<1>4. NamedIsThere' /\ Support!OneCasePerKey'
  <2>1. CASE named' = named
    BY <1>1, <2>1 DEF SupportInv, NamedIsThere, Support!OneCasePerKey
  <2>2. CASE /\ task[r].op = "create" /\ Support!SameInput(task[r].found, task[r])
             /\ named' = named \cup {[key |-> task[r].key, case |-> task[r].found.case]}
    <3> DEFINE f == task[r].found
    <3>1. f \in messages /\ f.key = task[r].key /\ f.op = "create" /\ account = "open"
      BY <1>1, <2>2 DEF SupportInv, AskedSound, ByOwner, CustomerAlone, Support!SameInput
    <3>2. \A m \in messages : m.op = "create" /\ m.key = f.key => m = f
      BY <3>1 DEF SupportInv, Support!OneCasePerKey
    <3>3. \A a \in named' : \/ a \in named
                            \/ a = [key |-> f.key, case |-> f.case]
      BY <2>2, <3>1
    <3>4. \A a \in named' : /\ \A m \in messages : m.op = "create" /\ m.key = a.key => m.case = a.case
                            /\ \E m \in messages : m.op = "create" /\ m.key = a.key
      <4> HIDE DEF f
      <4> QED
        BY <3>1, <3>2, <3>3 DEF SupportInv, NamedIsThere
    <3>5. NamedIsThere'
      BY <1>1, <3>4 DEF NamedIsThere
    <3>6. Support!OneCasePerKey'
      <4>1. \A a, b \in named' : a.key = b.key => a.case = b.case
        BY <3>4
      <4> QED
        BY <1>1, <4>1 DEF SupportInv, Support!OneCasePerKey
    <3> QED
      BY <3>5, <3>6
  <2> QED
    BY <1>1, <2>1, <2>2
<1> QED
  BY <1>2, <1>3, <1>4 DEF SupportInv

(* A snapshot is granted or revoked, or the connection is lost.             *)
LEMMA SnapshotChanges ==
  ASSUME SupportInv, SupportOK, NEW r \in Requests,
         Support!ChangeSnapshot(r) \/ Support!Abort(r)
  PROVE  SupportInv'
<1>1. /\ Support!Ends(r) /\ UNCHANGED <<cases, messages, named, crossed, account, begun>>
  BY DEF Support!ChangeSnapshot, Support!Abort, Support!Ends
<1>2. /\ snapshot' \in [Support!Numbers -> {"none", "live", "expired", "erased"}]
      /\ snapshot' = snapshot \/ account = "open"
  <2>1. CASE Support!Abort(r)
    BY <2>1 DEF Support!Abort, SupportInv, SupportTyped
  <2>2. CASE Support!ChangeSnapshot(r)
    <3>1. /\ task[r].op \in {"grant", "revoke"} /\ task[r].at = "in"
          /\ snapshot' = [snapshot EXCEPT ![task[r].case] =
                            IF task[r].op = "grant" THEN "live" ELSE "erased"]
      BY <2>2 DEF Support!ChangeSnapshot, Support!Ends
    <3>2. account = "open"
      BY <3>1 DEF SupportInv, AskedSound, ByOwner, CustomerAlone
    <3> QED
      BY <3>1, <3>2 DEF SupportInv, SupportTyped
  <2> QED
    BY <2>1, <2>2
<1>3. /\ SupportTyped' /\ MessagesPlaced' /\ AskedSound' /\ CustomerAlone'
      /\ PurgeUnderWay' /\ Support!PurgedIsClean'
  BY <1>1, <1>2, SupportEnds
<1> QED
  BY <1>1, <1>3, CasesUntouched DEF SupportInv

(* A message is added to its case.                                          *)
LEMMA SupportInserts ==
  ASSUME SupportInv, SupportOK, NEW r \in Requests, Support!Insert(r)
  PROVE  SupportInv'
<1> DEFINE t == task[r]
           c == IF t.op = "create" THEN Len(cases) + 1 ELSE t.case
           sheet == [op |-> t.op, by |-> t.by, key |-> t.key, body |-> t.body, case |-> c,
                     turn |-> t.turn]
<1>1. /\ Support!Ends(r) /\ snapshot' = snapshot /\ t.op \in Written /\ t.found = None
      /\ account' = account /\ begun' = begun /\ t.at = "in"
  BY DEF Support!Insert, Support!Ends, Support!Writes, Written
<1>2. CASE UNCHANGED <<cases, messages, named, crossed>>
  <2>1. /\ SupportTyped' /\ MessagesPlaced' /\ AskedSound' /\ CustomerAlone'
        /\ PurgeUnderWay' /\ Support!PurgedIsClean'
    BY <1>1, <1>2, SupportEnds DEF SupportInv, SupportTyped
  <2> QED
    BY <1>1, <1>2, <2>1, CasesUntouched DEF SupportInv
<1>3. CASE /\ c \in Support!Numbers /\ messages' = messages \cup {sheet}
           /\ cases' = Support!CasesWith(t, c)
           /\ named' = (IF t.op = "create" THEN named \cup {[key |-> t.key, case |-> c]} ELSE named)
           /\ crossed \subseteq crossed'
           /\ c \in crossed' \/ \A m \in messages : m.case = c => ~(m.turn > t.turn)
  <2>1. /\ t.key \in Keys /\ t.body \in Bodies /\ t.by \in Staff \cup {Support!Customer}
        /\ t.turn \in 1..begun
        /\ t.by = Support!Customer <=> t.op \in ByOwner
        /\ t.op = "create" \/ t.case \in DOMAIN cases
    BY <1>1 DEF SupportInv, AskedSound
  <2>2. /\ cases \in Seq(Waiting) /\ Len(cases) \in Nat /\ DOMAIN cases = 1..Len(cases)
        /\ messages \subseteq Sheet /\ begun \in 0..MaxBegun /\ MaxBegun \in Nat /\ MaxCases \in Nat
        /\ doomed \subseteq messages
    BY SupportOK DEF SupportInv, SupportTyped, SupportOK
  <2>3. c \in 1..MaxCases
    BY <1>3 DEF Support!Numbers
  <2>4. /\ sheet.op = t.op /\ sheet.by = t.by /\ sheet.key = t.key /\ sheet.body = t.body
        /\ sheet.case = c /\ sheet.turn = t.turn
    OBVIOUS
  <2>5. sheet \in Sheet
    <3>1. t.op \in Written /\ c \in Nat /\ t.turn \in Nat
      <4> HIDE DEF t, c
      <4> QED
        BY <1>1, <2>1, <2>2, <2>3
    <3> HIDE DEF t, c
    <3> QED
      BY <2>1, <3>1 DEF Sheet
  <2>6. /\ cases' \in Seq(Waiting) /\ Len(cases') <= MaxCases /\ DOMAIN cases' = 1..Len(cases')
        /\ DOMAIN cases \subseteq DOMAIN cases' /\ DOMAIN cases' \subseteq DOMAIN cases \cup {c}
        /\ c \in DOMAIN cases' /\ \A d \in DOMAIN cases \ {c} : cases'[d] = cases[d]
        /\ t.op # "note" => cases'[c] = Support!Status(t.op)
        /\ t.op = "note" => cases' = cases
    <3>1. Support!Status(t.op) \in Waiting
      BY DEF Support!Status, Waiting
    <3>2. CASE t.op = "create"
      <4>1. c = Len(cases) + 1 /\ cases' = Append(cases, Support!Status(t.op))
        BY <1>3, <3>2 DEF Support!CasesWith
      <4> HIDE DEF t, c
      <4> QED
        BY <2>2, <2>3, <3>1, <3>2, <4>1
    <3>3. CASE t.op # "create"
      <4>1. c = t.case /\ c \in DOMAIN cases /\ Len(cases) <= MaxCases
        BY <2>1, <3>3 DEF SupportInv, SupportTyped
      <4>2. cases' = IF t.op # "note" THEN [cases EXCEPT ![c] = Support!Status(t.op)] ELSE cases
        BY <1>3, <3>3 DEF Support!CasesWith, Support!ForCustomer
      <4> HIDE DEF t, c
      <4> QED
        BY <2>2, <2>3, <3>1, <4>1, <4>2
    <3> QED
      BY <3>2, <3>3
  <2>7. /\ task' \in [Requests -> Task] /\ task'[r].at = "idle"
        /\ \A q \in Requests \ {r} : task'[q] = task[q]
        /\ doomed' = doomed /\ lock' = (IF lock = r THEN None ELSE lock)
    BY <1>1, SupportLetsGo
  <2>8. t.by = Support!Customer =>
          /\ lock = r /\ account = "open"
          /\ t.op = "create" => \A m \in messages : m.by = Support!Customer => m.key # t.key
    BY <1>1 DEF SupportInv, CustomerAlone
  <2>9. /\ MessagesPlaced /\ NamedIsThere /\ Support!OneCasePerKey /\ Support!WaitsForTheOther
        /\ AskedSound /\ CustomerAlone /\ PurgeUnderWay /\ Support!PurgedIsClean
    BY DEF SupportInv
  <2> HIDE DEF t, c, sheet
  <2>10. SupportTyped'
    BY <1>1, <2>2, <2>5, <2>6, <2>7, <1>3 DEF SupportInv, SupportTyped
  <2>11. MessagesPlaced'
    <3>1. /\ sheet.case \in DOMAIN cases' /\ sheet.turn \in 1..begun'
          /\ sheet.by = Support!Customer <=> sheet.op \in ByOwner
      BY <1>1, <2>1, <2>4, <2>6
    <3>2. \A m \in messages : m.case \in DOMAIN cases' /\ m.turn \in 1..begun'
      BY <1>1, <2>6, <2>9 DEF MessagesPlaced
    <3> QED
      BY <1>3, <2>9, <3>1, <3>2 DEF MessagesPlaced
  <2>12. AskedSound'
    BY <1>1, <2>6, <2>7, <2>9 DEF AskedSound
  <2>13. CustomerAlone'
    <3> SUFFICES ASSUME NEW q \in Requests, task'[q].at = "in", task'[q].by = Support!Customer
                 PROVE  /\ lock' = q /\ account = "open"
                        /\ task'[q].op = "create" =>
                             IF task'[q].found = None
                             THEN \A n \in messages' : n.by = Support!Customer => n.key # task'[q].key
                             ELSE task'[q].found \in messages' /\ task'[q].found.key = task'[q].key
      BY <1>1 DEF CustomerAlone
    <3>1. q # r /\ task'[q] = task[q] /\ lock = q /\ lock' = q
      BY <2>7, <2>9 DEF CustomerAlone
    <3>2. sheet.by # Support!Customer
      BY <2>4, <2>8, <3>1
    <3> QED
      BY <1>3, <2>9, <3>1, <3>2 DEF CustomerAlone
  <2>14. PurgeUnderWay' /\ Support!PurgedIsClean'
    <3>1. account \in {"fenced", "purged"} => sheet.by # Support!Customer
      BY <2>4, <2>8
    <3>2. lock' = Support!Purge => lock = Support!Purge
      BY <2>7, SupportOK DEF SupportOK
    <3> QED
      BY <1>1, <1>3, <2>7, <2>9, <3>1, <3>2
         DEF PurgeUnderWay, Support!PurgedIsClean, Support!Written, Support!OfAccount
  <2>15. NamedIsThere' /\ Support!OneCasePerKey'
    <3>1. CASE t.op = "create"
      <4>1. /\ account = "open" /\ sheet.op = "create" /\ sheet.key = t.key /\ sheet.case = c
            /\ \A m \in messages : m.op = "create" => m.key # t.key
            /\ messages' = messages \cup {sheet} /\ named' = named \cup {[key |-> t.key, case |-> c]}
        BY <1>3, <2>1, <2>4, <2>8, <2>9, <3>1 DEF MessagesPlaced, ByOwner
      <4>2. \A a \in named : a.key # t.key
        BY <2>9, <4>1 DEF NamedIsThere
      <4>3. NamedIsThere'
        BY <1>1, <2>9, <4>1, <4>2 DEF NamedIsThere
      <4>4. Support!OneCasePerKey'
        BY <2>9, <4>1, <4>2 DEF Support!OneCasePerKey
      <4> QED
        BY <4>3, <4>4
    <3>2. CASE t.op # "create"
      <4>1. sheet.op # "create" /\ named' = named
        BY <1>3, <2>4, <3>2
      <4> QED
        BY <1>1, <1>3, <2>9, <4>1 DEF NamedIsThere, Support!OneCasePerKey
    <3> QED
      BY <3>1, <3>2
  <2>16. Support!WaitsForTheOther'
    <3> SUFFICES ASSUME account \in {"open", "fenced"}, NEW d \in DOMAIN cases' \ crossed'
                 PROVE  \E m \in Support!Seen(d)' :
                          /\ \A n \in Support!Seen(d)' : n.turn <= m.turn
                          /\ cases'[d] = Support!Status(m.op)
      BY <1>1 DEF Support!WaitsForTheOther, Support!Seen, Support!Status
    <3>1. CASE d = c /\ t.op # "note"
      <4>1. sheet \in Support!Seen(d)' /\ cases'[d] = Support!Status(sheet.op)
        BY <1>3, <2>4, <2>6, <3>1 DEF Support!Seen
      <4>2. \A n \in Support!Seen(d)' : n.turn <= sheet.turn
        <5>1. \A n \in messages : n.turn \in Nat
          BY <2>2 DEF Sheet
        <5>2. t.turn \in Nat
          BY <2>1, <2>2
        <5>3. d \notin crossed'
          OBVIOUS
        <5> QED
          BY <1>3, <2>4, <3>1, <5>1, <5>2, <5>3 DEF Support!Seen
      <4> QED
        BY <4>1, <4>2
    <3>2. CASE d # c \/ t.op = "note"
      <4>1. Support!Seen(d)' = Support!Seen(d)
        BY <1>3, <2>4, <3>2 DEF Support!Seen
      <4>2. d \in DOMAIN cases \ crossed /\ cases'[d] = cases[d]
        BY <1>3, <2>6, <3>2
      <4> QED
        BY <2>9, <4>1, <4>2 DEF Support!WaitsForTheOther
    <3> QED
      BY <3>1, <3>2
  <2> QED
    BY <2>10, <2>11, <2>12, <2>13, <2>14, <2>15, <2>16 DEF SupportInv
<1> QED
  BY <1>2, <1>3 DEF Support!Insert, Support!Message

LEMMA SupportStep ==
  ASSUME SupportInv, SupportOK, [Support!Next]_(Support!supportVars)
  PROVE  SupportInv'
<1>1. CASE UNCHANGED Support!supportVars
  <2>1. UNCHANGED <<account, cases, messages, snapshot, task, lock, doomed, begun, named, crossed>>
    BY <1>1 DEF Support!supportVars
  <2>2. SupportTyped' /\ AskedSound' /\ CustomerAlone' /\ PurgeUnderWay' /\ Support!PurgedIsClean'
    BY <2>1 DEF SupportInv, SupportTyped, AskedSound, CustomerAlone, PurgeUnderWay,
                Support!PurgedIsClean, Support!Written, Support!OfAccount
  <2> QED
    BY <2>1, <2>2, CasesUntouched DEF SupportInv
<1>2. CASE Support!Next
  BY <1>2, SupportBegins, SupportEnters, SupportRepeats, SupportInserts, SnapshotChanges,
     AccountSteps, PurgeEnds, SnapshotsAge DEF Support!Next
<1> QED
  BY <1>1, <1>2

(* The support cases of an account (SupportService): a case that was asked for
   is there once, however often the request is sent; it waits for whoever has
   not written last; and after the purge nothing that the customer wrote, or
   let be read, is left, although requests were still under way.            *)
THEOREM SupportCorrect ==
  ASSUME SupportOK
  PROVE  Support!Spec => [](Support!TypeOK /\ Support!SupportSound)
<1>1. Support!Init => SupportInv
  BY SupportInitially
<1>2. SupportInv /\ [Support!Next]_(Support!supportVars) => SupportInv'
  BY SupportStep
<1>3. SupportInv => Support!TypeOK /\ Support!SupportSound
  <2> SUFFICES ASSUME SupportInv PROVE Support!TypeOK /\ Support!SupportSound
      OBVIOUS
  <2>1. \A m \in messages :
          /\ m.key \in Keys /\ m.by \in Staff \cup {Support!Customer} /\ m.body \in Bodies
          /\ m.case \in DOMAIN cases /\ m.turn \in 1..begun
    BY DEF SupportInv, SupportTyped, MessagesPlaced, Sheet
  <2>2. \A r \in Requests : task[r].at \in {"idle", "begun", "in"}
    BY DEF SupportInv, SupportTyped, Task
  <2> QED
    BY <2>1, <2>2 DEF SupportInv, SupportTyped, Waiting, Support!TypeOK, Support!SupportSound
<1> QED
  BY <1>1, <1>2, <1>3, PTL DEF Support!Spec

(* While the account is being deleted nothing that a customer writes is taken,
   also of a request that had shown a valid session before
   (assertAccountWriteAllowedInTransaction).                                *)
THEOREM FenceHolds ==
  ASSUME SupportOK
  PROVE  Support!Spec => Support!FencedTakesNothing
<1>1. Support!Init => SupportInv
  BY SupportInitially
<1>2. SupportInv /\ [Support!Next]_(Support!supportVars) => SupportInv'
  BY SupportStep
<1>3. SupportInv /\ [Support!Next]_(Support!supportVars)
        => [account = "fenced" /\ account' # "open"
              => Support!Written' \subseteq Support!Written]_(Support!supportVars)
  <2> SUFFICES ASSUME SupportInv, Support!Next, account = "fenced", account' # "open"
               PROVE  Support!Written' \subseteq Support!Written
      OBVIOUS
  <2>1. CASE messages' \subseteq messages
    BY <2>1 DEF Support!Written, Support!OfAccount
  <2>2. ASSUME NEW r \in Requests, Support!Insert(r), ~(messages' \subseteq messages)
        PROVE  Support!Written' \subseteq Support!Written
    <3>1. task[r].at = "in" /\ task[r].by # Support!Customer
      BY <2>2 DEF Support!Insert, Support!Ends, SupportInv, CustomerAlone
    <3>2. \A m \in messages' : m \in messages \/ m.by = task[r].by
      BY <2>2 DEF Support!Insert, Support!Message
    <3> QED
      BY <3>1, <3>2 DEF Support!Written, Support!OfAccount
  <2>3. messages' \subseteq messages \/ \E r \in Requests : Support!Insert(r)
    <3>1. ASSUME NEW r \in Requests, Support!Start(r)
          PROVE  messages' = messages
      BY <3>1 DEF Support!Start, Support!Begin
    <3>2. ASSUME NEW r \in Requests,
                 \/ Support!Enter(r) \/ Support!Repeat(r)
                 \/ Support!ChangeSnapshot(r) \/ Support!Abort(r)
          PROVE  messages' = messages
      BY <3>2 DEF Support!Enter, Support!Repeat, Support!ChangeSnapshot, Support!Abort
    <3>3. ASSUME \/ Support!Fence \/ Support!StartPurge \/ Support!EndPurge \/ Support!Drop
                 \/ Support!Erase \/ \E c \in Support!Numbers : Support!Expire(c)
          PROVE  messages' \subseteq messages
      BY <3>3 DEF Support!Fence, Support!StartPurge, Support!EndPurge, Support!Drop, Support!Erase,
                  Support!Expire
    <3> QED
      BY <3>1, <3>2, <3>3 DEF Support!Next
  <2> QED
    BY <2>1, <2>2, <2>3
<1> QED
  BY <1>1, <1>2, <1>3, PTL DEF Support!Spec, Support!FencedTakesNothing
=============================================================================
