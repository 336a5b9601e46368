-------------------------- MODULE StreamBusProofs --------------------------
(***************************************************************************)
(* Theorems of StreamBus: what the bus holds reaches its subscribers, and  *)
(* so does the end of the run, for any number of events, subscribers, rows *)
(* per read and attempts.                                                  *)
(*                                                                         *)
(* BusInv is inductive.  Sequences follow ids without a hole among the     *)
(* rows of the table (Ordered): the trim deletes a beginning, and the next *)
(* sequence is read from what is left.  A read sends a beginning of the    *)
(* rows after the cursor (BatchFacts), so that a hole in it, or before it, *)
(* would be one in the table.                                              *)
(***************************************************************************)
EXTENDS StreamBus, FiniteSetTheorems, WellFoundedInduction, TLAPS

(* Ids are given once, and no sequence outruns its id. *)
RowInv ==
  /\ IsFiniteSet(published)
  /\ \A r \in published : 1 <= r.sequence /\ r.sequence <= r.id /\ r.id <= lastId
  /\ \A r, q \in published : r.id = q.id => r = q
  /\ \A i \in trimmed : i <= lastId

(* Sequences grow with ids, and none is left out between two rows. *)
Ordered ==
  /\ \A r, q \in Rows : r.id < q.id => r.sequence < q.sequence
  /\ \A r, q \in Rows, n \in Nat :
       r.sequence < n /\ n < q.sequence => \E p \in Rows : p.sequence = n

(* What the statements of recordRunCompleted that were executed have done. *)
WriterInv ==
  /\ status \in {"running", outcome}
  /\ writer \in {"publish", "list", "delete", "done"} => transcript
  /\ writer = "list" => \E r \in Rows : r.key = TerminalKey
  /\ \A r \in published : r.key = TerminalKey => transcript

(* Where a connection is, and what it was told. *)
ConnectionInv(s) ==
  /\ cursor[s] <= lastId
  /\ trimmed = {} /\ lastSequence[s] > 0 =>
       \E r \in published : r.id = cursor[s] /\ r.sequence = lastSequence[s]
  /\ phase[s] \in {"draining", "closed"} => status = outcome
  /\ ends[s] \subseteq {outcome}
  /\ seen[s] => outcome \in ends[s]
  /\ phase[s] = "closed" => ends[s] = {outcome}

ClientInv == \A s \in Subscribers : ConnectionInv(s)

(* The inductive invariant. *)
BusInv ==
  TypeOK /\ RowInv /\ Ordered /\ WriterInv /\ ClientInv /\ LossOnlyByTrim /\ GapsAreReal

-----------------------------------------------------------------------------
(* Reads. *)

(* A set of numbers has a least one and, when it has a bound, a greatest. *)
LEMMA SmallerIsRelated == \A x, y \in Nat : y < x => <<y, x>> \in OpToRel(<, Nat)
BY DEF OpToRel

LEMMA Greatest ==
  ASSUME NEW S \in SUBSET Nat, S # {}, NEW b \in Nat, \A n \in S : n <= b
  PROVE  \E m \in S : \A n \in S : n <= m
<1> DEFINE T == {b - n : n \in S}
<1>0. T \subseteq Nat
  OBVIOUS
<1>1. T # {}
  OBVIOUS
<1>2. PICK x \in T : \A y \in T : ~(<<y, x>> \in OpToRel(<, Nat))
  BY <1>0, <1>1, NatLessThanWellFounded, WFMin
<1>3. \A y \in T : ~(y < x)
  BY <1>0, <1>2, SmallerIsRelated
<1>4. PICK m \in S : x = b - m
  OBVIOUS
<1>5. ASSUME NEW n \in S  PROVE n <= m
  <2>1. b - n \in T
    OBVIOUS
  <2>2. ~(b - n < b - m)
    BY <1>3, <1>4, <2>1
  <2>3. n \in Nat /\ m \in Nat
    OBVIOUS
  <2> HIDE DEF T
  <2> QED BY <2>2, <2>3
<1> QED BY <1>5

LEMMA Least ==
  ASSUME NEW S \in SUBSET Nat, S # {}
  PROVE  \E m \in S : \A n \in S : m <= n
<1>1. PICK x \in S : \A y \in S : ~(<<y, x>> \in OpToRel(<, Nat))
  BY NatLessThanWellFounded, WFMin
<1>2. \A y \in S : ~(y < x)
  BY <1>1, SmallerIsRelated
<1> QED BY <1>2

(* A batch is a beginning of the rows after the cursor, with a first and a last. *)
LEMMA BatchFacts ==
  ASSUME TypeOK, RowInv, NEW s \in Subscribers
  PROVE  /\ Batch(s) \subseteq Pending(s) /\ Pending(s) \subseteq Rows
         /\ Rows \subseteq published
         /\ \A r \in Batch(s), q \in Pending(s) : q.id <= r.id => q \in Batch(s)
         /\ Batch(s) # {} =>
              /\ Last(Batch(s)) \in Batch(s) /\ First(Batch(s)) \in Batch(s)
              /\ \A q \in Batch(s) : q.id <= Last(Batch(s)).id /\ First(Batch(s)).id <= q.id
<1> DEFINE Upto(r) == {q \in Pending(s) : q.id <= r.id}
<1>1. Batch(s) \subseteq Pending(s) /\ Pending(s) \subseteq Rows /\ Rows \subseteq published
  BY DEF Batch, Pending, Rows
<1>2. \A r \in published : r.id \in Nat /\ r.id <= lastId /\ lastId \in Nat
  BY DEF TypeOK, RowType, RowInv
<1>3. ASSUME NEW r \in Batch(s), NEW q \in Pending(s), q.id <= r.id  PROVE q \in Batch(s)
  <2>1. Upto(q) \subseteq Upto(r)
    BY <1>1, <1>2, <1>3
  <2>2. IsFiniteSet(Upto(r))
    <3>1. Upto(r) \subseteq published
      BY <1>1
    <3> QED BY <3>1, FS_Subset DEF RowInv
  <2>3. Cardinality(Upto(q)) <= Cardinality(Upto(r)) /\ IsFiniteSet(Upto(q))
    BY <2>1, <2>2, FS_Subset
  <2>4. Cardinality(Upto(q)) \in Nat /\ Cardinality(Upto(r)) \in Nat
    BY <2>2, <2>3, FS_CardinalityType
  <2>5. Cardinality(Upto(r)) <= Limit
    BY DEF Batch
  <2>6. Cardinality(Upto(q)) <= Limit
    BY <2>3, <2>4, <2>5, StreamAssumption
  <2> QED BY <2>6 DEF Batch
<1>4. ASSUME Batch(s) # {}
      PROVE  /\ \E r \in Batch(s) : \A q \in Batch(s) : q.id <= r.id
             /\ \E r \in Batch(s) : \A q \in Batch(s) : r.id <= q.id
  <2> DEFINE Ids == {r.id : r \in Batch(s)}
  <2>1. Ids \subseteq Nat /\ Ids # {} /\ lastId \in Nat /\ \A n \in Ids : n <= lastId
    BY <1>1, <1>2, <1>4 DEF TypeOK
  <2>2. \E m \in Ids : \A n \in Ids : n <= m
    BY <2>1, Greatest
  <2>3. \E m \in Ids : \A n \in Ids : m <= n
    BY <2>1, Least
  <2> QED BY <2>2, <2>3
<1> QED BY <1>1, <1>3, <1>4 DEF First, Last

(* While nothing was trimmed, a read sees no gap. *)
LEMMA NoGap ==
  ASSUME TypeOK, RowInv, Ordered, trimmed = {}, NEW s \in Subscribers, ConnectionInv(s),
         Batch(s) # {}
  PROVE  ~LeadingGap(s, Batch(s)) /\ ~InteriorGap(Batch(s))
<1> DEFINE first == First(Batch(s))
<1>1. /\ Batch(s) \subseteq Pending(s) /\ Pending(s) \subseteq Rows /\ Rows \subseteq published
      /\ first \in Batch(s)
      /\ \A q \in Batch(s) : first.id <= q.id
      /\ \A r \in Batch(s), q \in Pending(s) : q.id <= r.id => q \in Batch(s)
  BY BatchFacts
<1>2. \A r \in published : r.id \in Nat /\ r.sequence \in Nat /\ r \in Rows
  BY DEF TypeOK, RowType, Rows
<1>3. \A r, q \in published : r.sequence < q.sequence => r.id < q.id
  BY <1>2 DEF Ordered, RowInv
<1>4. ~LeadingGap(s, Batch(s))
  <2> SUFFICES ASSUME lastSequence[s] > 0, first.sequence # lastSequence[s] + 1  PROVE FALSE
    BY DEF LeadingGap
  <2>1. PICK c \in published : c.id = cursor[s] /\ c.sequence = lastSequence[s]
    BY DEF ConnectionInv
  <2>2. c.id < first.id
    BY <1>1, <2>1 DEF Pending
  <2>3. c.sequence + 1 < first.sequence /\ c.sequence + 1 \in Nat
    BY <1>1, <1>2, <2>1, <2>2 DEF Ordered
  <2>4. PICK p \in Rows : p.sequence = c.sequence + 1
    BY <1>1, <1>2, <2>3 DEF Ordered
  <2>5. c.id < p.id /\ p.id < first.id
    BY <1>1, <1>2, <1>3, <2>3, <2>4
  <2>6. p \in Pending(s)
    BY <2>1, <2>4, <2>5 DEF Pending
  <2> QED BY <1>1, <1>2, <2>4, <2>5, <2>6
<1>5. ~InteriorGap(Batch(s))
  <2> SUFFICES ASSUME NEW r \in Batch(s), r # first
               PROVE  \E q \in Batch(s) : q.id < r.id /\ q.sequence + 1 = r.sequence
    BY DEF InteriorGap
  <2>1. first.id < r.id /\ first.sequence < r.sequence
    BY <1>1, <1>2 DEF RowInv, Ordered
  <2>2. CASE first.sequence + 1 = r.sequence
    BY <1>1, <2>1, <2>2
  <2>3. CASE first.sequence + 1 # r.sequence
    <3>1. first.sequence < r.sequence - 1 /\ r.sequence - 1 < r.sequence /\ r.sequence - 1 \in Nat
      BY <1>1, <1>2, <2>1, <2>3
    <3>2. PICK q \in Rows : q.sequence = r.sequence - 1
      BY <1>1, <3>1 DEF Ordered
    <3>3. first.id < q.id /\ q.id < r.id
      BY <1>1, <1>2, <1>3, <3>1, <3>2
    <3>4. q \in Pending(s)
      <4>1. cursor[s] < first.id /\ cursor[s] \in Nat
        BY <1>1 DEF Pending, TypeOK
      <4> QED BY <1>1, <1>2, <3>2, <3>3, <4>1 DEF Pending
    <3> QED BY <1>1, <1>2, <3>1, <3>2, <3>3, <3>4
  <2> QED BY <2>2, <2>3
<1> QED BY <1>4, <1>5

-----------------------------------------------------------------------------
(* Steps. *)

(* publishStreamEvent keeps the order of the table, and adds at most one row, at its end. *)
LEMMA PublishKeeps ==
  ASSUME TypeOK, RowInv, Ordered, NEW key \in Keys, Publish(key)
  PROVE  /\ RowInv' /\ Ordered'
         /\ published' \subseteq RowType /\ lastId' \in Nat /\ trimmed' = trimmed
         /\ lastId <= lastId' /\ published \subseteq published'
         /\ \A r \in published' \ published : r.id > lastId /\ r.key = key
         /\ \E r \in Rows' : r.key = key
<1>1. CASE \E r \in Rows : r.key = key
  <2>1. UNCHANGED <<published, trimmed, lastId>>
    BY <1>1 DEF Publish
  <2>2. Rows' = Rows
    BY <2>1 DEF Rows
  <2> QED BY <1>1, <2>1, <2>2 DEF RowInv, Ordered, TypeOK
<1>2. CASE ~\E r \in Rows : r.key = key
  <2> DEFINE new == [id |-> lastId + 1, sequence |-> NextSequence, key |-> key]
  <2>1. published' = published \cup {new} /\ lastId' = lastId + 1 /\ trimmed' = trimmed
    BY <1>2 DEF Publish, NextId
  <2>2. Rows \subseteq published /\ lastId \in Nat
        /\ \A r \in published : r.id \in Nat /\ r.sequence \in Nat /\ r.key \in Keys
    BY DEF Rows, TypeOK, RowType
  <2>3. /\ NextSequence \in Nat /\ 1 <= NextSequence /\ NextSequence <= lastId + 1
        /\ \A r \in Rows : r.sequence < NextSequence
        /\ Rows # {} => \E r \in Rows : r.sequence + 1 = NextSequence
    <3>1. CASE Rows = {}
      BY <2>2, <3>1 DEF NextSequence
    <3>2. CASE Rows # {}
      <4> DEFINE Sequences == {r.sequence : r \in Rows}
                 top == CHOOSE n \in Sequences : \A r \in Rows : r.sequence <= n
      <4>1. Sequences \subseteq Nat /\ Sequences # {} /\ \A n \in Sequences : n <= lastId
        BY <2>2, <3>2 DEF RowInv
      <4>2. \E n \in Sequences : \A q \in Sequences : q <= n
        BY <2>2, <4>1, Greatest
      <4>3. \E n \in Sequences : \A r \in Rows : r.sequence <= n
        BY <4>2
      <4>4. top \in Sequences /\ \A r \in Rows : r.sequence <= top
        BY <4>3
      <4>5. NextSequence = 1 + top
        BY <3>2 DEF NextSequence
      <4>6. PICK r \in Rows : r.sequence = top
        BY <4>4
      <4>7. top \in Nat /\ top <= lastId
        BY <4>1, <4>4
      <4> HIDE DEF top, Sequences
      <4> QED BY <2>2, <4>4, <4>5, <4>6, <4>7
    <3> QED BY <3>1, <3>2
  <2>4. new \in RowType /\ published' \subseteq RowType
    BY <2>1, <2>2, <2>3 DEF RowType, TypeOK
  <2>5. RowInv'
    <3>1. IsFiniteSet(published')
      BY <2>1, FS_AddElement DEF RowInv
    <3>2. \A r \in published' : 1 <= r.sequence /\ r.sequence <= r.id /\ r.id <= lastId'
      BY <2>1, <2>2, <2>3 DEF RowInv
    <3>3. \A r, q \in published' : r.id = q.id => r = q
      BY <2>1, <2>2 DEF RowInv
    <3>4. \A i \in trimmed' : i <= lastId'
      BY <2>1, <2>2 DEF RowInv, TypeOK
    <3> QED BY <3>1, <3>2, <3>3, <3>4 DEF RowInv
  <2>6. Rows' = Rows \cup ({new} \cap Rows') /\ \A r \in Rows : r.id < new.id
    BY <2>1, <2>2 DEF Rows, RowInv
  <2>7. Ordered'
    <3>1. ASSUME NEW r \in Rows', NEW q \in Rows', r.id < q.id  PROVE r.sequence < q.sequence
      BY <2>2, <2>3, <2>6, <3>1 DEF Ordered
    <3>2. ASSUME NEW r \in Rows', NEW q \in Rows', NEW n \in Nat, r.sequence < n, n < q.sequence
          PROVE  \E p \in Rows' : p.sequence = n
      <4>1. r \in Rows
        BY <2>2, <2>3, <2>6, <3>2
      <4>2. CASE q \in Rows
        BY <2>6, <3>2, <4>1, <4>2 DEF Ordered
      <4>3. CASE q = new
        <5>1. PICK t \in Rows : t.sequence + 1 = NextSequence
          BY <2>3, <4>1
        <5>2. n = t.sequence \/ n < t.sequence
          BY <2>2, <2>3, <3>2, <4>3, <5>1
        <5> QED BY <2>6, <3>2, <4>1, <5>1, <5>2 DEF Ordered
      <4> QED BY <2>6, <4>2, <4>3
    <3> QED BY <3>1, <3>2 DEF Ordered
  <2>8. new \in Rows'
    BY <2>1, <2>2 DEF Rows, RowInv
  <2> QED BY <2>1, <2>2, <2>4, <2>5, <2>7, <2>8
<1> QED BY <1>1, <1>2

(* What a publication does to subscribers that are not read to: nothing. *)
LEMMA PublishedKeeps ==
  ASSUME BusInv, NEW key \in Keys, Publish(key), UNCHANGED <<status, outcome, route, client>>
  PROVE  ClientInv' /\ LossOnlyByTrim' /\ GapsAreReal'
<1>0. /\ trimmed' = trimmed /\ lastId <= lastId' /\ published \subseteq published'
      /\ lastId \in Nat /\ lastId' \in Nat
      /\ \A r \in published' \ published : r.id > lastId /\ r.id \in Nat
  BY PublishKeeps DEF BusInv, TypeOK, RowType
<1>1. \A s \in Subscribers : cursor[s] \in Nat /\ cursor[s] <= lastId
  BY DEF BusInv, TypeOK, ClientInv, ConnectionInv
<1>2. ClientInv'
  BY <1>0, <1>1 DEF BusInv, ClientInv, ConnectionInv, route, client
<1>3. LossOnlyByTrim'
  BY <1>0, <1>1 DEF BusInv, LossOnlyByTrim, route, client
<1>4. GapsAreReal'
  BY <1>0 DEF BusInv, GapsAreReal, client
<1> QED BY <1>2, <1>3, <1>4

(* The run publishes, in turn or late; so do others. *)
LEMMA RunStepKeeps ==
  ASSUME BusInv, RunStep
  PROVE  BusInv'
<1>1. CASE OtherRunPublishes
  <2>0. /\ lastId \in Nat /\ lastId' = lastId + 1
        /\ UNCHANGED <<published, trimmed, producer, completion, route, client>>
    BY <1>1 DEF OtherRunPublishes, BusInv, TypeOK
  <2>1. TypeOK'
    BY <2>0 DEF BusInv, TypeOK, producer, completion, route, client
  <2>2. RowInv'
    BY <2>0 DEF BusInv, TypeOK, RowInv, RowType
  <2>3. Rows' = Rows
    BY <2>0 DEF Rows
  <2>4. Ordered' /\ WriterInv'
    BY <2>0, <2>3 DEF BusInv, Ordered, WriterInv, completion
  <2>5. ClientInv'
    BY <2>0 DEF BusInv, TypeOK, ClientInv, ConnectionInv, completion, route, client
  <2>6. LossOnlyByTrim' /\ GapsAreReal'
    BY <2>0 DEF BusInv, LossOnlyByTrim, GapsAreReal, route, client
  <2> QED BY <2>1, <2>2, <2>4, <2>5, <2>6 DEF BusInv
<1>2. ASSUME NEW key \in 1..MaxEvents, Publish(key), UNCHANGED <<completion, route, client>>,
             produced' \in 0..MaxEvents, late' \in 0..MaxLate
      PROVE  BusInv'
  <2>0. key \in Keys /\ key # TerminalKey /\ TypeOK /\ RowInv /\ Ordered
    BY <1>2, StreamAssumption DEF Keys, TerminalKey, BusInv
  <2>1. /\ RowInv' /\ Ordered' /\ published' \subseteq RowType /\ lastId' \in Nat
        /\ trimmed' = trimmed /\ published \subseteq published'
        /\ \A r \in published' \ published : r.key = key
    BY <1>2, <2>0, PublishKeeps
  <2>2. TypeOK'
    BY <1>2, <2>1 DEF BusInv, TypeOK, completion, route, client
  <2>3. WriterInv'
    BY <1>2, <2>0, <2>1 DEF BusInv, WriterInv, Rows, completion
  <2>4. ClientInv' /\ LossOnlyByTrim' /\ GapsAreReal'
    BY <1>2, <2>0, PublishedKeeps DEF completion
  <2> QED BY <2>1, <2>2, <2>3, <2>4 DEF BusInv
<1>3. CASE PublishEvent
  <2>1. /\ produced + 1 \in 1..MaxEvents /\ produced' = produced + 1 /\ late' \in 0..MaxLate
        /\ produced' \in 0..MaxEvents
        /\ Publish(produced + 1) /\ UNCHANGED <<completion, route, client>>
    BY <1>3, StreamAssumption DEF PublishEvent, BusInv, TypeOK
  <2> QED BY <1>2, <2>1
<1>4. ASSUME NEW key \in 1..MaxEvents, PublishLate(key)  PROVE BusInv'
  <2>1. /\ late' \in 0..MaxLate /\ produced' \in 0..MaxEvents
        /\ Publish(key) /\ UNCHANGED <<completion, route, client>>
    BY <1>4, StreamAssumption DEF PublishLate, BusInv, TypeOK
  <2> QED BY <1>2, <2>1
<1> QED BY <1>1, <1>3, <1>4 DEF RunStep

(* recordRunCompleted: a step of it that leaves the table alone, ... *)
LEMMA WriterKeeps ==
  ASSUME BusInv,
         CompletionBegins \/ WriteStatus \/ WriteTranscript \/ ListRows \/ RetryCompletion
  PROVE  BusInv'
<1>0. UNCHANGED <<bus, producer, outcome, route, client>> /\ Rows' = Rows
  BY DEF CompletionBegins, WriteStatus, WriteTranscript, ListRows, RetryCompletion, bus, Rows
<1>1. status' \in {status, outcome} /\ transcript' \in {transcript, TRUE}
  BY DEF CompletionBegins, WriteStatus, WriteTranscript, ListRows, RetryCompletion
<1>2. upTo' \in Nat
  <2>1. CASE ListRows
    <3> DEFINE Ids == {r.id : r \in Rows}
    <3>1. Ids # {} /\ Ids \subseteq Nat /\ lastId \in Nat /\ \A n \in Ids : n <= lastId
      BY <2>1 DEF ListRows, BusInv, WriterInv, TypeOK, RowType, Rows, RowInv
    <3>2. \E m \in Ids : \A n \in Ids : n <= m
      BY <3>1, Greatest
    <3>3. HighestId(Rows) \in Ids
      BY <3>2 DEF HighestId
    <3> QED BY <2>1, <3>1, <3>3 DEF ListRows
  <2>2. CASE ~ListRows
    BY <2>2 DEF CompletionBegins, WriteStatus, WriteTranscript, RetryCompletion, BusInv, TypeOK
  <2> QED BY <2>1, <2>2
<1>3. TypeOK'
  <2>1. attempts' \in 0..MaxAttempts
    BY StreamAssumption DEF CompletionBegins, WriteStatus, WriteTranscript, ListRows,
       RetryCompletion, AttemptLeft, BusInv, TypeOK
  <2>2. writer' \in {"idle", "status", "transcript", "publish", "list", "delete", "done"}
    BY DEF CompletionBegins, WriteStatus, WriteTranscript, ListRows, RetryCompletion
  <2> QED BY <1>0, <1>1, <1>2, <2>1, <2>2 DEF BusInv, TypeOK, bus, producer, route, client
<1>4. RowInv' /\ Ordered'
  BY <1>0 DEF BusInv, RowInv, Ordered, bus
<1>5. WriterInv'
  BY <1>0, <1>1 DEF BusInv, TypeOK, WriterInv, bus, CompletionBegins, WriteStatus,
     WriteTranscript, ListRows, RetryCompletion
<1>6. ClientInv'
  BY <1>0, <1>1 DEF BusInv, ClientInv, ConnectionInv, bus, route, client
<1>7. LossOnlyByTrim' /\ GapsAreReal'
  BY <1>0 DEF BusInv, LossOnlyByTrim, GapsAreReal, bus, route, client
<1> QED BY <1>3, <1>4, <1>5, <1>6, <1>7 DEF BusInv

(* ... the terminal event, ... *)
LEMMA PublishTerminalKeeps ==
  ASSUME BusInv, PublishTerminal
  PROVE  BusInv'
<1>0. /\ TerminalKey \in Keys /\ TypeOK /\ RowInv /\ Ordered
      /\ Publish(TerminalKey) /\ transcript
      /\ UNCHANGED <<producer, status, transcript, outcome, attempts, upTo, route, client>>
      /\ writer' \in {"list", "done"}
  BY StreamAssumption DEF PublishTerminal, Keys, TerminalKey, BusInv, WriterInv
<1>1. /\ RowInv' /\ Ordered' /\ published' \subseteq RowType /\ lastId' \in Nat
      /\ trimmed' = trimmed /\ \E r \in Rows' : r.key = TerminalKey
  BY <1>0, PublishKeeps
<1>2. TypeOK'
  BY <1>0, <1>1 DEF TypeOK, producer, route, client
<1>3. WriterInv'
  BY <1>0, <1>1 DEF BusInv, WriterInv
<1>4. ClientInv' /\ LossOnlyByTrim' /\ GapsAreReal'
  BY <1>0, PublishedKeeps
<1> QED BY <1>1, <1>2, <1>3, <1>4 DEF BusInv

(* ... and the trim, which deletes a beginning of the table. *)
LEMMA DeleteRowsKeeps ==
  ASSUME BusInv, DeleteRows
  PROVE  BusInv'
<1>0. /\ trimmed' = trimmed \cup {r.id : r \in {q \in Rows : q.id <= upTo}}
      /\ writer = "delete" /\ writer' = "done"
      /\ UNCHANGED <<published, lastId, producer, status, transcript, outcome, attempts,
                     upTo, route, client>>
  BY DEF DeleteRows
<1>1. \A r \in published : r.id \in Nat /\ r.sequence \in Nat
  BY DEF BusInv, TypeOK, RowType
<1>2. Rows' = {r \in Rows : ~(r.id <= upTo)} /\ Rows \subseteq published
  BY <1>0 DEF Rows, BusInv, RowInv
<1>3. TypeOK'
  BY <1>0, <1>1, <1>2 DEF BusInv, TypeOK, producer, route, client
<1>4. RowInv'
  BY <1>0, <1>2 DEF BusInv, RowInv
<1>5. Ordered'
  <2>1. ASSUME NEW r \in Rows', NEW q \in Rows', r.id < q.id  PROVE r.sequence < q.sequence
    BY <1>2, <2>1 DEF BusInv, Ordered
  <2>2. ASSUME NEW r \in Rows', NEW q \in Rows', NEW n \in Nat, r.sequence < n, n < q.sequence
        PROVE  \E p \in Rows' : p.sequence = n
    <3>1. PICK p \in Rows : p.sequence = n
      BY <1>2, <2>2 DEF BusInv, Ordered
    <3>2. r.id < p.id
      BY <1>1, <1>2, <2>2, <3>1 DEF BusInv, Ordered, RowInv
    <3>3. ~(p.id <= upTo)
      BY <1>1, <1>2, <3>2 DEF BusInv, TypeOK
    <3> QED BY <1>2, <3>1, <3>3
  <2> QED BY <2>1, <2>2 DEF Ordered
<1>6. WriterInv'
  BY <1>0 DEF BusInv, WriterInv
<1>7. ClientInv'
  BY <1>0 DEF BusInv, ClientInv, ConnectionInv, route, client
<1>8. LossOnlyByTrim' /\ GapsAreReal'
  BY <1>0 DEF BusInv, LossOnlyByTrim, GapsAreReal, route, client
<1> QED BY <1>3, <1>4, <1>5, <1>6, <1>7, <1>8 DEF BusInv

(* What a read sends takes the subscriber further and leaves nothing out. *)
LEMMA DeliverFacts ==
  ASSUME BusInv, NEW s \in Subscribers, Deliver(s), UNCHANGED bus
  PROVE  /\ cursor' \in [Subscribers -> Nat] /\ lastSequence' \in [Subscribers -> Nat]
         /\ received' \in [Subscribers -> SUBSET Nat] /\ noticed' \in [Subscribers -> BOOLEAN]
         /\ \A t \in Subscribers : t # s =>
              cursor'[t] = cursor[t] /\ lastSequence'[t] = lastSequence[t]
         /\ cursor'[s] <= lastId
         /\ trimmed = {} /\ lastSequence'[s] > 0 =>
              \E r \in published : r.id = cursor'[s] /\ r.sequence = lastSequence'[s]
         /\ LossOnlyByTrim' /\ GapsAreReal'
<1> DEFINE batch == Batch(s)
<1>0. /\ TypeOK /\ RowInv /\ Ordered /\ ConnectionInv(s)
      /\ published' = published /\ trimmed' = trimmed
  BY DEF BusInv, ClientInv, bus
<1>1. CASE batch = {}
  <2>1. UNCHANGED <<cursor, lastSequence, received, noticed>>
    BY <1>1 DEF Deliver
  <2> QED BY <1>0, <2>1 DEF BusInv, TypeOK, ConnectionInv, LossOnlyByTrim, GapsAreReal
<1>2. CASE batch # {}
  <2>1. /\ cursor' = [cursor EXCEPT ![s] = Last(batch).id]
        /\ lastSequence' = [lastSequence EXCEPT ![s] = Last(batch).sequence]
        /\ received' = [received EXCEPT ![s] = @ \cup {r.id : r \in batch}]
        /\ noticed' = [noticed EXCEPT ![s] = @ \/ LeadingGap(s, batch) \/ InteriorGap(batch)]
    BY <1>2 DEF Deliver
  <2>2. /\ batch \subseteq Pending(s) /\ Pending(s) \subseteq Rows /\ Rows \subseteq published
        /\ \A r \in batch, q \in Pending(s) : q.id <= r.id => q \in batch
        /\ Last(batch) \in batch
    BY <1>0, <1>2, BatchFacts
  <2>3. \A r \in published : r.id \in Nat /\ r.sequence \in Nat /\ r.id <= lastId
    BY <1>0 DEF TypeOK, RowType, RowInv
  <2>4. /\ cursor' \in [Subscribers -> Nat] /\ lastSequence' \in [Subscribers -> Nat]
        /\ received' \in [Subscribers -> SUBSET Nat]
    BY <1>0, <2>1, <2>2, <2>3 DEF TypeOK
  <2>5. noticed' \in [Subscribers -> BOOLEAN]
    BY <1>0, <2>1 DEF TypeOK
  <2>6. cursor'[s] = Last(batch).id /\ lastSequence'[s] = Last(batch).sequence
    BY <1>0, <2>1 DEF TypeOK
  <2>7. LossOnlyByTrim'
    <3> SUFFICES ASSUME NEW t \in Subscribers, NEW r \in published,
                        r.id <= cursor'[t], r.id \notin trimmed
                 PROVE  r.id \in received'[t]
      BY <1>0 DEF LossOnlyByTrim
    <3>1. CASE t # s \/ r.id <= cursor[s]
      BY <1>0, <2>1, <3>1 DEF BusInv, LossOnlyByTrim, TypeOK
    <3>2. CASE t = s /\ ~(r.id <= cursor[s])
      <4>1. r \in Pending(s)
        BY <1>0, <2>3, <3>2 DEF Pending, Rows, TypeOK
      <4>2. r \in batch
        BY <2>2, <2>6, <3>2, <4>1
      <4> QED BY <1>0, <2>1, <3>2, <4>2 DEF TypeOK
    <3> QED BY <3>1, <3>2
  <2>8. GapsAreReal'
    <3> SUFFICES ASSUME NEW t \in Subscribers, noticed'[t], trimmed = {}  PROVE FALSE
      BY <1>0 DEF GapsAreReal
    <3>1. ~LeadingGap(s, batch) /\ ~InteriorGap(batch)
      BY <1>0, <1>2, NoGap
    <3>2. noticed'[t] = noticed[t]
      BY <1>0, <2>1, <3>1 DEF TypeOK
    <3> QED BY <3>2 DEF BusInv, GapsAreReal
  <2> QED BY <1>0, <2>1, <2>2, <2>3, <2>4, <2>5, <2>6, <2>7, <2>8 DEF TypeOK
<1> QED BY <1>1, <1>2

-----------------------------------------------------------------------------
(* The route and its clients. *)

(* The status of a terminal event that is read is the one the run ended with. *)
LEMMA EndedFacts ==
  ASSUME NEW s \in Subscribers
  PROVE  Ended(s) \in {{}, {outcome}}
BY DEF Ended

(* No step of the route or a client touches the table or the run. *)
LEMMA ReadingLeaves ==
  ASSUME BusInv, UNCHANGED <<bus, producer, completion>>
  PROVE  /\ RowInv' /\ Ordered' /\ WriterInv'
         /\ published' \subseteq RowType /\ trimmed' \subseteq Nat /\ lastId' \in Nat
         /\ produced' \in 0..MaxEvents /\ late' \in 0..MaxLate
         /\ status' \in Outcomes \cup {"running"} /\ transcript' \in BOOLEAN
         /\ writer' \in {"idle", "status", "transcript", "publish", "list", "delete", "done"}
         /\ outcome' \in Outcomes /\ attempts' \in 0..MaxAttempts /\ upTo' \in Nat
<1>1. Rows' = Rows
  BY DEF Rows, bus
<1>2. RowInv' /\ Ordered' /\ WriterInv'
  BY <1>1 DEF BusInv, RowInv, Ordered, WriterInv, bus, completion
<1> QED BY <1>2 DEF BusInv, TypeOK, bus, producer, completion

(* A read, with what it says of the end: Poll, and FinalDrain once the run is known to
   have ended, with the frame made from the run record. *)
LEMMA ReadKeeps ==
  ASSUME BusInv, NEW s \in Subscribers, Deliver(s), UNCHANGED <<bus, producer, completion>>,
         NEW next \in {"checking", "closed"}, NEW told \in SUBSET {outcome},
         next = "closed" => status = outcome /\ (told = {} => seen[s]),
         Ended(s) \subseteq told,
         seen' = [seen EXCEPT ![s] = @ \/ Ended(s) # {}],
         ends' = [ends EXCEPT ![s] = @ \cup told],
         phase' = [phase EXCEPT ![s] = next]
  PROVE  BusInv'
<1>1. /\ cursor' \in [Subscribers -> Nat] /\ lastSequence' \in [Subscribers -> Nat]
      /\ received' \in [Subscribers -> SUBSET Nat] /\ noticed' \in [Subscribers -> BOOLEAN]
      /\ \A t \in Subscribers : t # s =>
           cursor'[t] = cursor[t] /\ lastSequence'[t] = lastSequence[t]
      /\ cursor'[s] <= lastId
      /\ trimmed = {} /\ lastSequence'[s] > 0 =>
           \E r \in published : r.id = cursor'[s] /\ r.sequence = lastSequence'[s]
      /\ LossOnlyByTrim' /\ GapsAreReal'
  BY DeliverFacts
<1>2. TypeOK /\ outcome \in Outcomes /\ Ended(s) \in {{}, {outcome}}
  BY EndedFacts DEF BusInv, TypeOK
<1>3. /\ seen' \in [Subscribers -> BOOLEAN] /\ ends' \in [Subscribers -> SUBSET Outcomes]
      /\ phase' \in [Subscribers -> {"off", "polling", "checking", "draining", "closed"}]
  BY <1>2 DEF TypeOK
<1>4. TypeOK'
  BY <1>1, <1>3, ReadingLeaves DEF TypeOK
<1>5. ClientInv'
  <2> SUFFICES ASSUME NEW t \in Subscribers  PROVE ConnectionInv(t)'
    BY DEF ClientInv
  <2>1. CASE t # s
    <3>1. /\ cursor'[t] = cursor[t] /\ lastSequence'[t] = lastSequence[t] /\ seen'[t] = seen[t]
          /\ ends'[t] = ends[t] /\ phase'[t] = phase[t]
      BY <1>1, <1>2, <2>1 DEF TypeOK
    <3> QED BY <3>1 DEF BusInv, ClientInv, ConnectionInv, bus, completion
  <2>2. CASE t = s
    <3>1. /\ seen'[s] = (seen[s] \/ Ended(s) # {})
          /\ ends'[s] = ends[s] \cup told /\ phase'[s] = next
      BY <1>2 DEF TypeOK
    <3>2. ConnectionInv(s)
      BY DEF BusInv, ClientInv
    <3>3. ends'[s] \subseteq {outcome}
      BY <3>1, <3>2 DEF ConnectionInv
    <3>4. seen'[s] => outcome \in ends'[s]
      BY <1>2, <3>1, <3>2 DEF ConnectionInv
    <3>5. next = "closed" => ends'[s] = {outcome}
      BY <3>1, <3>2, <3>3 DEF ConnectionInv
    <3>6. next = "checking" => phase'[s] \notin {"draining", "closed"}
      BY <3>1
    <3> QED BY <1>1, <2>2, <3>1, <3>3, <3>4, <3>5, <3>6 DEF ConnectionInv, bus, completion
  <2> QED BY <2>1, <2>2
<1> QED BY <1>1, <1>4, <1>5, ReadingLeaves DEF BusInv

(* The steps of the route. *)
LEMMA RouteStepKeeps ==
  ASSUME BusInv, NEW s \in Subscribers, RouteStep(s)
  PROVE  BusInv'
<1>0. /\ Ended(s) \in {{}, {outcome}}
      /\ phase \in [Subscribers -> {"off", "polling", "checking", "draining", "closed"}]
  BY EndedFacts DEF BusInv, TypeOK
<1>1. CASE Poll(s)
  <2>1. /\ Deliver(s) /\ UNCHANGED <<bus, producer, completion>>
        /\ seen' = [seen EXCEPT ![s] = @ \/ Ended(s) # {}]
        /\ ends' = [ends EXCEPT ![s] = @ \cup Ended(s)]
        /\ phase' = [phase EXCEPT ![s] = "checking"]
    BY <1>1 DEF Poll
  <2> QED BY <1>0, <2>1, ReadKeeps
<1>2. CASE FinalDrain(s)
  <2> DEFINE told == Ended(s) \cup Recovery(s)
  <2>1. /\ Deliver(s) /\ UNCHANGED <<bus, producer, completion>>
        /\ seen' = [seen EXCEPT ![s] = @ \/ Ended(s) # {}]
        /\ ends' = [ends EXCEPT ![s] = @ \cup told]
        /\ phase' = [phase EXCEPT ![s] = "closed"]
    BY <1>2 DEF FinalDrain
  <2>2. status = outcome
    BY <1>2 DEF FinalDrain, BusInv, ClientInv, ConnectionInv
  <2>3. told \in SUBSET {outcome} /\ (told = {} => seen[s]) /\ Ended(s) \subseteq told
    BY <1>0, <2>2 DEF Recovery
  <2> HIDE DEF told
  <2> QED BY <2>1, <2>2, <2>3, ReadKeeps
<1>3. CASE CheckStatus(s)
  <2>1. /\ phase' = [phase EXCEPT ![s] = IF RunIsTerminal(s) THEN "draining" ELSE "polling"]
        /\ UNCHANGED <<bus, producer, completion, cursor, lastSequence, seen, client>>
    BY <1>3 DEF CheckStatus
  <2>2. RunIsTerminal(s) => status = outcome
    BY DEF RunIsTerminal, BusInv, WriterInv, Outcomes
  <2>3. TypeOK'
    BY <1>0, <2>1, ReadingLeaves DEF BusInv, TypeOK, client
  <2>4. ClientInv'
    BY <1>0, <2>1, <2>2 DEF BusInv, ClientInv, ConnectionInv, bus, completion, client
  <2>5. LossOnlyByTrim' /\ GapsAreReal'
    BY <2>1 DEF BusInv, LossOnlyByTrim, GapsAreReal, bus, client
  <2> QED BY <2>1, <2>3, <2>4, <2>5, ReadingLeaves DEF BusInv
<1> QED BY <1>1, <1>2, <1>3 DEF RouteStep

(* The steps of a client, which come back with the position they had or with none. *)
LEMMA ClientStepKeeps ==
  ASSUME BusInv, NEW s \in Subscribers, ClientStep(s)
  PROVE  BusInv'
<1>1. CASE Disconnect(s)
  <2>1. /\ phase' = [phase EXCEPT ![s] = "off"]
        /\ UNCHANGED <<bus, producer, completion, cursor, lastSequence, seen, client>>
    BY <1>1 DEF Disconnect
  <2>2. TypeOK'
    BY <2>1, ReadingLeaves DEF BusInv, TypeOK, client
  <2>3. ClientInv'
    BY <2>1 DEF BusInv, TypeOK, ClientInv, ConnectionInv, bus, completion, client
  <2>4. LossOnlyByTrim' /\ GapsAreReal'
    BY <2>1 DEF BusInv, LossOnlyByTrim, GapsAreReal, bus, client
  <2> QED BY <2>1, <2>2, <2>3, <2>4, ReadingLeaves DEF BusInv
<1>2. ASSUME NEW resume \in BOOLEAN, Connect(s, resume)  PROVE BusInv'
  <2>1. /\ phase' = [phase EXCEPT ![s] = "polling"]
        /\ cursor' = [cursor EXCEPT ![s] = IF resume THEN @ ELSE 0]
        /\ received' = [received EXCEPT ![s] = IF resume THEN @ ELSE {}]
        /\ lastSequence' = [lastSequence EXCEPT ![s] = 0]
        /\ seen' = [seen EXCEPT ![s] = FALSE]
        /\ noticed' = [noticed EXCEPT ![s] = FALSE]
        /\ ends' = [ends EXCEPT ![s] = {}]
        /\ UNCHANGED <<bus, producer, completion>>
    BY <1>2 DEF Connect
  <2>2. TypeOK'
    BY <2>1, ReadingLeaves DEF BusInv, TypeOK
  <2>3. /\ lastSequence'[s] = 0 /\ seen'[s] = FALSE /\ ends'[s] = {} /\ phase'[s] = "polling"
        /\ noticed'[s] = FALSE /\ cursor'[s] \in {cursor[s], 0}
        /\ \A t \in Subscribers : t # s =>
             /\ cursor'[t] = cursor[t] /\ lastSequence'[t] = lastSequence[t]
             /\ seen'[t] = seen[t] /\ ends'[t] = ends[t] /\ phase'[t] = phase[t]
             /\ noticed'[t] = noticed[t]
    BY <2>1 DEF BusInv, TypeOK
  <2>4. ClientInv'
    <3> SUFFICES ASSUME NEW t \in Subscribers  PROVE ConnectionInv(t)'
      BY DEF ClientInv
    <3>1. CASE t = s
      <4>1. cursor'[s] <= lastId'
        BY <2>1, <2>3 DEF BusInv, TypeOK, ClientInv, ConnectionInv, bus
      <4> QED BY <2>3, <3>1, <4>1 DEF ConnectionInv
    <3>2. CASE t # s
      BY <2>1, <2>3, <3>2 DEF BusInv, ClientInv, ConnectionInv, bus, completion
    <3> QED BY <3>1, <3>2
  <2>5. LossOnlyByTrim'
    <3> SUFFICES ASSUME NEW t \in Subscribers, NEW r \in published,
                        r.id <= cursor'[t], r.id \notin trimmed
                 PROVE  r.id \in received'[t]
      BY <2>1 DEF LossOnlyByTrim, bus
    <3>1. CASE t # s \/ resume
      <4>1. cursor'[t] = cursor[t] /\ received'[t] = received[t]
        BY <2>1, <3>1 DEF BusInv, TypeOK
      <4> QED BY <4>1 DEF BusInv, LossOnlyByTrim
    <3>2. CASE t = s /\ ~resume
      <4>1. cursor'[t] = 0
        BY <2>1, <3>2 DEF BusInv, TypeOK
      <4>2. r.id \in Nat /\ 1 <= r.id
        BY DEF BusInv, TypeOK, RowType, RowInv
      <4> QED BY <4>1, <4>2
    <3> QED BY <3>1, <3>2
  <2>6. GapsAreReal'
    BY <2>1, <2>3 DEF BusInv, GapsAreReal, bus
  <2> QED BY <2>1, <2>2, <2>4, <2>5, <2>6, ReadingLeaves DEF BusInv
<1> QED BY <1>1, <1>2 DEF ClientStep

(* No step at all. *)
LEMMA StutterKeeps ==
  ASSUME BusInv, UNCHANGED vars
  PROVE  BusInv'
<1>1. TypeOK'
  BY DEF BusInv, TypeOK, vars, bus, producer, completion, route, client
<1>2. ClientInv'
  BY DEF BusInv, ClientInv, ConnectionInv, vars, bus, completion, route, client
<1>3. LossOnlyByTrim' /\ GapsAreReal'
  BY DEF BusInv, LossOnlyByTrim, GapsAreReal, vars, bus, route, client
<1> QED BY <1>1, <1>2, <1>3, ReadingLeaves DEF BusInv, vars

(* An empty table and no client. *)
LEMMA InitIsGood == Init => BusInv
<1> SUFFICES ASSUME Init  PROVE BusInv
  OBVIOUS
<1>1. TypeOK
  <2>1. /\ published \subseteq RowType /\ trimmed \subseteq Nat /\ lastId \in Nat
        /\ produced \in 0..MaxEvents /\ late \in 0..MaxLate /\ attempts \in 0..MaxAttempts
        /\ status \in Outcomes \cup {"running"} /\ outcome \in Outcomes /\ upTo \in Nat
        /\ writer \in {"idle", "status", "transcript", "publish", "list", "delete", "done"}
    BY StreamAssumption DEF Init
  <2>2. /\ phase \in [Subscribers -> {"off", "polling", "checking", "draining", "closed"}]
        /\ cursor \in [Subscribers -> Nat] /\ lastSequence \in [Subscribers -> Nat]
    BY DEF Init
  <2>3. /\ seen \in [Subscribers -> BOOLEAN] /\ noticed \in [Subscribers -> BOOLEAN]
        /\ transcript \in BOOLEAN
    BY Zenon DEF Init
  <2>4. /\ received \in [Subscribers -> SUBSET Nat] /\ ends \in [Subscribers -> SUBSET Outcomes]
    BY DEF Init
  <2> QED BY <2>1, <2>2, <2>3, <2>4 DEF TypeOK
<1>2. RowInv /\ Ordered
  BY FS_EmptySet DEF Init, RowInv, Ordered, Rows
<1>3. WriterInv
  BY DEF Init, WriterInv
<1>4. ClientInv
  BY DEF Init, ClientInv, ConnectionInv
<1>5. LossOnlyByTrim /\ GapsAreReal
  BY DEF Init, LossOnlyByTrim, GapsAreReal
<1> QED BY <1>1, <1>2, <1>3, <1>4, <1>5 DEF BusInv

-----------------------------------------------------------------------------
(* Theorems. *)

(* BusInv holds whatever steps are taken, by the run, by others, by the attempts at
   its completion, by the route and by its clients. *)
THEOREM BusIsKept == Spec => []BusInv
<1>1. BusInv /\ [Next]_vars => BusInv'
  <2> SUFFICES ASSUME BusInv, [Next]_vars  PROVE BusInv'
    OBVIOUS
  <2>1. CASE RunStep
    BY <2>1, RunStepKeeps
  <2>2. CASE CompletionStep
    BY <2>2, WriterKeeps, PublishTerminalKeeps, DeleteRowsKeeps DEF CompletionStep
  <2>3. CASE \E s \in Subscribers : RouteStep(s) \/ ClientStep(s)
    BY <2>3, RouteStepKeeps, ClientStepKeeps
  <2>4. CASE UNCHANGED vars
    BY <2>4, StutterKeeps
  <2> QED BY <2>1, <2>2, <2>3, <2>4 DEF Next
<1> QED BY InitIsGood, <1>1, PTL DEF Spec

(* Between two rows that follow each other by id, no sequence is left out. *)
LEMMA OrderedIsContiguous ==
  ASSUME TypeOK, RowInv, Ordered
  PROVE  BusContiguous
<1> SUFFICES ASSUME NEW r \in Rows, NEW q \in Rows, r.id < q.id,
                    ~\E p \in Rows : r.id < p.id /\ p.id < q.id
             PROVE  q.sequence = r.sequence + 1
  BY DEF BusContiguous
<1>1. \A p \in Rows : p \in published /\ p.id \in Nat /\ p.sequence \in Nat
  BY DEF Rows, TypeOK, RowType
<1>2. r.sequence < q.sequence
  BY DEF Ordered
<1>3. ASSUME q.sequence # r.sequence + 1  PROVE FALSE
  <2>1. r.sequence + 1 \in Nat /\ r.sequence < r.sequence + 1 /\ r.sequence + 1 < q.sequence
    BY <1>1, <1>2, <1>3
  <2>2. PICK p \in Rows : p.sequence = r.sequence + 1
    BY <2>1 DEF Ordered
  <2>3. ~(p.id < r.id) /\ p.id # r.id /\ ~(q.id < p.id) /\ p.id # q.id
    BY <1>1, <2>1, <2>2 DEF Ordered, RowInv
  <2> QED BY <1>1, <2>2, <2>3
<1> QED BY <1>3

(* The rows of a run are in sequence in the table, and a subscriber misses only what
   the trim took and hears of a gap only when the trim took something. *)
THEOREM RowsReach == Spec => []RowsReachSubscribers
<1>1. BusInv => RowsReachSubscribers
  BY OrderedIsContiguous DEF BusInv, RowsReachSubscribers
<1> QED BY BusIsKept, <1>1, PTL

(* A subscriber whose stream the server ended was told the status of the run record,
   and nobody was sent the terminal event before the transcript had the answer. *)
THEOREM EndsAreTold == Spec => []EndIsTold
<1>1. BusInv => TerminalSignal
  BY DEF BusInv, ClientInv, ConnectionInv, TerminalSignal
<1>2. BusInv => AnswerPrecedesSignal
  BY DEF BusInv, WriterInv, AnswerPrecedesSignal
<1> QED BY BusIsKept, <1>1, <1>2, PTL DEF EndIsTold
=============================================================================
