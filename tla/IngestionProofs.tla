---------------------------- MODULE IngestionProofs ----------------------------
(* Theorems about Ingestion, for every history and every value of its constants. *)
EXTENDS Ingestion, SequenceTheorems, SumProofs

(***************************************************************************)
(* NothingLost speaks of what a cursor has passed.  It holds because of    *)
(* what is true of the record a worker is at: no record of its stream lies *)
(* between the cursor and it, what it said before the current movement is  *)
(* booked, and what the current movement still lacks is on the worker's    *)
(* list.                                                                   *)
(***************************************************************************)

(* The records fetched leave no gap after the cursor c. *)
NoGap(h, s, c, at) ==
    /\ at \in At
    /\ at.record \in DOMAIN h /\ at.rest \subseteq DOMAIN h
    /\ \A j \in at.rest : at.record < j
    /\ \A j \in {at.record} \cup at.rest : h[j].stream = s /\ c < j
    /\ \A i \in DOMAIN h, j \in {at.record} \cup at.rest :
         h[i].stream = s /\ c < i /\ i < j => i \in {at.record} \cup at.rest

(* Everything the record said before movement n is booked in B. *)
BookedBefore(h, B, i, n) ==
    \A m \in DOMAIN Movements(h[i]) : m < n => Recorded(B, i, h[i], m)

Listed(todo) == {todo[k] : k \in DOMAIN todo}

MidMovement == {"from", "to", "post", "open", "opening", "again"}
WithList == {"post", "open", "opening", "again"}
Finished == {"close", "release", "save"}

(* What is true of a worker w of stream s whose cursor is c, in books B. *)
Sound(h, w, s, c, B) ==
    \/ w = Idle
    \/ /\ w.pc \in MidMovement \cup Finished
       /\ NoGap(h, s, c, w.at)
       /\ BookedBefore(h, B, w.at.record, w.at.n)
       /\ w.pc \in MidMovement => w.at.n \in DOMAIN Movements(h[w.at.record])
       /\ w.pc \in Finished => w.at.n > Len(Movements(h[w.at.record]))
       /\ w.pc = "to" =>
            LET from == Movements(h[w.at.record])[w.at.n].from
            IN  /\ w.from \in Accounts \cup {Nobody}
                /\ from \in DOMAIN Home => w.from = Home[from]
       /\ w.pc \in WithList =>
            /\ w.todo \in Seq(Transaction) /\ w.todo # <<>>
            /\ Recorded(B \cup Listed(w.todo), w.at.record, h[w.at.record], w.at.n)

(* Everything of stream s up to its cursor c is booked in B. *)
Vouched(h, s, c, B) ==
    \A i \in DOMAIN h : i <= c /\ h[i].stream = s =>
      \A n \in DOMAIN Movements(h[i]) : Recorded(B, i, h[i], n)

(* Whoever is watched throughout is tracked. *)
Homes(t) ==
    /\ t \in [Addresses -> Accounts \cup {Nobody}]
    /\ \A x \in DOMAIN Home : t[x] = Home[x]

Shape ==
    /\ history \in Seq(Op)
    /\ \A i \in DOMAIN history : Closed(history[i]) \notin DOMAIN Home
    /\ Homes(tracked)
    /\ cursor \in [Streams -> 0..Len(history)]
    /\ DOMAIN worker = Streams
    /\ oldest \in Nat

IInv ==
    /\ Shape
    /\ \A s \in Streams :
         /\ Sound(history, worker[s], s, cursor[s], books)
         /\ Vouched(history, s, cursor[s], books)

(* The movements of an operation are a sequence of movements. *)
LEMMA MovementsType ==
    ASSUME NEW op \in Op
    PROVE  Movements(op) \in Seq(Movement)
  <1>1. op.ok \in BOOLEAN /\ op.readable \in BOOLEAN /\ op.kind \in OpKind
        /\ op.from \in Addresses /\ op.to \in Addresses /\ op.asset \in Assets
        /\ op.amount \in Nat /\ op.sent \in Assets /\ op.sentAmount \in Nat
    BY DEF Op
  <1>2. /\ Move(op.from, op.to, op.asset, op.amount, TRUE) \in Movement
        /\ Move(op.from, op.to, op.asset, op.amount, op.readable) \in Movement
        /\ Move(op.from, Nobody, op.sent, op.sentAmount, TRUE) \in Movement
        /\ Move(Nobody, op.to, op.asset, op.amount, TRUE) \in Movement
    BY <1>1 DEF Move, Movement
  <1>3. ASSUME NEW a \in Movement, NEW b \in Movement
        PROVE  <<>> \in Seq(Movement) /\ <<a>> \in Seq(Movement) /\ <<a, b>> \in Seq(Movement)
    OBVIOUS
  <1>4. CASE ~op.ok \/ op.kind \in {"account_merge", "other"}
    BY <1>4, <1>2, <1>3 DEF Movements
  <1>5. CASE op.ok /\ op.kind = "payment"
    BY <1>5, <1>2, <1>3 DEF Movements
  <1>6. CASE op.ok /\ op.kind = "create_account"
    BY <1>6, <1>2, <1>3 DEF Movements
  <1>7. CASE op.ok /\ op.kind = "path_payment"
    BY <1>7, <1>2, <1>3 DEF Movements
  <1>8. CASE op.ok /\ op.kind = "transfer"
    BY <1>8, <1>2, <1>3 DEF Movements
  <1> QED BY <1>1, <1>4, <1>5, <1>6, <1>7, <1>8 DEF OpKind

(* More books record no less. *)
LEMMA RecordedGrows ==
    ASSUME NEW B, NEW C, B \subseteq C, NEW i, NEW op, NEW n, Recorded(B, i, op, n)
    PROVE  Recorded(C, i, op, n)
  BY DEF Recorded

(* A worker stays sound while the books grow. *)
LEMMA SoundGrows ==
    ASSUME NEW h, NEW w, NEW s, NEW c, NEW B, NEW C, B \subseteq C, Sound(h, w, s, c, B)
    PROVE  Sound(h, w, s, c, C)
  <1>1. CASE w = Idle
    BY <1>1 DEF Sound
  <1>2. CASE w # Idle
    <2>1. BookedBefore(h, C, w.at.record, w.at.n)
      BY <1>2, RecordedGrows DEF Sound, BookedBefore
    <2>2. ASSUME w.pc \in WithList
          PROVE  Recorded(C \cup Listed(w.todo), w.at.record, h[w.at.record], w.at.n)
      <3>1. B \cup Listed(w.todo) \subseteq C \cup Listed(w.todo)
        OBVIOUS
      <3> QED BY <1>2, <2>2, <3>1, RecordedGrows DEF Sound
    <2> QED BY <1>2, <2>1, <2>2 DEF Sound
  <1> QED BY <1>1, <1>2

(* So does what its cursor vouches for. *)
LEMMA VouchedGrows ==
    ASSUME NEW h, NEW s, NEW c, NEW B, NEW C, B \subseteq C, Vouched(h, s, c, B)
    PROVE  Vouched(h, s, c, C)
  BY RecordedGrows DEF Vouched

(* Reaching a movement, or the end, of a record. *)
Place(h, at) ==
    [pc |-> IF at.n <= Len(Movements(h[at.record])) THEN "from" ELSE "close", at |-> at]

(* What is booked up to a place makes the worker there sound. *)
LEMMA Reached ==
    ASSUME NEW h \in Seq(Op), NEW s, NEW c, NEW B, NEW at, NoGap(h, s, c, at), at.n >= 1,
           BookedBefore(h, B, at.record, at.n)
    PROVE  Sound(h, Place(h, at), s, c, B)
  <1>1. Movements(h[at.record]) \in Seq(Movement)
    BY MovementsType DEF NoGap
  <1>2. at.n \in Nat
    BY DEF NoGap, At
  <1>3. CASE at.n <= Len(Movements(h[at.record]))
    <2>1. Place(h, at).pc = "from" /\ Place(h, at).at = at
      BY <1>3 DEF Place
    <2>2. at.n \in DOMAIN Movements(h[at.record])
      BY <1>1, <1>2, <1>3
    <2> QED BY <2>1, <2>2 DEF Sound, MidMovement, Finished, WithList
  <1>4. CASE ~(at.n <= Len(Movements(h[at.record])))
    <2>1. Place(h, at).pc = "close" /\ Place(h, at).at = at
      BY <1>4 DEF Place
    <2>2. at.n > Len(Movements(h[at.record]))
      BY <1>1, <1>2, <1>4
    <2> QED BY <2>1, <2>2 DEF Sound, MidMovement, Finished, WithList
  <1> QED BY <1>3, <1>4

(* What entriesFor makes of a movement is a list of transactions that, once    *)
(* posted, records it.                                                        *)
LEMMA EntriesRecord ==
    ASSUME NEW i \in Nat, NEW op \in Op, NEW n \in DOMAIN Movements(op),
           NEW from \in Accounts \cup {Nobody}, NEW to \in Accounts \cup {Nobody},
           Movements(op)[n].from \in DOMAIN Home => from = Home[Movements(op)[n].from],
           Movements(op)[n].to \in DOMAIN Home => to = Home[Movements(op)[n].to],
           NEW B
    PROVE  LET todo == entriesFor(KeyOf(i, op, n), from, to, Movements(op)[n])
           IN  /\ todo \in Seq(Transaction)
               /\ Recorded(B \cup Listed(todo), i, op, n)
  <1> DEFINE move == Movements(op)[n]
             key == KeyOf(i, op, n)
             todo == entriesFor(key, from, to, move)
             Good(t) == /\ t \in Transaction /\ t.key = key
                        /\ t.asset = move.asset /\ t.amount = move.amount
  <1>1. Movements(op) \in Seq(Movement)
    BY MovementsType
  <1>2. n \in Nat /\ move \in Movement
    BY <1>1
  <1>3. key \in Key
    BY <1>2 DEF KeyOf, Key
  <1>4. move.asset \in Assets /\ move.amount \in Nat
    BY <1>2 DEF Movement
  <1>5. ASSUME NEW kind \in {"send", "withdrawal", "deposit"},
               NEW debit \in Accounts, NEW credit \in Accounts
        PROVE  LET t == Entry(key, kind, debit, credit, move)
               IN  Good(t) /\ t.debit = debit /\ t.credit = credit
    <2>1. OrgOf[debit] \in Orgs /\ OrgOf[credit] \in Orgs
      BY IngestionAssumption
    <2> HIDE DEF move, key
    <2> QED BY <1>3, <1>4, <2>1 DEF Entry, Transaction
  <1>6. \A a \in Accounts : External[OrgOf[a]] \in Accounts
    BY IngestionAssumption
  <1>7. \A x \in DOMAIN Home : Home[x] \in Accounts /\ Home[x] # Nobody
    BY IngestionAssumption
  <1> HIDE DEF move, key
  <1>8. CASE from # Nobody /\ to # Nobody /\ OrgOf[from] = OrgOf[to]
    <2> DEFINE e == Entry(key, "send", from, to, move)
    <2>1. todo = <<e>>
      BY <1>8 DEF entriesFor
    <2>2. Good(e) /\ e.debit = from /\ e.credit = to
      BY <1>5, <1>8
    <2> HIDE DEF e
    <2>3. todo \in Seq(Transaction) /\ e \in Listed(todo)
      BY <2>1, <2>2 DEF Listed
    <2> QED BY <2>2, <2>3 DEF Recorded, move, key
  <1>9. CASE ~(from # Nobody /\ to # Nobody /\ OrgOf[from] = OrgOf[to])
    <2> DEFINE e == Entry(key, "withdrawal", from, External[OrgOf[from]], move)
               f == Entry(key, "deposit", External[OrgOf[to]], to, move)
    <2>1. todo = (IF from = Nobody THEN <<>> ELSE <<e>>) \o (IF to = Nobody THEN <<>> ELSE <<f>>)
      BY <1>9, Zenon DEF entriesFor
    <2>2. from # Nobody => Good(e) /\ e.debit = from
      BY <1>5, <1>6
    <2>3. to # Nobody => Good(f) /\ f.credit = to
      BY <1>5, <1>6
    <2> HIDE DEF e, f, todo
    <2>4. CASE from = Nobody /\ to = Nobody
      <3>1. todo = <<>>
        BY <2>1, <2>4
      <3>2. todo \in Seq(Transaction)
        BY <3>1
      <3>3. move.from \notin DOMAIN Home /\ move.to \notin DOMAIN Home
        BY <1>7, <2>4 DEF move
      <3>4. Recorded(B \cup Listed(todo), i, op, n)
        BY <3>3 DEF Recorded, move
      <3> QED BY <3>2, <3>4 DEF move, key, todo
    <2>5. CASE from # Nobody /\ to = Nobody
      <3>1. todo = <<e>>
        BY <2>1, <2>5
      <3>2. todo \in Seq(Transaction) /\ e \in Listed(todo)
        BY <2>2, <2>5, <3>1 DEF Listed
      <3> QED BY <3>2, <1>7, <2>2, <2>5 DEF Recorded, move, key, todo
    <2>6. CASE from = Nobody /\ to # Nobody
      <3>1. todo = <<f>>
        BY <2>1, <2>6
      <3>2. todo \in Seq(Transaction) /\ f \in Listed(todo)
        BY <2>3, <2>6, <3>1 DEF Listed
      <3> QED BY <3>2, <1>7, <2>3, <2>6 DEF Recorded, move, key, todo
    <2>7. CASE from # Nobody /\ to # Nobody
      <3>1. todo = <<e>> \o <<f>>
        BY <2>1, <2>7, Zenon
      <3>2. todo \in Seq(Transaction) /\ e \in Listed(todo) /\ f \in Listed(todo)
        <4>1. <<e>> \in Seq(Transaction) /\ <<f>> \in Seq(Transaction)
          BY <2>2, <2>3, <2>7
        <4>2. /\ <<e>> \o <<f>> \in Seq(Transaction)
              /\ Len(<<e>> \o <<f>>) = 2
              /\ (<<e>> \o <<f>>)[1] = e /\ (<<e>> \o <<f>>)[2] = f
          <5>1. /\ Len(<<e>>) = 1 /\ Len(<<f>>) = 1 /\ <<e>>[1] = e /\ <<f>>[1] = f
            OBVIOUS
          <5>2. /\ <<e>> \o <<f>> \in Seq(Transaction)
                /\ Len(<<e>> \o <<f>>) = Len(<<e>>) + Len(<<f>>)
                /\ \A k \in 1..Len(<<e>>) + Len(<<f>>) : (<<e>> \o <<f>>)[k] =
                     IF k <= Len(<<e>>) THEN <<e>>[k] ELSE <<f>>[k - Len(<<e>>)]
            BY <4>1, ConcatProperties, Zenon
          <5> QED BY <5>1, <5>2
        <4>3. 1 \in DOMAIN todo /\ 2 \in DOMAIN todo
          BY <3>1, <4>2
        <4> QED BY <3>1, <4>2, <4>3 DEF Listed
      <3> QED BY <3>2, <2>2, <2>3, <2>7 DEF Recorded, move, key, todo
    <2> QED BY <2>4, <2>5, <2>6, <2>7
  <1> QED BY <1>8, <1>9

(* Once the first of a list is booked, the books and the rest still record it. *)
LEMMA HeadPosted ==
    ASSUME NEW todo \in Seq(Transaction), todo # <<>>, NEW B, NEW C, B \subseteq C,
           Head(todo) \in C, NEW i, NEW op, NEW n, Recorded(B \cup Listed(todo), i, op, n)
    PROVE  Tail(todo) \in Seq(Transaction) /\ Recorded(C \cup Listed(Tail(todo)), i, op, n)
  <1>1. Tail(todo) \in Seq(Transaction)
    OBVIOUS
  <1>2. Listed(todo) \subseteq {Head(todo)} \cup Listed(Tail(todo))
    <2>1. \A k \in DOMAIN todo : k = 1 \/ (k - 1 \in DOMAIN Tail(todo) /\ Tail(todo)[k - 1] = todo[k])
      OBVIOUS
    <2>2. todo[1] = Head(todo)
      OBVIOUS
    <2> QED BY <2>1, <2>2 DEF Listed
  <1>3. B \cup Listed(todo) \subseteq C \cup Listed(Tail(todo))
    BY <1>2
  <1> QED BY <1>1, <1>3, RecordedGrows

(* Where a worker goes with a list to post. *)
Onward(h, at, todo) ==
    IF todo = <<>> THEN Place(h, [at EXCEPT !.n = @ + 1])
    ELSE [pc |-> "post", at |-> at, todo |-> todo]

(* Wherever a list to post sends a worker, it is sound there. *)
LEMMA OnwardSound ==
    ASSUME NEW h \in Seq(Op), NEW s, NEW c, NEW B, NEW at, NoGap(h, s, c, at),
           BookedBefore(h, B, at.record, at.n), at.n \in DOMAIN Movements(h[at.record]),
           NEW todo \in Seq(Transaction),
           Recorded(B \cup Listed(todo), at.record, h[at.record], at.n)
    PROVE  Sound(h, Onward(h, at, todo), s, c, B)
  <1>1. Movements(h[at.record]) \in Seq(Movement)
    BY MovementsType DEF NoGap
  <1>2. CASE todo = <<>>
    <2> DEFINE to == [at EXCEPT !.n = @ + 1]
    <2>1. to \in At /\ to.record = at.record /\ to.rest = at.rest /\ to.n = at.n + 1
      BY DEF NoGap, At
    <2>2. Listed(todo) = {}
      BY <1>2 DEF Listed
    <2>3. Recorded(B, at.record, h[at.record], at.n)
      BY <2>2, RecordedGrows
    <2> HIDE DEF to
    <2>4. NoGap(h, s, c, to)
      BY <2>1 DEF NoGap
    <2>5. \A m \in DOMAIN Movements(h[at.record]) : m < at.n + 1 => m < at.n \/ m = at.n
      BY <1>1
    <2>6. BookedBefore(h, B, to.record, to.n)
      BY <2>1, <2>3, <2>5 DEF BookedBefore
    <2>7. to.n >= 1
      BY <1>1, <2>1
    <2>8. Sound(h, Place(h, to), s, c, B)
      BY <2>4, <2>6, <2>7, Reached
    <2> QED BY <1>2, <2>8 DEF Onward, to
  <1>3. CASE todo # <<>>
    <2> DEFINE w == [pc |-> "post", at |-> at, todo |-> todo]
    <2>1. w.pc = "post" /\ w.at = at /\ w.todo = todo
      OBVIOUS
    <2> HIDE DEF w
    <2>2. Sound(h, w, s, c, B)
      BY <1>3, <2>1 DEF Sound, MidMovement, Finished, WithList
    <2> QED BY <1>3, <2>2 DEF Onward, w
  <1> QED BY <1>2, <1>3

--------------------------------------------------------------------------------
(* One worker takes a step: enough to say where it goes, and that the books grow. *)
LEMMA Moved ==
    ASSUME IInv, NEW s \in Streams, NEW next, To(s, next), history' = history,
           oldest' \in Nat, Homes(tracked'), books \subseteq books',
           cursor' \in [Streams -> 0..Len(history)], \A t \in Streams \ {s} : cursor'[t] = cursor[t],
           Sound(history, next, s, cursor'[s], books'),
           Vouched(history, s, cursor'[s], books')
    PROVE  IInv'
  <1>1. DOMAIN worker' = Streams /\ worker'[s] = next
        /\ \A t \in Streams \ {s} : worker'[t] = worker[t]
    BY DEF To, IInv, Shape
  <1>2. Shape'
    BY <1>1 DEF IInv, Shape
  <1>3. ASSUME NEW t \in Streams
        PROVE  Sound(history, worker'[t], t, cursor'[t], books')
               /\ Vouched(history, t, cursor'[t], books')
    <2>1. CASE t = s
      BY <1>1, <2>1
    <2>2. CASE t # s
      <3>1. worker'[t] = worker[t] /\ cursor'[t] = cursor[t]
        BY <1>1, <2>2
      <3>2. Sound(history, worker[t], t, cursor[t], books)
            /\ Vouched(history, t, cursor[t], books)
        BY DEF IInv
      <3> QED BY <3>1, <3>2, SoundGrows, VouchedGrows
    <2> QED BY <2>1, <2>2
  <1> QED BY <1>2, <1>3 DEF IInv

(* The usual case: nothing but the worker and the books changes. *)
LEMMA MovedOnly ==
    ASSUME IInv, NEW s \in Streams, NEW next, To(s, next), books \subseteq books',
           UNCHANGED <<history, tracked, cursor, oldest>>,
           Sound(history, next, s, cursor[s], books')
    PROVE  IInv'
  <1>1. Vouched(history, s, cursor[s], books')
    BY VouchedGrows DEF IInv
  <1>2. oldest' \in Nat /\ Homes(tracked') /\ cursor' \in [Streams -> 0..Len(history)]
    BY DEF IInv, Shape
  <1> QED BY <1>1, <1>2, Moved

(* A page without gaps puts the worker at a sound place. *)
LEMMA AtNext ==
    ASSUME IInv, NEW s \in Streams, NEW page \in SUBSET DOMAIN history, NEW c \in Nat,
           \A j \in page : history[j].stream = s /\ c < j,
           \A i \in DOMAIN history, j \in page :
             history[i].stream = s /\ c < i /\ i < j => i \in page,
           NextRecord(s, page)
    PROVE  \E next : To(s, next) /\ Sound(history, next, s, c, books)
  <1>1. PICK i \in page : /\ \A j \in page : i <= j
                          /\ Reach(s, [record |-> i, rest |-> page \ {i}, n |-> 1])
    BY DEF NextRecord
  <1> DEFINE at == [record |-> i, rest |-> page \ {i}, n |-> 1]
  <1>2. history \in Seq(Op)
    BY DEF IInv, Shape
  <1>3. at.record = i /\ at.rest = page \ {i} /\ at.n = 1
    OBVIOUS
  <1>4. \A j \in DOMAIN history : j \in Nat
    BY <1>2
  <1>5. at \in At
    BY <1>4 DEF At
  <1>6. To(s, Place(history, at))
    BY <1>1 DEF Reach, Place
  <1> HIDE DEF at
  <1>7. NoGap(history, s, c, at)
    <2>1. {at.record} \cup at.rest = page
      BY <1>3
    <2>2. \A j \in at.rest : at.record < j
      BY <1>1, <1>3, <1>4
    <2> QED BY <1>3, <1>5, <2>1, <2>2 DEF NoGap
  <1>8. BookedBefore(history, books, at.record, at.n)
    <2>1. Movements(history[i]) \in Seq(Movement)
      BY <1>2, MovementsType
    <2> QED BY <1>3, <2>1 DEF BookedBefore
  <1> QED BY <1>2, <1>3, <1>6, <1>7, <1>8, Reached

(* Once. *)
LEMMA OnceStep ==
    ASSUME IInv, NEW s \in Streams, Once(s)
    PROVE  IInv'
  <1>1. PICK page \in SUBSET Available(s) :
          /\ \A i \in page, j \in Available(s) : j < i => j \in page
          /\ NextRecord(s, page)
    BY DEF Once
  <1>2. cursor[s] \in Nat /\ oldest \in Nat /\ history \in Seq(Op)
    BY DEF IInv, Shape
  <1>3. \A i \in DOMAIN history : i > cursor[s] => (s = "transfers" => i >= oldest)
    <2>1. \A i \in DOMAIN history : i \in Nat /\ i >= 1
      BY <1>2
    <2> QED BY <1>2, <2>1 DEF Once, checkRetention
  <1>4. Available(s) = {i \in DOMAIN history : history[i].stream = s /\ i > cursor[s]}
    BY <1>3 DEF Available
  <1>5. \A i \in DOMAIN history : i \in Nat
    BY <1>2
  <1>6. \E next : To(s, next) /\ Sound(history, next, s, cursor[s], books)
    <2>1. page \in SUBSET DOMAIN history
      BY <1>4
    <2>2. \A j \in page : history[j].stream = s /\ cursor[s] < j
      BY <1>2, <1>4, <1>5
    <2>3. \A i \in DOMAIN history, j \in page :
            history[i].stream = s /\ cursor[s] < i /\ i < j => i \in page
      BY <1>1, <1>2, <1>4, <1>5
    <2> QED BY <1>1, <1>2, <2>1, <2>2, <2>3, AtNext
  <1>7. PICK next : To(s, next) /\ Sound(history, next, s, cursor[s], books)
    BY <1>6
  <1>8. UNCHANGED <<history, tracked, cursor, oldest>> /\ books' = books
    BY DEF Once
  <1> QED BY <1>7, <1>8, MovedOnly

(* What soundness says of a worker at a record. *)
LEMMA AtWork ==
    ASSUME IInv, NEW s \in Streams, worker[s].pc \in MidMovement \cup Finished
    PROVE  LET w == worker[s]
               at == w.at
           IN  /\ history \in Seq(Op) /\ history[at.record] \in Op
               /\ at.record \in Nat
               /\ NoGap(history, s, cursor[s], at)
               /\ BookedBefore(history, books, at.record, at.n)
               /\ w.pc \in MidMovement => at.n \in DOMAIN Movements(history[at.record])
               /\ w.pc \in Finished => at.n > Len(Movements(history[at.record]))
               /\ w.pc = "to" =>
                    LET from == Movements(history[at.record])[at.n].from
                    IN  /\ w.from \in Accounts \cup {Nobody}
                        /\ from \in DOMAIN Home => w.from = Home[from]
               /\ w.pc \in WithList =>
                    /\ w.todo \in Seq(Transaction) /\ w.todo # <<>>
                    /\ Recorded(books \cup Listed(w.todo), at.record,
                                history[at.record], at.n)
  <1>1. worker[s] # Idle
    BY DEF Idle, MidMovement, Finished
  <1>2. Sound(history, worker[s], s, cursor[s], books) /\ history \in Seq(Op)
    BY DEF IInv, Shape
  <1>3. NoGap(history, s, cursor[s], worker[s].at)
    BY <1>1, <1>2 DEF Sound
  <1>4. worker[s].at.record \in DOMAIN history
    BY <1>3 DEF NoGap
  <1>5. history[worker[s].at.record] \in Op /\ worker[s].at.record \in Nat
    BY <1>2, <1>4
  <1> QED BY <1>1, <1>2, <1>3, <1>5 DEF Sound

(* Going back to the cursor is always sound. *)
LEMMA IdleSound ==
    ASSUME NEW h, NEW s, NEW c, NEW B
    PROVE  Sound(h, Idle, s, c, B)
  BY DEF Sound

(* An end of a movement that is watched throughout is found to be tracked. *)
LEMMA WhoseHome ==
    ASSUME IInv, NEW x \in Addresses \cup {Nobody}
    PROVE  /\ Whose(x) \in Accounts \cup {Nobody}
           /\ x \in DOMAIN Home => Whose(x) = Home[x]
  BY IngestionAssumption DEF IInv, Shape, Homes, Whose

(* LookUpFrom: the sender's account is read. *)
LEMMA LookUpFromStep ==
    ASSUME IInv, NEW s \in Streams, LookUpFrom(s)
    PROVE  IInv'
  <1> DEFINE at == worker[s].at
             move == Movements(history[at.record])[at.n]
             next == [pc |-> "to", at |-> at, from |-> Whose(move.from)]
  <1>1. worker[s].pc = "from"
    BY DEF LookUpFrom
  <1>2. /\ NoGap(history, s, cursor[s], at) /\ history[at.record] \in Op
        /\ BookedBefore(history, books, at.record, at.n)
        /\ at.n \in DOMAIN Movements(history[at.record])
    BY <1>1, AtWork DEF MidMovement, Finished
  <1>3. move.from \in Addresses \cup {Nobody}
    <2>1. Movements(history[at.record]) \in Seq(Movement)
      BY <1>2, MovementsType
    <2>2. move \in Movement
      BY <1>2, <2>1
    <2> QED BY <2>2 DEF Movement
  <1>4. /\ Whose(move.from) \in Accounts \cup {Nobody}
        /\ move.from \in DOMAIN Home => Whose(move.from) = Home[move.from]
    BY <1>3, WhoseHome
  <1>5. next.pc = "to" /\ next.at = at /\ next.from = Whose(move.from)
    OBVIOUS
  <1>6. To(s, next) /\ UNCHANGED <<history, tracked, cursor, oldest>> /\ books' = books
    BY DEF LookUpFrom, ThisMove, This
  <1> HIDE DEF next
  <1>7. Sound(history, next, s, cursor[s], books)
    BY <1>2, <1>4, <1>5 DEF Sound, MidMovement, Finished, WithList
  <1> QED BY <1>6, <1>7, MovedOnly

(* Posting(s, todo) goes Onward. *)
LEMMA PostingStep ==
    ASSUME IInv, NEW s \in Streams, worker[s].pc \in MidMovement,
           NEW todo \in Seq(Transaction), Posting(s, todo),
           books \subseteq books', UNCHANGED <<history, tracked, cursor, oldest>>,
           Recorded(books' \cup Listed(todo), worker[s].at.record,
                    history[worker[s].at.record], worker[s].at.n)
    PROVE  IInv'
  <1> DEFINE at == worker[s].at
  <1>1. /\ NoGap(history, s, cursor[s], at) /\ history \in Seq(Op)
        /\ BookedBefore(history, books, at.record, at.n)
        /\ at.n \in DOMAIN Movements(history[at.record])
    BY AtWork
  <1>2. BookedBefore(history, books', at.record, at.n)
    BY <1>1, RecordedGrows DEF BookedBefore
  <1>3. To(s, Onward(history, at, todo))
    BY DEF Posting, NextMovement, Reach, Onward, Place
  <1>4. Sound(history, Onward(history, at, todo), s, cursor[s], books')
    BY <1>1, <1>2, OnwardSound
  <1> QED BY <1>3, <1>4, MovedOnly

(* applyMovement: nothing to book, a list to post, or the worker gives up. *)
LEMMA ApplyStep ==
    ASSUME IInv, NEW s \in Streams, applyMovement(s)
    PROVE  IInv'
  <1> DEFINE w == worker[s]
             at == w.at
             op == history[at.record]
             move == Movements(op)[at.n]
             to == Whose(move.to)
             todo == entriesFor(KeyOf(at.record, op, at.n), w.from, to, move)
  <1>1. w.pc = "to" /\ w.pc \in MidMovement
    BY DEF applyMovement, MidMovement
  <1>2. /\ history \in Seq(Op) /\ op \in Op /\ at.record \in Nat
        /\ at.n \in DOMAIN Movements(op)
        /\ w.from \in Accounts \cup {Nobody}
        /\ move.from \in DOMAIN Home => w.from = Home[move.from]
    BY <1>1, AtWork
  <1>3. /\ to \in Accounts \cup {Nobody}
        /\ move.to \in DOMAIN Home => to = Home[move.to]
    <2>1. Movements(op) \in Seq(Movement)
      BY <1>2, MovementsType
    <2>2. move \in Movement
      BY <1>2, <2>1
    <2>3. move.to \in Addresses \cup {Nobody}
      BY <2>2 DEF Movement
    <2> QED BY <2>3, WhoseHome
  <1>4. UNCHANGED <<history, tracked, cursor, oldest>> /\ books' = books
    BY DEF applyMovement
  <1>5. CASE w.from = Nobody /\ to = Nobody
    <2>1. NextMovement(s)
      BY <1>5 DEF applyMovement, This, ThisMove
    <2>2. Posting(s, <<>>)
      BY <2>1 DEF Posting
    <2>3. \A x \in DOMAIN Home : Home[x] # Nobody
      BY IngestionAssumption
    <2>4. Recorded(books' \cup Listed(<<>>), at.record, op, at.n)
      BY <1>2, <1>3, <1>5, <2>3 DEF Recorded
    <2>5. <<>> \in Seq(Transaction)
      OBVIOUS
    <2> QED BY <1>1, <1>4, <2>2, <2>4, <2>5, PostingStep
  <1>6. CASE ~(w.from = Nobody /\ to = Nobody) /\ move.readable /\ move.amount > 0
    <2>1. Posting(s, todo)
      BY <1>6 DEF applyMovement, This, ThisMove
    <2>2. todo \in Seq(Transaction) /\ Recorded(books' \cup Listed(todo), at.record, op, at.n)
      BY <1>2, <1>3, EntriesRecord
    <2> HIDE DEF todo
    <2> QED BY <1>1, <1>4, <2>1, <2>2, PostingStep
  <1>7. CASE ~(w.from = Nobody /\ to = Nobody) /\ ~(move.readable /\ move.amount > 0)
    <2>1. To(s, Idle)
      BY <1>7 DEF applyMovement, This, ThisMove
    <2> QED BY <1>4, <2>1, IdleSound, MovedOnly
  <1> QED BY <1>5, <1>6, <1>7

(* A worker that keeps its place and its list, while the books grow, stays sound. *)
LEMMA SameList ==
    ASSUME IInv, NEW s \in Streams, worker[s].pc \in WithList,
           NEW next, next.pc \in WithList, next.at = worker[s].at, next.todo = worker[s].todo,
           To(s, next), books \subseteq books', UNCHANGED <<history, tracked, cursor, oldest>>
    PROVE  IInv'
  <1>1. worker[s].pc \in MidMovement /\ next.pc \in MidMovement
    BY DEF WithList, MidMovement
  <1>2. Sound(history, next, s, cursor[s], books)
    <2>1. next.pc \notin Finished /\ next.pc # "to"
      BY DEF WithList, Finished
    <2> QED BY <1>1, <2>1, AtWork DEF Sound
  <1>3. Sound(history, next, s, cursor[s], books')
    BY <1>2, SoundGrows
  <1> QED BY <1>3, MovedOnly

(* A worker whose first entry has got into the books goes on with the rest of its list. *)
LEMMA HeadDone ==
    ASSUME IInv, NEW s \in Streams, worker[s].pc \in WithList,
           Posting(s, Tail(worker[s].todo)), Head(worker[s].todo) \in books',
           books \subseteq books', UNCHANGED <<history, tracked, cursor, oldest>>
    PROVE  IInv'
  <1> DEFINE w == worker[s]
             at == w.at
  <1>1. w.pc \in MidMovement
    BY DEF WithList, MidMovement
  <1>2. /\ w.todo \in Seq(Transaction) /\ w.todo # <<>>
        /\ Recorded(books \cup Listed(w.todo), at.record, history[at.record], at.n)
    BY <1>1, AtWork
  <1>3. /\ Tail(w.todo) \in Seq(Transaction)
        /\ Recorded(books' \cup Listed(Tail(w.todo)), at.record, history[at.record], at.n)
    BY <1>2, HeadPosted
  <1> QED BY <1>1, <1>3, PostingStep

(* Post: booked now, booked before, short of money, or refused. *)
LEMMA PostStep ==
    ASSUME IInv, NEW s \in Streams, Post(s)
    PROVE  IInv'
  <1> DEFINE w == worker[s]
             tx == Head(w.todo)
  <1>1. w.pc \in WithList /\ UNCHANGED <<history, tracked, cursor, oldest>>
    BY DEF Post, WithList
  <1>2. CASE Outcome(tx) = "new"
    <2>1. books' = books \cup {tx} /\ Posting(s, Tail(w.todo))
      BY <1>2 DEF Post
    <2> QED BY <1>1, <2>1, HeadDone
  <1>3. CASE Outcome(tx) = "replay"
    <2>1. books' = books /\ Posting(s, Tail(w.todo))
      BY <1>3 DEF Post
    <2>2. tx \in books
      BY <1>3 DEF Outcome
    <2> QED BY <1>1, <2>1, <2>2, HeadDone
  <1>4. CASE Outcome(tx) = "short"
    <2> DEFINE next == [pc |-> "open", at |-> w.at, todo |-> w.todo]
    <2>1. books' = books /\ To(s, next)
      BY <1>4 DEF Post
    <2>2. next.pc \in WithList /\ next.at = w.at /\ next.todo = w.todo
      BY DEF WithList
    <2> HIDE DEF next
    <2> QED BY <1>1, <2>1, <2>2, SameList
  <1>5. CASE Outcome(tx) \notin {"new", "replay", "short"}
    <2>1. books' = books /\ To(s, Idle)
      BY <1>5 DEF Post
    <2> QED BY <1>1, <2>1, IdleSound, MovedOnly
  <1> QED BY <1>2, <1>3, <1>4, <1>5

(* open: the list is kept while what is missing is worked out. *)
LEMMA OpenStep ==
    ASSUME IInv, NEW s \in Streams, open(s)
    PROVE  IInv'
  <1> DEFINE w == worker[s]
             short == Head(w.todo).amount - Balance(Head(w.todo).debit, Head(w.todo).asset)
             again == [pc |-> "again", at |-> w.at, todo |-> w.todo]
             opening == [pc |-> "opening", at |-> w.at, todo |-> w.todo, short |-> short]
  <1>1. w.pc \in WithList /\ UNCHANGED <<history, tracked, cursor, oldest>> /\ books' = books
    BY DEF open, WithList
  <1>2. /\ again.pc \in WithList /\ again.at = w.at /\ again.todo = w.todo
        /\ opening.pc \in WithList /\ opening.at = w.at /\ opening.todo = w.todo
    BY DEF WithList
  <1>3. To(s, again) \/ To(s, opening)
    BY DEF open
  <1> HIDE DEF again, opening
  <1> QED BY <1>1, <1>2, <1>3, SameList

(* PostOpening: one more line in the books, the same list. *)
LEMMA PostOpeningStep ==
    ASSUME IInv, NEW s \in Streams, PostOpening(s)
    PROVE  IInv'
  <1> DEFINE w == worker[s]
             again == [pc |-> "again", at |-> w.at, todo |-> w.todo]
  <1>1. /\ w.pc \in WithList /\ UNCHANGED <<history, tracked, cursor, oldest>>
        /\ books \subseteq books'
        /\ To(s, again) \/ To(s, Idle)
    BY DEF PostOpening, WithList
  <1>2. again.pc \in WithList /\ again.at = w.at /\ again.todo = w.todo
    BY DEF WithList
  <1>3. CASE To(s, again)
    <2> HIDE DEF again
    <2> QED BY <1>1, <1>2, <1>3, SameList
  <1>4. CASE To(s, Idle)
    BY <1>1, <1>4, IdleSound, MovedOnly
  <1> QED BY <1>1, <1>3, <1>4

(* PostAgain: booked, or the worker gives up. *)
LEMMA PostAgainStep ==
    ASSUME IInv, NEW s \in Streams, PostAgain(s)
    PROVE  IInv'
  <1> DEFINE w == worker[s]
             tx == Head(w.todo)
  <1>1. w.pc \in WithList /\ UNCHANGED <<history, tracked, cursor, oldest>>
    BY DEF PostAgain, WithList
  <1>2. CASE Outcome(tx) \in {"new", "replay"}
    <2>1. books' = books \cup {tx} /\ Posting(s, Tail(w.todo))
      BY <1>2 DEF PostAgain
    <2> QED BY <1>1, <2>1, HeadDone
  <1>3. CASE Outcome(tx) \notin {"new", "replay"}
    <2>1. books' = books /\ To(s, Idle)
      BY <1>3 DEF PostAgain
    <2> QED BY <1>1, <2>1, IdleSound, MovedOnly
  <1> QED BY <1>2, <1>3

(* A worker that keeps its place at the end of a record stays sound. *)
LEMMA SameEnd ==
    ASSUME IInv, NEW s \in Streams, worker[s].pc \in Finished,
           NEW next, next.pc \in Finished, next.at = worker[s].at
    PROVE  Sound(history, next, s, cursor[s], books)
  <1>1. next.pc \notin MidMovement /\ next.pc # "to" /\ next.pc \notin WithList
    BY DEF Finished, MidMovement, WithList
  <1> QED BY <1>1, AtWork DEF Sound

(* applyClose: the record's movements are done. *)
LEMMA ApplyCloseStep ==
    ASSUME IInv, NEW s \in Streams, applyClose(s)
    PROVE  IInv'
  <1> DEFINE w == worker[s]
             save == [pc |-> "save", at |-> w.at]
             release == [pc |-> "release", at |-> w.at, org |-> OrgOf[Whose(Closed(This(s)))]]
  <1>1. /\ w.pc \in Finished /\ UNCHANGED <<history, tracked, cursor, oldest>> /\ books' = books
        /\ To(s, save) \/ To(s, release)
    BY DEF applyClose, Finished
  <1>2. /\ save.pc \in Finished /\ save.at = w.at
        /\ release.pc \in Finished /\ release.at = w.at
    BY DEF Finished
  <1> HIDE DEF save, release
  <1> QED BY <1>1, <1>2, SameEnd, MovedOnly

(* Releasing an address nobody is watched at throughout keeps the others. *)
LEMMA ReleasedHomes ==
    ASSUME IInv, NEW org, NEW x, x \notin DOMAIN Home
    PROVE  Homes(Released(org, x))
  BY IngestionAssumption DEF IInv, Shape, Homes, Released

(* ReleaseClosed: a merged account is forgotten; none watched throughout is ever merged. *)
LEMMA ReleaseClosedStep ==
    ASSUME IInv, NEW s \in Streams, ReleaseClosed(s)
    PROVE  IInv'
  <1> DEFINE w == worker[s]
             save == [pc |-> "save", at |-> w.at]
  <1>1. /\ w.pc \in Finished /\ UNCHANGED <<history, cursor, oldest>> /\ books' = books
        /\ To(s, save) /\ tracked' = Released(w.org, Closed(history[w.at.record]))
    BY DEF ReleaseClosed, Finished, This
  <1>2. save.pc \in Finished /\ save.at = w.at
    BY DEF Finished
  <1>3. w.at.record \in DOMAIN history
    BY <1>1, AtWork DEF NoGap
  <1>4. Homes(tracked')
    BY <1>1, <1>3, ReleasedHomes DEF IInv, Shape
  <1> HIDE DEF save
  <1>5. Sound(history, save, s, cursor[s], books)
    BY <1>1, <1>2, SameEnd
  <1>6. /\ Vouched(history, s, cursor[s], books) /\ oldest \in Nat
        /\ cursor \in [Streams -> 0..Len(history)]
    BY DEF IInv, Shape
  <1> QED BY <1>1, <1>4, <1>5, <1>6, Moved

(* saveCursor: with the record done and nothing skipped, the cursor may vouch for it. *)
LEMMA SaveCursorStep ==
    ASSUME IInv, NEW s \in Streams, saveCursor(s)
    PROVE  IInv'
  <1> DEFINE w == worker[s]
             at == w.at
  <1>1. /\ w.pc \in Finished /\ UNCHANGED <<history, tracked, oldest>> /\ books' = books
        /\ cursor' = [cursor EXCEPT ![s] = at.record]
        /\ IF at.rest = {} THEN To(s, Idle) ELSE NextRecord(s, at.rest)
    BY DEF saveCursor, Finished
  <1>2. /\ history \in Seq(Op) /\ history[at.record] \in Op
        /\ NoGap(history, s, cursor[s], at)
        /\ BookedBefore(history, books, at.record, at.n)
        /\ at.n > Len(Movements(history[at.record]))
    BY <1>1, AtWork
  <1>3. /\ at.record \in DOMAIN history /\ at.rest \subseteq DOMAIN history
        /\ cursor[s] < at.record
        /\ \A j \in at.rest : at.record < j /\ history[j].stream = s
        /\ \A i \in DOMAIN history, j \in {at.record} \cup at.rest :
             history[i].stream = s /\ cursor[s] < i /\ i < j => i \in {at.record} \cup at.rest
        /\ at.n \in Nat
    BY <1>2 DEF NoGap, At
  <1>4. /\ cursor \in [Streams -> 0..Len(history)] /\ cursor[s] \in Nat
        /\ at.record \in 0..Len(history) /\ at.record \in Nat
        /\ \A i \in DOMAIN history : i \in Nat
    BY <1>2, <1>3 DEF IInv, Shape
  <1> HIDE DEF at
  <1>5. /\ cursor' \in [Streams -> 0..Len(history)] /\ cursor'[s] = at.record
        /\ \A t \in Streams \ {s} : cursor'[t] = cursor[t]
    BY <1>1, <1>4
  <1>6. \A n \in DOMAIN Movements(history[at.record]) :
          Recorded(books, at.record, history[at.record], n)
    <2>1. Movements(history[at.record]) \in Seq(Movement)
      BY <1>2, MovementsType
    <2>2. \A n \in DOMAIN Movements(history[at.record]) : n < at.n
      BY <1>2, <1>3, <2>1
    <2> QED BY <1>2, <2>2 DEF BookedBefore
  <1>7. Vouched(history, s, at.record, books)
    <2>1. ASSUME NEW i \in DOMAIN history, i <= at.record, history[i].stream = s
          PROVE  i <= cursor[s] \/ i = at.record
      BY <1>3, <1>4, <2>1
    <2>2. Vouched(history, s, cursor[s], books)
      BY DEF IInv
    <2> QED BY <1>6, <2>1, <2>2 DEF Vouched
  <1>8. \E next : To(s, next) /\ Sound(history, next, s, at.record, books)
    <2>1. CASE at.rest = {}
      BY <1>1, <2>1, IdleSound
    <2>2. CASE at.rest # {}
      <3>1. NextRecord(s, at.rest)
        BY <1>1, <2>2
      <3>2. \A i \in DOMAIN history, j \in at.rest :
              history[i].stream = s /\ at.record < i /\ i < j => i \in at.rest
        BY <1>3, <1>4
      <3>3. \A j \in at.rest : history[j].stream = s /\ at.record < j
        BY <1>3
      <3> QED BY <1>3, <1>4, <3>1, <3>2, <3>3, AtNext
    <2> QED BY <2>1, <2>2
  <1>9. PICK next : To(s, next) /\ Sound(history, next, s, at.record, books)
    BY <1>8
  <1>10. oldest' \in Nat /\ Homes(tracked') /\ history' = history /\ books \subseteq books'
    BY <1>1 DEF IInv, Shape
  <1> QED BY <1>1, <1>5, <1>7, <1>9, <1>10, Moved

--------------------------------------------------------------------------------
(* The rest of Next leaves the workers, the cursors and the books alone. *)
LEMMA Untouched ==
    ASSUME IInv, UNCHANGED <<history, books, cursor, worker>>, Homes(tracked'), oldest' \in Nat
    PROVE  IInv'
  BY DEF IInv, Shape

(* Crash: the worker goes back to its cursor. *)
LEMMA CrashStep ==
    ASSUME IInv, NEW s \in Streams, Crash(s)
    PROVE  IInv'
  <1>1. To(s, Idle) /\ UNCHANGED <<history, tracked, cursor, oldest>> /\ books' = books
    BY DEF Crash
  <1> QED BY <1>1, IdleSound, MovedOnly

(* TrackAddress and ReleaseAddress: a linked wallet is never one watched from the start. *)
LEMMA LinkStep ==
    ASSUME IInv, NEW link \in Links,
           TrackAddress(link[1], link[2]) \/ ReleaseAddress(link[1], link[2])
    PROVE  IInv'
  <1>1. link[1] \in Addresses /\ link[1] \notin DOMAIN Home /\ link[2] \in Accounts
    BY IngestionAssumption
  <1>2. Homes(tracked) /\ oldest \in Nat
    BY DEF IInv, Shape
  <1>3. CASE TrackAddress(link[1], link[2])
    <2>1. Homes(tracked')
      BY <1>1, <1>2, <1>3, IngestionAssumption DEF TrackAddress, Homes
    <2> QED BY <1>2, <1>3, <2>1, Untouched DEF TrackAddress
  <1>4. CASE ReleaseAddress(link[1], link[2])
    <2>1. Homes(tracked')
      BY <1>1, <1>4, ReleasedHomes DEF ReleaseAddress
    <2> QED BY <1>2, <1>4, <2>1, Untouched DEF ReleaseAddress
  <1> QED BY <1>3, <1>4

(* Forget: the RPC loses records; what a worker holds it has already fetched. *)
LEMMA ForgetStep ==
    ASSUME IInv, Forget
    PROVE  IInv'
  <1>1. oldest' \in Nat /\ Homes(tracked')
    BY DEF IInv, Shape, Forget
  <1> QED BY <1>1, Untouched DEF Forget

(* Empty books, cursors at nothing, idle workers. *)
LEMMA InitHolds ==
    ASSUME Init
    PROVE  IInv
  <1>1. history \in Seq(Op) /\ \A i \in DOMAIN history : Closed(history[i]) \notin DOMAIN Home
    BY IngestionAssumption DEF Init
  <1>2. Homes(tracked)
    BY IngestionAssumption DEF Init, Homes
  <1>3. Len(history) \in Nat /\ \A i \in DOMAIN history : i \in Nat /\ i >= 1
    BY <1>1
  <1>4. Shape
    BY <1>1, <1>2, <1>3 DEF Init, Shape
  <1>5. ASSUME NEW s \in Streams
        PROVE  /\ Sound(history, worker[s], s, cursor[s], books)
               /\ Vouched(history, s, cursor[s], books)
    <2>1. worker[s] = Idle /\ cursor[s] = 0
      BY DEF Init
    <2> QED BY <1>3, <2>1, IdleSound DEF Vouched
  <1> QED BY <1>4, <1>5 DEF IInv

(* Every step of the system keeps the invariant. *)
LEMMA NextKeeps ==
    ASSUME IInv, [Next]_vars
    PROVE  IInv'
  <1>1. ASSUME NEW s \in Streams, Run(s) \/ Crash(s)
        PROVE  IInv'
    BY <1>1, OnceStep, LookUpFromStep, ApplyStep, PostStep, OpenStep, PostOpeningStep,
       PostAgainStep, ApplyCloseStep, ReleaseClosedStep, SaveCursorStep, CrashStep DEF Run
  <1>2. CASE UNCHANGED vars
    <2>1. Homes(tracked') /\ oldest' \in Nat /\ UNCHANGED <<history, books, cursor, worker>>
      BY <1>2 DEF vars, IInv, Shape
    <2> QED BY <2>1, Untouched
  <1> QED BY <1>1, <1>2, LinkStep, ForgetStep DEF Next

(* What the cursors vouch for is what NothingLost says. *)
LEMMA VouchedIsNothingLost ==
    ASSUME IInv
    PROVE  NothingLost
  <1> SUFFICES ASSUME NEW s \in Streams, NEW i \in 1..cursor[s], history[i].stream = s,
                      NEW n \in DOMAIN Movements(history[i])
               PROVE  Recorded(books, i, history[i], n)
    BY DEF NothingLost
  <1>1. i \in DOMAIN history /\ i <= cursor[s]
    BY DEF IInv, Shape
  <1> QED BY <1>1 DEF IInv, Vouched

(* At every moment each worker's record, and each cursor, is accounted for: the      *)
(* inductive invariant of Ingester.Run (ingestion/, apply, Once, saveCursor).        *)
THEOREM AccountedFor == Spec => []IInv
  <1>1. Init => IInv
    BY InitHolds
  <1>2. IInv /\ [Next]_vars => IInv'
    BY NextKeeps
  <1> QED BY <1>1, <1>2, PTL DEF Spec

(* No payment of a watched address is ever lost: whatever happened on the network, in *)
(* whatever order the workers, the crashes, the members and the RPC's forgetting come, *)
(* what a cursor has passed is in the books (Once, apply, checkRetention, saveCursor). *)
THEOREM NothingEverLost == Spec => []NothingLost
  <1>1. IInv => NothingLost
    BY VouchedIsNothingLost
  <1> QED BY <1>1, AccountedFor, PTL

--------------------------------------------------------------------------------
(***************************************************************************)
(* The types of the tables.  A balance is a number only while the books    *)
(* are finite and every line of them has an amount; what is missing is     *)
(* more than nothing only because open found it so; and a line stays in    *)
(* its workspace because Post asks, whoever the two addresses were.        *)
(***************************************************************************)
Right(b) ==
    /\ b \in Transaction /\ b.amount > 0
    /\ OrgOf[b.debit] = b.org /\ OrgOf[b.credit] = b.org
Ready(w) ==
    /\ w \in Worker
    /\ w.pc \in WithList => \A t \in Listed(w.todo) : t.amount > 0
    /\ w.pc = "opening" => w.short > 0

TInv ==
    /\ history \in Histories /\ crashes \in 0..MaxCrashes
    /\ IsFiniteSet(books) /\ \A b \in books : Right(b)
    /\ worker \in [Streams -> Worker] /\ \A s \in Streams : Ready(worker[s])

Amounts(S) == Sum([b \in S |-> b.amount], S)

(* The amounts of a finite set of lines add up to a natural number. *)
LEMMA AmountsSum ==
    ASSUME NEW S, IsFiniteSet(S), \A b \in S : b.amount \in Nat
    PROVE  MapThenSumSet(LAMBDA b : b.amount, S) = Amounts(S) /\ Amounts(S) \in Nat
  <1> DEFINE f == [b \in S |-> b.amount]
             Rec(g) == g = [s \in SUBSET S |->
                     IF s = {} THEN 0
                     ELSE (CHOOSE x \in s : TRUE).amount + g[s \ {CHOOSE x \in s : TRUE}]]
             it == CHOOSE g : Rec(g)
  <1>1. MapThenSumSet(LAMBDA b : b.amount, S) = it[S]
    BY DEF MapThenSumSet, MapThenFoldSet
  <1>2. f \in [S -> Nat] /\ DOMAIN f = S /\ \A x \in S : f[x] \in Nat
    OBVIOUS
  <1>3. ASSUME NEW s \in SUBSET S, s # {}
        PROVE  f[Pick(s)] = Pick(s).amount
    BY <1>3, Picked
  <1> HIDE DEF f
  <1>4. ASSUME NEW g
        PROVE  Rec(g) <=> Adds(g, f, S)
    <2>1. \A s \in SUBSET S :
            (IF s = {} THEN 0
             ELSE (CHOOSE x \in s : TRUE).amount + g[s \ {CHOOSE x \in s : TRUE}])
            = (IF s = {} THEN 0 ELSE f[Pick(s)] + g[s \ {Pick(s)}])
      BY <1>3 DEF Pick
    <2> QED BY <2>1 DEF Adds
  <1>5. PICK h : Adds(h, f, S)
    BY AddsExists
  <1> HIDE DEF Rec
  <1>6. Rec(it)
    BY <1>4, <1>5
  <1>7. Adds(it, f, S)
    <2> HIDE DEF it
    <2> QED BY <1>4, <1>6
  <1> HIDE DEF it
  <1>8. S \in SUBSET S
    OBVIOUS
  <1>9. PICK k : Adds(k, f, DOMAIN f) /\ \A T : Sum(f, T) = k[T]
    BY <1>2, SumIsAdds
  <1>10. it[S] = k[S]
    BY <1>2, <1>7, <1>9, AddsAgree
  <1>11. Sum(f, S) \in Nat
    BY <1>2, <1>8, SumTerm
  <1> QED BY <1>1, <1>9, <1>10, <1>11 DEF Amounts, f

(* So every balance is a number. *)
LEMMA BalanceType ==
    ASSUME TInv, NEW account, NEW asset
    PROVE  Balance(account, asset) \in Int
  <1> DEFINE lines == {b \in books : b.asset = asset}
             In == {b \in lines : b.credit = account}
             Spent == {b \in lines : b.debit = account}
  <1>1. IsFiniteSet(In) /\ IsFiniteSet(Spent)
    <2>1. In \subseteq books /\ Spent \subseteq books
      OBVIOUS
    <2> HIDE DEF In, Spent
    <2> QED BY <2>1, FS_Subset DEF TInv
  <1>2. \A b \in books : b.amount \in Nat
    BY DEF TInv, Right, Transaction
  <1>3. (\A b \in In : b.amount \in Nat) /\ (\A b \in Spent : b.amount \in Nat)
    BY <1>2
  <1> HIDE DEF In, Spent
  <1>4. /\ MapThenSumSet(LAMBDA b : b.amount, In) \in Nat
        /\ MapThenSumSet(LAMBDA b : b.amount, Spent) \in Nat
    BY <1>1, <1>3, AmountsSum
  <1>5. Balance(account, asset) = MapThenSumSet(LAMBDA b : b.amount, In)
                                    - MapThenSumSet(LAMBDA b : b.amount, Spent)
    BY DEF Balance, In, Spent
  <1> QED BY <1>4, <1>5

(* One worker moves on, and the books take at most a right line. *)
LEMMA TypedMove ==
    ASSUME TInv, NEW s \in Streams, NEW next, To(s, next), Ready(next), history' = history,
           crashes' \in 0..MaxCrashes,
           books' = books \/ \E b : Right(b) /\ books' = books \cup {b}
    PROVE  TInv'
  <1>1. /\ worker' \in [Streams -> Worker]
        /\ \A t \in Streams : worker'[t] = next \/ worker'[t] = worker[t]
    BY DEF TInv, To, Ready
  <1>2. IsFiniteSet(books') /\ \A b \in books' : Right(b)
    <2>1. CASE books' = books
      BY <2>1 DEF TInv
    <2>2. ASSUME NEW b, Right(b), books' = books \cup {b}
          PROVE  IsFiniteSet(books') /\ \A c \in books' : Right(c)
      BY <2>2, FS_AddElement DEF TInv
    <2> QED BY <2>1, <2>2
  <1>3. \A t \in Streams : Ready(worker'[t])
    BY <1>1 DEF TInv
  <1> QED BY <1>1, <1>2, <1>3 DEF TInv

(* The shapes a worker without a list takes. *)
LEMMA PlainReady ==
    ASSUME NEW at \in At
    PROVE  /\ Ready(Idle)
           /\ \A h : Ready(Place(h, at))
           /\ Ready([pc |-> "save", at |-> at])
           /\ \A from \in Accounts \cup {Nobody} : Ready([pc |-> "to", at |-> at, from |-> from])
           /\ \A org \in Orgs : Ready([pc |-> "release", at |-> at, org |-> org])
  <1>1. Ready(Idle)
    BY DEF Ready, Idle, Worker, WithList
  <1>2. \A h : Ready(Place(h, at))
    BY DEF Ready, Place, Worker, WithList
  <1>3. Ready([pc |-> "save", at |-> at])
    BY DEF Ready, Worker, WithList
  <1>4. \A from \in Accounts \cup {Nobody} : Ready([pc |-> "to", at |-> at, from |-> from])
    BY DEF Ready, Worker, WithList
  <1>5. \A org \in Orgs : Ready([pc |-> "release", at |-> at, org |-> org])
    BY DEF Ready, Worker, WithList
  <1> QED BY <1>1, <1>2, <1>3, <1>4, <1>5

(* And those of one with a list of amounts. *)
LEMMA ListReady ==
    ASSUME NEW at \in At, NEW todo \in Seq(Transaction), \A t \in Listed(todo) : t.amount > 0
    PROVE  /\ \A pc \in {"post", "open", "again"} : Ready([pc |-> pc, at |-> at, todo |-> todo])
           /\ \A short \in Nat \ {0} :
                Ready([pc |-> "opening", at |-> at, todo |-> todo, short |-> short])
  <1>1. \A pc \in {"post", "open", "again"} : Ready([pc |-> pc, at |-> at, todo |-> todo])
    BY DEF Ready, Worker, WithList
  <1>2. \A short \in Nat \ {0} :
          Ready([pc |-> "opening", at |-> at, todo |-> todo, short |-> short])
    BY DEF Ready, Worker, WithList
  <1> QED BY <1>1, <1>2

(* Every entry of a movement is for the movement's amount. *)
LEMMA EntriesAmount ==
    ASSUME NEW key, NEW from, NEW to, NEW move
    PROVE  \A t \in Listed(entriesFor(key, from, to, move)) : t.amount = move.amount
  <1> DEFINE g == Entry(key, "send", from, to, move)
             e == Entry(key, "withdrawal", from, External[OrgOf[from]], move)
             f == Entry(key, "deposit", External[OrgOf[to]], to, move)
             todo == entriesFor(key, from, to, move)
  <1>1. g.amount = move.amount /\ e.amount = move.amount /\ f.amount = move.amount
    BY DEF Entry
  <1>2. \/ todo = <<g>>
        \/ todo = (IF from = Nobody THEN <<>> ELSE <<e>>) \o (IF to = Nobody THEN <<>> ELSE <<f>>)
    BY Zenon DEF entriesFor
  <1> HIDE DEF g, e, f, todo
  <1>3. Listed(todo) \subseteq {g, e, f}
    <2>1. ASSUME NEW a \in Seq({e, f}), NEW b \in Seq({e, f}), todo = a \o b
          PROVE  Listed(todo) \subseteq {g, e, f}
      <3>1. todo \in Seq({e, f})
        BY <2>1, ConcatProperties
      <3> QED BY <3>1 DEF Listed
    <2>2. <<>> \in Seq({e, f}) /\ <<e>> \in Seq({e, f}) /\ <<f>> \in Seq({e, f})
      OBVIOUS
    <2>3. CASE todo = <<g>>
      BY <2>3 DEF Listed
    <2>4. CASE todo = (IF from = Nobody THEN <<>> ELSE <<e>>) \o (IF to = Nobody THEN <<>> ELSE <<f>>)
      <3> DEFINE a == IF from = Nobody THEN <<>> ELSE <<e>>
                 b == IF to = Nobody THEN <<>> ELSE <<f>>
      <3>1. a \in Seq({e, f}) /\ b \in Seq({e, f})
        BY <2>2
      <3>2. todo = a \o b
        BY <2>4
      <3> HIDE DEF a, b
      <3> QED BY <2>1, <3>1, <3>2
    <2> QED BY <1>2, <2>3, <2>4
  <1> QED BY <1>1, <1>3 DEF todo

(* A worker with a list of amounts goes on to a place that is typed. *)
LEMMA PostingReady ==
    ASSUME NEW s \in Streams, worker[s].at \in At, NEW todo \in Seq(Transaction),
           \A t \in Listed(todo) : t.amount > 0, Posting(s, todo)
    PROVE  \E next : To(s, next) /\ Ready(next)
  <1> DEFINE at == worker[s].at
             to == [at EXCEPT !.n = @ + 1]
  <1>1. CASE todo = <<>>
    <2>1. to \in At
      BY DEF At
    <2>2. To(s, Place(history, to))
      BY <1>1 DEF Posting, NextMovement, Reach, Place
    <2> HIDE DEF to
    <2> QED BY <2>1, <2>2, PlainReady
  <1>2. CASE todo # <<>>
    <2>1. To(s, [pc |-> "post", at |-> at, todo |-> todo])
      BY <1>2 DEF Posting
    <2>2. Ready([pc |-> "post", at |-> at, todo |-> todo])
      BY ListReady
    <2> QED BY <2>1, <2>2
  <1> QED BY <1>1, <1>2

(* And so does one that takes the next record of a page. *)
LEMMA NextReady ==
    ASSUME IInv, NEW s \in Streams, NEW page, page \subseteq DOMAIN history, NextRecord(s, page)
    PROVE  \E next : To(s, next) /\ Ready(next)
  <1>1. PICK i \in page : Reach(s, [record |-> i, rest |-> page \ {i}, n |-> 1])
    BY DEF NextRecord
  <1> DEFINE at == [record |-> i, rest |-> page \ {i}, n |-> 1]
  <1>2. \A j \in DOMAIN history : j \in Nat
    BY DEF IInv, Shape
  <1>3. at \in At
    BY <1>2 DEF At
  <1>4. To(s, Place(history, at))
    BY <1>1 DEF Reach, Place
  <1> HIDE DEF at
  <1> QED BY <1>3, <1>4, PlainReady

(* What is known of a worker that has a list. *)
LEMMA AtList ==
    ASSUME IInv, TInv, NEW s \in Streams, worker[s].pc \in WithList
    PROVE  LET w == worker[s]
           IN  /\ w.at \in At /\ w.todo \in Seq(Transaction)
               /\ \A t \in Listed(w.todo) : t.amount > 0
               /\ Head(w.todo) \in Transaction /\ Head(w.todo).amount > 0
               /\ Tail(w.todo) \in Seq(Transaction)
               /\ \A t \in Listed(Tail(w.todo)) : t.amount > 0
  <1> DEFINE w == worker[s]
  <1>1. w.pc \in MidMovement
    BY DEF WithList, MidMovement
  <1>2. w.todo \in Seq(Transaction) /\ w.todo # <<>> /\ w.at \in At
    BY <1>1, AtWork DEF NoGap
  <1>3. \A t \in Listed(w.todo) : t.amount > 0
    BY DEF TInv, Ready
  <1>4. Head(w.todo) \in Listed(w.todo) /\ Head(w.todo) \in Transaction
    BY <1>2 DEF Listed
  <1>5. Tail(w.todo) \in Seq(Transaction)
    BY <1>2
  <1>6. Listed(Tail(w.todo)) \subseteq Listed(w.todo)
    <2>1. \A k \in DOMAIN Tail(w.todo) : k + 1 \in DOMAIN w.todo /\ Tail(w.todo)[k] = w.todo[k + 1]
      BY <1>2
    <2> QED BY <2>1 DEF Listed
  <1> QED BY <1>2, <1>3, <1>4, <1>5, <1>6

(* What Post lets into the books is a right line: it is there already, or both accounts *)
(* are of its workspace.                                                                *)
LEMMA PostedRight ==
    ASSUME TInv, NEW tx \in Transaction, tx.amount > 0, Outcome(tx) \in {"new", "replay"}
    PROVE  Right(tx) /\ (Outcome(tx) = "replay" => tx \in books)
  <1>1. CASE \E b \in books : b.org = tx.org /\ b.key = tx.key
    <2>1. tx \in books
      BY <1>1 DEF Outcome
    <2> QED BY <2>1 DEF TInv
  <1>2. CASE ~\E b \in books : b.org = tx.org /\ b.key = tx.key
    <2>1. {OrgOf[tx.debit], OrgOf[tx.credit]} = {tx.org} /\ Outcome(tx) # "replay"
      BY <1>2 DEF Outcome
    <2> QED BY <2>1 DEF Right
  <1> QED BY <1>1, <1>2

(* The steps that read: Once, LookUpFrom, applyMovement, open, applyClose, saveCursor. *)
LEMMA TypedReads ==
    ASSUME IInv, TInv, NEW s \in Streams,
           Once(s) \/ LookUpFrom(s) \/ applyMovement(s) \/ open(s) \/ applyClose(s)
             \/ ReleaseClosed(s) \/ saveCursor(s)
    PROVE  \E next : To(s, next) /\ Ready(next)
  <1> DEFINE w == worker[s]
             at == w.at
  <1>1. w.pc \in MidMovement \cup Finished => at \in At /\ at.record \in DOMAIN history
    BY AtWork DEF NoGap
  <1>2. CASE Once(s)
    <2>1. PICK page \in SUBSET Available(s) : NextRecord(s, page)
      BY <1>2 DEF Once
    <2> QED BY <2>1, NextReady DEF Available
  <1>3. CASE LookUpFrom(s)
    <2>1. w.pc = "from"
      BY <1>3 DEF LookUpFrom
    <2>2. /\ at \in At /\ history[at.record] \in Op
          /\ at.n \in DOMAIN Movements(history[at.record])
      BY <1>1, <2>1, AtWork DEF MidMovement
    <2>3. Movements(history[at.record])[at.n] \in Movement
      BY <2>2, MovementsType
    <2>4. Whose(ThisMove(s).from) \in Accounts \cup {Nobody}
      BY <2>3, WhoseHome DEF ThisMove, This, Movement
    <2>5. To(s, [pc |-> "to", at |-> at, from |-> Whose(ThisMove(s).from)])
      BY <1>3 DEF LookUpFrom
    <2> QED BY <2>2, <2>4, <2>5, PlainReady
  <1>4. CASE applyMovement(s)
    <2>1. w.pc = "to"
      BY <1>4 DEF applyMovement
    <2>2. /\ at \in At /\ history[at.record] \in Op /\ at.record \in Nat
          /\ at.n \in DOMAIN Movements(history[at.record])
          /\ w.from \in Accounts \cup {Nobody}
          /\ Movements(history[at.record])[at.n].from \in DOMAIN Home =>
               w.from = Home[Movements(history[at.record])[at.n].from]
      BY <1>1, <2>1, AtWork DEF MidMovement
    <2> DEFINE move == Movements(history[at.record])[at.n]
               to == Whose(move.to)
               todo == entriesFor(KeyOf(at.record, history[at.record], at.n), w.from, to, move)
    <2>3. move \in Movement
      BY <2>2, MovementsType
    <2>4. to \in Accounts \cup {Nobody} /\ (move.to \in DOMAIN Home => to = Home[move.to])
      BY <2>3, WhoseHome DEF Movement
    <2>5. \/ NextMovement(s)
          \/ move.amount > 0 /\ Posting(s, todo)
          \/ To(s, Idle)
      BY <1>4 DEF applyMovement, This, ThisMove
    <2>6. todo \in Seq(Transaction)
      BY <2>2, <2>4, EntriesRecord
    <2>7. \A t \in Listed(todo) : t.amount = move.amount
      BY EntriesAmount
    <2> HIDE DEF todo, to, move
    <2>8. CASE NextMovement(s)
      <3>1. Posting(s, <<>>)
        BY <2>8 DEF Posting
      <3>2. <<>> \in Seq(Transaction) /\ Listed(<<>>) = {}
        BY DEF Listed
      <3> QED BY <2>2, <3>1, <3>2, PostingReady
    <2>9. CASE move.amount > 0 /\ Posting(s, todo)
      BY <2>2, <2>6, <2>7, <2>9, PostingReady
    <2> QED BY <2>2, <2>5, <2>8, <2>9, PlainReady
  <1>5. CASE open(s)
    <2> DEFINE tx == Head(w.todo)
               short == tx.amount - Balance(tx.debit, tx.asset)
    <2>1. w.pc \in WithList
      BY <1>5 DEF open, WithList
    <2>2. /\ at \in At /\ w.todo \in Seq(Transaction) /\ tx \in Transaction
          /\ \A t \in Listed(w.todo) : t.amount > 0
      BY <2>1, AtList
    <2>3. short \in Int
      BY <2>2, BalanceType DEF Transaction
    <2>4. \/ To(s, [pc |-> "again", at |-> at, todo |-> w.todo])
          \/ short > 0 /\ To(s, [pc |-> "opening", at |-> at, todo |-> w.todo, short |-> short])
      <3> HIDE DEF short
      <3>1. short <= 0 \/ short > 0
        BY <2>3
      <3> QED BY <1>5, <2>3, <3>1 DEF open, short
    <2> HIDE DEF short
    <2>5. short > 0 => short \in Nat \ {0}
      BY <2>3
    <2> QED BY <2>2, <2>4, <2>5, ListReady
  <1>6. CASE applyClose(s)
    <2>1. w.pc \in Finished
      BY <1>6 DEF applyClose, Finished
    <2>2. history[at.record] \in Op
      BY <2>1, AtWork
    <2>3. Closed(This(s)) \in Addresses \cup {Nobody}
      BY <2>2 DEF Closed, This, Op
    <2> DEFINE account == Whose(Closed(This(s)))
    <2>4. account \in Accounts \cup {Nobody}
      BY <2>3, WhoseHome
    <2>5. \/ To(s, [pc |-> "save", at |-> at])
          \/ account # Nobody /\ To(s, [pc |-> "release", at |-> at, org |-> OrgOf[account]])
      BY <1>6 DEF applyClose
    <2> HIDE DEF account
    <2>6. account # Nobody => OrgOf[account] \in Orgs
      BY <2>4, IngestionAssumption
    <2> QED BY <1>1, <2>1, <2>5, <2>6, PlainReady
  <1>7. CASE ReleaseClosed(s)
    <2>1. w.pc \in Finished /\ To(s, [pc |-> "save", at |-> at])
      BY <1>7 DEF ReleaseClosed, Finished
    <2> QED BY <1>1, <2>1, PlainReady
  <1>8. CASE saveCursor(s)
    <2>1. w.pc \in Finished /\ (To(s, Idle) \/ NextRecord(s, at.rest))
      BY <1>8 DEF saveCursor, Finished
    <2>2. at \in At /\ at.rest \subseteq DOMAIN history
      BY <2>1, AtWork DEF NoGap
    <2> QED BY <2>1, <2>2, PlainReady, NextReady
  <1> QED BY <1>2, <1>3, <1>4, <1>5, <1>6, <1>7, <1>8

(* Post: a new line is right, and the rest of the list is kept or posted. *)
LEMMA TypedPost ==
    ASSUME IInv, TInv, NEW s \in Streams, Post(s)
    PROVE  /\ \E next : To(s, next) /\ Ready(next)
           /\ books' = books \/ \E b : Right(b) /\ books' = books \cup {b}
  <1> DEFINE w == worker[s]
             tx == Head(w.todo)
  <1>1. w.pc \in WithList
    BY DEF Post, WithList
  <1>2. /\ w.at \in At /\ w.todo \in Seq(Transaction) /\ \A t \in Listed(w.todo) : t.amount > 0
        /\ tx \in Transaction /\ tx.amount > 0 /\ Tail(w.todo) \in Seq(Transaction)
        /\ \A t \in Listed(Tail(w.todo)) : t.amount > 0
    BY <1>1, AtList
  <1>3. \/ Outcome(tx) = "new" /\ books' = books \cup {tx} /\ Posting(s, Tail(w.todo))
        \/ books' = books /\ Posting(s, Tail(w.todo))
        \/ books' = books /\ To(s, [pc |-> "open", at |-> w.at, todo |-> w.todo])
        \/ books' = books /\ To(s, Idle)
    BY DEF Post
  <1> HIDE DEF tx
  <1>4. Outcome(tx) = "new" => Right(tx)
    BY <1>2, PostedRight
  <1>5. Posting(s, Tail(w.todo)) => \E next : To(s, next) /\ Ready(next)
    BY <1>2, PostingReady
  <1>6. Ready([pc |-> "open", at |-> w.at, todo |-> w.todo]) /\ Ready(Idle)
    BY <1>2, ListReady, PlainReady
  <1> QED BY <1>3, <1>4, <1>5, <1>6

(* PostOpening: what is missing, from outside into the account that paid. *)
LEMMA TypedOpening ==
    ASSUME IInv, TInv, NEW s \in Streams, PostOpening(s)
    PROVE  /\ \E next : To(s, next) /\ Ready(next)
           /\ books' = books \/ \E b : Right(b) /\ books' = books \cup {b}
  <1> DEFINE w == worker[s]
             tx == Head(w.todo)
             opening == [tx EXCEPT !.kind = "opening", !.debit = External[tx.org],
                                   !.credit = tx.debit, !.amount = w.short,
                                   !.key = [@ EXCEPT !.opening = w.short]]
  <1>1. w.pc \in WithList /\ w.pc = "opening"
    BY DEF PostOpening, WithList
  <1>2. /\ w.at \in At /\ w.todo \in Seq(Transaction) /\ \A t \in Listed(w.todo) : t.amount > 0
        /\ tx \in Transaction
    BY <1>1, AtList
  <1>3. w.short \in Nat /\ w.short > 0
    BY <1>1 DEF TInv, Ready, Worker
  <1>4. opening \in Transaction /\ opening.amount > 0
    <2> HIDE DEF tx, w
    <2>1. tx.key \in Key /\ External[tx.org] \in Accounts
      BY <1>2, IngestionAssumption DEF Transaction
    <2>2. [tx.key EXCEPT !.opening = w.short] \in Key
      BY <1>3, <2>1 DEF Key
    <2> QED BY <1>2, <1>3, <2>1, <2>2 DEF Transaction
  <1>5. \/ /\ Outcome(opening) \in {"new", "replay"} /\ books' = books \cup {opening}
           /\ To(s, [pc |-> "again", at |-> w.at, todo |-> w.todo])
        \/ books' = books /\ To(s, Idle)
    BY DEF PostOpening
  <1> HIDE DEF opening
  <1>6. Outcome(opening) \in {"new", "replay"} => Right(opening)
    BY <1>4, PostedRight
  <1>7. Ready([pc |-> "again", at |-> w.at, todo |-> w.todo]) /\ Ready(Idle)
    BY <1>2, ListReady, PlainReady
  <1> QED BY <1>5, <1>6, <1>7

(* PostAgain. *)
LEMMA TypedAgain ==
    ASSUME IInv, TInv, NEW s \in Streams, PostAgain(s)
    PROVE  /\ \E next : To(s, next) /\ Ready(next)
           /\ books' = books \/ \E b : Right(b) /\ books' = books \cup {b}
  <1> DEFINE w == worker[s]
             tx == Head(w.todo)
  <1>1. w.pc \in WithList
    BY DEF PostAgain, WithList
  <1>2. /\ w.at \in At /\ tx \in Transaction /\ tx.amount > 0
        /\ Tail(w.todo) \in Seq(Transaction) /\ \A t \in Listed(Tail(w.todo)) : t.amount > 0
    BY <1>1, AtList
  <1>3. \/ Outcome(tx) \in {"new", "replay"} /\ books' = books \cup {tx} /\ Posting(s, Tail(w.todo))
        \/ books' = books /\ To(s, Idle)
    BY DEF PostAgain
  <1> HIDE DEF tx
  <1>4. Outcome(tx) \in {"new", "replay"} => Right(tx)
    BY <1>2, PostedRight
  <1>5. Posting(s, Tail(w.todo)) => \E next : To(s, next) /\ Ready(next)
    BY <1>2, PostingReady
  <1>6. Ready(Idle)
    BY <1>2, PlainReady
  <1> QED BY <1>3, <1>4, <1>5, <1>6

(* They start so. *)
LEMMA TypedInit == Init => TInv
  <1>1. Init => worker \in [Streams -> Worker] /\ \A s \in Streams : Ready(worker[s])
    BY DEF Init, Ready, Idle, Worker, WithList
  <1>2. Init => history \in Histories /\ crashes \in 0..MaxCrashes /\ IsFiniteSet(books)
                /\ \A b \in books : Right(b)
    BY IngestionAssumption, FS_EmptySet DEF Init
  <1> QED BY <1>1, <1>2 DEF TInv

(* Every step keeps the tables typed. *)
LEMMA TypedStep ==
    ASSUME IInv, TInv, [Next]_vars
    PROVE  TInv'
  <1>1. ASSUME NEW s \in Streams, Run(s)
        PROVE  TInv'
    <2>1. history' = history /\ crashes' = crashes
      BY <1>1 DEF Run, Once, LookUpFrom, applyMovement, Post, open, PostOpening, PostAgain,
                  applyClose, ReleaseClosed, saveCursor
    <2>2. /\ \E next : To(s, next) /\ Ready(next)
          /\ books' = books \/ \E b : Right(b) /\ books' = books \cup {b}
      <3>1. CASE Post(s) \/ PostOpening(s) \/ PostAgain(s)
        BY <3>1, TypedPost, TypedOpening, TypedAgain
      <3>2. CASE Once(s) \/ LookUpFrom(s) \/ applyMovement(s) \/ open(s) \/ applyClose(s)
                   \/ ReleaseClosed(s) \/ saveCursor(s)
        <4>1. books' = books
          BY <3>2 DEF Once, LookUpFrom, applyMovement, open, applyClose, ReleaseClosed, saveCursor
        <4> QED BY <3>2, <4>1, TypedReads
      <3> QED BY <1>1, <3>1, <3>2 DEF Run
    <2>3. PICK next : To(s, next) /\ Ready(next)
      BY <2>2
    <2>4. crashes' \in 0..MaxCrashes
      BY <2>1 DEF TInv
    <2> QED BY <2>1, <2>2, <2>3, <2>4, TypedMove
  <1>2. ASSUME NEW s \in Streams, Crash(s)
        PROVE  TInv'
    <2>1. To(s, Idle) /\ history' = history /\ books' = books /\ crashes' \in 0..MaxCrashes
      BY <1>2, IngestionAssumption DEF Crash, TInv
    <2>2. Ready(Idle)
      BY DEF Ready, Idle, Worker, WithList
    <2> QED BY <2>1, <2>2, TypedMove
  <1>3. CASE UNCHANGED <<history, books, worker, crashes>>
    BY <1>3 DEF TInv
  <1>4. CASE UNCHANGED vars
    BY <1>3, <1>4 DEF vars
  <1>5. CASE Next
    BY <1>1, <1>2, <1>3, <1>5 DEF Next, TrackAddress, ReleaseAddress, Forget
  <1> QED BY <1>4, <1>5

(* The tables of the books and the workers keep their types, every line within one       *)
(* workspace and for more than nothing (ingestion/, ledger/ledger.go Post, open).         *)
THEOREM BooksTyped == Spec => []TypeOK
  <1>1. Init => TInv
    BY TypedInit
  <1>2. IInv /\ TInv /\ [Next]_vars => TInv'
    BY TypedStep
  <1>3. IInv /\ TInv => TypeOK
    BY DEF IInv, Shape, Homes, TInv, Right, TypeOK
  <1> QED BY <1>1, <1>2, <1>3, AccountedFor, PTL DEF Spec

--------------------------------------------------------------------------------
(***************************************************************************)
(* NothingInvented.  An opening balance is what an account is short of     *)
(* when it is read, posted a step later.  By then the account is still     *)
(* short of it, since nobody else books that address in that asset; and it *)
(* is money the books never saw, since every record before the one that    *)
(* pays has been passed by the cursor, and was credited or never will be.  *)
(* So the opening balances are covered by records the cursors have passed, *)
(* which no later line can take away.                                      *)
(***************************************************************************)

(* A line that says what movement n of record i says, on the accounts of its two ends. *)
Says(h, b, i, n) ==
    LET move == Movements(h[i])[n]
    IN  /\ b.key = KeyOf(i, h[i], n) /\ b.kind # "opening"
        /\ b.asset = move.asset /\ b.amount = move.amount
        /\ AllowsNegative(b.debit) \/ (Owns(move.from, b.debit) /\ b.org = OrgOf[b.debit])
        /\ AllowsNegative(b.credit) \/ Owns(move.to, b.credit)

(* No record of its stream between the cursor and record i. *)
NextInLine(h, c, i) ==
    \A j \in DOMAIN h : h[j].stream = h[i].stream /\ j < i => j <= c[h[i].stream]

(* A line is an opening balance, or says what a record says that was next in line. *)
Genuine(h, c, b) ==
    \/ b.kind = "opening" /\ b.key.opening > 0 /\ AllowsNegative(b.debit)
    \/ \E i \in DOMAIN h : NextInLine(h, c, i) /\ \E n \in DOMAIN Movements(h[i]) : Says(h, b, i, n)

Fresh(B, t) == \A b \in B : ~(b.org = t.org /\ b.key = t.key)
OnePerKey(B) == \A b, d \in B : b.org = d.org /\ b.key = d.key => b = d

(* The lines that bring an account an asset, those that take it, and those that stand for *)
(* what never was seen to arrive.                                                         *)
Brings(B, account, asset) == {b \in B : b.asset = asset /\ b.credit = account}
Takes(B, account, asset) == {b \in B : b.asset = asset /\ b.debit = account}
Openings(B, account, asset) ==
    {b \in B : b.kind = "opening" /\ b.credit = account /\ b.asset = asset}

(* What a worker is about to post says what its record says; what it found missing is    *)
(* missing still.                                                                         *)
Truthful(h, w, B) ==
    /\ w.pc = "to" => w.from = Nobody \/ Owns(Movements(h[w.at.record])[w.at.n].from, w.from)
    /\ w.pc \in WithList => \A t \in Listed(w.todo) : Says(h, t, w.at.record, w.at.n)
    /\ w.pc \in {"open", "opening"} =>
         ~AllowsNegative(Head(w.todo).debit) /\ Fresh(B, Head(w.todo))
    /\ w.pc = "opening" =>
         LET tx == Head(w.todo)
         IN  w.short = tx.amount - (Amounts(Brings(B, tx.debit, tx.asset))
                                      - Amounts(Takes(B, tx.debit, tx.asset)))

(* Records a cursor has passed that brought an account nothing in the books. *)
Missed(h, c, B, account) ==
    {i \in DOMAIN h : /\ i <= c[h[i].stream]
                      /\ ~\E b \in B : b.key.record = i /\ b.kind # "opening" /\ b.credit = account}

(* The opening balances are covered by what the cursors have passed alone. *)
Covered(h, c, B) ==
    \A x \in Addresses, account \in Accounts, asset \in Assets :
      Owns(x, account) =>
        Amounts(Openings(B, account, asset))
          <= Initial[x][asset] + Sum(ReceivedIn(h, x, asset), Missed(h, c, B, account))

Owned(t) == \A x \in Addresses : t[x] # Nobody => Owns(x, t[x])

MInv ==
    /\ Owned(tracked)
    /\ OnePerKey(books) /\ \A b \in books : Genuine(history, cursor, b)
    /\ \A s \in Streams : Truthful(history, worker[s], books)
    /\ Covered(history, cursor, books)

(* The tables and the network as NothingInvented takes them to be. *)
Network == OwnAccounts /\ \A h \in Histories : Solvent(h) /\ OneStream(h)

(* An operation moves value out of one place and into one place only. *)
LEMMA OneEach ==
    ASSUME NEW op \in Op
    PROVE  /\ \A n, m \in DOMAIN Movements(op) :
                Movements(op)[n].from # Nobody /\ Movements(op)[m].from # Nobody => n = m
           /\ \A n \in DOMAIN Movements(op) : Movements(op)[n].to # Nobody =>
                /\ op.ok /\ op.kind # "other" /\ Movements(op)[n].to = op.to
                /\ Movements(op)[n].asset = op.asset /\ Movements(op)[n].amount = op.amount
           /\ \A n, m \in DOMAIN Movements(op) :
                Movements(op)[n].to # Nobody /\ Movements(op)[m].to # Nobody => n = m
           /\ \A n \in DOMAIN Movements(op) : Movements(op)[n] \in Movement
  <1> DEFINE a == Move(op.from, op.to, op.asset, op.amount, TRUE)
             b == Move(op.from, op.to, op.asset, op.amount, op.readable)
             c == Move(op.from, Nobody, op.sent, op.sentAmount, TRUE)
             d == Move(Nobody, op.to, op.asset, op.amount, TRUE)
  <1>1. /\ a.to = op.to /\ a.asset = op.asset /\ a.amount = op.amount
        /\ b.to = op.to /\ b.asset = op.asset /\ b.amount = op.amount
        /\ d.to = op.to /\ d.asset = op.asset /\ d.amount = op.amount
        /\ c.to = Nobody /\ d.from = Nobody
    BY DEF Move
  <1>2. op.kind \in OpKind
    BY DEF Op
  <1>3. \/ Movements(op) = <<>>
        \/ op.ok /\ op.kind # "other" /\ Movements(op) = <<a>>
        \/ op.ok /\ op.kind # "other" /\ Movements(op) = <<b>>
        \/ op.ok /\ op.kind # "other" /\ Movements(op) = <<c, d>>
    <2>1. CASE ~op.ok \/ op.kind \in {"account_merge", "other"}
      <3>1. Movements(op) = <<>>
        BY <2>1 DEF Movements
      <3> QED BY <3>1
    <2>2. CASE op.ok /\ op.kind = "payment"
      BY <2>2 DEF Movements
    <2>3. CASE op.ok /\ op.kind = "create_account"
      BY <2>3 DEF Movements
    <2>4. CASE op.ok /\ op.kind = "path_payment"
      BY <2>4 DEF Movements
    <2>5. CASE op.ok /\ op.kind = "transfer"
      BY <2>5 DEF Movements
    <2> QED BY <1>2, <2>1, <2>2, <2>3, <2>4, <2>5 DEF OpKind
  <1> HIDE DEF a, b, c, d
  <1>4. \A n \in DOMAIN Movements(op) : Movements(op)[n] \in Movement
    BY MovementsType
  <1>5. CASE Movements(op) = <<>>
    BY <1>5
  <1>6. CASE op.ok /\ op.kind # "other" /\ Movements(op) = <<a>>
    BY <1>1, <1>4, <1>6
  <1>7. CASE op.ok /\ op.kind # "other" /\ Movements(op) = <<b>>
    BY <1>1, <1>4, <1>7
  <1>8. CASE op.ok /\ op.kind # "other" /\ Movements(op) = <<c, d>>
    BY <1>1, <1>4, <1>8
  <1> QED BY <1>3, <1>5, <1>6, <1>7, <1>8

(* So what it takes from an address, and what it brings one, are what its movements say. *)
LEMMA MovesCount ==
    ASSUME NEW op \in Op, NEW n \in DOMAIN Movements(op)
    PROVE  LET m == Movements(op)[n]
           IN  /\ m.from # Nobody => Paid(op, m.from, m.asset) = m.amount
               /\ m.to # Nobody => Received(op, m.to, m.asset) = m.amount
  <1> DEFINE m == Movements(op)[n]
             out == {k \in DOMAIN Movements(op) :
                       Movements(op)[k].from = m.from /\ Movements(op)[k].asset = m.asset}
  <1>1. ASSUME m.from # Nobody
        PROVE  Paid(op, m.from, m.asset) = m.amount
    <2>1. n \in out
      OBVIOUS
    <2>2. \A k \in out : k = n
      BY <1>1, OneEach
    <2>3. Paid(op, m.from, m.asset) =
            IF out = {} THEN 0 ELSE Movements(op)[CHOOSE k \in out : TRUE].amount
      BY DEF Paid
    <2> HIDE DEF out
    <2>4. (CHOOSE k \in out : TRUE) \in out
      BY <2>1
    <2> QED BY <2>1, <2>2, <2>3, <2>4
  <1>2. ASSUME m.to # Nobody
        PROVE  Received(op, m.to, m.asset) = m.amount
    BY <1>2, OneEach DEF Received
  <1> QED BY <1>1, <1>2

(* Both are amounts. *)
LEMMA CountsAreAmounts ==
    ASSUME NEW h \in Seq(Op), NEW x, NEW asset
    PROVE  /\ IsFiniteSet(DOMAIN h)
           /\ PaidIn(h, x, asset) \in [DOMAIN h -> Nat]
           /\ ReceivedIn(h, x, asset) \in [DOMAIN h -> Nat]
  <1>1. IsFiniteSet(DOMAIN h)
    <2>1. DOMAIN h = 1..Len(h) /\ 1 \in Int /\ Len(h) \in Int
      OBVIOUS
    <2> QED BY <2>1, FS_Interval
  <1>2. ASSUME NEW i \in DOMAIN h
        PROVE  Paid(h[i], x, asset) \in Nat /\ Received(h[i], x, asset) \in Nat
    <2>1. h[i] \in Op
      OBVIOUS
    <2>2. Received(h[i], x, asset) \in Nat
      BY <2>1 DEF Received, Op
    <2> DEFINE op == h[i]
               out == {k \in DOMAIN Movements(op) :
                         Movements(op)[k].from = x /\ Movements(op)[k].asset = asset}
    <2>3. Paid(op, x, asset) =
            IF out = {} THEN 0 ELSE Movements(op)[CHOOSE k \in out : TRUE].amount
      BY DEF Paid
    <2>4. \A k \in out : Movements(op)[k].amount \in Nat
      BY <2>1, OneEach DEF Movement
    <2> HIDE DEF out
    <2>5. out # {} => (CHOOSE k \in out : TRUE) \in out
      OBVIOUS
    <2> QED BY <2>2, <2>3, <2>4, <2>5
  <1> QED BY <1>1, <1>2 DEF PaidIn, ReceivedIn

(* Sums of amounts within one finite set of lines. *)
LEMMA AmountsWithin ==
    ASSUME NEW B, IsFiniteSet(B), \A b \in B : b.amount \in Nat, NEW S \in SUBSET B
    PROVE  /\ Amounts(S) = Sum([b \in B |-> b.amount], S) /\ Amounts(S) \in Nat
           /\ IsFiniteSet(S) /\ [b \in B |-> b.amount] \in [B -> Nat]
  <1> DEFINE f == [b \in S |-> b.amount]
             g == [b \in B |-> b.amount]
  <1>1. IsFiniteSet(S)
    BY FS_Subset
  <1>2. /\ DOMAIN f = S /\ DOMAIN g = B /\ g \in [B -> Nat]
        /\ \A b \in S : f[b] = g[b]
    OBVIOUS
  <1> HIDE DEF f, g
  <1>3. Sum(f, S) = Sum(g, S)
    BY <1>1, <1>2, SumAgree
  <1>4. Sum(g, S) \in Nat
    BY <1>2, SumTerm
  <1> QED BY <1>1, <1>2, <1>3, <1>4 DEF Amounts, f, g

(* An address that owns an account is watched, and the only one that owns it. *)
LEMMA Owner ==
    ASSUME OwnAccounts, NEW x \in Addresses \cup {Nobody}, NEW account \in Accounts,
           Owns(x, account)
    PROVE  /\ x \in Watched /\ x \in Addresses /\ x # Nobody /\ ~AllowsNegative(account)
           /\ \A y \in Addresses \cup {Nobody} : Owns(y, account) => y = x
  <1>1. \A y : Owns(y, account) => y \in Watched
    BY DEF Owns, Watched
  <1>2. Watched \subseteq Addresses /\ Nobody \notin Addresses
    BY IngestionAssumption DEF Watched
  <1> QED BY <1>1, <1>2 DEF OwnAccounts

(* What a line that takes from an account says: its owner paid that. *)
LEMMA LineTakes ==
    ASSUME OwnAccounts, NEW h \in Seq(Op), NEW b \in Transaction, NEW k \in DOMAIN h,
           NEW n \in DOMAIN Movements(h[k]), Says(h, b, k, n),
           NEW x \in Addresses, Owns(x, b.debit)
    PROVE  /\ Movements(h[k])[n].from = x /\ b.org = OrgOf[b.debit]
           /\ PaidIn(h, x, b.asset)[k] = b.amount
  <1> DEFINE m == Movements(h[k])[n]
  <1>1. h[k] \in Op /\ b.debit \in Accounts
    BY DEF Transaction
  <1>2. m \in Movement
    BY <1>1, OneEach
  <1>3. m.from \in Addresses \cup {Nobody}
    BY <1>2 DEF Movement
  <1>4. ~AllowsNegative(b.debit) /\ x # Nobody
    BY <1>1, Owner
  <1>5. Owns(m.from, b.debit) /\ b.org = OrgOf[b.debit] /\ b.asset = m.asset /\ b.amount = m.amount
    BY <1>4 DEF Says
  <1>6. m.from = x
    BY <1>1, <1>3, <1>5, Owner
  <1>7. Paid(h[k], x, b.asset) = b.amount
    BY <1>1, <1>4, <1>5, <1>6, MovesCount
  <1> QED BY <1>5, <1>6, <1>7 DEF PaidIn

(* And one that brings an account something: its owner received that. *)
LEMMA LineBrings ==
    ASSUME OwnAccounts, NEW h \in Seq(Op), NEW b \in Transaction, NEW k \in DOMAIN h,
           NEW n \in DOMAIN Movements(h[k]), Says(h, b, k, n),
           NEW x \in Addresses, Owns(x, b.credit)
    PROVE  /\ Movements(h[k])[n].to = x /\ b.asset = h[k].asset
           /\ ReceivedIn(h, x, b.asset)[k] = b.amount
  <1> DEFINE m == Movements(h[k])[n]
  <1>1. h[k] \in Op /\ b.credit \in Accounts
    BY DEF Transaction
  <1>2. m \in Movement
    BY <1>1, OneEach
  <1>3. m.to \in Addresses \cup {Nobody}
    BY <1>2 DEF Movement
  <1>4. ~AllowsNegative(b.credit) /\ x # Nobody
    BY <1>1, Owner
  <1>5. Owns(m.to, b.credit) /\ b.asset = m.asset /\ b.amount = m.amount
    BY <1>4 DEF Says
  <1>6. m.to = x
    BY <1>1, <1>3, <1>5, Owner
  <1>7. Received(h[k], x, b.asset) = b.amount /\ m.asset = h[k].asset
    BY <1>1, <1>4, <1>5, <1>6, MovesCount, OneEach
  <1> QED BY <1>5, <1>6, <1>7 DEF ReceivedIn

(* Two lines that take from one account under one record have one key. *)
LEMMA SameRecordSameKey ==
    ASSUME OwnAccounts, NEW h \in Seq(Op), NEW b \in Transaction, NEW d \in Transaction,
           NEW k \in DOMAIN h, NEW n \in DOMAIN Movements(h[k]), Says(h, b, k, n),
           NEW m \in DOMAIN Movements(h[k]), Says(h, d, k, m),
           NEW x \in Addresses, Owns(x, b.debit), d.debit = b.debit
    PROVE  b.key = d.key /\ b.org = d.org
  <1>1. /\ Movements(h[k])[n].from = x /\ b.org = OrgOf[b.debit]
        /\ Movements(h[k])[m].from = x /\ d.org = OrgOf[b.debit]
    BY LineTakes
  <1>2. x # Nobody
    BY IngestionAssumption
  <1>3. h[k] \in Op
    OBVIOUS
  <1>4. n = m
    BY <1>1, <1>2, <1>3, OneEach
  <1> QED BY <1>1, <1>4 DEF Says

(* What the books say an account paid, and one payment more that they do not have yet,  *)
(* is no more than its owner paid.                                                       *)
LEMMA TakenWasPaid ==
    ASSUME OwnAccounts, NEW h \in Seq(Op), OneStream(h), NEW c,
           NEW B, IsFiniteSet(B), \A b \in B : Right(b) /\ Genuine(h, c, b), OnePerKey(B),
           NEW i \in DOMAIN h, c[h[i].stream] \in Nat, c[h[i].stream] < i,
           NEW n \in DOMAIN Movements(h[i]), NEW tx \in Transaction, tx.amount > 0,
           Says(h, tx, i, n), Fresh(B, tx), NEW x \in Addresses, Owns(x, tx.debit)
    PROVE  tx.amount + Amounts(Takes(B, tx.debit, tx.asset))
             <= Sum(PaidIn(h, x, tx.asset), 1..i)
  <1> DEFINE account == tx.debit
             asset == tx.asset
             D == Takes(B, account, asset)
             f == PaidIn(h, x, asset)
             T == 1..(i - 1)
  <1>1. /\ account \in Accounts /\ asset \in Assets /\ tx.amount \in Nat
        /\ i \in Nat /\ i >= 1 /\ i <= Len(h) /\ DOMAIN h = 1..Len(h) /\ Len(h) \in Nat
    BY DEF Transaction
  <1>2. x \in Watched /\ ~AllowsNegative(account)
    BY <1>1, Owner
  <1>3. IsFiniteSet(DOMAIN h) /\ f \in [DOMAIN h -> Nat] /\ ReceivedIn(h, x, asset) \in [DOMAIN h -> Nat]
    BY CountsAreAmounts
  <1>4. f[i] = tx.amount
    BY LineTakes
  <1>5. \A b \in D : b \in B /\ b \in Transaction /\ b.amount > 0 /\ b.amount \in Nat
                      /\ b.debit = account /\ b.asset = asset
    BY DEF Takes, Right, Transaction
  <1> HIDE DEF f, D
  <1>6. ASSUME NEW b \in D
        PROVE  \E k \in T : /\ k \in DOMAIN h /\ b.key.record = k /\ f[k] = b.amount
                            /\ \E m \in DOMAIN Movements(h[k]) : Says(h, b, k, m)
    <2>1. Genuine(h, c, b) /\ ~AllowsNegative(b.debit)
      BY <1>2, <1>5
    <2>2. PICK k \in DOMAIN h : /\ NextInLine(h, c, k)
                                /\ \E m \in DOMAIN Movements(h[k]) : Says(h, b, k, m)
      BY <2>1 DEF Genuine
    <2>3. PICK m \in DOMAIN Movements(h[k]) : Says(h, b, k, m)
      BY <2>2
    <2>4. f[k] = b.amount
      BY <1>5, <2>3, LineTakes DEF f
    <2>5. h[k].stream = h[i].stream
      <3>1. f[k] + ReceivedIn(h, x, asset)[k] > 0 /\ f[i] + ReceivedIn(h, x, asset)[i] > 0
        BY <1>1, <1>3, <1>4, <1>5, <2>4
      <3> QED BY <1>1, <1>2, <3>1 DEF OneStream, f
    <2>6. ~(i < k)
      BY <1>1, <2>2, <2>5 DEF NextInLine
    <2>7. k # i
      <3> SUFFICES ASSUME k = i PROVE FALSE
        OBVIOUS
      <3>1. Says(h, b, i, m) /\ m \in DOMAIN Movements(h[i])
        BY <2>3
      <3>2. tx.key = b.key /\ tx.org = b.org
        BY <1>5, <3>1, SameRecordSameKey
      <3> QED BY <1>5, <3>2 DEF Fresh
    <2>8. k \in T
      BY <1>1, <2>6, <2>7
    <2>9. b.key.record = k
      BY <2>3 DEF Says, KeyOf
    <2> QED BY <2>3, <2>4, <2>8, <2>9
  <1> DEFINE g == [j \in T |-> f[j]]
             a == [b \in D |-> b.amount]
             to == [b \in D |-> b.key.record]
  <1>7. /\ g \in [T -> Nat] /\ a \in [D -> Nat] /\ to \in [D -> T]
        /\ \A b \in D : a[b] <= g[to[b]]
    <2>1. T \subseteq DOMAIN h
      BY <1>1
    <2> HIDE DEF T
    <2> QED BY <1>3, <1>5, <1>6, <2>1
  <1>8. ASSUME NEW b \in D, NEW d \in D, to[b] = to[d]
        PROVE  b = d
    <2>1. PICK k \in T : /\ k \in DOMAIN h /\ b.key.record = k
                         /\ \E m \in DOMAIN Movements(h[k]) : Says(h, b, k, m)
      BY <1>6
    <2>2. \E m \in DOMAIN Movements(h[k]) : Says(h, d, k, m)
      BY <1>6, <1>8, <2>1
    <2>3. PICK m \in DOMAIN Movements(h[k]) : Says(h, b, k, m)
      BY <2>1
    <2>4. PICK p \in DOMAIN Movements(h[k]) : Says(h, d, k, p)
      BY <2>2
    <2>5. b.key = d.key /\ b.org = d.org
      BY <1>5, <2>1, <2>3, <2>4, SameRecordSameKey
    <2> QED BY <1>5, <2>5 DEF OnePerKey
  <1>9. IsFiniteSet(D) /\ IsFiniteSet(T) /\ T \subseteq DOMAIN h
    <2>1. D \subseteq B
      BY <1>5
    <2>2. T \subseteq DOMAIN h
      BY <1>1
    <2> HIDE DEF T
    <2> QED BY <1>3, <2>1, <2>2, FS_Subset
  <1> HIDE DEF g, a, to, T
  <1>10. Sum(a, D) <= Sum(g, T)
    BY <1>7, <1>8, <1>9, SumAlong
  <1>11. Sum(g, T) = Sum(f, T)
    <2>1. DOMAIN g = T /\ DOMAIN f = DOMAIN h /\ \A j \in T : g[j] = f[j]
      BY <1>3 DEF g
    <2> QED BY <1>3, <1>9, <2>1, SumAgree
  <1>12. Sum(f, 1..i) = f[i] + Sum(f, T)
    <2> DEFINE W == 1..i
               H == DOMAIN h
    <2>1. W \in SUBSET H /\ i \in W /\ W \ {i} = T /\ IsFiniteSet(H) /\ f \in [H -> Nat]
      BY <1>1, <1>3 DEF T
    <2> HIDE DEF W, H
    <2>2. Sum(f, W) = f[i] + Sum(f, W \ {i})
      BY <2>1, SumTerm
    <2> QED BY <2>1, <2>2 DEF W
  <1>13. Sum(f, T) \in Nat /\ Sum(a, D) \in Nat
    <2>1. D \in SUBSET D
      OBVIOUS
    <2> QED BY <1>3, <1>7, <1>9, <2>1, SumTerm
  <1>14. Amounts(D) = Sum(a, D)
    BY DEF Amounts, a
  <1>15. tx.amount + Amounts(D) <= Sum(f, 1..i)
    BY <1>1, <1>4, <1>10, <1>11, <1>12, <1>13, <1>14
  <1> QED BY <1>15 DEF D, f

(* The lines that say an account was paid; its opening balances are not among them. *)
Deposits(B, account, asset) ==
    {b \in B : b.kind # "opening" /\ b.credit = account /\ b.asset = asset}

(* What an address received before a record that is next in line was booked, or was     *)
(* passed by the cursor unbooked.                                                        *)
LEMMA ReceivedWasBooked ==
    ASSUME OwnAccounts, NEW h \in Seq(Op), OneStream(h), NEW c,
           NEW B, IsFiniteSet(B), \A b \in B : Right(b) /\ Genuine(h, c, b),
           NEW i \in DOMAIN h, NextInLine(h, c, i),
           NEW x \in Addresses, NEW account \in Accounts, Owns(x, account), NEW asset \in Assets,
           PaidIn(h, x, asset)[i] > 0
    PROVE  Sum(ReceivedIn(h, x, asset), 1..(i - 1))
             <= Amounts(Deposits(B, account, asset))
                  + Sum(ReceivedIn(h, x, asset), Missed(h, c, B, account))
  <1> DEFINE f == ReceivedIn(h, x, asset)
             p == PaidIn(h, x, asset)
             S == 1..(i - 1)
             M == Missed(h, c, B, account)
             C == Deposits(B, account, asset)
             For(b, j) == b.key.record = j /\ b.kind # "opening" /\ b.credit = account
             T == {j \in S : f[j] > 0 /\ \E b \in B : For(b, j)}
  <1>1. i \in Nat /\ i >= 1 /\ i <= Len(h) /\ DOMAIN h = 1..Len(h) /\ Len(h) \in Nat
    OBVIOUS
  <1>2. x \in Watched /\ ~AllowsNegative(account)
    BY Owner
  <1>3. IsFiniteSet(DOMAIN h) /\ f \in [DOMAIN h -> Nat] /\ p \in [DOMAIN h -> Nat]
    BY CountsAreAmounts
  <1>4. S \in SUBSET DOMAIN h /\ M \in SUBSET DOMAIN h /\ T \in SUBSET DOMAIN h /\ T \in SUBSET S
    BY <1>1 DEF Missed
  <1>5. \A j \in DOMAIN h : j \in Nat
    BY <1>1
  <1>6. p[i] > 0
    OBVIOUS
  <1> HIDE DEF f, p
  <1>7. ASSUME NEW j \in S, f[j] > 0, j \notin T
        PROVE  j \in M
    <2>1. j \in DOMAIN h /\ j < i /\ f[j] \in Nat /\ p[i] \in Nat /\ p[j] \in Nat /\ f[i] \in Nat
      BY <1>1, <1>3, <1>4
    <2>2. p[j] + f[j] > 0 /\ p[i] + f[i] > 0
      BY <1>6, <1>7, <2>1
    <2>3. h[j].stream = h[i].stream
      BY <1>2, <2>1, <2>2 DEF OneStream, f, p
    <2>4. j <= c[h[j].stream]
      BY <2>1, <2>3 DEF NextInLine
    <2>5. ~\E b \in B : For(b, j)
      BY <1>7
    <2> QED BY <2>1, <2>4, <2>5 DEF Missed
  <1>8. ASSUME NEW j \in T
        PROVE  \E b \in C : b.key.record = j /\ f[j] = b.amount
    <2>1. PICK b \in B : For(b, j)
      OBVIOUS
    <2>2. b \in Transaction /\ j \in DOMAIN h /\ f[j] > 0
      BY <1>4 DEF Right
    <2>3. PICK k \in DOMAIN h : \E m \in DOMAIN Movements(h[k]) : Says(h, b, k, m)
      BY <2>1 DEF Genuine
    <2>4. PICK m \in DOMAIN Movements(h[k]) : Says(h, b, k, m)
      BY <2>3
    <2>5. k = j
      BY <2>1, <2>4 DEF Says, KeyOf
    <2>6. b.asset = h[j].asset /\ ReceivedIn(h, x, b.asset)[j] = b.amount
      BY <2>1, <2>2, <2>4, <2>5, LineBrings
    <2>7. h[j].asset = asset
      <3>1. f[j] = Received(h[j], x, asset)
        BY <2>2 DEF f, ReceivedIn
      <3>2. Received(h[j], x, asset) # 0
        BY <2>2, <3>1
      <3> QED BY <3>2 DEF Received
    <2>8. b \in C /\ f[j] = b.amount
      BY <2>1, <2>6, <2>7 DEF Deposits, f
    <2> QED BY <2>1, <2>8
  <1> DEFINE a == [b \in C |-> b.amount]
             g == [j \in T |-> f[j]]
             to == [j \in T |-> CHOOSE b \in C : b.key.record = j /\ f[j] = b.amount]
  <1>9. \A b \in C : b \in B /\ b.amount \in Nat
    BY DEF Deposits, Right, Transaction
  <1>10. IsFiniteSet(C) /\ IsFiniteSet(T)
    <2>1. C \subseteq B
      BY <1>9
    <2> HIDE DEF C, T
    <2> QED BY <1>3, <1>4, <2>1, FS_Subset
  <1>11. \A j \in T : to[j] \in C /\ to[j].key.record = j /\ f[j] = to[j].amount
    <2> HIDE DEF C, T
    <2> QED BY <1>8
  <1> HIDE DEF C, T, M, S
  <1>12. /\ a \in [C -> Nat] /\ g \in [T -> Nat] /\ to \in [T -> C]
         /\ \A j \in T : g[j] <= a[to[j]]
         /\ \A j, k \in T : to[j] = to[k] => j = k
    <2>1. a \in [C -> Nat] /\ g \in [T -> Nat]
      BY <1>3, <1>4, <1>9
    <2>2. to \in [T -> C]
      BY <1>11
    <2>3. \A j \in T : a[to[j]] = to[j].amount /\ g[j] = f[j] /\ f[j] \in Nat
      BY <1>3, <1>4, <1>11
    <2> HIDE DEF a, g, to
    <2>4. \A j \in T : g[j] <= a[to[j]]
      BY <1>11, <2>3
    <2>5. \A j, k \in T : to[j] = to[k] => j = k
      BY <1>11
    <2> QED BY <2>1, <2>2, <2>4, <2>5
  <1>13. Amounts(C) = Sum(a, C)
    BY DEF Amounts
  <1>14. DOMAIN g = T /\ DOMAIN f = DOMAIN h /\ \A j \in T : g[j] = f[j]
    BY <1>3
  <1> HIDE DEF a, g, to
  <1>15. Sum(g, T) <= Sum(a, C)
    BY <1>10, <1>12, SumAlong
  <1> DEFINE H == DOMAIN h
  <1>16. /\ IsFiniteSet(H) /\ f \in [H -> Nat] /\ DOMAIN f = H
         /\ S \in SUBSET H /\ T \in SUBSET H /\ M \in SUBSET H
    BY <1>3, <1>4
  <1> HIDE DEF H
  <1>17. T \cap M = {}
    BY DEF T, M, Missed
  <1>18. Sum(f, T \cup M) = Sum(f, T) + Sum(f, M)
    BY <1>16, <1>17, SumUnion
  <1>19. Sum(g, T) = Sum(f, T)
    BY <1>10, <1>14, <1>16, SumAgree
  <1>20. Sum(f, S) <= Sum(f, T \cup M)
    <2> DEFINE R == T \cup M
    <2>1. R \in SUBSET H
      BY <1>16
    <2>2. \A j \in S : j \in R \/ f[j] = 0
      <3>1. \A j \in S : f[j] \in Nat
        BY <1>16
      <3> QED BY <1>7, <3>1
    <2> HIDE DEF R
    <2>3. Sum(f, S) <= Sum(f, R)
      BY <1>16, <2>1, <2>2, SumSupport
    <2> QED BY <2>3 DEF R
  <1>21. Sum(f, S) \in Nat /\ Sum(f, T) \in Nat /\ Sum(f, M) \in Nat /\ Sum(a, C) \in Nat
    <2>1. C \in SUBSET C
      OBVIOUS
    <2> QED BY <1>10, <1>12, <1>16, <2>1, SumTerm
  <1>22. Sum(f, S) <= Amounts(C) + Sum(f, M)
    BY <1>13, <1>15, <1>18, <1>19, <1>20, <1>21
  <1> QED BY <1>22 DEF S, C, M, f

(* What a payment is short of, added to the opening balances there are, is still covered. *)
LEMMA OpeningCovered ==
    ASSUME OwnAccounts, NEW h \in Seq(Op), OneStream(h), Solvent(h), NEW c,
           NEW B, IsFiniteSet(B), \A b \in B : Right(b) /\ Genuine(h, c, b), OnePerKey(B),
           NEW i \in DOMAIN h, NextInLine(h, c, i), c[h[i].stream] \in Nat, c[h[i].stream] < i,
           NEW n \in DOMAIN Movements(h[i]), NEW tx \in Transaction, tx.amount > 0,
           Says(h, tx, i, n), Fresh(B, tx), NEW x \in Addresses, Owns(x, tx.debit)
    PROVE  Amounts(Openings(B, tx.debit, tx.asset))
             + (tx.amount - (Amounts(Brings(B, tx.debit, tx.asset))
                               - Amounts(Takes(B, tx.debit, tx.asset))))
             <= Initial[x][tx.asset]
                  + Sum(ReceivedIn(h, x, tx.asset), Missed(h, c, B, tx.debit))
  <1> DEFINE account == tx.debit
             asset == tx.asset
             O == Openings(B, account, asset)
             C == Deposits(B, account, asset)
             I == Brings(B, account, asset)
             D == Takes(B, account, asset)
             p == PaidIn(h, x, asset)
             f == ReceivedIn(h, x, asset)
             M == Missed(h, c, B, account)
             g == [b \in B |-> b.amount]
             H == DOMAIN h
             S == 1..(i - 1)
             W == 1..i
  <1>1. /\ account \in Accounts /\ asset \in Assets /\ tx.amount \in Nat
        /\ x \in Watched /\ Initial[x][asset] \in Nat
    BY Owner, IngestionAssumption DEF Transaction
  <1>2. /\ O \in SUBSET B /\ C \in SUBSET B /\ I \in SUBSET B /\ D \in SUBSET B
        /\ I = O \cup C /\ O \cap C = {}
    BY DEF Openings, Deposits, Brings, Takes
  <1>3. \A b \in B : b.amount \in Nat
    BY DEF Right, Transaction
  <1>4. S \in SUBSET H /\ W \in SUBSET H /\ M \in SUBSET H
    BY DEF Missed
  <1>5. IsFiniteSet(H) /\ p \in [H -> Nat] /\ f \in [H -> Nat] /\ DOMAIN p = H /\ DOMAIN f = H
    BY CountsAreAmounts
  <1>6. p[i] > 0
    BY LineTakes
  <1>7. tx.amount + Amounts(D) <= Sum(p, W)
    BY TakenWasPaid
  <1>8. Sum(f, S) <= Amounts(C) + Sum(f, M)
    BY <1>1, <1>6, ReceivedWasBooked
  <1>9. Sum(p, W) <= Initial[x][asset] + Sum(f, S)
    <2>1. Total(p, W) <= Initial[x][asset] + Total(f, S)
      BY <1>1 DEF Solvent
    <2> HIDE DEF p, f, W, S, H
    <2>2. Total(p, W) = Sum(p, W)
      BY <1>4, <1>5, SumComputes DEF Total
    <2>3. Total(f, S) = Sum(f, S)
      BY <1>4, <1>5, SumComputes DEF Total
    <2> QED BY <2>1, <2>2, <2>3
  <1> HIDE DEF O, C, I, D, g, p, f, M, H, S, W, account, asset
  <1>10. /\ Amounts(O) = Sum(g, O) /\ Amounts(C) = Sum(g, C) /\ Amounts(I) = Sum(g, I)
         /\ Amounts(O) \in Nat /\ Amounts(C) \in Nat /\ Amounts(I) \in Nat /\ Amounts(D) \in Nat
         /\ g \in [B -> Nat]
    BY <1>2, <1>3, AmountsWithin DEF g
  <1>11. Amounts(I) = Amounts(O) + Amounts(C)
    <2>1. Sum(g, O \cup C) = Sum(g, O) + Sum(g, C)
      BY <1>2, <1>10, SumUnion
    <2> QED BY <1>2, <1>10, <2>1
  <1>12. Sum(f, S) \in Nat /\ Sum(p, W) \in Nat /\ Sum(f, M) \in Nat
    BY <1>4, <1>5, SumTerm
  <1>13. ASSUME NEW a \in Nat, NEW o \in Nat, NEW d \in Nat, NEW e \in Nat, NEW paid \in Nat,
                NEW held \in Nat, NEW got \in Nat, NEW missed \in Nat,
                a + d <= paid, paid <= held + got, got <= e + missed
         PROVE  o + (a - ((o + e) - d)) <= held + missed
    BY <1>13
  <1>14. Amounts(O) + (tx.amount - ((Amounts(O) + Amounts(C)) - Amounts(D)))
           <= Initial[x][asset] + Sum(f, M)
    <2> DEFINE a == tx.amount
               o == Amounts(O)
               d == Amounts(D)
               e == Amounts(C)
               paid == Sum(p, W)
               held == Initial[x][asset]
               got == Sum(f, S)
               missed == Sum(f, M)
    <2>1. /\ a \in Nat /\ o \in Nat /\ d \in Nat /\ e \in Nat /\ paid \in Nat /\ held \in Nat
          /\ got \in Nat /\ missed \in Nat
          /\ a + d <= paid /\ paid <= held + got /\ got <= e + missed
      BY <1>1, <1>7, <1>8, <1>9, <1>10, <1>12
    <2> HIDE DEF a, o, d, e, paid, held, got, missed
    <2>2. o + (a - ((o + e) - d)) <= held + missed
      BY <1>13, <2>1
    <2> QED BY <2>2 DEF a, o, d, e, held, missed
  <1>15. Amounts(O) + (tx.amount - (Amounts(I) - Amounts(D))) <= Initial[x][asset] + Sum(f, M)
    BY <1>11, <1>14
  <1> QED BY <1>15 DEF O, I, D, f, M, account, asset

(* A line is on the account of an address only if its record moved that asset of it. *)
Touching(h, b, i) ==
    \A x \in Addresses : Owns(x, b.debit) \/ Owns(x, b.credit) =>
      PaidIn(h, x, b.asset)[i] + ReceivedIn(h, x, b.asset)[i] > 0

(* Another stream's line leaves a worker as truthful as it was. *)
LEMMA TruthfulStays ==
    ASSUME OwnAccounts, NEW h \in Seq(Op), OneStream(h), NEW B, NEW w, NEW b, NEW i \in DOMAIN h,
           b.key.record = i, Touching(h, b, i), Truthful(h, w, B),
           w.pc \in WithList =>
             /\ w.at.record \in DOMAIN h /\ h[w.at.record].stream # h[i].stream
             /\ w.at.n \in DOMAIN Movements(h[w.at.record])
             /\ w.todo \in Seq(Transaction) /\ w.todo # <<>> /\ Head(w.todo).amount > 0
    PROVE  Truthful(h, w, B \cup {b})
  <1> DEFINE tx == Head(w.todo)
             k == w.at.record
             m == Movements(h[k])[w.at.n]
             C == B \cup {b}
  <1>1. ASSUME w.pc \in {"open", "opening"}
        PROVE  /\ k \in DOMAIN h /\ h[k].stream # h[i].stream /\ tx \in Transaction
               /\ tx.amount > 0 /\ Says(h, tx, k, w.at.n) /\ ~AllowsNegative(tx.debit)
               /\ w.at.n \in DOMAIN Movements(h[k]) /\ Fresh(B, tx)
    <2>1. w.pc \in WithList
      BY <1>1 DEF WithList
    <2>2. tx \in Listed(w.todo) /\ tx \in Transaction
      BY <2>1 DEF Listed
    <2> QED BY <1>1, <2>1, <2>2 DEF Truthful
  <1>2. ASSUME w.pc \in {"open", "opening"}
        PROVE  Fresh(C, tx)
    <2>1. tx.key.record = k
      BY <1>1, <1>2 DEF Says, KeyOf
    <2>2. k # i
      BY <1>1, <1>2
    <2>3. tx.key # b.key
      BY <2>1, <2>2
    <2> QED BY <1>1, <1>2, <2>3 DEF Fresh
  <1>3. ASSUME w.pc = "opening"
        PROVE  /\ Brings(C, tx.debit, tx.asset) = Brings(B, tx.debit, tx.asset)
               /\ Takes(C, tx.debit, tx.asset) = Takes(B, tx.debit, tx.asset)
    <2>1. m \in Movement
      BY <1>1, <1>3, OneEach
    <2>2. Owns(m.from, tx.debit) /\ tx.debit \in Accounts /\ tx.amount \in Nat /\ tx.asset \in Assets
      BY <1>1, <1>3 DEF Says, Transaction
    <2>3. m.from \in Addresses /\ m.from \in Watched
      BY <2>1, <2>2, Owner DEF Movement
    <2>4. PaidIn(h, m.from, tx.asset)[k] = tx.amount
      BY <1>1, <1>3, <2>2, <2>3, LineTakes
    <2>5. ReceivedIn(h, m.from, tx.asset)[k] \in Nat
      BY <1>1, <1>3, CountsAreAmounts
    <2>6. PaidIn(h, m.from, tx.asset)[k] + ReceivedIn(h, m.from, tx.asset)[k] > 0
      BY <1>1, <1>3, <2>2, <2>4, <2>5
    <2>7. ~(PaidIn(h, m.from, tx.asset)[i] + ReceivedIn(h, m.from, tx.asset)[i] > 0)
      BY <1>1, <1>3, <2>2, <2>3, <2>6 DEF OneStream
    <2>8. ~(b.asset = tx.asset /\ (b.debit = tx.debit \/ b.credit = tx.debit))
      BY <2>2, <2>3, <2>7 DEF Touching
    <2> QED BY <2>8 DEF Brings, Takes
  <1> HIDE DEF tx, k, m, C
  <1>4. w.pc = "opening" => w.pc \in {"open", "opening"}
    OBVIOUS
  <1> QED BY <1>2, <1>3, <1>4 DEF Truthful, tx, C, k

(* What entriesFor makes of a movement says what the movement says. *)
LEMMA EntriesSay ==
    ASSUME NEW h \in Seq(Op), NEW i \in DOMAIN h, NEW n \in DOMAIN Movements(h[i]),
           NEW from \in Accounts \cup {Nobody}, NEW to \in Accounts \cup {Nobody},
           from = Nobody \/ Owns(Movements(h[i])[n].from, from),
           to = Nobody \/ Owns(Movements(h[i])[n].to, to)
    PROVE  \A t \in Listed(entriesFor(KeyOf(i, h[i], n), from, to, Movements(h[i])[n])) :
             Says(h, t, i, n)
  <1> DEFINE move == Movements(h[i])[n]
             key == KeyOf(i, h[i], n)
             g == Entry(key, "send", from, to, move)
             e == Entry(key, "withdrawal", from, External[OrgOf[from]], move)
             f == Entry(key, "deposit", External[OrgOf[to]], to, move)
             todo == entriesFor(key, from, to, move)
  <1>1. /\ from # Nobody => OrgOf[from] \in Orgs
        /\ to # Nobody => OrgOf[to] \in Orgs
    BY IngestionAssumption
  <1>2. /\ from # Nobody => AllowsNegative(External[OrgOf[from]])
        /\ to # Nobody => AllowsNegative(External[OrgOf[to]])
    BY <1>1 DEF AllowsNegative
  <1>3. from # Nobody /\ to # Nobody => Says(h, g, i, n)
    BY DEF Says, Entry
  <1>4. from # Nobody => Says(h, e, i, n)
    BY <1>2 DEF Says, Entry
  <1>5. to # Nobody => Says(h, f, i, n)
    BY <1>2 DEF Says, Entry
  <1>6. \/ from # Nobody /\ to # Nobody /\ todo = <<g>>
        \/ todo = (IF from = Nobody THEN <<>> ELSE <<e>>) \o (IF to = Nobody THEN <<>> ELSE <<f>>)
    BY Zenon DEF entriesFor
  <1> HIDE DEF g, e, f, todo, key, move
  <1>7. \A t \in Listed(todo) : Says(h, t, i, n)
    <2> DEFINE U == {t \in {e, f, g} : Says(h, t, i, n)}
    <2>1. ASSUME NEW a \in Seq(U), NEW b \in Seq(U), todo = a \o b
          PROVE  todo \in Seq(U)
      BY <2>1, ConcatProperties
    <2>2. /\ <<>> \in Seq(U)
          /\ from # Nobody => <<e>> \in Seq(U)
          /\ to # Nobody => <<f>> \in Seq(U)
          /\ from # Nobody /\ to # Nobody => <<g>> \in Seq(U)
      <3>1. /\ from # Nobody => e \in U
            /\ to # Nobody => f \in U
            /\ from # Nobody /\ to # Nobody => g \in U
        BY <1>3, <1>4, <1>5
      <3> HIDE DEF U
      <3> QED BY <3>1
    <2>3. todo \in Seq(U)
      <3> DEFINE a == IF from = Nobody THEN <<>> ELSE <<e>>
                 b == IF to = Nobody THEN <<>> ELSE <<f>>
      <3>1. a \in Seq(U) /\ b \in Seq(U)
        <4> HIDE DEF U
        <4> QED BY <2>2
      <3>2. CASE todo = a \o b
        <4> HIDE DEF U, a, b
        <4> QED BY <2>1, <3>1, <3>2
      <3>3. CASE from # Nobody /\ to # Nobody /\ todo = <<g>>
        <4> HIDE DEF U
        <4> QED BY <2>2, <3>3
      <3> QED BY <1>6, <3>2, <3>3
    <2>4. \A t \in U : Says(h, t, i, n)
      OBVIOUS
    <2> HIDE DEF U
    <2> QED BY <2>3, <2>4 DEF Listed
  <1> QED BY <1>7 DEF todo, key, move

--------------------------------------------------------------------------------
(* The steps, one by one.  First what is known of a worker that has a list. *)
LEMMA Working ==
    ASSUME IInv, TInv, MInv, NEW s \in Streams, worker[s].pc \in WithList
    PROVE  LET w == worker[s]
               i == w.at.record
               tx == Head(w.todo)
           IN  /\ history \in Seq(Op) /\ i \in DOMAIN history /\ history[i].stream = s
               /\ w.at.n \in DOMAIN Movements(history[i])
               /\ w.todo \in Seq(Transaction) /\ w.todo # <<>>
               /\ tx \in Transaction /\ tx.amount > 0
               /\ \A t \in Listed(w.todo) : Says(history, t, i, w.at.n)
               /\ Says(history, tx, i, w.at.n)
               /\ \A t \in Listed(Tail(w.todo)) : Says(history, t, i, w.at.n)
               /\ NextInLine(history, cursor, i) /\ cursor[s] \in Nat /\ cursor[s] < i
  <1> DEFINE w == worker[s]
             i == w.at.record
             tx == Head(w.todo)
  <1>1. w.pc \in MidMovement
    BY DEF WithList, MidMovement
  <1>2. /\ history \in Seq(Op) /\ NoGap(history, s, cursor[s], w.at)
        /\ w.at.n \in DOMAIN Movements(history[i])
        /\ w.todo \in Seq(Transaction) /\ w.todo # <<>>
    BY <1>1, AtWork
  <1>3. tx \in Transaction /\ tx.amount > 0
    BY AtList
  <1>4. tx \in Listed(w.todo)
    BY <1>2 DEF Listed
  <1>5. Listed(Tail(w.todo)) \subseteq Listed(w.todo)
    <2>1. \A k \in DOMAIN Tail(w.todo) : k + 1 \in DOMAIN w.todo /\ Tail(w.todo)[k] = w.todo[k + 1]
      BY <1>2
    <2> QED BY <2>1 DEF Listed
  <1>6. \A t \in Listed(w.todo) : Says(history, t, i, w.at.n)
    BY DEF MInv, Truthful
  <1>7. cursor[s] \in Nat
    BY DEF IInv, Shape
  <1>8. /\ i \in DOMAIN history /\ history[i].stream = s /\ cursor[s] < i
        /\ \A j \in w.at.rest : i < j
        /\ \A j \in DOMAIN history :
             history[j].stream = s /\ cursor[s] < j /\ j < i => j \in {i} \cup w.at.rest
    BY <1>2 DEF NoGap
  <1>9. NextInLine(history, cursor, i)
    <2>1. \A j \in DOMAIN history : j \in Nat
      BY <1>2
    <2>2. ASSUME NEW j \in DOMAIN history, history[j].stream = s, j < i
          PROVE  j <= cursor[s]
      <3> SUFFICES ASSUME ~(j <= cursor[s]) PROVE FALSE
        OBVIOUS
      <3>1. j \in Nat /\ i \in Nat /\ cursor[s] < j
        BY <1>7, <1>8, <2>1
      <3>2. j # i
        BY <2>2, <3>1
      <3>3. j \in w.at.rest
        BY <1>8, <2>2, <3>1, <3>2
      <3>4. i < j
        BY <1>8, <3>3
      <3> QED BY <2>2, <3>1, <3>4
    <2> QED BY <1>8, <2>2 DEF NextInLine
  <1> QED BY <1>2, <1>3, <1>4, <1>5, <1>6, <1>7, <1>8, <1>9

(* A worker moves on, and the books stay as they are. *)
LEMMA MoneyReads ==
    ASSUME IInv, MInv, NEW s \in Streams, NEW next, To(s, next), Truthful(history, next, books),
           UNCHANGED <<history, books, cursor>>, Owned(tracked')
    PROVE  MInv'
  <1>1. \A t \in Streams : worker'[t] = next \/ worker'[t] = worker[t]
    BY DEF To, IInv, Shape
  <1>2. \A t \in Streams : Truthful(history, worker'[t], books)
    BY <1>1 DEF MInv
  <1> QED BY <1>2 DEF MInv

(* A worker posts a line of its record that was not there. *)
LEMMA MoneyPosts ==
    ASSUME Network, IInv, TInv, MInv, NEW s \in Streams, worker[s].pc \in WithList,
           NEW b, books' = books \cup {b}, Fresh(books, b), Genuine(history, cursor, b),
           b.key.record = worker[s].at.record, Touching(history, b, worker[s].at.record),
           NEW next, To(s, next), Truthful(history, next, books'),
           UNCHANGED <<history, tracked, cursor>>, Covered(history, cursor, books')
    PROVE  MInv'
  <1>1. worker'[s] = next /\ \A t \in Streams \ {s} : worker'[t] = worker[t]
    BY DEF To, IInv, Shape
  <1>2. OnePerKey(books')
    BY DEF MInv, OnePerKey, Fresh
  <1>3. \A d \in books' : Genuine(history, cursor, d)
    BY DEF MInv
  <1> DEFINE i == worker[s].at.record
  <1>4. history \in Seq(Op) /\ i \in DOMAIN history /\ history[i].stream = s
    BY Working
  <1>5. OwnAccounts /\ OneStream(history)
    BY DEF Network, TInv
  <1>6. ASSUME NEW t \in Streams \ {s}
        PROVE  Truthful(history, worker[t], books')
    <2> DEFINE w == worker[t]
    <2>1. Truthful(history, w, books)
      BY DEF MInv
    <2>2. w.pc \in WithList =>
            /\ w.at.record \in DOMAIN history /\ history[w.at.record].stream # history[i].stream
            /\ w.at.n \in DOMAIN Movements(history[w.at.record])
            /\ w.todo \in Seq(Transaction) /\ w.todo # <<>> /\ Head(w.todo).amount > 0
      BY <1>4, Working
    <2> HIDE DEF w, i
    <2>3. Truthful(history, w, books \cup {b})
      BY <1>4, <1>5, <2>1, <2>2, TruthfulStays DEF i
    <2> QED BY <2>3 DEF w
  <1>7. \A t \in Streams : Truthful(history, worker'[t], books')
    BY <1>1, <1>6
  <1> QED BY <1>2, <1>3, <1>7 DEF MInv

(* Where a worker goes with a list that says what its record says. *)
LEMMA OnwardTruthful ==
    ASSUME NEW h, NEW at, NEW todo, NEW B, \A t \in Listed(todo) : Says(h, t, at.record, at.n)
    PROVE  Truthful(h, Onward(h, at, todo), B)
  <1>1. CASE todo = <<>>
    <2>1. Onward(h, at, todo).pc \in {"from", "close"}
      BY <1>1 DEF Onward, Place
    <2> QED BY <2>1 DEF Truthful, WithList
  <1>2. CASE todo # <<>>
    <2>1. /\ Onward(h, at, todo).pc = "post" /\ Onward(h, at, todo).at = at
          /\ Onward(h, at, todo).todo = todo
      BY <1>2 DEF Onward
    <2> QED BY <2>1 DEF Truthful, WithList
  <1> QED BY <1>1, <1>2

(* The first entry of a list gets into the books, or was there, and the worker goes on. *)
LEMMA MoneyHeadDone ==
    ASSUME Network, IInv, TInv, MInv, NEW s \in Streams, worker[s].pc \in WithList,
           Outcome(Head(worker[s].todo)) \in {"new", "replay"},
           books' = books \cup {Head(worker[s].todo)}, Posting(s, Tail(worker[s].todo)),
           UNCHANGED <<history, tracked, cursor>>
    PROVE  MInv'
  <1> DEFINE w == worker[s]
             i == w.at.record
             tx == Head(w.todo)
             next == Onward(history, w.at, Tail(w.todo))
  <1>1. /\ history \in Seq(Op) /\ i \in DOMAIN history /\ history[i].stream = s
        /\ w.at.n \in DOMAIN Movements(history[i])
        /\ tx \in Transaction /\ tx.amount > 0 /\ Says(history, tx, i, w.at.n)
        /\ \A t \in Listed(Tail(w.todo)) : Says(history, t, i, w.at.n)
        /\ NextInLine(history, cursor, i) /\ cursor[s] \in Nat /\ cursor[s] < i
    BY Working
  <1>2. To(s, next)
    BY DEF Posting, NextMovement, Reach, Onward, Place
  <1>3. Truthful(history, next, books) /\ Truthful(history, next, books')
    BY <1>1, OnwardTruthful
  <1>4. tx \in books \/ Fresh(books, tx)
    BY DEF Outcome, Fresh
  <1> HIDE DEF next
  <1>5. CASE tx \in books
    <2>1. books' = books
      BY <1>5
    <2>2. Owned(tracked')
      BY DEF MInv
    <2> QED BY <1>2, <1>3, <2>1, <2>2, MoneyReads
  <1>6. CASE Fresh(books, tx)
    <2>1. Genuine(history, cursor, tx)
      BY <1>1 DEF Genuine
    <2>2. tx.key.record = i
      BY <1>1 DEF Says, KeyOf
    <2>3. Touching(history, tx, i)
      <3> SUFFICES ASSUME NEW x \in Addresses, Owns(x, tx.debit) \/ Owns(x, tx.credit)
                   PROVE  PaidIn(history, x, tx.asset)[i] + ReceivedIn(history, x, tx.asset)[i] > 0
        BY DEF Touching
      <3>1. PaidIn(history, x, tx.asset)[i] \in Nat /\ ReceivedIn(history, x, tx.asset)[i] \in Nat
        BY <1>1, CountsAreAmounts
      <3>2. tx.amount \in Nat
        BY <1>1 DEF Transaction
      <3>3. \/ PaidIn(history, x, tx.asset)[i] = tx.amount
            \/ ReceivedIn(history, x, tx.asset)[i] = tx.amount
        BY <1>1, LineTakes, LineBrings DEF Network
      <3> QED BY <1>1, <3>1, <3>2, <3>3
    <2>4. Covered(history, cursor, books')
      <3>1. ASSUME NEW account, NEW asset
            PROVE  /\ Openings(books', account, asset) = Openings(books, account, asset)
                   /\ Missed(history, cursor, books', account) = Missed(history, cursor, books, account)
        <4>1. tx.kind # "opening"
          BY <1>1 DEF Says
        <4>2. Openings(books', account, asset) = Openings(books, account, asset)
          BY <4>1 DEF Openings
        <4>3. ~(i <= cursor[history[i].stream])
          BY <1>1
        <4>4. Missed(history, cursor, books', account) = Missed(history, cursor, books, account)
          BY <2>2, <4>3 DEF Missed
        <4> QED BY <4>2, <4>4
      <3> QED BY <3>1 DEF MInv, Covered
    <2> QED BY <1>2, <1>3, <1>6, <2>1, <2>2, <2>3, <2>4, MoneyPosts
  <1> QED BY <1>4, <1>5, <1>6

(* Post. *)
LEMMA MoneyPost ==
    ASSUME Network, IInv, TInv, MInv, NEW s \in Streams, Post(s)
    PROVE  MInv'
  <1> DEFINE w == worker[s]
             tx == Head(w.todo)
  <1>1. w.pc \in WithList /\ UNCHANGED <<history, tracked, cursor>> /\ Owned(tracked')
    BY DEF Post, WithList, MInv
  <1>2. CASE Outcome(tx) \in {"new", "replay"}
    <2>1. Posting(s, Tail(w.todo)) /\ books' = books \cup {tx}
      BY <1>2 DEF Post, Outcome
    <2> QED BY <1>1, <1>2, <2>1, MoneyHeadDone
  <1>3. CASE Outcome(tx) = "short"
    <2> DEFINE next == [pc |-> "open", at |-> w.at, todo |-> w.todo]
    <2>1. books' = books /\ To(s, next)
      BY <1>3 DEF Post
    <2>2. ~AllowsNegative(tx.debit) /\ Fresh(books, tx)
      BY <1>3 DEF Outcome, Fresh
    <2>3. \A t \in Listed(w.todo) : Says(history, t, w.at.record, w.at.n)
      BY <1>1, Working
    <2>4. next.pc = "open" /\ next.at = w.at /\ next.todo = w.todo
      OBVIOUS
    <2> HIDE DEF next
    <2>5. Truthful(history, next, books)
      BY <2>2, <2>3, <2>4 DEF Truthful
    <2> QED BY <1>1, <2>1, <2>5, MoneyReads
  <1>4. CASE Outcome(tx) \notin {"new", "replay", "short"}
    <2>1. books' = books /\ To(s, Idle)
      BY <1>4 DEF Post
    <2>2. Truthful(history, Idle, books)
      BY DEF Truthful, Idle, WithList
    <2> QED BY <1>1, <2>1, <2>2, MoneyReads
  <1> QED BY <1>2, <1>3, <1>4

(* A balance is what was brought less what was taken. *)
LEMMA BalanceIs ==
    ASSUME TInv, NEW account, NEW asset
    PROVE  Balance(account, asset) =
             Amounts(Brings(books, account, asset)) - Amounts(Takes(books, account, asset))
  <1> DEFINE lines == {b \in books : b.asset = asset}
             In == {b \in lines : b.credit = account}
             Spent == {b \in lines : b.debit = account}
  <1>1. In \subseteq books /\ Spent \subseteq books
    OBVIOUS
  <1>2. \A b \in books : b.amount \in Nat
    BY DEF TInv, Right, Transaction
  <1>3. Balance(account, asset) = MapThenSumSet(LAMBDA b : b.amount, In)
                                    - MapThenSumSet(LAMBDA b : b.amount, Spent)
    BY DEF Balance
  <1>4. In = Brings(books, account, asset) /\ Spent = Takes(books, account, asset)
    BY DEF Brings, Takes
  <1> HIDE DEF In, Spent
  <1>5. IsFiniteSet(In) /\ IsFiniteSet(Spent)
    BY <1>1, FS_Subset DEF TInv
  <1>6. /\ MapThenSumSet(LAMBDA b : b.amount, In) = Amounts(In)
        /\ MapThenSumSet(LAMBDA b : b.amount, Spent) = Amounts(Spent)
    BY <1>1, <1>2, <1>5, AmountsSum
  <1> QED BY <1>3, <1>4, <1>6

(* open: what is missing now. *)
LEMMA MoneyOpen ==
    ASSUME IInv, TInv, MInv, NEW s \in Streams, open(s)
    PROVE  MInv'
  <1> DEFINE w == worker[s]
             tx == Head(w.todo)
             short == tx.amount - Balance(tx.debit, tx.asset)
             again == [pc |-> "again", at |-> w.at, todo |-> w.todo]
             opening == [pc |-> "opening", at |-> w.at, todo |-> w.todo, short |-> short]
  <1>1. /\ w.pc = "open" /\ w.pc \in WithList
        /\ UNCHANGED <<history, books, cursor>> /\ Owned(tracked')
    BY DEF open, WithList, MInv
  <1>2. To(s, again) \/ To(s, opening)
    BY DEF open
  <1>3. \A t \in Listed(w.todo) : Says(history, t, w.at.record, w.at.n)
    BY <1>1, Working
  <1>4. ~AllowsNegative(tx.debit) /\ Fresh(books, tx)
    BY <1>1 DEF MInv, Truthful
  <1>5. short = tx.amount - (Amounts(Brings(books, tx.debit, tx.asset))
                               - Amounts(Takes(books, tx.debit, tx.asset)))
    BY BalanceIs
  <1>6. Truthful(history, again, books)
    <2>1. again.pc = "again" /\ again.at = w.at /\ again.todo = w.todo
      OBVIOUS
    <2> HIDE DEF again
    <2> QED BY <1>3, <2>1 DEF Truthful
  <1>7. Truthful(history, opening, books)
    <2>1. /\ opening.pc = "opening" /\ opening.at = w.at /\ opening.todo = w.todo
          /\ opening.short = short
      OBVIOUS
    <2> HIDE DEF opening, short
    <2> QED BY <1>3, <1>4, <1>5, <2>1 DEF Truthful
  <1> HIDE DEF again, opening
  <1> QED BY <1>1, <1>2, <1>6, <1>7, MoneyReads

(* A new opening balance is added to those of its account and asset, and to no others. *)
LEMMA OpeningsGrow ==
    ASSUME NEW B, IsFiniteSet(B), \A d \in B : d.amount \in Nat,
           NEW b, b \notin B, b.amount \in Nat, b.kind = "opening", NEW account, NEW asset
    PROVE  Amounts(Openings(B \cup {b}, account, asset)) =
             Amounts(Openings(B, account, asset))
               + (IF b.credit = account /\ b.asset = asset THEN b.amount ELSE 0)
  <1> DEFINE C == B \cup {b}
             O == Openings(B, account, asset)
             P == Openings(C, account, asset)
             g == [d \in C |-> d.amount]
  <1>1. /\ P = IF b.credit = account /\ b.asset = asset THEN O \cup {b} ELSE O
        /\ O \subseteq B /\ b \notin O /\ b \in C /\ O \in SUBSET C /\ P \in SUBSET C
    BY DEF Openings
  <1>2. IsFiniteSet(C) /\ \A d \in C : d.amount \in Nat
    BY FS_AddElement
  <1> HIDE DEF C, O, P
  <1>3. /\ Amounts(O) = Sum(g, O) /\ Amounts(P) = Sum(g, P) /\ Amounts(O) \in Nat
        /\ g \in [C -> Nat] /\ IsFiniteSet(O)
    BY <1>1, <1>2, AmountsWithin
  <1>4. g[b] = b.amount
    BY <1>1
  <1> HIDE DEF g
  <1>5. Sum(g, O \cup {b}) = Sum(g, O) + b.amount
    BY <1>1, <1>2, <1>3, <1>4, SumAdd
  <1> QED BY <1>1, <1>3, <1>5 DEF C, O, P

(* PostOpening: an opening balance gets into the books, or was there. *)
LEMMA MoneyOpening ==
    ASSUME Network, IInv, TInv, MInv, NEW s \in Streams, PostOpening(s)
    PROVE  MInv'
  <1> DEFINE w == worker[s]
             i == w.at.record
             tx == Head(w.todo)
             o == [tx EXCEPT !.kind = "opening", !.debit = External[tx.org],
                             !.credit = tx.debit, !.amount = w.short,
                             !.key = [@ EXCEPT !.opening = w.short]]
             next == [pc |-> "again", at |-> w.at, todo |-> w.todo]
  <1>1. /\ w.pc = "opening" /\ w.pc \in WithList
        /\ UNCHANGED <<history, tracked, cursor>> /\ Owned(tracked')
    BY DEF PostOpening, WithList, MInv
  <1>2. /\ history \in Seq(Op) /\ i \in DOMAIN history /\ history[i].stream = s
        /\ w.at.n \in DOMAIN Movements(history[i])
        /\ tx \in Transaction /\ tx.amount > 0 /\ Says(history, tx, i, w.at.n)
        /\ \A t \in Listed(w.todo) : Says(history, t, i, w.at.n)
        /\ NextInLine(history, cursor, i) /\ cursor[s] \in Nat /\ cursor[s] < i
    BY <1>1, Working
  <1>3. w.short \in Nat /\ w.short > 0
    BY <1>1 DEF TInv, Ready, Worker
  <1>4. /\ ~AllowsNegative(tx.debit) /\ Fresh(books, tx)
        /\ w.short = tx.amount - (Amounts(Brings(books, tx.debit, tx.asset))
                                    - Amounts(Takes(books, tx.debit, tx.asset)))
    BY <1>1 DEF MInv, Truthful
  <1>5. /\ o.kind = "opening" /\ o.debit = External[tx.org] /\ o.credit = tx.debit
        /\ o.amount = w.short /\ o.asset = tx.asset
        /\ o.key.opening = w.short /\ o.key.record = i
    <2>1. tx.key.record = i
      BY <1>2 DEF Says, KeyOf
    <2>2. tx.key \in Key
      BY <1>2 DEF Transaction
    <2> HIDE DEF tx, w, i
    <2> QED BY <1>2, <2>1, <2>2 DEF Transaction, Key
  <1>6. next.pc = "again" /\ next.at = w.at /\ next.todo = w.todo
    OBVIOUS
  <1>7. \/ Outcome(o) \in {"new", "replay"} /\ books' = books \cup {o} /\ To(s, next)
        \/ books' = books /\ To(s, Idle)
    BY DEF PostOpening
  <1> HIDE DEF o, next
  <1>8. ASSUME NEW B PROVE Truthful(history, next, B)
    BY <1>2, <1>6 DEF Truthful
  <1>9. ASSUME books' = books, To(s, Idle)
        PROVE  MInv'
    <2>1. Truthful(history, Idle, books)
      BY DEF Truthful, Idle, WithList
    <2> QED BY <1>1, <1>9, <2>1, MoneyReads
  <1>10. ASSUME o \in books, books' = books \cup {o}, To(s, next)
         PROVE  MInv'
    <2>1. books' = books
      BY <1>10
    <2> QED BY <1>1, <1>8, <1>10, <2>1, MoneyReads
  <1>11. ASSUME Fresh(books, o), books' = books \cup {o}, To(s, next)
         PROVE  MInv'
    <2>1. AllowsNegative(o.debit) /\ tx.debit \in Accounts /\ tx.asset \in Assets
          /\ o.debit \in Accounts
      BY <1>2, <1>5, IngestionAssumption DEF AllowsNegative, Transaction
    <2>2. Genuine(history, cursor, o)
      BY <1>3, <1>5, <2>1 DEF Genuine
    <2>3. Touching(history, o, i)
      <3> SUFFICES ASSUME NEW x \in Addresses, Owns(x, o.debit) \/ Owns(x, o.credit)
                   PROVE  PaidIn(history, x, o.asset)[i] + ReceivedIn(history, x, o.asset)[i] > 0
        BY DEF Touching
      <3>1. PaidIn(history, x, tx.asset)[i] \in Nat /\ ReceivedIn(history, x, tx.asset)[i] \in Nat
        BY <1>2, CountsAreAmounts
      <3>2. Owns(x, tx.debit)
        BY <1>5, <2>1, Owner DEF Network
      <3>3. PaidIn(history, x, tx.asset)[i] = tx.amount
        BY <1>2, <3>2, LineTakes DEF Network
      <3>4. tx.amount \in Nat
        BY <1>2 DEF Transaction
      <3> QED BY <1>2, <1>5, <3>1, <3>3, <3>4
    <2>4. /\ IsFiniteSet(books) /\ \A d \in books : d.amount \in Nat
          /\ \A d \in books : Right(d) /\ Genuine(history, cursor, d)
          /\ OnePerKey(books) /\ OwnAccounts /\ OneStream(history) /\ Solvent(history)
      BY DEF TInv, Right, Transaction, MInv, Network
    <2>5. o \notin books
      BY <1>11 DEF Fresh
    <2>6. ASSUME NEW account
          PROVE  Missed(history, cursor, books', account) = Missed(history, cursor, books, account)
      BY <1>5, <1>11 DEF Missed
    <2>7. Covered(history, cursor, books')
      <3> SUFFICES ASSUME NEW x \in Addresses, NEW account \in Accounts, NEW asset \in Assets,
                          Owns(x, account)
                   PROVE  Amounts(Openings(books', account, asset))
                            <= Initial[x][asset] + Sum(ReceivedIn(history, x, asset),
                                                       Missed(history, cursor, books', account))
        BY DEF Covered
      <3>1. Amounts(Openings(books', account, asset)) =
              Amounts(Openings(books, account, asset))
                + (IF o.credit = account /\ o.asset = asset THEN o.amount ELSE 0)
        <4>1. IsFiniteSet(books) /\ (\A d \in books : d.amount \in Nat) /\ o.amount \in Nat
          BY <1>3, <1>5, <2>4
        <4>2. Amounts(Openings(books \cup {o}, account, asset)) =
                Amounts(Openings(books, account, asset))
                  + (IF o.credit = account /\ o.asset = asset THEN o.amount ELSE 0)
          BY <1>5, <2>5, <4>1, OpeningsGrow
        <4> QED BY <1>11, <4>2
      <3>2. Amounts(Openings(books, account, asset)) \in Nat
        <4>1. Openings(books, account, asset) \in SUBSET books
          BY DEF Openings
        <4> HIDE DEF Openings
        <4> QED BY <2>4, <4>1, AmountsWithin
      <3>3. CASE account = tx.debit /\ asset = tx.asset
        <4>1. Amounts(Openings(books, tx.debit, tx.asset))
                + (tx.amount - (Amounts(Brings(books, tx.debit, tx.asset))
                                  - Amounts(Takes(books, tx.debit, tx.asset))))
                <= Initial[x][tx.asset]
                     + Sum(ReceivedIn(history, x, tx.asset),
                           Missed(history, cursor, books, tx.debit))
          BY <1>2, <1>4, <2>4, <3>3, OpeningCovered
        <4> QED BY <1>4, <1>5, <2>6, <3>1, <3>3, <4>1
      <3>4. CASE ~(account = tx.debit /\ asset = tx.asset)
        <4>1. Amounts(Openings(books, account, asset))
                <= Initial[x][asset] + Sum(ReceivedIn(history, x, asset),
                                           Missed(history, cursor, books, account))
          BY DEF MInv, Covered
        <4> QED BY <1>5, <2>6, <3>1, <3>2, <3>4, <4>1
      <3> QED BY <3>3, <3>4
    <2> QED BY <1>1, <1>5, <1>8, <1>11, <2>2, <2>3, <2>7, MoneyPosts
  <1>12. Outcome(o) \in {"new", "replay"} => o \in books \/ Fresh(books, o)
    BY DEF Outcome, Fresh
  <1> QED BY <1>7, <1>9, <1>10, <1>11, <1>12

(* PostAgain. *)
LEMMA MoneyAgain ==
    ASSUME Network, IInv, TInv, MInv, NEW s \in Streams, PostAgain(s)
    PROVE  MInv'
  <1> DEFINE w == worker[s]
             tx == Head(w.todo)
  <1>1. w.pc \in WithList /\ UNCHANGED <<history, tracked, cursor>> /\ Owned(tracked')
    BY DEF PostAgain, WithList, MInv
  <1>2. CASE Outcome(tx) \in {"new", "replay"}
    <2>1. Posting(s, Tail(w.todo)) /\ books' = books \cup {tx}
      BY <1>2 DEF PostAgain
    <2> QED BY <1>1, <1>2, <2>1, MoneyHeadDone
  <1>3. CASE Outcome(tx) \notin {"new", "replay"}
    <2>1. books' = books /\ To(s, Idle)
      BY <1>3 DEF PostAgain
    <2>2. Truthful(history, Idle, books)
      BY DEF Truthful, Idle, WithList
    <2> QED BY <1>1, <2>1, <2>2, MoneyReads
  <1> QED BY <1>2, <1>3

(* Whoever an address is found to belong to owns it. *)
LEMMA WhoseOwner ==
    ASSUME IInv, MInv, NEW x \in Addresses \cup {Nobody}
    PROVE  Whose(x) = Nobody \/ Owns(x, Whose(x))
  BY DEF MInv, Owned, Whose

(* LookUpFrom and applyMovement: what is found of the two ends goes into the list. *)
LEMMA MoneyApply ==
    ASSUME IInv, TInv, MInv, NEW s \in Streams, LookUpFrom(s) \/ applyMovement(s)
    PROVE  MInv'
  <1> DEFINE w == worker[s]
             at == w.at
             op == history[at.record]
             move == Movements(op)[at.n]
  <1>1. w.pc \in MidMovement /\ (applyMovement(s) => w.pc = "to")
    BY DEF LookUpFrom, applyMovement, MidMovement
  <1>2. /\ history \in Seq(Op) /\ NoGap(history, s, cursor[s], at) /\ op \in Op
        /\ at.n \in DOMAIN Movements(op)
        /\ w.pc = "to" => w.from \in Accounts \cup {Nobody}
    BY <1>1, AtWork
  <1>3. move.from \in Addresses \cup {Nobody} /\ move.to \in Addresses \cup {Nobody}
    <2>1. move \in Movement
      BY <1>2, OneEach
    <2> QED BY <2>1 DEF Movement
  <1>4. UNCHANGED <<history, books, cursor>> /\ Owned(tracked')
    BY DEF LookUpFrom, applyMovement, MInv
  <1>5. at.record \in DOMAIN history
    BY <1>2 DEF NoGap
  <1>6. CASE LookUpFrom(s)
    <2> DEFINE next == [pc |-> "to", at |-> at, from |-> Whose(move.from)]
    <2>1. To(s, next)
      BY <1>6 DEF LookUpFrom, ThisMove, This
    <2>2. Whose(move.from) = Nobody \/ Owns(move.from, Whose(move.from))
      BY <1>3, WhoseOwner
    <2>3. next.pc = "to" /\ next.at = at /\ next.from = Whose(move.from)
      OBVIOUS
    <2> HIDE DEF next
    <2>4. Truthful(history, next, books)
      BY <2>2, <2>3 DEF Truthful, WithList
    <2> QED BY <1>4, <2>1, <2>4, MoneyReads
  <1>7. CASE applyMovement(s)
    <2> DEFINE to == Whose(move.to)
               todo == entriesFor(KeyOf(at.record, op, at.n), w.from, to, move)
    <2>1. w.from = Nobody \/ Owns(move.from, w.from)
      BY <1>1, <1>7 DEF MInv, Truthful
    <2>2. /\ to = Nobody \/ Owns(move.to, to)
          /\ to \in Accounts \cup {Nobody}
      BY <1>3, WhoseOwner, WhoseHome
    <2>3. w.from \in Accounts \cup {Nobody}
      BY <1>1, <1>2, <1>7
    <2>4. \A t \in Listed(todo) : Says(history, t, at.record, at.n)
      <3> HIDE DEF to, w, at
      <3> QED BY <1>2, <1>5, <2>1, <2>2, <2>3, EntriesSay
    <2>5. NextMovement(s) \/ Posting(s, todo) \/ To(s, Idle)
      BY <1>7 DEF applyMovement, This, ThisMove
    <2> HIDE DEF todo
    <2>6. CASE NextMovement(s)
      <3>1. To(s, Onward(history, at, <<>>))
        BY <2>6 DEF NextMovement, Reach, Onward, Place
      <3>2. Listed(<<>>) = {}
        BY DEF Listed
      <3>3. Truthful(history, Onward(history, at, <<>>), books)
        BY <3>2, OnwardTruthful
      <3> QED BY <1>4, <3>1, <3>3, MoneyReads
    <2>7. CASE Posting(s, todo)
      <3>1. To(s, Onward(history, at, todo))
        BY <2>7 DEF Posting, NextMovement, Reach, Onward, Place
      <3>2. Truthful(history, Onward(history, at, todo), books)
        BY <2>4, OnwardTruthful
      <3> QED BY <1>4, <3>1, <3>2, MoneyReads
    <2>8. CASE To(s, Idle)
      <3>1. Truthful(history, Idle, books)
        BY DEF Truthful, Idle, WithList
      <3> QED BY <1>4, <2>8, <3>1, MoneyReads
    <2> QED BY <2>5, <2>6, <2>7, <2>8
  <1> QED BY <1>6, <1>7

(* Workers without a list, and not between two look-ups, have said nothing yet. *)
LEMMA NothingSaid ==
    ASSUME NEW w, w.pc \notin WithList \cup {"to"}, NEW h, NEW B
    PROVE  Truthful(h, w, B)
  BY DEF Truthful, WithList

(* The first record of a page is somewhere to be. *)
LEMMA NextSaid ==
    ASSUME NEW s, NEW page, NextRecord(s, page)
    PROVE  \E next : To(s, next) /\ next.pc \notin WithList \cup {"to"}
  <1>1. PICK at : To(s, Place(history, at))
    BY DEF NextRecord, Reach, Place
  <1>2. Place(history, at).pc \notin WithList \cup {"to"}
    BY DEF Place, WithList
  <1> QED BY <1>1, <1>2

(* An account let go of leaves the others with their owners. *)
LEMMA OwnedReleased ==
    ASSUME NEW org, NEW x, Owned(tracked), tracked \in [Addresses -> Accounts \cup {Nobody}]
    PROVE  Owned(Released(org, x))
  BY DEF Owned, Released

(* Once, applyClose, ReleaseClosed and Crash. *)
LEMMA MoneyTurns ==
    ASSUME IInv, MInv, NEW s \in Streams,
           Once(s) \/ applyClose(s) \/ ReleaseClosed(s) \/ Crash(s)
    PROVE  MInv'
  <1>1. UNCHANGED <<history, books, cursor>>
    BY DEF Once, applyClose, ReleaseClosed, Crash
  <1>2. Owned(tracked')
    <2>1. CASE ReleaseClosed(s)
      BY <2>1, OwnedReleased DEF ReleaseClosed, MInv, IInv, Shape, Homes
    <2>2. CASE Once(s) \/ applyClose(s) \/ Crash(s)
      BY <2>2 DEF Once, applyClose, Crash, MInv
    <2> QED BY <2>1, <2>2
  <1>3. \E next : To(s, next) /\ next.pc \notin WithList \cup {"to"}
    <2>1. CASE Once(s)
      BY <2>1, NextSaid DEF Once
    <2>2. CASE Crash(s)
      BY <2>2 DEF Crash, Idle, WithList
    <2>3. CASE ReleaseClosed(s)
      <3> DEFINE next == [pc |-> "save", at |-> worker[s].at]
      <3>1. To(s, next) /\ next.pc \notin WithList \cup {"to"}
        BY <2>3 DEF ReleaseClosed, WithList
      <3> QED BY <3>1
    <2>4. CASE applyClose(s)
      <3> DEFINE saves == [pc |-> "save", at |-> worker[s].at]
                 frees == [pc |-> "release", at |-> worker[s].at,
                           org |-> OrgOf[Whose(Closed(This(s)))]]
      <3>1. To(s, saves) \/ To(s, frees)
        BY <2>4 DEF applyClose
      <3>2. saves.pc \notin WithList \cup {"to"} /\ frees.pc \notin WithList \cup {"to"}
        BY DEF WithList
      <3> HIDE DEF saves, frees
      <3> QED BY <3>1, <3>2
    <2> QED BY <2>1, <2>2, <2>3, <2>4
  <1>4. PICK next : To(s, next) /\ next.pc \notin WithList \cup {"to"}
    BY <1>3
  <1> QED BY <1>1, <1>2, <1>4, NothingSaid, MoneyReads

(* Cursors that go forward leave lines genuine and opening balances covered. *)
LEMMA Forward ==
    ASSUME NEW h \in Seq(Op), NEW c \in [Streams -> Nat], NEW d \in [Streams -> Nat],
           \A t \in Streams : c[t] <= d[t], NEW B
    PROVE  /\ \A b \in B : Genuine(h, c, b) => Genuine(h, d, b)
           /\ IsFiniteSet(B) /\ (\A b \in B : b.amount \in Nat) /\ Covered(h, c, B) => Covered(h, d, B)
  <1>1. \A i \in DOMAIN h : i \in Nat /\ h[i].stream \in Streams
    <2>1. \A i \in DOMAIN h : i \in Nat /\ h[i] \in Op
      OBVIOUS
    <2> QED BY <2>1 DEF Op
  <1>2. ASSUME NEW i \in DOMAIN h, NextInLine(h, c, i)
        PROVE  NextInLine(h, d, i)
    <2>1. h[i].stream \in Streams
      BY <1>1
    <2>2. c[h[i].stream] \in Nat /\ d[h[i].stream] \in Nat /\ c[h[i].stream] <= d[h[i].stream]
      BY <2>1
    <2>3. ASSUME NEW j \in DOMAIN h, h[j].stream = h[i].stream, j < i
          PROVE  j <= d[h[i].stream]
      <3>1. j <= c[h[i].stream] /\ j \in Nat
        BY <1>1, <1>2, <2>3 DEF NextInLine
      <3> QED BY <2>2, <3>1
    <2> QED BY <2>3 DEF NextInLine
  <1>3. ASSUME NEW account
        PROVE  Missed(h, c, B, account) \subseteq Missed(h, d, B, account)
    <2>1. ASSUME NEW i \in DOMAIN h, i <= c[h[i].stream]
          PROVE  i <= d[h[i].stream]
      <3>1. h[i].stream \in Streams /\ i \in Nat
        BY <1>1
      <3> QED BY <2>1, <3>1
    <2> QED BY <2>1 DEF Missed
  <1>4. ASSUME IsFiniteSet(B), \A b \in B : b.amount \in Nat, Covered(h, c, B)
        PROVE  Covered(h, d, B)
    <2> SUFFICES ASSUME NEW x \in Addresses, NEW account \in Accounts, NEW asset \in Assets,
                        Owns(x, account)
                 PROVE  Amounts(Openings(B, account, asset))
                          <= Initial[x][asset]
                               + Sum(ReceivedIn(h, x, asset), Missed(h, d, B, account))
      BY DEF Covered
    <2> DEFINE f == ReceivedIn(h, x, asset)
               H == DOMAIN h
               M == Missed(h, c, B, account)
               N == Missed(h, d, B, account)
               O == Openings(B, account, asset)
    <2>1. IsFiniteSet(H) /\ f \in [H -> Nat]
      BY CountsAreAmounts
    <2>2. M \in SUBSET N /\ N \in SUBSET H /\ M \in SUBSET H /\ O \in SUBSET B
      BY <1>3 DEF Missed, Openings
    <2>3. Amounts(O) <= Initial[x][asset] + Sum(f, M)
      BY <1>4 DEF Covered
    <2>4. Initial[x][asset] \in Nat
      BY IngestionAssumption
    <2> HIDE DEF f, H, M, N, O
    <2>5. Sum(f, M) <= Sum(f, N) /\ Sum(f, M) \in Nat /\ Sum(f, N) \in Nat
      BY <2>1, <2>2, SumGrows, SumTerm
    <2>6. Amounts(O) \in Nat
      BY <1>4, <2>2, AmountsWithin
    <2>7. Amounts(O) <= Initial[x][asset] + Sum(f, N)
      BY <2>3, <2>4, <2>5, <2>6
    <2> QED BY <2>7 DEF f, N, O
  <1> QED BY <1>2, <1>4 DEF Genuine

(* saveCursor. *)
LEMMA MoneySaves ==
    ASSUME IInv, TInv, MInv, NEW s \in Streams, saveCursor(s)
    PROVE  MInv'
  <1> DEFINE w == worker[s]
  <1>1. w.pc = "save" /\ cursor' = [cursor EXCEPT ![s] = w.at.record]
        /\ UNCHANGED <<history, tracked, books>>
    BY DEF saveCursor
  <1>2. NoGap(history, s, cursor[s], w.at) /\ history \in Seq(Op) /\ w.at.record \in Nat
    BY <1>1, AtWork DEF Finished
  <1>3. cursor \in [Streams -> Nat]
    BY DEF IInv, Shape
  <1>4. cursor[s] < w.at.record
    BY <1>2 DEF NoGap
  <1>5. cursor' \in [Streams -> Nat] /\ \A t \in Streams : cursor[t] <= cursor'[t]
    BY <1>1, <1>2, <1>3, <1>4
  <1>6. IsFiniteSet(books) /\ \A b \in books : b.amount \in Nat
    BY DEF TInv, Right, Transaction
  <1>7. (\A b \in books : Genuine(history, cursor', b)) /\ Covered(history, cursor', books)
    <2> DEFINE d == cursor'
    <2> HIDE DEF d
    <2>1. (\A b \in books : Genuine(history, cursor, b)) /\ Covered(history, cursor, books)
      BY DEF MInv
    <2>2. d \in [Streams -> Nat] /\ \A t \in Streams : cursor[t] <= d[t]
      BY <1>5 DEF d
    <2>3. (\A b \in books : Genuine(history, d, b)) /\ Covered(history, d, books)
      BY <1>2, <1>3, <1>6, <2>1, <2>2, Forward
    <2> QED BY <2>3 DEF d
  <1>8. \E next : To(s, next) /\ next.pc \notin WithList \cup {"to"}
    <2>1. CASE w.at.rest = {}
      <3>1. To(s, Idle)
        BY <2>1 DEF saveCursor
      <3>2. Idle.pc \notin WithList \cup {"to"}
        BY DEF Idle, WithList
      <3> QED BY <3>1, <3>2
    <2>2. CASE w.at.rest # {}
      <3>1. NextRecord(s, w.at.rest)
        BY <2>2 DEF saveCursor
      <3> QED BY <3>1, NextSaid
    <2> QED BY <2>1, <2>2
  <1>9. PICK next : To(s, next) /\ next.pc \notin WithList \cup {"to"}
    BY <1>8
  <1>10. \A t \in Streams : worker'[t] = next \/ worker'[t] = worker[t]
    BY <1>9 DEF To, IInv, Shape
  <1>11. \A t \in Streams : Truthful(history, worker'[t], books)
    BY <1>9, <1>10, NothingSaid DEF MInv
  <1> QED BY <1>1, <1>7, <1>11 DEF MInv

(* Addresses linked and let go of. *)
LEMMA MoneyLinks ==
    ASSUME IInv, MInv, NEW x, NEW account, TrackAddress(x, account) \/ ReleaseAddress(x, account)
    PROVE  MInv'
  <1>1. UNCHANGED <<history, books, cursor, worker>>
    BY DEF TrackAddress, ReleaseAddress
  <1>2. /\ x \in Addresses \ DOMAIN Home /\ <<x, account>> \in Links
        /\ tracked \in [Addresses -> Accounts \cup {Nobody}] /\ Owned(tracked)
    <2>1. <<x, account>> \in Links
      BY DEF TrackAddress, ReleaseAddress
    <2>2. <<x, account>> \in (Addresses \ DOMAIN Home) \X Accounts
      BY <2>1, IngestionAssumption
    <2> QED BY <2>1, <2>2 DEF IInv, Shape, Homes, MInv
  <1>3. Owned(tracked')
    <2>1. CASE TrackAddress(x, account)
      <3>1. tracked' = [tracked EXCEPT ![x] = account] /\ Owns(x, account)
        BY <1>2, <2>1 DEF TrackAddress, Owns
      <3>2. \A y \in Addresses : tracked'[y] = IF y = x THEN account ELSE tracked[y]
        BY <1>2, <3>1
      <3> QED BY <1>2, <3>1, <3>2 DEF Owned
    <2>2. CASE ReleaseAddress(x, account)
      BY <1>2, <2>2, OwnedReleased DEF ReleaseAddress
    <2> QED BY <2>1, <2>2
  <1> QED BY <1>1, <1>3 DEF MInv

(* Every step keeps the money accounted for. *)
LEMMA MoneyStep ==
    ASSUME Network, IInv, TInv, MInv, [Next]_vars
    PROVE  MInv'
  <1>1. CASE UNCHANGED <<history, tracked, books, cursor, worker>>
    BY <1>1 DEF MInv
  <1>2. CASE UNCHANGED vars
    BY <1>1, <1>2 DEF vars
  <1>3. ASSUME NEW s \in Streams, Run(s) \/ Crash(s)
        PROVE  MInv'
    BY <1>3, MoneyTurns, MoneyApply, MoneyPost, MoneyOpen, MoneyOpening, MoneyAgain, MoneySaves
       DEF Run
  <1>4. ASSUME NEW x, NEW account, TrackAddress(x, account) \/ ReleaseAddress(x, account)
        PROVE  MInv'
    BY <1>4, MoneyLinks
  <1>5. Forget => UNCHANGED <<history, tracked, books, cursor, worker>>
    BY DEF Forget
  <1>6. CASE Next
    BY <1>1, <1>3, <1>4, <1>5, <1>6 DEF Next
  <1> QED BY <1>2, <1>6

(* Before anything is booked there is nothing to cover. *)
LEMMA MoneyInit ==
    ASSUME Init
    PROVE  MInv
  <1>1. books = {} /\ tracked = [x \in Addresses |-> IF x \in DOMAIN Home THEN Home[x] ELSE Nobody]
        /\ \A s \in Streams : worker[s] = Idle
    BY DEF Init
  <1>2. Owned(tracked)
    BY <1>1 DEF Owned, Owns
  <1>3. OnePerKey(books) /\ \A b \in books : Genuine(history, cursor, b)
    BY <1>1 DEF OnePerKey
  <1>4. \A s \in Streams : Truthful(history, worker[s], books)
    <2>1. Idle.pc \notin WithList \cup {"to"}
      BY DEF Idle, WithList
    <2> QED BY <1>1, <2>1, NothingSaid
  <1>5. Covered(history, cursor, books)
    <2> SUFFICES ASSUME NEW x \in Addresses, NEW account \in Accounts, NEW asset \in Assets,
                        Owns(x, account)
                 PROVE  Amounts(Openings(books, account, asset))
                          <= Initial[x][asset] + Sum(ReceivedIn(history, x, asset),
                                                     Missed(history, cursor, books, account))
      BY DEF Covered
    <2> DEFINE f == ReceivedIn(history, x, asset)
               H == DOMAIN history
               M == Missed(history, cursor, books, account)
    <2>1. history \in Seq(Op)
      BY IngestionAssumption DEF Init
    <2>2. IsFiniteSet(H) /\ f \in [H -> Nat] /\ M \in SUBSET H
      BY <2>1, CountsAreAmounts DEF Missed
    <2>3. Openings(books, account, asset) = {}
      BY <1>1 DEF Openings
    <2>4. Amounts({}) = 0
      <3> DEFINE E == {}
                 g == [b \in E |-> b.amount]
      <3>1. IsFiniteSet(E) /\ g \in [E -> Nat] /\ E \in SUBSET E
        BY FS_EmptySet
      <3> HIDE DEF g
      <3>2. Sum(g, {}) = 0
        BY <3>1, SumTerm
      <3> QED BY <3>2 DEF Amounts, g
    <2> HIDE DEF f, H, M
    <2>5. Sum(f, M) \in Nat
      BY <2>2, SumTerm
    <2>6. Initial[x][asset] \in Nat
      BY IngestionAssumption
    <2>7. Amounts(Openings(books, account, asset)) <= Initial[x][asset] + Sum(f, M)
      BY <2>3, <2>4, <2>5, <2>6
    <2> QED BY <2>7 DEF f, M
  <1> QED BY <1>2, <1>3, <1>4, <1>5 DEF MInv

(* What the cursors have passed unbooked is part of what nobody has booked. *)
LEMMA CoveredIsEnough ==
    ASSUME IInv, TInv, MInv
    PROVE  NothingInvented
  <1> SUFFICES ASSUME NEW x \in Addresses, NEW account \in Accounts, NEW asset \in Assets,
                      Owns(x, account)
               PROVE  MapThenSumSet(LAMBDA b : b.amount,
                        {b \in books : b.kind = "opening" /\ b.credit = account /\ b.asset = asset})
                        <= Initial[x][asset] + Unseen(x, account, asset)
    BY DEF NothingInvented
  <1> DEFINE f == ReceivedIn(history, x, asset)
             H == DOMAIN history
             M == Missed(history, cursor, books, account)
             U == {i \in DOMAIN history : ~\E b \in books : b.key.record = i /\ b.kind # "opening"
                                                            /\ b.credit = account}
             O == {b \in books : b.kind = "opening" /\ b.credit = account /\ b.asset = asset}
  <1>1. history \in Seq(Op) /\ IsFiniteSet(books) /\ \A b \in books : b.amount \in Nat
    BY DEF IInv, Shape, TInv, Right, Transaction
  <1>2. IsFiniteSet(H) /\ f \in [H -> Nat]
    BY <1>1, CountsAreAmounts
  <1>3. M \in SUBSET U /\ U \in SUBSET H /\ M \in SUBSET H /\ O \in SUBSET books
    BY DEF Missed
  <1>4. Amounts(O) <= Initial[x][asset] + Sum(f, M)
    BY DEF MInv, Covered, Openings
  <1>5. Unseen(x, account, asset) = Total(f, U)
    BY DEF Unseen
  <1>6. Initial[x][asset] \in Nat
    BY IngestionAssumption
  <1> HIDE DEF f, H, M, U, O
  <1>7. IsFiniteSet(O) /\ \A b \in O : b.amount \in Nat
    BY <1>1, <1>3, FS_Subset
  <1>8. MapThenSumSet(LAMBDA b : b.amount, O) = Amounts(O) /\ Amounts(O) \in Nat
    BY <1>7, AmountsSum
  <1>9. Total(f, U) = Sum(f, U)
    BY <1>2, <1>3, SumComputes DEF Total
  <1>10. Sum(f, M) <= Sum(f, U) /\ Sum(f, M) \in Nat /\ Sum(f, U) \in Nat
    BY <1>2, <1>3, SumGrows, SumTerm
  <1>11. MapThenSumSet(LAMBDA b : b.amount, O) <= Initial[x][asset] + Unseen(x, account, asset)
    BY <1>4, <1>5, <1>6, <1>8, <1>9, <1>10
  <1> QED BY <1>11 DEF O

(* Whatever crashes, is retried, linked or handed back in between, an opening balance     *)
(* stands for money the books never saw arrive (open, "Nothing is invented"): proved of    *)
(* tables in which no two addresses share an account, and of histories in which nobody     *)
(* pays what it has not and each asset of an address is told by one stream.                *)
THEOREM NothingEverInvented == ASSUME Network PROVE Spec => []NothingInvented
  <1>1. Init => TInv /\ MInv
    BY TypedInit, MoneyInit
  <1>2. IInv /\ TInv /\ MInv /\ [Next]_vars => TInv' /\ MInv'
    BY TypedStep, MoneyStep
  <1>3. IInv /\ TInv /\ MInv => NothingInvented
    BY CoveredIsEnough
  <1> QED BY <1>1, <1>2, <1>3, AccountedFor, PTL DEF Spec
================================================================================
