----------------------- MODULE SequentialProcessorProofs -----------------------
(***************************************************************************)
(* Proofs about SequentialProcessor, for any deliveries, any message ids   *)
(* and depends-on headers (cycles included), and every prefetch.           *)
(***************************************************************************)
EXTENDS SequentialProcessor, NaturalsInduction, WellFoundedInduction, TLAPS

\* The messages of a list all depend on m.
OnlyOf(list, m) == \A i \in 1 .. Len(list) : dependsOn[list[i]] = m

\* A delivery is settled no earlier than it is handled, and only content that is
\* compressed is being inflated.
DecodingPart ==
    \A d \in Deliveries :
        /\ pc[d] \in {"new", "decoding"} => settled[d] = "no"
        /\ pc[d] = "decoding" => d \in Compressed

\* What the map of parked messages holds is parked and has not been settled.
ParkedPart ==
    \A m \in Messages : pending[m] # None => pc[pending[m]] = "parked" /\ settled[pending[m]] = "no"

\* The index, and a release loop that took a list off it, hold dependents.
IndexPart ==
    /\ \A m \in Messages : OnlyOf(dependents[m], m)
    /\ \A d \in Deliveries : OnlyOf(releasing[d], MessageId[d])

\* The inductive invariant.
IInv == TypeOK /\ DecodingPart /\ ParkedPart /\ IndexPart

\* A message is not compressed if another one depends on it.
DependenciesInTurn ==
    \A h \in Headers : \A m \in Messages :
        h[m] # None => DeliveriesOf(h[m]) \cap Compressed = {}

\* A delivery counts as behind its dependency once that has been delivered.
BehindPart ==
    \A d \in behind : \E e \in DeliveriesOf(dependsOn[MessageId[d]]) : pc[e] # "new"

\* A message that was handed to the processor has run, was collected, or is in the maps.
Handled(m) == \E e \in DeliveriesOf(m) : pc[e] \notin {"new", "decoding"}
Ended(m) == m \in swept \/ \E e \in DeliveriesOf(m) : pc[e] \in {"releasing", "done"}
HandledPart == channel = "open" => \A m \in Messages : Handled(m) => Ended(m) \/ Unresolved(m)

\* With IInv, inductive when a channel that is still open keeps its processor.
OrderInv ==
    /\ channel = "open" => ~disposed
    /\ BehindPart
    /\ HandledPart

-----------------------------------------------------------------------------
(* The operators of the model. *)

\* A nonempty set of natural numbers has a minimum.
LEMMA MinExists ==
    ASSUME NEW I \in SUBSET Nat, I # {}
    PROVE  Min(I) \in I /\ \A y \in I : Min(I) <= y
<1> DEFINE R == OpToRel(<, Nat)
<1>1. IsWellFoundedOn(R, Nat)
  BY NatLessThanWellFounded, Zenon
<1>2. \A x, y \in Nat : x < y => <<x, y>> \in R
  BY DEF OpToRel
<1> HIDE DEF R
<1>3. PICK x \in I : \A y \in I : ~ (<<y, x>> \in R)
  BY <1>1, WFMin, Zenon
<1>4. \A y \in I : ~(y < x)
  BY <1>2, <1>3
<1>5. \A y \in I : x <= y
  BY <1>4
<1> QED
  BY <1>5 DEF Min

\* Induction, on a set of natural numbers.
LEMMA Induction ==
    ASSUME NEW P, 0 \in P, \A n \in Nat : n \in P => n + 1 \in P
    PROVE  \A n \in Nat : n \in P
<1> DEFINE I == {n \in Nat : n \notin P}
<1> SUFFICES ASSUME I # {} PROVE FALSE
  OBVIOUS
<1>1. I \in SUBSET Nat
  OBVIOUS
<1>2. PICK n \in I : \A y \in I : n <= y
  <2> HIDE DEF I
  <2> QED
    BY <1>1, MinExists
<1>3. n \in Nat \ {0} /\ n - 1 \in Nat /\ n - 1 \notin I
  BY <1>2
<1>4. n - 1 \in P /\ n = (n - 1) + 1
  BY <1>3
<1> QED
  BY <1>2, <1>3, <1>4

\* The first message of a list that is parked.
LEMMA FirstParked ==
    ASSUME NEW S, NEW s \in Seq(S)
    PROVE  LET i == SelectInSeq(s, LAMBDA m : pending[m] # None) IN
           i # 0 => i \in 1 .. Len(s) /\ pending[s[i]] # None
<1> DEFINE I == {i \in 1 .. Len(s) : pending[s[i]] # None}
<1>1. SelectInSeq(s, LAMBDA m : pending[m] # None) = IF I # {} THEN Min(I) ELSE 0
  BY Zenon DEF SelectInSeq
<1>2. I # {} => Min(I) \in I
  <2>1. I \in SUBSET Nat
    OBVIOUS
  <2> HIDE DEF I
  <2> QED
    BY <2>1, MinExists
<1> QED
  BY <1>1, <1>2

\* What Without() keeps are members of the list.
LEMMA WithoutSteps ==
    ASSUME NEW S, NEW s \in Seq(S), NEW X
    PROVE  /\ Without(s, X) \in Seq(S)
           /\ \A i \in 1 .. Len(Without(s, X)) : \E k \in 1 .. Len(s) : Without(s, X)[i] = s[k]
<1> DEFINE Kept == {s[k] : k \in 1 .. Len(s)}
           N == 0 .. Len(s)
           Step(f, i) == IF i = 0 THEN <<>>
                         ELSE IF s[i] \in X THEN f[i - 1] ELSE Append(f[i - 1], s[i])
           Fits(f, n) == /\ f \in [0 .. n -> Seq(Kept)]
                         /\ \A i \in 0 .. n : f[i] = Step(f, i)
           Good == {n \in Nat : n <= Len(s) => \E f : Fits(f, n)}
<1>0. Len(s) \in Nat /\ Kept \subseteq S /\ \A k \in 1 .. Len(s) : s[k] \in Kept
  OBVIOUS
<1>1. Len(s) \in Good
  <2>1. 0 \in Good
    <3>1. Fits([i \in 0 .. 0 |-> <<>>], 0)
      OBVIOUS
    <3> HIDE DEF Fits
    <3> QED
      BY <3>1
  <2>2. ASSUME NEW n \in Nat, n \in Good, n + 1 <= Len(s)
        PROVE  \E f : Fits(f, n + 1)
    <3>1. PICK f : Fits(f, n)
      <4> HIDE DEF Fits
      <4> QED
        BY <1>0, <2>2
    <3> DEFINE g == [i \in 0 .. n + 1 |-> IF i = n + 1 THEN Step(f, i) ELSE f[i]]
    <3> HIDE DEF Kept
    <3>2. Step(f, n + 1) \in Seq(Kept)
      <4>1. n \in 0 .. n /\ n + 1 \in 1 .. Len(s) /\ (n + 1) - 1 = n
        BY <1>0, <2>2
      <4>2. s[n + 1] \in Kept /\ f[n] \in Seq(Kept)
        BY <1>0, <3>1, <4>1
      <4> QED
        BY <4>1, <4>2
    <3>3. g \in [0 .. n + 1 -> Seq(Kept)]
      <4>1. ASSUME NEW i \in 0 .. n + 1, i # n + 1 PROVE i \in 0 .. n
        BY <4>1
      <4> QED
        BY <3>1, <3>2, <4>1
    <3>4. ASSUME NEW i \in 0 .. n + 1 PROVE g[i] = Step(g, i)
      <4>1. CASE i = 0
        <5>1. g[i] = f[i] /\ i \in 0 .. n
          BY <4>1
        <5> QED
          BY <3>1, <4>1, <5>1
      <4>2. CASE i \in 1 .. n + 1
        <5>1. g[i - 1] = f[i - 1] /\ i # 0
          BY <4>2
        <5>2. g[i] = Step(f, i)
          <6>1. CASE i = n + 1
            BY <6>1
          <6>2. CASE i # n + 1
            <7>1. i \in 0 .. n /\ g[i] = f[i]
              BY <4>2, <6>2
            <7> HIDE DEF g
            <7> QED
              BY <3>1, <7>1
          <6> QED
            BY <6>1, <6>2
        <5> QED
          BY <5>1, <5>2
      <4> QED
        BY <4>1, <4>2
    <3> QED
      BY <3>3, <3>4, Zenon
  <2>3. \A n \in Nat : n \in Good => n + 1 \in Good
    <3> HIDE DEF Fits
    <3> QED
      BY <2>2
  <2> HIDE DEF Good
  <2> QED
    BY <1>0, <2>1, <2>3, Induction
<1> HIDE DEF Kept
<1>2. PICK f : Fits(f, Len(s))
  <2> HIDE DEF Fits
  <2> QED
    BY <1>0, <1>1
<1>3. f = [i \in N |-> Step(f, i)]
  BY <1>2
<1> DEFINE g == CHOOSE h : h = [i \in N |-> Step(h, i)]
<1>4. g = [i \in N |-> Step(g, i)]
  <2> HIDE DEF N, Step
  <2> QED
    BY <1>3, Zenon
<1>5. Without(s, X) = g[Len(s)]
  BY Zenon DEF Without
<1> HIDE DEF g
<1>6. g[Len(s)] \in Seq(Kept)
  <2> DEFINE P == {n \in Nat : n <= Len(s) => g[n] \in Seq(Kept)}
  <2>1. 0 \in P
    BY <1>0, <1>4
  <2>2. ASSUME NEW n \in Nat, n \in P PROVE n + 1 \in P
    <3> SUFFICES ASSUME n + 1 <= Len(s) PROVE g[n + 1] \in Seq(Kept)
      OBVIOUS
    <3>1. g[n] \in Seq(Kept) /\ n + 1 \in 1 .. Len(s) /\ n + 1 \in N /\ (n + 1) - 1 = n
      BY <1>0, <2>2
    <3>2. s[n + 1] \in Kept /\ g[n + 1] = Step(g, n + 1)
      BY <1>0, <1>4, <3>1
    <3> QED
      BY <3>1, <3>2
  <2> HIDE DEF P
  <2>3. Len(s) \in P
    BY <1>0, <2>1, <2>2, Induction
  <2> QED
    BY <1>0, <2>3 DEF P
<1>7. Without(s, X) \in Seq(Kept) /\ Seq(Kept) \subseteq Seq(S)
  BY <1>0, <1>5, <1>6
<1>8. \A i \in 1 .. Len(Without(s, X)) : Without(s, X)[i] \in Kept
  BY <1>7
<1> QED
  BY <1>7, <1>8 DEF Kept

\* A settlement is one of the outcomes, and touches one delivery.
LEMMA SettleIs ==
    ASSUME TypeOK, NEW d \in Deliveries, NEW how \in {"ack", "nack"}
    PROVE  /\ Settle(settled, d, how) \in [Deliveries -> {"no", "ack", "nack"}]
           /\ \A e \in Deliveries \ {d} : Settle(settled, d, how)[e] = settled[e]
BY DEF TypeOK, Settle

\* Indexing m under its dependency.
LEMMA IndexedIs ==
    ASSUME NEW index \in [Messages -> Seq(Messages)], \A k \in Messages : OnlyOf(index[k], k),
           NEW m \in Messages, dependsOn[m] \in Messages
    PROVE  /\ Indexed(index, m) \in [Messages -> Seq(Messages)]
           /\ \A k \in Messages : OnlyOf(Indexed(index, m)[k], k)
<1> DEFINE on == dependsOn[m]
           list == IF m \in ToSet(index[on]) THEN index[on] ELSE Append(index[on], m)
<1>1. Indexed(index, m) = [index EXCEPT ![on] = list]
  BY DEF Indexed
<1>2. list \in Seq(Messages) /\ \A i \in 1 .. Len(list) : list[i] = m \/ \E k \in 1 .. Len(index[on]) : list[i] = index[on][k]
  OBVIOUS
<1>3. OnlyOf(list, on)
  BY <1>2 DEF OnlyOf
<1> HIDE DEF list
<1> QED
  BY <1>1, <1>2, <1>3

-----------------------------------------------------------------------------
(* The steps keep IInv. *)

\* Every delivery carries a message of the run.
LEMMA MessagesAre == \A d \in Deliveries : MessageId[d] \in Messages
BY DEF Messages

\* handle() of a delivery that has just come, or has just been inflated.
LEMMA HandleStep ==
    ASSUME IInv, NEW d \in Deliveries, pc[d] \in {"new", "decoding"}, Handle(d),
           UNCHANGED <<dependsOn, loops, channel, disposed, swept>>, behind' \in SUBSET Deliveries
    PROVE  IInv'
<1> USE MessagesAre, NoneAssumption, HeadersAssumption
<1> DEFINE m == MessageId[d]
<1>0. m \in Messages /\ TypeOK /\ DecodingPart /\ ParkedPart /\ IndexPart /\ loops' = loops
  BY DEF IInv
<1>1. CASE /\ Unresolved(dependsOn[m]) /\ Parked(m) /\ pc' = [pc EXCEPT ![d] = "dropped"]
           /\ settled' = Settle(settled, d, "ack") /\ UNCHANGED tables
  <2>1. /\ settled' \in [Deliveries -> {"no", "ack", "nack"}]
        /\ \A e \in Deliveries \ {d} : settled'[e] = settled[e]
    BY <1>0, <1>1, SettleIs
  <2>2. TypeOK'
    BY <1>0, <1>1, <2>1 DEF TypeOK, States, tables, loops
  <2>3. DecodingPart' /\ ParkedPart'
    BY <1>0, <1>1, <2>1 DEF TypeOK, DecodingPart, ParkedPart, tables
  <2>4. IndexPart'
    BY <1>0, <1>1 DEF IndexPart, OnlyOf, tables, loops
  <2> QED
    BY <2>2, <2>3, <2>4 DEF IInv
<1>2. CASE /\ Unresolved(dependsOn[m]) /\ ~Parked(m) /\ pc' = [pc EXCEPT ![d] = "parked"]
           /\ pending' = [pending EXCEPT ![m] = d] /\ queuedAt' = [queuedAt EXCEPT ![m] = "fresh"]
           /\ dependents' = Indexed(dependents, m) /\ UNCHANGED <<processing, settled>>
  <2>1. dependsOn[m] \in Messages
    BY <1>0, <1>2 DEF Unresolved, TypeOK
  <2>2. /\ Indexed(dependents, m) \in [Messages -> Seq(Messages)]
        /\ \A k \in Messages : OnlyOf(Indexed(dependents, m)[k], k)
    BY <1>0, <2>1, IndexedIs DEF TypeOK, IndexPart
  <2>3. TypeOK'
    BY <1>0, <1>2, <2>2 DEF TypeOK, States, Ages, loops
  <2>4. DecodingPart' /\ ParkedPart'
    BY <1>0, <1>2 DEF TypeOK, DecodingPart, ParkedPart
  <2>5. IndexPart'
    BY <1>0, <1>2, <2>2 DEF IndexPart, OnlyOf, loops
  <2> QED
    BY <2>3, <2>4, <2>5 DEF IInv
<1>3. CASE /\ ~Unresolved(dependsOn[m]) /\ pc' = [pc EXCEPT ![d] = "running"]
           /\ processing' = [processing EXCEPT ![m] = "fresh"]
           /\ UNCHANGED <<pending, queuedAt, dependents, settled>>
  <2>1. TypeOK'
    BY <1>0, <1>3 DEF TypeOK, States, Ages, loops
  <2>2. DecodingPart' /\ ParkedPart'
    BY <1>0, <1>3 DEF TypeOK, DecodingPart, ParkedPart
  <2>3. IndexPart'
    BY <1>0, <1>3 DEF IndexPart, OnlyOf, loops
  <2> QED
    BY <2>1, <2>2, <2>3 DEF IInv
<1> QED
  BY <1>1, <1>2, <1>3, Zenon DEF Handle

\* A step of the release loop: it ends, parks a dependent again, or starts one.
Ends(d, proc, index) ==
    /\ pc' = [pc EXCEPT ![d] = "done"]
    /\ processing' = proc /\ dependents' = index
    /\ releasing' = [releasing EXCEPT ![d] = <<>>]
    /\ child' = [child EXCEPT ![d] = None]
    /\ UNCHANGED <<pending, queuedAt>>

Reparks(d, m, rest, proc, index) ==
    /\ pc' = [pc EXCEPT ![d] = "releasing"]
    /\ processing' = proc /\ dependents' = Indexed(index, m)
    /\ queuedAt' = [queuedAt EXCEPT ![m] = "fresh"]
    /\ releasing' = [releasing EXCEPT ![d] = rest]
    /\ child' = [child EXCEPT ![d] = None]
    /\ UNCHANGED pending

Unparks(d, m, rest, proc, index) ==
    /\ pc' = [pc EXCEPT ![d] = "releasing", ![pending[m]] = "running"]
    /\ processing' = [proc EXCEPT ![m] = "fresh"] /\ dependents' = index
    /\ pending' = [pending EXCEPT ![m] = None]
    /\ queuedAt' = [queuedAt EXCEPT ![m] = "none"]
    /\ releasing' = [releasing EXCEPT ![d] = rest]
    /\ child' = [child EXCEPT ![d] = pending[m]]

\* What ReleaseNext() does with a list of dependents: those it works on are parked
\* members of the list, and so is what it leaves for later.
LEMMA ReleaseIs ==
    ASSUME NEW d, NEW list \in Seq(Messages), NEW proc, NEW index,
           OnlyOf(list, MessageId[d]), ReleaseNext(d, list, proc, index)
    PROVE  \/ Ends(d, proc, index)
           \/ \E m \in Messages : \E rest \in Seq(Messages) :
                /\ pending[m] # None /\ dependsOn[m] = MessageId[d] /\ OnlyOf(rest, MessageId[d])
                /\ Reparks(d, m, rest, proc, index) \/ Unparks(d, m, rest, proc, index)
<1> DEFINE i == SelectInSeq(list, LAMBDA m : pending[m] # None)
           rest == SubSeq(list, i + 1, Len(list))
<1>1. i # 0 => i \in 1 .. Len(list) /\ pending[list[i]] # None
  BY FirstParked
<1>2. CASE i = 0
  BY <1>2 DEF ReleaseNext, Ends
<1>3. CASE i # 0
  <2>1. PICK k \in 1 .. Len(list) : k = i
    BY <1>1, <1>3
  <2>2. list[k] \in Messages /\ pending[list[k]] # None /\ dependsOn[list[k]] = MessageId[d]
    BY <1>1, <1>3, <2>1 DEF OnlyOf
  <2>3. /\ SubSeq(list, k + 1, Len(list)) \in Seq(Messages)
        /\ \A j \in 1 .. Len(SubSeq(list, k + 1, Len(list))) :
             \E l \in 1 .. Len(list) : SubSeq(list, k + 1, Len(list))[j] = list[l]
    <3> DEFINE tail == SubSeq(list, k + 1, Len(list))
    <3>1. tail \in Seq(Messages) /\ Len(tail) = Len(list) - k
      OBVIOUS
    <3>2. \A j \in 1 .. Len(list) - k : tail[j] = list[j + k] /\ j + k \in 1 .. Len(list)
      OBVIOUS
    <3> HIDE DEF tail
    <3>3. tail \in Seq(Messages) /\ \A j \in 1 .. Len(tail) : \E l \in 1 .. Len(list) : tail[j] = list[l]
      BY <3>1, <3>2
    <3> QED
      BY <3>3 DEF tail
  <2>4. OnlyOf(SubSeq(list, k + 1, Len(list)), MessageId[d])
    BY <2>3 DEF OnlyOf
  <2>5. \/ Reparks(d, list[k], SubSeq(list, k + 1, Len(list)), proc, index)
        \/ Unparks(d, list[k], SubSeq(list, k + 1, Len(list)), proc, index)
    BY <1>3, <2>1 DEF ReleaseNext, Reparks, Unparks
  <2> QED
    BY <2>2, <2>3, <2>4, <2>5, Zenon
<1> QED
  BY <1>2, <1>3

\* The map of parked messages goes by message id.
LEMMA ParkedUnder ==
    ASSUME TypeOK, NEW m \in Messages, pending[m] # None
    PROVE  pending[m] \in Deliveries /\ MessageId[pending[m]] = m
BY DEF TypeOK

\* A step of the release loop of a delivery that has been run.
LEMMA ReleaseStep ==
    ASSUME IInv, NEW d \in Deliveries, pc[d] \in {"running", "releasing"},
           NEW list \in Seq(Messages), OnlyOf(list, MessageId[d]),
           NEW proc \in [Messages -> Ages], NEW index \in [Messages -> Seq(Messages)],
           \A m \in Messages : OnlyOf(index[m], m),
           ReleaseNext(d, list, proc, index),
           settled' \in {settled, Settle(settled, d, "ack")},
           UNCHANGED <<dependsOn, channel, disposed, behind, swept>>
    PROVE  IInv'
<1> USE MessagesAre, NoneAssumption, HeadersAssumption
<1>0. TypeOK /\ DecodingPart /\ ParkedPart /\ IndexPart /\ MessageId[d] \in Messages
  BY DEF IInv
<1>1. /\ settled' \in [Deliveries -> {"no", "ack", "nack"}]
      /\ \A e \in Deliveries \ {d} : settled'[e] = settled[e]
  BY <1>0, SettleIs DEF TypeOK
<1>2. CASE Ends(d, proc, index)
  <2>1. TypeOK'
    BY <1>0, <1>1, <1>2 DEF TypeOK, States, Ends
  <2>2. DecodingPart' /\ ParkedPart'
    BY <1>0, <1>1, <1>2 DEF TypeOK, DecodingPart, ParkedPart, Ends
  <2>3. IndexPart'
    <3>1. \A e \in Deliveries : releasing'[e] = IF e = d THEN <<>> ELSE releasing[e]
      BY <1>0, <1>2 DEF TypeOK, Ends
    <3>2. dependents' = index
      BY <1>2 DEF Ends
    <3>3. \A k \in Messages : OnlyOf(dependents[k], k)'
      BY <3>2 DEF OnlyOf
    <3>4. ASSUME NEW f \in Deliveries PROVE OnlyOf(releasing[f], MessageId[f])'
      <4>1. CASE f = d
        BY <3>1, <4>1 DEF OnlyOf
      <4>2. CASE f # d
        <5>1. OnlyOf(releasing[f], MessageId[f]) /\ releasing'[f] = releasing[f]
          BY <1>0, <3>1, <4>2 DEF IndexPart
        <5> QED
          BY <5>1 DEF OnlyOf
      <4> QED
        BY <4>1, <4>2
    <3> QED
      BY <3>3, <3>4 DEF IndexPart
  <2> QED
    BY <2>1, <2>2, <2>3 DEF IInv
<1>3. ASSUME NEW m \in Messages, NEW rest \in Seq(Messages), pending[m] # None,
             dependsOn[m] = MessageId[d], OnlyOf(rest, MessageId[d]),
             Reparks(d, m, rest, proc, index)
      PROVE  IInv'
  <2>1. /\ Indexed(index, m) \in [Messages -> Seq(Messages)]
        /\ \A k \in Messages : OnlyOf(Indexed(index, m)[k], k)
    BY <1>0, <1>3, IndexedIs
  <2>2. TypeOK'
    BY <1>0, <1>1, <1>3, <2>1 DEF TypeOK, States, Ages, Reparks
  <2>3. DecodingPart' /\ ParkedPart'
    BY <1>0, <1>1, <1>3 DEF TypeOK, DecodingPart, ParkedPart, Reparks
  <2>4. IndexPart'
    <3>1. \A e \in Deliveries : releasing'[e] = IF e = d THEN rest ELSE releasing[e]
      BY <1>0, <1>3 DEF TypeOK, Reparks
    <3>2. dependents' = Indexed(index, m)
      BY <1>3 DEF Reparks
    <3>3. \A k \in Messages : OnlyOf(dependents[k], k)'
      BY <2>1, <3>2 DEF OnlyOf
    <3>4. ASSUME NEW f \in Deliveries PROVE OnlyOf(releasing[f], MessageId[f])'
      <4>1. CASE f = d
        BY <1>3, <3>1, <4>1 DEF OnlyOf
      <4>2. CASE f # d
        <5>1. OnlyOf(releasing[f], MessageId[f]) /\ releasing'[f] = releasing[f]
          BY <1>0, <3>1, <4>2 DEF IndexPart
        <5> QED
          BY <5>1 DEF OnlyOf
      <4> QED
        BY <4>1, <4>2
    <3> QED
      BY <3>3, <3>4 DEF IndexPart
  <2> QED
    BY <2>2, <2>3, <2>4 DEF IInv
<1>4. ASSUME NEW m \in Messages, NEW rest \in Seq(Messages), pending[m] # None,
             dependsOn[m] = MessageId[d], OnlyOf(rest, MessageId[d]),
             Unparks(d, m, rest, proc, index)
      PROVE  IInv'
  <2>1. PICK e \in Deliveries : /\ e = pending[m] /\ pc[e] = "parked" /\ e # d
                                /\ \A k \in Messages \ {m} : pending[k] # e
    <3>1. pending[m] \in Deliveries /\ MessageId[pending[m]] = m /\ pc[pending[m]] = "parked"
      BY <1>0, <1>4, ParkedUnder DEF ParkedPart
    <3>2. \A k \in Messages : pending[k] = pending[m] => k = m
      BY <1>0, <1>4, ParkedUnder
    <3> QED
      BY <3>1, <3>2
  <2>2. TypeOK'
    BY <1>0, <1>1, <1>4, <2>1 DEF TypeOK, States, Ages, Unparks
  <2>3. DecodingPart' /\ ParkedPart'
    <3>1. /\ \A f \in Deliveries \ {d, e} : pc'[f] = pc[f] /\ settled'[f] = settled[f]
          /\ pc'[d] = "releasing" /\ pc'[e] = "running"
          /\ \A k \in Messages : pending'[k] = IF k = m THEN None ELSE pending[k]
      BY <1>0, <1>1, <1>4, <2>1 DEF TypeOK, Unparks
    <3>2. \A k \in Messages \ {m} : pending[k] # None => pending[k] \in Deliveries \ {d, e}
      BY <1>0, <2>1, ParkedUnder DEF ParkedPart
    <3>3. ASSUME NEW k \in Messages, pending'[k] # None
          PROVE  pc'[pending'[k]] = "parked" /\ settled'[pending'[k]] = "no"
      <4>1. k # m /\ pending'[k] = pending[k] /\ pending[k] # None
        BY <3>1, <3>3
      <4>2. pending[k] \in Deliveries \ {d, e}
        BY <3>2, <4>1
      <4>3. pc[pending[k]] = "parked" /\ settled[pending[k]] = "no"
        BY <1>0, <4>1 DEF ParkedPart
      <4> QED
        BY <3>1, <4>1, <4>2, <4>3
    <3>4. DecodingPart'
      BY <1>0, <2>1, <3>1 DEF DecodingPart
    <3> QED
      BY <3>3, <3>4 DEF ParkedPart
  <2>4. IndexPart'
    <3>1. \A f \in Deliveries : releasing'[f] = IF f = d THEN rest ELSE releasing[f]
      BY <1>0, <1>4 DEF TypeOK, Unparks
    <3>2. dependents' = index
      BY <1>4 DEF Unparks
    <3>3. \A k \in Messages : OnlyOf(dependents[k], k)'
      BY <3>2 DEF OnlyOf
    <3>4. ASSUME NEW f \in Deliveries PROVE OnlyOf(releasing[f], MessageId[f])'
      <4>1. CASE f = d
        BY <1>4, <3>1, <4>1 DEF OnlyOf
      <4>2. CASE f # d
        <5>1. OnlyOf(releasing[f], MessageId[f]) /\ releasing'[f] = releasing[f]
          BY <1>0, <3>1, <4>2 DEF IndexPart
        <5> QED
          BY <5>1 DEF OnlyOf
      <4> QED
        BY <4>1, <4>2
    <3> QED
      BY <3>3, <3>4 DEF IndexPart
  <2> QED
    BY <2>2, <2>3, <2>4 DEF IInv
<1> QED
  BY <1>2, <1>3, <1>4, ReleaseIs

\* CallbackSucceeds() is such a step, on the dependents of its message.
LEMMA SucceedsIs ==
    ASSUME IInv, NEW d \in Deliveries, CallbackSucceeds(d)
    PROVE  \E list \in Seq(Messages) : \E proc \in [Messages -> Ages] :
           \E index \in [Messages -> Seq(Messages)] :
             /\ OnlyOf(list, MessageId[d]) /\ \A m \in Messages : OnlyOf(index[m], m)
             /\ ReleaseNext(d, list, proc, index)
             /\ proc = [processing EXCEPT ![MessageId[d]] = "none"]
<1> DEFINE m == MessageId[d]
           list == dependents[m]
           proc == [processing EXCEPT ![m] = "none"]
           index == [dependents EXCEPT ![m] = <<>>]
<1>1. m \in Messages /\ ReleaseNext(d, list, proc, index)
  BY MessagesAre DEF CallbackSucceeds
<1>2. /\ list \in Seq(Messages) /\ proc \in [Messages -> Ages]
      /\ index \in [Messages -> Seq(Messages)]
  BY <1>1 DEF IInv, TypeOK, Ages
<1>3. OnlyOf(list, m) /\ \A k \in Messages : OnlyOf(index[k], k)
  BY <1>1 DEF IInv, TypeOK, IndexPart, OnlyOf
<1> QED
  BY <1>1, <1>2, <1>3, Zenon

\* ReleaseResumes() is one too, on what the loop had left.
LEMMA ResumesIs ==
    ASSUME IInv, NEW d \in Deliveries, ReleaseResumes(d)
    PROVE  \E list \in Seq(Messages) : \E proc \in [Messages -> Ages] :
           \E index \in [Messages -> Seq(Messages)] :
             /\ OnlyOf(list, MessageId[d]) /\ \A m \in Messages : OnlyOf(index[m], m)
             /\ ReleaseNext(d, list, proc, index)
             /\ proc = processing
BY Zenon DEF ReleaseResumes, IInv, TypeOK, IndexPart

\* cleanup(): a parked message that expires leaves the map and the index, and nothing else
\* of either changes.
LEMMA CleanupStep == ASSUME IInv, Cleanup PROVE IInv'
<1> USE MessagesAre, NoneAssumption, HeadersAssumption
<1>0. TypeOK /\ DecodingPart /\ ParkedPart /\ IndexPart
  BY DEF IInv
<1>1. ASSUME NEW m \in Messages, pending'[m] # None
      PROVE  /\ m \notin Expired /\ pending'[m] = pending[m] /\ pending[m] \in Deliveries
             /\ MessageId[pending[m]] = m /\ \A k \in Expired : pending[k] # pending[m]
  <2>1. m \notin Expired /\ pending'[m] = pending[m]
    BY <1>1 DEF Cleanup, SweptPending
  <2>2. \A k \in Expired : k \in Messages /\ k # m
    BY <2>1 DEF Expired
  <2> QED
    BY <1>0, <1>1, <2>1, <2>2, ParkedUnder
<1>2. /\ dependents' \in [Messages -> Seq(Messages)]
      /\ \A m \in Messages : \A i \in 1 .. Len(dependents'[m]) :
           \E k \in 1 .. Len(dependents[m]) : dependents'[m][i] = dependents[m][k]
  <2>1. dependents' = [m \in Messages |-> Without(dependents[m], Expired)]
    BY DEF Cleanup, SweptDependents
  <2>2. \A m \in Messages : dependents[m] \in Seq(Messages)
    BY <1>0 DEF TypeOK
  <2> QED
    BY <2>1, <2>2, WithoutSteps
<1>3. settled' \in [Deliveries -> {"no", "ack", "nack"}]
  <2>1. \A d \in Deliveries : Settle(settled, d, "nack")[d] \in {"no", "ack", "nack"}
    BY <1>0, SettleIs
  <2>2. \A d \in Deliveries : settled'[d] \in {"no", "ack", "nack"}
    BY <1>0, <2>1 DEF Cleanup, TypeOK
  <2> QED
    BY <2>2 DEF Cleanup
<1>4. TypeOK'
  <2>1. \A m \in Messages : pending'[m] \in Deliveries \cup {None}
    BY <1>1
  <2>2. \A m \in Messages : (pending[m] = None) = (queuedAt[m] = "none")
    BY <1>0 DEF TypeOK
  <2>3. \A m \in Messages : (pending'[m] = None) = (queuedAt'[m] = "none")
    BY <2>2 DEF Cleanup, SweptPending, Expired
  <2>4. \A m \in Messages : pending'[m] # None => MessageId[pending'[m]] = m
    BY <1>1
  <2>5. pending' \in [Messages -> Deliveries \cup {None}]
    BY <2>1 DEF Cleanup, SweptPending
  <2>6. /\ pc' \in [Deliveries -> States] /\ processing' \in [Messages -> Ages]
        /\ queuedAt' \in [Messages -> Ages] /\ swept' \in SUBSET Messages
    BY <1>0 DEF TypeOK, Cleanup, States, Ages
  <2> QED
    BY <1>0, <1>2, <1>3, <2>3, <2>4, <2>5, <2>6 DEF TypeOK, Cleanup, loops
<1>5. DecodingPart'
  <2> SUFFICES ASSUME NEW d \in Deliveries
               PROVE  /\ pc'[d] \in {"new", "decoding"} => settled'[d] = "no"
                      /\ pc'[d] = "decoding" => d \in Compressed
    BY DEF DecodingPart
  <2>1. CASE \E m \in Expired : pending[m] = d
    BY <2>1 DEF Cleanup
  <2>2. CASE ~ \E m \in Expired : pending[m] = d
    BY <1>0, <2>2 DEF Cleanup, DecodingPart
  <2> QED
    BY <2>1, <2>2
<1>6. ASSUME NEW m \in Messages, pending'[m] # None
      PROVE  pc'[pending'[m]] = "parked" /\ settled'[pending'[m]] = "no"
  <2>1. pc[pending[m]] = "parked" /\ settled[pending[m]] = "no"
    BY <1>0, <1>1, <1>6 DEF ParkedPart
  <2>2. PICK d \in Deliveries : d = pending[m] /\ \A k \in Expired : pending[k] # d
    BY <1>1, <1>6
  <2>3. pc'[d] = pc[d] /\ settled'[d] = settled[d]
    BY <2>2 DEF Cleanup
  <2> QED
    BY <1>1, <1>6, <2>1, <2>2, <2>3
<1>7. IndexPart'
  <2>1. \A m \in Messages : OnlyOf(dependents[m], m)'
    <3> SUFFICES ASSUME NEW m \in Messages, NEW i \in 1 .. Len(dependents'[m])
                 PROVE  dependsOn'[dependents'[m][i]] = m
      BY DEF OnlyOf
    <3>1. PICK k \in 1 .. Len(dependents[m]) : dependents'[m][i] = dependents[m][k]
      BY <1>2
    <3>2. dependsOn[dependents[m][k]] = m
      BY <1>0, <3>1 DEF IndexPart, OnlyOf
    <3> QED
      BY <3>1, <3>2 DEF Cleanup
  <2>2. \A d \in Deliveries : OnlyOf(releasing[d], MessageId[d])'
    BY <1>0 DEF IndexPart, OnlyOf, Cleanup, loops
  <2> QED
    BY <2>1, <2>2 DEF IndexPart
<1>8. ParkedPart'
  BY <1>6 DEF ParkedPart
<1> QED
  BY <1>4, <1>5, <1>7, <1>8 DEF IInv

\* Nothing has been delivered: the maps are empty.
LEMMA InitIInv == Init => IInv
<1> SUFFICES ASSUME Init PROVE IInv
  OBVIOUS
<1>1. TypeOK
  <2>1. <<>> \in Seq(Messages)
    OBVIOUS
  <2>2. dependents \in [Messages -> Seq(Messages)] /\ releasing \in [Deliveries -> Seq(Messages)]
    BY <2>1 DEF Init
  <2>3. \A m \in Messages : pending[m] = None /\ queuedAt[m] = "none"
    BY DEF Init
  <2> QED
    BY <2>2, <2>3 DEF Init, TypeOK, States, Ages
<1>2. DecodingPart /\ ParkedPart /\ IndexPart
  BY DEF Init, DecodingPart, ParkedPart, IndexPart, OnlyOf
<1> QED
  BY <1>1, <1>2 DEF IInv

\* Every action keeps the invariant.
LEMMA NextIInv == IInv /\ [Next]_vars => IInv'
<1> SUFFICES ASSUME IInv, [Next]_vars PROVE IInv'
  OBVIOUS
<1> USE MessagesAre, NoneAssumption, HeadersAssumption
<1>0. TypeOK /\ DecodingPart /\ ParkedPart /\ IndexPart
  BY DEF IInv
<1>1. ASSUME NEW d \in Deliveries, Deliver(d) PROVE IInv'
  <2>1. behind' \in SUBSET Deliveries
    BY <1>0, <1>1 DEF Deliver, TypeOK
  <2>2. CASE Handle(d)
    BY <1>1, <2>1, <2>2, HandleStep DEF Deliver
  <2>3. CASE d \in Compressed /\ pc' = [pc EXCEPT ![d] = "decoding"] /\ UNCHANGED <<tables, settled>>
    <3>1. TypeOK'
      BY <1>0, <1>1, <2>1, <2>3 DEF Deliver, TypeOK, States, tables, loops
    <3>2. DecodingPart' /\ ParkedPart'
      BY <1>0, <1>1, <2>3 DEF Deliver, TypeOK, DecodingPart, ParkedPart, tables
    <3>3. IndexPart'
      BY <1>0, <1>1, <2>3 DEF Deliver, IndexPart, OnlyOf, tables, loops
    <3> QED
      BY <3>1, <3>2, <3>3 DEF IInv
  <2> QED
    BY <1>1, <2>2, <2>3 DEF Deliver
<1>2. ASSUME NEW d \in Deliveries, Decoded(d) PROVE IInv'
  <2>1. behind' \in SUBSET Deliveries
    BY <1>0, <1>2 DEF Decoded, TypeOK
  <2> QED
    BY <1>2, <2>1, HandleStep DEF Decoded
<1>3. ASSUME NEW d \in Deliveries, DecodeFails(d) \/ CallbackFails(d) PROVE IInv'
  <2>1. /\ settled' \in [Deliveries -> {"no", "ack", "nack"}]
        /\ \A e \in Deliveries \ {d} : settled'[e] = settled[e]
    BY <1>0, <1>3, SettleIs DEF DecodeFails, CallbackFails
  <2>2. /\ pc' = [pc EXCEPT ![d] = "done"] /\ pc[d] # "parked"
        /\ UNCHANGED <<dependsOn, pending, queuedAt, dependents, loops, channel, disposed, behind, swept>>
    BY <1>3 DEF DecodeFails, CallbackFails, tables
  <2>3. processing' \in [Messages -> Ages]
    BY <1>0, <1>3 DEF DecodeFails, CallbackFails, tables, TypeOK, Ages
  <2>4. TypeOK'
    BY <1>0, <2>1, <2>2, <2>3 DEF TypeOK, States, loops
  <2>5. DecodingPart' /\ ParkedPart'
    BY <1>0, <2>1, <2>2 DEF TypeOK, DecodingPart, ParkedPart
  <2>6. IndexPart'
    BY <1>0, <2>2 DEF IndexPart, OnlyOf, loops
  <2> QED
    BY <2>4, <2>5, <2>6 DEF IInv
<1>4. ASSUME NEW d \in Deliveries, CallbackSucceeds(d) PROVE IInv'
  <2>1. pc[d] = "running" /\ settled' = Settle(settled, d, "ack")
        /\ UNCHANGED <<dependsOn, channel, disposed, behind, swept>>
    BY <1>4 DEF CallbackSucceeds
  <2> QED
    BY <1>4, <2>1, SucceedsIs, ReleaseStep
<1>5. ASSUME NEW d \in Deliveries, ReleaseResumes(d) PROVE IInv'
  <2>1. pc[d] = "releasing" /\ UNCHANGED <<dependsOn, settled, channel, disposed, behind, swept>>
    BY <1>5 DEF ReleaseResumes
  <2> QED
    BY <1>5, <2>1, ResumesIs, ReleaseStep
<1>6. ASSUME TimePasses PROVE IInv'
  <2>1. TypeOK'
    <3>1. \A m \in Messages : (pending[m] = None) = (queuedAt[m] = "none")
      BY <1>0 DEF TypeOK
    <3>2. \A m \in Messages : (pending'[m] = None) = (queuedAt'[m] = "none")
      BY <1>6, <3>1 DEF TimePasses
    <3>3. processing' \in [Messages -> Ages] /\ queuedAt' \in [Messages -> Ages]
      BY <1>0, <1>6 DEF TimePasses, TypeOK, Ages
    <3> QED
      BY <1>0, <1>6, <3>2, <3>3 DEF TimePasses, TypeOK, loops
  <2>2. DecodingPart' /\ ParkedPart' /\ IndexPart'
    BY <1>0, <1>6 DEF TimePasses, DecodingPart, ParkedPart, IndexPart, OnlyOf, loops
  <2> QED
    BY <2>1, <2>2 DEF IInv
<1>7. ASSUME Cleanup PROVE IInv'
  BY <1>7, CleanupStep
<1>8. ASSUME Dispose PROVE IInv'
  <2>1. TypeOK'
    BY <1>0, <1>8 DEF Dispose, TypeOK, Ages, loops
  <2>2. DecodingPart' /\ ParkedPart' /\ IndexPart'
    BY <1>0, <1>8 DEF Dispose, DecodingPart, ParkedPart, IndexPart, OnlyOf, loops
  <2> QED
    BY <2>1, <2>2 DEF IInv
<1>9. ASSUME ChannelCloses \/ UNCHANGED vars PROVE IInv'
  <2>1. UNCHANGED <<dependsOn, pc, tables, loops, settled, disposed, behind, swept>>
        /\ channel' \in {channel, "closed"}
    BY <1>9 DEF ChannelCloses, vars
  <2>2. TypeOK'
    BY <1>0, <2>1 DEF TypeOK, tables, loops
  <2>3. DecodingPart' /\ ParkedPart' /\ IndexPart'
    BY <1>0, <2>1 DEF DecodingPart, ParkedPart, IndexPart, OnlyOf, tables, loops
  <2> QED
    BY <2>2, <2>3 DEF IInv
<1> QED
  BY <1>1, <1>2, <1>3, <1>4, <1>5, <1>6, <1>7, <1>8, <1>9, Zenon DEF Next

\* The inductive invariant of the processor.
THEOREM Invariance == Spec => []IInv
BY InitIInv, NextIInv, PTL DEF Spec

\* Every reachable state is well typed.
THEOREM TypeCorrect == Spec => []TypeOK
<1>1. IInv => TypeOK
  BY DEF IInv
<1> QED
  BY Invariance, <1>1, PTL

-----------------------------------------------------------------------------
(* Which deliveries start, and when. *)

\* A callback starts for a delivery that is handed to handle() and waits for nothing, or
\* for a parked one of which a delivery of its dependency is through.
LEMMA StartsAre ==
    ASSUME IInv, [Next]_vars, NEW d \in Deliveries, Running(d)
    PROVE  \/ /\ pc[d] \in {"new", "decoding"} /\ ~Unresolved(dependsOn[MessageId[d]])
              /\ \A e \in Deliveries \ {d} : pc'[e] = pc[e]
              /\ swept' = swept
              /\ d \in behind' =>
                   \/ d \in behind
                   \/ \E e \in DeliveriesOf(dependsOn[MessageId[d]]) : pc[e] # "new"
           \/ /\ \E m \in Messages : pending[m] = d
              /\ \E e \in DeliveriesOf(dependsOn[MessageId[d]]) : pc'[e] = "releasing"
<1> USE MessagesAre, NoneAssumption, HeadersAssumption
<1>0. TypeOK /\ ParkedPart /\ pc[d] # "running" /\ pc'[d] = "running" /\ pc \in [Deliveries -> States]
  BY DEF IInv, Running, TypeOK
<1>1. ASSUME NEW e \in Deliveries, Handle(e)
      PROVE  e = d /\ ~Unresolved(dependsOn[MessageId[d]]) /\ \A f \in Deliveries \ {d} : pc'[f] = pc[f]
  BY <1>0, <1>1 DEF Handle
<1>2. ASSUME NEW e \in Deliveries, Deliver(e)
      PROVE  /\ e = d /\ pc[d] = "new" /\ Handle(e) /\ swept' = swept
             /\ d \in behind' => \/ d \in behind
                                 \/ \E f \in DeliveriesOf(dependsOn[MessageId[d]]) : pc[f] # "new"
  <2>1. Handle(e) /\ swept' = swept /\ pc[e] = "new"
    BY <1>0, <1>2 DEF Deliver
  <2>2. e = d
    BY <1>1, <2>1
  <2> QED
    BY <1>2, <2>1, <2>2 DEF Deliver
<1>3. ASSUME NEW e \in Deliveries, pc[e] \in {"running", "releasing"},
             NEW list \in Seq(Messages), NEW proc, NEW index,
             OnlyOf(list, MessageId[e]), ReleaseNext(e, list, proc, index)
      PROVE  /\ \E m \in Messages : pending[m] = d
             /\ \E f \in DeliveriesOf(dependsOn[MessageId[d]]) : pc'[f] = "releasing"
  <2>1. ~Ends(e, proc, index)
    BY <1>0 DEF Ends
  <2>2. PICK m \in Messages : \E rest \in Seq(Messages) :
          /\ pending[m] # None /\ dependsOn[m] = MessageId[e]
          /\ Reparks(e, m, rest, proc, index) \/ Unparks(e, m, rest, proc, index)
    BY <1>3, <2>1, ReleaseIs
  <2>3. pc' = [pc EXCEPT ![e] = "releasing", ![pending[m]] = "running"] /\ d = pending[m]
    BY <1>0, <2>2 DEF Reparks, Unparks
  <2>4. MessageId[d] = m /\ pc[d] = "parked"
    BY <1>0, <2>2, <2>3, ParkedUnder DEF ParkedPart
  <2>5. pc'[e] = "releasing"
    BY <1>0, <1>3, <2>3, <2>4
  <2> QED
    BY <2>2, <2>3, <2>4, <2>5 DEF DeliveriesOf
<1>4. ASSUME NEW e \in Deliveries, Decoded(e)
      PROVE  e = d /\ pc[d] = "decoding" /\ Handle(e) /\ swept' = swept /\ behind' = behind
  <2>1. Handle(e) /\ swept' = swept /\ pc[e] = "decoding" /\ behind' = behind
    BY <1>4 DEF Decoded
  <2> QED
    BY <1>1, <2>1
<1>5. ASSUME NEW e \in Deliveries, CallbackSucceeds(e) \/ ReleaseResumes(e)
      PROVE  /\ \E m \in Messages : pending[m] = d
             /\ \E f \in DeliveriesOf(dependsOn[MessageId[d]]) : pc'[f] = "releasing"
  <2>1. pc[e] \in {"running", "releasing"}
    BY <1>5 DEF CallbackSucceeds, ReleaseResumes
  <2>2. PICK list \in Seq(Messages), proc \in [Messages -> Ages],
               index \in [Messages -> Seq(Messages)] :
          OnlyOf(list, MessageId[e]) /\ ReleaseNext(e, list, proc, index)
    BY <1>5, SucceedsIs, ResumesIs, Zenon
  <2> QED
    BY <1>3, <2>1, <2>2, Zenon
<1>6. ASSUME \/ \E e \in Deliveries : DecodeFails(e) \/ CallbackFails(e)
             \/ TimePasses \/ Cleanup \/ Dispose \/ ChannelCloses \/ UNCHANGED vars
      PROVE  FALSE
  BY <1>0, <1>6 DEF DecodeFails, CallbackFails, TimePasses, Cleanup, Dispose, ChannelCloses, vars
<1> QED
  <2>1. CASE \E e \in Deliveries : Deliver(e)
    BY <1>1, <1>2, <2>1
  <2>2. CASE \E e \in Deliveries : Decoded(e)
    BY <1>1, <1>4, <2>2
  <2>3. CASE \E e \in Deliveries : CallbackSucceeds(e) \/ ReleaseResumes(e)
    BY <1>5, <2>3, Zenon
  <2> QED
    BY <1>6, <2>1, <2>2, <2>3, Zenon DEF Next

\* No callback starts for a delivery that has been settled: a duplicate that was dropped or
\* a parked message that expired is out of the map the release loop reads.
THEOREM NoRunHolds == Spec => NoRunAfterSettle
<1>1. ASSUME IInv, [Next]_vars, NEW d \in Deliveries, Running(d) PROVE settled[d] = "no"
  BY <1>1, StartsAre, NoneAssumption DEF IInv, DecodingPart, ParkedPart
<1>2. IInv /\ [Next]_vars => [\A d \in Deliveries : Running(d) => settled[d] = "no"]_vars
  BY <1>1
<1> QED
  BY Invariance, <1>2, PTL DEF Spec, NoRunAfterSettle

-----------------------------------------------------------------------------
(* Order. *)

\* Where a delivery is only advances.
LEMMA Advances ==
    ASSUME IInv, [Next]_vars, NEW d \in Deliveries
    PROVE  /\ pc[d] # "new" => pc'[d] # "new"
           /\ pc[d] \notin {"new", "decoding"} => pc'[d] \notin {"new", "decoding"}
           /\ pc[d] \in {"releasing", "done"} => pc'[d] \in {"releasing", "done"}
<1> USE MessagesAre, NoneAssumption
<1>0. TypeOK /\ ParkedPart /\ pc \in [Deliveries -> States]
  BY DEF IInv, TypeOK
<1>1. ASSUME NEW e \in Deliveries, Handle(e), pc[e] \in {"new", "decoding"}
      PROVE  /\ pc[d] # "new" => pc'[d] # "new"
             /\ pc[d] \notin {"new", "decoding"} => pc'[d] = pc[d]
  BY <1>0, <1>1 DEF Handle
<1>2. CASE \E e \in Deliveries : Deliver(e)
  BY <1>0, <1>1, <1>2 DEF Deliver
<1>3. CASE \E e \in Deliveries : Decoded(e)
  BY <1>1, <1>3 DEF Decoded
<1>4. CASE \E e \in Deliveries : CallbackSucceeds(e) \/ ReleaseResumes(e)
  <2>1. PICK e \in Deliveries : CallbackSucceeds(e) \/ ReleaseResumes(e)
    BY <1>4
  <2>2. PICK list \in Seq(Messages), proc \in [Messages -> Ages],
               index \in [Messages -> Seq(Messages)] :
          OnlyOf(list, MessageId[e]) /\ ReleaseNext(e, list, proc, index)
    BY <2>1, SucceedsIs, ResumesIs, Zenon
  <2>3. pc[e] \in {"running", "releasing"}
    BY <2>1 DEF CallbackSucceeds, ReleaseResumes
  <2>4. \/ pc' = [pc EXCEPT ![e] = "done"] \/ pc' = [pc EXCEPT ![e] = "releasing"]
        \/ \E m \in Messages :
             pending[m] # None /\ pc' = [pc EXCEPT ![e] = "releasing", ![pending[m]] = "running"]
    <3>1. \/ Ends(e, proc, index)
          \/ \E m \in Messages : \E rest \in Seq(Messages) :
               /\ pending[m] # None
               /\ Reparks(e, m, rest, proc, index) \/ Unparks(e, m, rest, proc, index)
      BY <2>2, ReleaseIs
    <3> QED
      BY <3>1, Zenon DEF Ends, Reparks, Unparks
  <2>5. \A m \in Messages : pending[m] # None => pending[m] \in Deliveries /\ pc[pending[m]] = "parked"
    BY <1>0, ParkedUnder DEF ParkedPart
  <2> QED
    BY <1>0, <2>3, <2>4, <2>5
<1>5. CASE \E e \in Deliveries : DecodeFails(e) \/ CallbackFails(e)
  BY <1>0, <1>5 DEF DecodeFails, CallbackFails
<1>6. CASE TimePasses \/ Dispose \/ ChannelCloses \/ UNCHANGED vars
  BY <1>6 DEF TimePasses, Dispose, ChannelCloses, vars
<1>7. CASE Cleanup
  BY <1>7 DEF Cleanup
<1> QED
  BY <1>2, <1>3, <1>4, <1>5, <1>6, <1>7, Zenon DEF Next

\* A message that was handed over and has not ended is in the maps.
LEMMA HandledStep ==
    ASSUME IInv, [Next]_vars, channel = "open", ~disposed, HandledPart, channel' = "open",
           ~Dispose, NEW m \in Messages, Handled(m)'
    PROVE  (Ended(m) \/ Unresolved(m))'
<1> USE MessagesAre, NoneAssumption
<1>0. TypeOK /\ ParkedPart /\ pc \in [Deliveries -> States] /\ (Handled(m) => Ended(m) \/ Unresolved(m))
  BY DEF IInv, TypeOK, HandledPart
<1>1. swept \subseteq swept'
  BY DEF Next, vars, Deliver, Decoded, DecodeFails, CallbackSucceeds, CallbackFails, ReleaseResumes,
         TimePasses, Cleanup, ChannelCloses, Dispose
<1>2. Ended(m) => Ended(m)'
  BY <1>1, Advances DEF Ended, DeliveriesOf
<1> SUFFICES ASSUME ~Ended(m), ~Ended(m)' PROVE Unresolved(m)'
  BY <1>2
<1>3. processing \in [Messages -> Ages] /\ pending \in [Messages -> Deliveries \cup {None}]
      /\ (Handled(m) => processing[m] # "none" \/ pending[m] # None) /\ m # None
  BY <1>0 DEF Unresolved, TypeOK
<1>4. PICK h \in DeliveriesOf(m) : pc'[h] \notin {"new", "decoding", "releasing", "done"}
  BY DEF Handled, Ended
<1>5. ASSUME NEW d \in Deliveries, Handle(d), pc[d] \in {"new", "decoding"}
      PROVE  Unresolved(m)'
  <2>1. CASE h = d
    <3>1. MessageId[d] = m
      BY <2>1 DEF DeliveriesOf
    <3> QED
      BY <1>0, <1>3, <1>5, <3>1 DEF Handle, Unresolved, Parked, tables
  <2>2. CASE h # d
    <3>1. pc'[h] = pc[h]
      BY <1>0, <1>5, <2>2 DEF Handle, DeliveriesOf
    <3>2. Handled(m)
      BY <1>4, <3>1 DEF Handled
    <3> QED
      BY <1>0, <1>3, <1>5, <3>2 DEF Handle, Unresolved, tables
  <2> QED
    BY <2>1, <2>2
<1>6. CASE \E d \in Deliveries : Deliver(d)
  <2>1. PICK d \in Deliveries : Deliver(d)
    BY <1>6
  <2>2. CASE Handle(d)
    BY <1>5, <2>1, <2>2 DEF Deliver
  <2>3. CASE pc' = [pc EXCEPT ![d] = "decoding"] /\ UNCHANGED tables
    <3>1. h # d /\ pc'[h] = pc[h]
      BY <1>0, <1>4, <2>3 DEF DeliveriesOf
    <3>2. Handled(m)
      BY <1>4, <3>1 DEF Handled
    <3> QED
      BY <1>3, <2>3, <3>2 DEF Unresolved, tables
  <2> QED
    BY <2>1, <2>2, <2>3 DEF Deliver
<1>7. CASE \E d \in Deliveries : Decoded(d)
  BY <1>5, <1>7 DEF Decoded
<1>8. CASE \E d \in Deliveries : CallbackSucceeds(d) \/ ReleaseResumes(d)
  <2>1. PICK d \in Deliveries : CallbackSucceeds(d) \/ ReleaseResumes(d)
    BY <1>8
  <2>2. pc[d] \in {"running", "releasing"}
    BY <2>1 DEF CallbackSucceeds, ReleaseResumes
  <2>3. PICK list \in Seq(Messages), proc \in [Messages -> Ages],
               index \in [Messages -> Seq(Messages)] :
          /\ OnlyOf(list, MessageId[d]) /\ ReleaseNext(d, list, proc, index)
          /\ \A k \in Messages \ {MessageId[d]} : proc[k] = processing[k]
    <3>1. CASE CallbackSucceeds(d)
      <4>1. PICK list \in Seq(Messages), proc \in [Messages -> Ages],
               index \in [Messages -> Seq(Messages)] :
              /\ OnlyOf(list, MessageId[d]) /\ ReleaseNext(d, list, proc, index)
              /\ proc = [processing EXCEPT ![MessageId[d]] = "none"]
        BY <3>1, SucceedsIs, Zenon
      <4>2. \A k \in Messages \ {MessageId[d]} : proc[k] = processing[k]
        BY <1>3, <4>1
      <4> QED
        BY <4>1, <4>2, Zenon
    <3>2. CASE ReleaseResumes(d)
      BY <3>2, ResumesIs, Zenon
    <3> QED
      BY <2>1, <3>1, <3>2
  <2>4. \/ Ends(d, proc, index)
        \/ \E k \in Messages : \E rest \in Seq(Messages) :
             /\ pending[k] # None
             /\ Reparks(d, k, rest, proc, index) \/ Unparks(d, k, rest, proc, index)
    BY <2>3, ReleaseIs
  <2>5. MessageId[d] # m
    <3>1. pc'[d] \in {"releasing", "done"}
      <4>1. \A k \in Messages : pending[k] # None => pending[k] \in Deliveries \ {d}
        BY <1>0, <2>2, ParkedUnder DEF ParkedPart
      <4>2. \/ pc' = [pc EXCEPT ![d] = "done"] \/ pc' = [pc EXCEPT ![d] = "releasing"]
            \/ \E k \in Messages :
                 pending[k] # None /\ pc' = [pc EXCEPT ![d] = "releasing", ![pending[k]] = "running"]
        BY <2>4, Zenon DEF Ends, Reparks, Unparks
      <4> QED
        BY <1>0, <4>1, <4>2
    <3> QED
      BY <3>1 DEF Ended, DeliveriesOf
  <2>6. proc[m] = processing[m] /\ h # d /\ h \in Deliveries /\ MessageId[h] = m
    BY <2>3, <2>5 DEF DeliveriesOf
  <2>7. CASE Ends(d, proc, index)
    <3>1. pc'[h] = pc[h]
      BY <1>0, <2>6, <2>7 DEF Ends
    <3>2. Handled(m)
      BY <1>4, <3>1 DEF Handled
    <3> QED
      BY <1>3, <2>6, <2>7, <3>2 DEF Ends, Unresolved
  <2>8. ASSUME NEW k \in Messages, NEW rest, pending[k] # None,
               Reparks(d, k, rest, proc, index)
        PROVE  Unresolved(m)'
    <3>1. pc'[h] = pc[h]
      BY <1>0, <2>6, <2>8 DEF Reparks
    <3>2. Handled(m)
      BY <1>4, <3>1 DEF Handled
    <3> QED
      BY <1>3, <2>6, <2>8, <3>2 DEF Reparks, Unresolved
  <2>9. ASSUME NEW k \in Messages, NEW rest, pending[k] # None,
               Unparks(d, k, rest, proc, index)
        PROVE  Unresolved(m)'
    <3>1. pc[h] \notin {"new", "decoding"}
      <4>1. pending[k] \in Deliveries /\ pc[pending[k]] = "parked"
        BY <1>0, <2>9, ParkedUnder DEF ParkedPart
      <4> QED
        BY <1>0, <1>4, <2>6, <2>9, <4>1 DEF Unparks
    <3>2. Handled(m)
      BY <1>4, <3>1 DEF Handled
    <3>3. CASE k = m
      <4>1. processing'[m] = "fresh"
        BY <2>3, <2>9, <3>3 DEF Unparks
      <4> QED
        BY <1>3, <4>1 DEF Unresolved
    <3>4. CASE k # m
      <4>1. processing'[m] = processing[m] /\ pending'[m] = pending[m]
        BY <1>3, <2>3, <2>6, <2>9, <3>4 DEF Unparks
      <4> QED
        BY <1>3, <3>2, <4>1 DEF Unresolved
    <3> QED
      BY <3>3, <3>4
  <2> QED
    BY <2>4, <2>7, <2>8, <2>9
<1>9. CASE \E d \in Deliveries : DecodeFails(d) \/ CallbackFails(d)
  <2>1. PICK d \in Deliveries : DecodeFails(d) \/ CallbackFails(d)
    BY <1>9
  <2>2. pc' = [pc EXCEPT ![d] = "done"]
    BY <2>1 DEF DecodeFails, CallbackFails
  <2>3. MessageId[d] # m
    BY <1>0, <2>2 DEF Ended, DeliveriesOf
  <2>4. processing'[m] = processing[m] /\ pending'[m] = pending[m]
    BY <1>3, <2>1, <2>3 DEF DecodeFails, CallbackFails, tables
  <2>5. pc'[h] = pc[h]
    BY <1>0, <2>2, <2>3 DEF DeliveriesOf
  <2>6. Handled(m)
    BY <1>4, <2>5 DEF Handled
  <2> QED
    BY <1>3, <2>4, <2>6 DEF Unresolved
<1>10. CASE TimePasses
  <2>1. pc' = pc /\ pending' = pending /\ (processing[m] # "none" => processing'[m] # "none")
    BY <1>10 DEF TimePasses
  <2>2. Handled(m)
    BY <1>4, <2>1 DEF Handled
  <2> QED
    BY <1>3, <2>1, <2>2 DEF Unresolved
<1>11. CASE Cleanup
  <2>1. h \in Deliveries /\ pc'[h] = pc[h]
    BY <1>4, <1>11 DEF Cleanup, DeliveriesOf
  <2>2. Handled(m)
    BY <1>4, <2>1 DEF Handled
  <2>3. processing'[m] = processing[m]
    BY <1>11 DEF Cleanup, Ended
  <2>4. pending'[m] = pending[m]
    <3>1. CASE m \in Expired /\ pending[m] # None
      <4>1. pending[m] \in DeliveriesOf(m)
        BY <1>0, <3>1, ParkedUnder DEF DeliveriesOf
      <4>2. pc'[pending[m]] = "done"
        BY <1>11, <3>1, <4>1 DEF Cleanup, DeliveriesOf
      <4> QED
        BY <4>1, <4>2 DEF Ended
    <3>2. CASE m \notin Expired \/ pending[m] = None
      BY <1>11, <3>2 DEF Cleanup, SweptPending
    <3> QED
      BY <3>1, <3>2
  <2> QED
    BY <1>3, <2>2, <2>3, <2>4 DEF Unresolved
<1>12. CASE UNCHANGED vars
  <2>1. pc' = pc /\ pending' = pending /\ processing' = processing
    BY <1>12 DEF vars, tables
  <2>2. Handled(m)
    BY <1>4, <2>1 DEF Handled
  <2> QED
    BY <1>3, <2>1, <2>2 DEF Unresolved
<1>13. CASE ChannelCloses
  BY <1>13 DEF ChannelCloses
<1> QED
  BY <1>6, <1>7, <1>8, <1>9, <1>10, <1>11, <1>12, <1>13 DEF Next

\* Every action keeps the second invariant, since dispose() takes the channel along.
LEMMA OrderStep ==
    ASSUME ~CancelRecovery, IInv, OrderInv, [Next]_vars
    PROVE  OrderInv'
<1> USE NoneAssumption
<1>1. channel' = "open" => channel = "open" /\ ~disposed /\ ~disposed' /\ ~Dispose
  BY DEF OrderInv, Next, vars, Deliver, Decoded, DecodeFails, CallbackSucceeds, CallbackFails,
         ReleaseResumes, TimePasses, Cleanup, ChannelCloses, Dispose
<1>2. BehindPart'
  <2>1. \A d \in behind' : \/ d \in behind
                           \/ \E e \in DeliveriesOf(dependsOn[MessageId[d]]) : pc[e] # "new"
    BY DEF Next, vars, Deliver, Decoded, DecodeFails, CallbackSucceeds, CallbackFails,
           ReleaseResumes, TimePasses, Cleanup, ChannelCloses, Dispose
  <2>2. dependsOn' = dependsOn
    BY DEF Next, vars, Deliver, Decoded, DecodeFails, CallbackSucceeds, CallbackFails,
           ReleaseResumes, TimePasses, Cleanup, ChannelCloses, Dispose
  <2>3. ASSUME NEW d \in behind'
        PROVE  \E e \in DeliveriesOf(dependsOn[MessageId[d]]) : pc'[e] # "new"
    <3>1. PICK e \in DeliveriesOf(dependsOn[MessageId[d]]) : pc[e] # "new"
      BY <2>1, <2>3 DEF OrderInv, BehindPart
    <3> QED
      BY <3>1, Advances DEF DeliveriesOf
  <2> QED
    BY <2>2, <2>3 DEF BehindPart, DeliveriesOf
<1>3. HandledPart'
  <2>1. ASSUME channel' = "open", NEW m \in Messages, Handled(m)' PROVE (Ended(m) \/ Unresolved(m))'
    BY <1>1, <2>1, HandledStep DEF OrderInv
  <2> QED
    BY <2>1 DEF HandledPart
<1> QED
  BY <1>1, <1>2, <1>3 DEF OrderInv

\* Nothing is behind anything yet.
LEMMA InitOrder == Init => OrderInv
BY DEF Init, OrderInv, BehindPart, HandledPart, Handled, DeliveriesOf

\* The second invariant: unless a cancelled consumer is recovered on the channel it has.
THEOREM OrderInvariance == ASSUME ~CancelRecovery PROVE Spec => [](IInv /\ OrderInv)
<1>1. Init => IInv /\ OrderInv
  BY InitIInv, InitOrder
<1>2. IInv /\ OrderInv /\ [Next]_vars => (IInv /\ OrderInv)'
  BY NextIInv, OrderStep
<1> QED
  BY <1>1, <1>2, PTL DEF Spec

\* A dependent does not start before a delivery of its dependency, delivered first, has run or
\* failed, or its entry was collected.
THEOREM OrderHolds ==
    ASSUME ~CancelRecovery, DependenciesInTurn
    PROVE  Spec => OrderRespected
<1> DEFINE Step == \A d \in Deliveries :
                     LET on == dependsOn[MessageId[d]]
                     IN  (Running(d) /\ channel = "open" /\ d \in behind')
                           => \/ on \in swept
                              \/ \E e \in DeliveriesOf(on) : pc'[e] \in {"releasing", "done"}
<1>1. IInv /\ OrderInv /\ [Next]_vars => Step
  <2> SUFFICES ASSUME IInv, OrderInv, [Next]_vars, NEW d \in Deliveries,
                      Running(d), channel = "open", d \in behind'
               PROVE  \/ dependsOn[MessageId[d]] \in swept
                      \/ \E e \in DeliveriesOf(dependsOn[MessageId[d]]) :
                           pc'[e] \in {"releasing", "done"}
    OBVIOUS
  <2>1. CASE \E e \in DeliveriesOf(dependsOn[MessageId[d]]) : pc'[e] = "releasing"
    BY <2>1
  <2>2. CASE /\ ~Unresolved(dependsOn[MessageId[d]])
             /\ \/ d \in behind
                \/ \E e \in DeliveriesOf(dependsOn[MessageId[d]]) : pc[e] # "new"
    <3>1. PICK e \in DeliveriesOf(dependsOn[MessageId[d]]) : pc[e] # "new"
      BY <2>2 DEF OrderInv, BehindPart
    <3>2. e \in Deliveries /\ MessageId[e] = dependsOn[MessageId[d]] /\ MessageId[e] \in Messages
      BY <3>1, MessagesAre DEF DeliveriesOf
    <3>3. e \notin Compressed
      <4>1. dependsOn \in Headers /\ MessageId[d] \in Messages
        BY MessagesAre DEF IInv, TypeOK
      <4>2. DeliveriesOf(dependsOn[MessageId[d]]) \cap Compressed = {}
        BY <3>2, <4>1, NoneAssumption, Zenon DEF DependenciesInTurn
      <4> QED
        BY <3>1, <4>2
    <3>4. Handled(MessageId[e])
      BY <3>1, <3>2, <3>3 DEF IInv, DecodingPart, Handled, DeliveriesOf
    <3>5. Ended(MessageId[e])
      BY <2>2, <3>2, <3>4 DEF OrderInv, HandledPart
    <3> QED
      BY <3>2, <3>5, Advances DEF Ended, DeliveriesOf
  <2> QED
    BY <2>1, <2>2, StartsAre
<1>2. IInv /\ OrderInv /\ [Next]_vars => [Step]_vars
  BY <1>1
<1> QED
  BY OrderInvariance, <1>2, PTL DEF Spec, OrderRespected
=============================================================================
