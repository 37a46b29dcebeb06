--------------------------- MODULE TripWatch_proofs ---------------------------
(***************************************************************************)
(* Proofs about TripWatch, for any number of watchpoints, facts, ticks and *)
(* failures and any limit of a sweep.                                      *)
(*                                                                         *)
(* The stored facts are kept in a list and taken out of it by the          *)
(* recursive function Without, so the proofs begin with an induction: a    *)
(* nonempty set of naturals has a least element, by the wellfoundedness of *)
(* strict inclusion on the subsets of a finite set, and from that a set    *)
(* that holds 0 and is closed under the successor up to n holds 0..n.      *)
(***************************************************************************)
EXTENDS TripWatch, TLAPS, FiniteSetTheorems, SequenceTheorems

\* A nonempty set of naturals has a least element.
LEMMA Least ==
  ASSUME NEW T, T \subseteq Nat, T # {}
  PROVE  \E x \in T : \A y \in T : x <= y
<1>1. PICK n \in T : TRUE
  OBVIOUS
<1> DEFINE S == 0 .. n
           R == StrictSubsetOrdering(S)
           D == {0 .. m : m \in T \intersect S}
<1>2. IsWellFoundedOn(R, SUBSET S)
  <2>1. IsFiniteSet(S)
    BY <1>1, FS_Interval
  <2>2. FiniteSubsetsOf(S) = SUBSET S
    <3> HIDE DEF S
    <3> QED BY <2>1, FS_FiniteSubsetsOfFinite
  <2> HIDE DEF S
  <2> QED BY <2>2, FS_StrictSubsetOrderingWellFounded
<1>3. D \subseteq SUBSET S /\ D # {}
  BY <1>1
<1>4. PICK d \in D : \A e \in D : <<e, d>> \notin R
  <2> HIDE DEF R, D
  <2> QED BY <1>2, <1>3, WFMin
<1>5. PICK x \in T \intersect S : d = 0 .. x
  OBVIOUS
<1>6. ASSUME NEW y \in T, y < x PROVE FALSE
  <2>1. y \in T \intersect S /\ x \in Nat /\ y \in Nat
    BY <1>6, <1>1
  <2>2. 0 .. y \in D /\ 0 .. y \subseteq S /\ 0 .. x \subseteq S
    BY <2>1
  <2>3. 0 .. y \subseteq 0 .. x /\ x \in 0 .. x /\ x \notin 0 .. y
    BY <2>1, <1>6
  <2>4. <<0 .. y, d>> \in R
    BY <1>5, <2>2, <2>3 DEF StrictSubsetOrdering
  <2> QED BY <2>4, <2>2, <1>4
<1> QED BY <1>6

\* Induction over the naturals, for a set of them.
LEMMA Induction ==
  ASSUME NEW G, 0 \in G, NEW n \in Nat, \A m \in 0 .. n - 1 : m \in G => m + 1 \in G
  PROVE  \A m \in 0 .. n : m \in G
<1> SUFFICES ASSUME NEW b \in 0 .. n, b \notin G PROVE FALSE
  OBVIOUS
<1>1. PICK x \in {m \in 0 .. n : m \notin G} : \A y \in {m \in 0 .. n : m \notin G} : x <= y
  <2> DEFINE T == {m \in 0 .. n : m \notin G}
  <2>1. T \subseteq Nat /\ T # {} OBVIOUS
  <2> HIDE DEF T
  <2> QED BY <2>1, Least DEF T
<1>2. x # 0 /\ x - 1 \in 0 .. n - 1
  OBVIOUS
<1>3. x - 1 \in G
  BY <1>1, <1>2
<1> QED BY <1>2, <1>3

\* The function Without defines, and that it exists for every list.
KeptAt(f, s, gone, i) ==
  IF i = 0 THEN <<>> ELSE IF s[i] \in gone THEN f[i - 1] ELSE Append(f[i - 1], s[i])
Kept(f, s, gone, n) == f = [i \in 0 .. n |-> KeptAt(f, s, gone, i)]

LEMMA KeptExists ==
  ASSUME NEW s, NEW gone, NEW n \in Nat
  PROVE  \E f : Kept(f, s, gone, n)
<1> DEFINE G == {m \in Nat : \E f : Kept(f, s, gone, m)}
<1>1. 0 \in G
  <2>1. Kept([i \in 0 .. 0 |-> <<>>], s, gone, 0)
    BY DEF Kept
  <2> QED BY <2>1
<1>2. ASSUME NEW m \in 0 .. n - 1, m \in G PROVE m + 1 \in G
  <2>1. PICK f : Kept(f, s, gone, m)
    BY <1>2
  <2> DEFINE g == [i \in 0 .. m + 1 |->
                    IF i = m + 1 THEN IF s[i] \in gone THEN f[m] ELSE Append(f[m], s[i])
                    ELSE f[i]]
  <2>2. \A i \in 0 .. m : g[i] = f[i]
    OBVIOUS
  <2>3. \A i \in 0 .. m : f[i] = KeptAt(f, s, gone, i)
    BY <2>1 DEF Kept
  <2>4. \A i \in 0 .. m : g[i] = KeptAt(g, s, gone, i)
    <3> SUFFICES ASSUME NEW i \in 0 .. m PROVE g[i] = KeptAt(g, s, gone, i)
      OBVIOUS
    <3>1. i = 0 \/ i - 1 \in 0 .. m
      OBVIOUS
    <3> HIDE DEF g
    <3> QED BY <2>2, <2>3, <3>1 DEF KeptAt
  <2>5. g[m + 1] = KeptAt(g, s, gone, m + 1)
    <3>1. g[m + 1] = IF s[m + 1] \in gone THEN f[m] ELSE Append(f[m], s[m + 1])
      OBVIOUS
    <3>2. m + 1 # 0 /\ (m + 1) - 1 = m /\ m \in 0 .. m
      OBVIOUS
    <3> HIDE DEF g
    <3> QED BY <2>2, <3>1, <3>2 DEF KeptAt
  <2>6. g = [i \in 0 .. m + 1 |-> g[i]] /\ 0 .. m + 1 = (0 .. m) \union {m + 1}
    OBVIOUS
  <2>7. Kept(g, s, gone, m + 1)
    <3> HIDE DEF g
    <3>1. \A i \in 0 .. m + 1 : g[i] = KeptAt(g, s, gone, i)
      BY <2>4, <2>5, <2>6
    <3>2. [i \in 0 .. m + 1 |-> g[i]] = [i \in 0 .. m + 1 |-> KeptAt(g, s, gone, i)]
      BY <3>1
    <3> QED BY <2>6, <3>2 DEF Kept
  <2> QED BY <2>7
<1>3. \A m \in 0 .. n - 1 : m \in G => m + 1 \in G
  BY <1>2
<1>4. n \in G
  <2> HIDE DEF G
  <2>1. \A m \in 0 .. n : m \in G
    BY <1>1, <1>3, Induction
  <2> QED BY <2>1
<1> QED BY <1>4

\* So Without is the value at the end of a function that satisfies its equation.
LEMMA WithoutIsKept ==
  ASSUME NEW S, NEW s \in Seq(S), NEW gone
  PROVE  \E f : Kept(f, s, gone, Len(s)) /\ Without(s, gone) = f[Len(s)]
<1> DEFINE f == CHOOSE f : Kept(f, s, gone, Len(s))
<1>1. Kept(f, s, gone, Len(s))
  BY KeptExists
<1>2. Without(s, gone) = f[Len(s)]
  BY DEF Without, Kept, KeptAt
<1> QED BY <1>1, <1>2

\* What an Append and a Without do to the facts a list holds and to their order.
Elements(s) == {s[i] : i \in DOMAIN s}
NoRepeats(s) == \A i, j \in DOMAIN s : s[i] = s[j] => i = j

LEMMA AppendFacts ==
  ASSUME NEW S, NEW s \in Seq(S), NEW e \in S
  PROVE  /\ Append(s, e) \in Seq(S)
         /\ Elements(Append(s, e)) = Elements(s) \union {e}
         /\ NoRepeats(s) /\ e \notin Elements(s) => NoRepeats(Append(s, e))
<1>1. DOMAIN s = 1 .. Len(s) /\ DOMAIN Append(s, e) = 1 .. Len(s) + 1 /\ Len(s) \in Nat
  OBVIOUS
<1>2. \A i \in 1 .. Len(s) + 1 : Append(s, e)[i] = IF i = Len(s) + 1 THEN e ELSE s[i]
  OBVIOUS
<1>3. Elements(Append(s, e)) = Elements(s) \union {e}
  BY <1>1, <1>2 DEF Elements
<1>4. NoRepeats(s) /\ e \notin Elements(s) => NoRepeats(Append(s, e))
  BY <1>1, <1>2 DEF NoRepeats, Elements
<1> QED BY <1>3, <1>4

LEMMA WithoutFacts ==
  ASSUME NEW S, NEW s \in Seq(S), NEW gone
  PROVE  /\ Without(s, gone) \in Seq(S)
         /\ Elements(Without(s, gone)) = Elements(s) \ gone
         /\ NoRepeats(s) => NoRepeats(Without(s, gone))
<1>1. PICK f : Kept(f, s, gone, Len(s)) /\ Without(s, gone) = f[Len(s)]
  BY WithoutIsKept
<1> DEFINE first(m) == {s[i] : i \in 1 .. m}
           G == {m \in 0 .. Len(s) :
                   /\ f[m] \in Seq(S)
                   /\ Elements(f[m]) = first(m) \ gone
                   /\ NoRepeats(s) => NoRepeats(f[m])}
<1>2. Len(s) \in Nat /\ DOMAIN s = 1 .. Len(s)
  OBVIOUS
<1>3. 0 \in G
  BY <1>1, <1>2 DEF Kept, KeptAt, Elements, NoRepeats
<1>4. ASSUME NEW m \in 0 .. Len(s) - 1, m \in G PROVE m + 1 \in G
  <2>1. f[m + 1] = IF s[m + 1] \in gone THEN f[m] ELSE Append(f[m], s[m + 1])
    <3>1. f[m + 1] = KeptAt(f, s, gone, m + 1)
      BY <1>1, <1>2 DEF Kept
    <3>2. m + 1 # 0 /\ (m + 1) - 1 = m
      OBVIOUS
    <3> QED BY <3>1, <3>2 DEF KeptAt
  <2>2. first(m + 1) = first(m) \union {s[m + 1]} /\ s[m + 1] \in S
    BY <1>2
  <2>3. NoRepeats(s) => s[m + 1] \notin first(m)
    BY <1>2 DEF NoRepeats
  <2>4. CASE s[m + 1] \in gone
    BY <2>1, <2>2, <2>4, <1>4
  <2>5. CASE s[m + 1] \notin gone
    <3>1. f[m + 1] = Append(f[m], s[m + 1]) BY <2>1, <2>5
    <3>2. f[m] \in Seq(S) BY <1>4
    <3>3. f[m + 1] \in Seq(S) /\ Elements(f[m + 1]) = first(m + 1) \ gone
      BY <3>1, <3>2, <2>2, <2>5, <1>4, AppendFacts
    <3>4. NoRepeats(s) => NoRepeats(f[m + 1])
      BY <3>1, <3>2, <2>2, <2>3, <1>4, AppendFacts
    <3> QED BY <3>3, <3>4
  <2> QED BY <2>4, <2>5
<1>5. \A m \in 0 .. Len(s) - 1 : m \in G => m + 1 \in G
  BY <1>4
<1>6. Len(s) \in G
  <2> HIDE DEF G
  <2>1. \A m \in 0 .. Len(s) : m \in G
    BY <1>2, <1>3, <1>5, Induction
  <2> QED BY <2>1, <1>2
<1>7. first(Len(s)) = Elements(s)
  BY <1>2 DEF Elements
<1> QED BY <1>1, <1>6, <1>7

LEMMA PrefixFacts ==
  ASSUME NEW S, NEW s \in Seq(S), NEW n \in Nat, n <= Len(s)
  PROVE  Elements(SubSeq(s, 1, n)) \subseteq Elements(s)
<1>1. Len(s) \in Nat /\ DOMAIN s = 1 .. Len(s)
  BY LenProperties
<1>2. \A i \in 1 .. n : s[i] \in S
  BY <1>1, ElementOfSeq
<1>3. /\ SubSeq(s, 1, n) \in Seq(S) /\ Len(SubSeq(s, 1, n)) = n
      /\ \A i \in 1 .. n : SubSeq(s, 1, n)[i] = s[i]
  BY <1>2, SubSeqProperties
<1>4. DOMAIN SubSeq(s, 1, n) = 1 .. n
  BY <1>3, LenProperties
<1> QED BY <1>1, <1>3, <1>4 DEF Elements

\* A flush and a tick read the oldest facts and watchpoints of the ordered lists.
LEMMA OldestFacts ==
  ASSUME NEW S, NEW s \in Seq(S)
  PROVE  Oldest(s) \in Seq(S) /\ Elements(Oldest(s)) \subseteq Elements(s)
<1> DEFINE n == IF Len(s) < Limit THEN Len(s) ELSE Limit
<1>1. n \in Nat /\ n <= Len(s)
  BY WatchAssumption, LenProperties
<1>2. Oldest(s) = SubSeq(s, 1, n)
  BY DEF Oldest
<1> HIDE DEF n
<1>3. \A i \in 1 .. n : s[i] \in S
  BY <1>1, ElementOfSeq
<1>4. SubSeq(s, 1, n) \in Seq(S)
  BY <1>1, <1>3, SubSeqProperties
<1> QED BY <1>1, <1>2, <1>4, PrefixFacts

LEMMA ListedFacts ==
  ASSUME ready \in Seq(Watch)
  PROVE  Listed \subseteq Watch /\ \A w \in Listed : IsReady(w)
<1>1. Listed = Elements(Oldest(ready))
  BY DEF Listed, Elements
<1>2. Listed \subseteq Elements(ready)
  BY <1>1, OldestFacts
<1>3. \A i \in DOMAIN ready : ready[i] \in Watch
  BY LenProperties, ElementOfSeq
<1> QED BY <1>2, <1>3 DEF Elements, IsReady

-----------------------------------------------------------------------------
(***************************************************************************)
(* Type correctness.  A tick's record is updated by a few helpers; each    *)
(* update is typed by a lemma of its own.                                  *)
(***************************************************************************)
TickTyped == tick \in [Tick -> Held]

LEMMA HeldPc ==
  ASSUME NEW h \in Held, NEW pc \in PC
  PROVE  [h EXCEPT !.pc = pc] \in Held
  BY DEF Held

LEMMA HeldFact ==
  ASSUME NEW h \in Held, NEW f \in Fact \union {None}, NEW pc \in PC
  PROVE  [h EXCEPT !.fact = f, !.pc = pc] \in Held
  BY DEF Held

LEMMA HeldNone ==
  ASSUME NEW h \in Held, NEW f \in Fact \union {None}, NEW pc \in PC
  PROVE  [h EXCEPT !.pend = <<>>, !.fact = f, !.pc = pc] \in Held
  BY EmptySeq DEF Held

LEMMA HeldNext ==
  ASSUME NEW h \in Held, NEW s \in Seq(Fact), NEW f \in Fact, NEW pc \in PC
  PROVE  [h EXCEPT !.pend = s, !.fact = f, !.direct = FALSE, !.pc = pc] \in Held
  BY DEF Held

LEMMA HeldPend ==
  ASSUME NEW h \in Held, NEW s \in Seq(Fact), NEW pc \in PC
  PROVE  [h EXCEPT !.pc = pc, !.pend = s] \in Held
  BY DEF Held

LEMMA HeldList ==
  ASSUME NEW h \in Held, NEW s \in SUBSET Watch, NEW pc \in PC
  PROVE  [h EXCEPT !.pc = pc, !.todo = s] \in Held /\ [h EXCEPT !.todo = s] \in Held
  BY DEF Held

LEMMA HeldCheck ==
  ASSUME NEW h \in Held, NEW s \in SUBSET Watch, NEW w \in Watch, NEW pc \in PC
  PROVE  [h EXCEPT !.todo = s, !.w = w, !.direct = TRUE, !.pc = pc] \in Held
  BY DEF Held

LEMMA IdleHeld == Idle \in Held
<1>1. <<>> \in Seq(Fact)
  BY EmptySeq
<1> QED BY <1>1 DEF Held, Idle, PC

LEMMA TickPut ==
  ASSUME TickTyped, NEW k \in Tick, NEW h \in Held, tick' = [tick EXCEPT ![k] = h]
  PROVE  TickTyped'
  BY DEF TickTyped

LEMMA GotoTyped ==
  ASSUME TickTyped, NEW k \in Tick, NEW pc \in PC, Goto(k, pc)
  PROVE  TickTyped'
<1>1. tick' = [tick EXCEPT ![k] = [tick[k] EXCEPT !.pc = pc]]
  BY DEF Goto
<1> QED BY <1>1, HeldPc, TickPut DEF TickTyped

LEMMA OnwardTyped ==
  ASSUME TickTyped, NEW k \in Tick, Onward(k)
  PROVE  TickTyped'
<1> DEFINE pc == IF tick[k].direct THEN "watch" ELSE "flush"
<1>1. tick' = [tick EXCEPT ![k] = [tick[k] EXCEPT !.fact = None, !.pc = pc]]
  BY DEF Onward
<1>2. pc \in PC
  BY DEF PC
<1> HIDE DEF pc
<1> QED BY <1>1, <1>2, HeldFact, TickPut DEF TickTyped

LEMMA AbandonTyped ==
  ASSUME TickTyped, NEW k \in Tick, Abandon(k)
  PROVE  TickTyped'
<1>1. tick' = [tick EXCEPT ![k] = [tick[k] EXCEPT !.pend = <<>>, !.fact = None, !.pc = "watch"]]
  BY DEF Abandon
<1> QED BY <1>1, HeldNone, TickPut DEF TickTyped, PC

LEMMA LetGoTyped ==
  ASSUME TickTyped, NEW k \in Tick, LetGo(k)
  PROVE  TickTyped'
  BY IdleHeld, TickPut DEF LetGo

LEMMA ObservedTyped ==
  ASSUME TickTyped, NEW k \in Tick, NEW w, report \in [Watch -> Fact \union {None}],
         w \in Watch \/ report[w] = None, Observed(k, w)
  PROVE  TickTyped'
<1> DEFINE pc == IF report[w] = None THEN "watch" ELSE "record"
<1>1. tick' = [tick EXCEPT ![k] = [tick[k] EXCEPT !.fact = report[w], !.pc = pc]]
  BY DEF Observed
<1>2. pc \in PC /\ report[w] \in Fact \union {None}
  BY DEF PC
<1> HIDE DEF pc
<1> QED BY <1>1, <1>2, HeldFact, TickPut DEF TickTyped

\* A check is of a watchpoint, and a fact is told or recorded while it is in hand.
Checking == {"observe", "ingest", "degrade", "error", "record"}
Telling == {"publish", "notify", "intent", "send", "receipt", "UNKNOWN", "BLOCKED", "mark"}
HasInHand(k) ==
    /\ tick[k].pc \in Telling \union {"record", "put"} => tick[k].fact \in Fact
    /\ tick[k].pc \in Checking \union {"put"} => tick[k].w \in Watch
    /\ tick[k].pc \in {"ingest", "degrade"} => tick[k].w \in Flights
InHand == \A k \in Tick : HasInHand(k)

\* Every step of a tick leaves its record typed.
LEMMA TickTypedStep ==
  ASSUME TypeOK, InHand, NEW k \in Tick, Step(k) \/ Fails(k)
  PROVE  TickTyped'
<1>0. TickTyped /\ report \in [Watch -> Fact \union {None}]
  BY DEF TypeOK, TickTyped
<1> USE <1>0 DEF TickTyped, PC
<1>1. ASSUME StartTick(k) PROVE TickTyped'
  <2>1. Listed \in SUBSET Watch
    BY ListedFacts DEF TypeOK
  <2>2. tick' = [tick EXCEPT ![k] = [tick[k] EXCEPT !.pc = "pending", !.todo = Listed]]
    BY <1>1 DEF StartTick
  <2> QED BY <2>1, <2>2, HeldList, TickPut
<1>2. ASSUME ListPending(k) PROVE TickTyped'
  <2>1. Oldest(signals) \in Seq(Fact)
    BY OldestFacts DEF TypeOK
  <2>2. tick' = [tick EXCEPT ![k] = [tick[k] EXCEPT !.pc = "flush", !.pend = Oldest(signals)]]
    BY <1>2 DEF ListPending
  <2> QED BY <2>1, <2>2, HeldPend, TickPut
<1>3. ASSUME FlushNext(k) PROVE TickTyped'
  <2>1. CASE tick[k].pend = <<>>
    BY <1>3, <2>1, GotoTyped DEF FlushNext
  <2>2. CASE tick[k].pend # <<>>
    <3> DEFINE f == Head(tick[k].pend)
               pc == IF About[f] \in watches /\ trip THEN Route(f) ELSE "flush"
    <3>1. tick[k].pend \in Seq(Fact)
      BY DEF Held
    <3>2. Head(tick[k].pend) \in Fact /\ Tail(tick[k].pend) \in Seq(Fact)
      BY <2>2, <3>1, HeadTailProperties
    <3>3. pc \in PC
      BY DEF Route
    <3>4. tick' = [tick EXCEPT ![k] = [tick[k] EXCEPT !.pend = Tail(tick[k].pend), !.fact = f,
                                                      !.direct = FALSE, !.pc = pc]]
      BY <1>3, <2>2 DEF FlushNext
    <3>5. f \in Fact
      BY <3>2
    <3>6. tick[k] \in Held
      OBVIOUS
    <3> HIDE DEF f, pc
    <3> QED BY <3>2, <3>3, <3>4, <3>5, <3>6, HeldNext, TickPut
  <2> QED BY <2>1, <2>2
<1>4. ASSUME Publish(k) PROVE TickTyped'
  BY <1>4, GotoTyped DEF Publish
<1>5. ASSUME Notify(k) PROVE TickTyped'
  BY <1>5, GotoTyped, OnwardTyped DEF Notify
<1>6. ASSUME Intent(k) PROVE TickTyped'
  BY <1>6, GotoTyped DEF Intent
<1>7. ASSUME Send(k) PROVE TickTyped'
  BY <1>7, GotoTyped DEF Send
<1>8. ASSUME Receipt(k) PROVE TickTyped'
  BY <1>8, GotoTyped, AbandonTyped DEF Receipt
<1>9. ASSUME NotDelivered(k) PROVE TickTyped'
  BY <1>9, OnwardTyped DEF NotDelivered
<1>10. ASSUME Mark(k) PROVE TickTyped'
  BY <1>10, OnwardTyped DEF Mark
<1>11. ASSUME Claim(k) PROVE TickTyped'
  <2>1. PICK w \in tick[k].todo : ClaimOf(k, w)
    BY <1>11 DEF Claim
  <2> DEFINE rest == tick[k].todo \ {w}
  <2>2. w \in Watch /\ rest \in SUBSET Watch
    BY DEF Held
  <2>3. CASE HoldsSchedule(k, w)
    <3> DEFINE pc == IF trip THEN "observe" ELSE "error"
    <3>1. tick' = [tick EXCEPT ![k] = [tick[k] EXCEPT !.todo = rest, !.w = w, !.direct = TRUE,
                                                      !.pc = pc]]
      BY <2>1, <2>3 DEF ClaimOf
    <3>2. pc \in PC
      OBVIOUS
    <3> HIDE DEF pc, rest
    <3> QED BY <2>2, <3>1, <3>2, HeldCheck, TickPut
  <2>4. CASE ~HoldsSchedule(k, w)
    <3>1. tick' = [tick EXCEPT ![k] = [tick[k] EXCEPT !.todo = rest]]
      BY <2>1, <2>4 DEF ClaimOf
    <3> HIDE DEF rest
    <3> QED BY <2>2, <3>1, HeldList, TickPut
  <2> QED BY <2>3, <2>4
<1>12. ASSUME EndTick(k) PROVE TickTyped'
  BY <1>12, LetGoTyped DEF EndTick
<1>13. ASSUME Search(k) PROVE TickTyped'
  BY <1>13, ObservedTyped DEF Search, InHand, HasInHand, Checking
<1>14. ASSUME Fetch(k) PROVE TickTyped'
  BY <1>14, GotoTyped DEF Fetch
<1>15. ASSUME Ingest(k) PROVE TickTyped'
  BY <1>15, GotoTyped, ObservedTyped DEF Ingest, InHand, HasInHand, Checking
<1>16. ASSUME Degrade(k) PROVE TickTyped'
  BY <1>16, GotoTyped DEF Degrade
<1>17. ASSUME RecordError(k) PROVE TickTyped'
  BY <1>17, GotoTyped DEF RecordError
<1>18. ASSUME RecordSignal(k) PROVE TickTyped'
  BY <1>18, GotoTyped DEF RecordSignal
<1>19. ASSUME PutSignal(k) PROVE TickTyped'
  BY <1>19, GotoTyped DEF PutSignal, Route
<1>20. ASSUME PublishFails(k) PROVE TickTyped'
  BY <1>20, AbandonTyped DEF PublishFails
<1>21. ASSUME SendUnknown(k) PROVE TickTyped'
  BY <1>21, GotoTyped DEF SendUnknown
<1>22. ASSUME SendRefused(k) PROVE TickTyped'
  BY <1>22, GotoTyped, AbandonTyped DEF SendRefused
<1>23. ASSUME SourceFails(k) PROVE TickTyped'
  BY <1>23, GotoTyped DEF SourceFails
<1>24. ASSUME Crash(k) PROVE TickTyped'
  BY <1>24, LetGoTyped DEF Crash
<1> QED BY <1>1, <1>2, <1>3, <1>4, <1>5, <1>6, <1>7, <1>8, <1>9, <1>10, <1>11, <1>12, <1>13, <1>14,
     <1>15, <1>16, <1>17, <1>18, <1>19, <1>20, <1>21, <1>22, <1>23, <1>24 DEF Step, Fails

\* The type invariant in parts, one for each group of variables.
WatchesTyped ==
    /\ watches \subseteq Watch
    /\ due \in [Watch -> SUBSET Tick] /\ ready \in Seq(Watch)
    /\ degraded \in [Watch -> BOOLEAN]
    /\ coverage \in [Flights -> Coverage] /\ print \in [Flights -> SUBSET Tick]
    /\ outcome \in [Watch -> {None, "quiet", "signal", "failed"}]
FactsTyped ==
    /\ signals \in Seq(Fact) /\ published \subseteq Fact /\ topic \subseteq Fact
    /\ note \in [Message -> Status] /\ inbox \subseteq Message
    /\ condemned \subseteq Fact /\ recorded \subseteq Fact /\ handled \subseteq Fact
EnvTyped ==
    /\ report \in [Watch -> Fact \union {None}] /\ trip \in BOOLEAN
    /\ faults \in 0..MaxFaults /\ sweep \in {"no", "collected", "done"}

LEMMA TypeParts ==
  /\ TypeOK <=> TickTyped /\ WatchesTyped /\ FactsTyped /\ EnvTyped
  /\ TypeOK' <=> TickTyped' /\ WatchesTyped' /\ FactsTyped' /\ EnvTyped'
  BY DEF TypeOK, TickTyped, WatchesTyped, FactsTyped, EnvTyped

LEMMA WatchesTypedStep ==
  ASSUME TypeOK, InHand, NEW k \in Tick, Step(k) \/ Fails(k)
  PROVE  WatchesTyped'
<1> USE WatchAssumption, TypeParts
    DEF WatchesTyped, Coverage, watchVars, history
<1>1. ASSUME StartTick(k) PROVE WatchesTyped'
  BY <1>1 DEF StartTick
<1>2. ASSUME Claim(k) PROVE WatchesTyped'
  <2>1. PICK w \in tick[k].todo : ClaimOf(k, w)
    BY <1>2 DEF Claim
  <2>2. UNCHANGED <<watches, coverage, print>>
    BY <1>2 DEF Claim
  <2>3. w \in Watch
    BY DEF TickTyped, Held
  <2>4. CASE HoldsSchedule(k, w)
    <3>1. /\ due' = [due EXCEPT ![w] = {k}] /\ ready' = Without(ready, {w})
          /\ degraded' = [degraded EXCEPT ![w] = FALSE] /\ outcome' = [outcome EXCEPT ![w] = None]
      BY <2>1, <2>4 DEF ClaimOf
    <3>2. ready' \in Seq(Watch)
      BY <3>1, WithoutFacts
    <3> QED BY <2>2, <2>3, <3>1, <3>2
  <2>5. CASE ~HoldsSchedule(k, w)
    BY <2>1, <2>2, <2>5 DEF ClaimOf
  <2> QED BY <2>4, <2>5
<1>3. ASSUME EndTick(k) PROVE WatchesTyped'
  BY <1>3 DEF EndTick, LetGo
<1>4. ASSUME Search(k) PROVE WatchesTyped'
  BY <1>4 DEF Search, Observed, Finish
<1>5. ASSUME Fetch(k) PROVE WatchesTyped'
  BY <1>5 DEF Fetch
<1>6. ASSUME Ingest(k) PROVE WatchesTyped'
  BY <1>6 DEF Ingest, Observed, Finish
<1>7. ASSUME Degrade(k) PROVE WatchesTyped'
  BY <1>7 DEF Degrade
<1>8. ASSUME RecordError(k) PROVE WatchesTyped'
  BY <1>8 DEF RecordError, Finish
<1>9. ASSUME RecordSignal(k) PROVE WatchesTyped'
  BY <1>9 DEF RecordSignal, Finish
<1>10. ASSUME Crash(k) PROVE WatchesTyped'
  BY <1>10 DEF Crash, LetGo, Fault
<1>11. ASSUME \/ ListPending(k) \/ FlushNext(k) \/ Publish(k) \/ Notify(k) \/ Intent(k) \/ Send(k)
              \/ Receipt(k) \/ NotDelivered(k) \/ Mark(k) \/ PutSignal(k) \/ PublishFails(k)
              \/ SendUnknown(k) \/ SendRefused(k) \/ SourceFails(k)
      PROVE WatchesTyped'
  BY <1>11 DEF ListPending, FlushNext, Publish, Notify, Intent, Send, Receipt, NotDelivered, Mark,
     PutSignal, PublishFails, SendUnknown, SendRefused, SourceFails
<1> QED BY <1>1, <1>2, <1>3, <1>4, <1>5, <1>6, <1>7, <1>8, <1>9, <1>10, <1>11 DEF Step, Fails

LEMMA FactsTypedStep ==
  ASSUME TypeOK, InHand, NEW k \in Tick, Step(k) \/ Fails(k)
  PROVE  FactsTyped'
<1> USE WatchAssumption, TypeParts
    DEF FactsTyped, Status, InHand, HasInHand, Telling, factVars, deliveryVars, history, envVars
<1>1. ASSUME Publish(k) PROVE FactsTyped'
  BY <1>1 DEF Publish
<1>2. ASSUME Intent(k) PROVE FactsTyped'
  BY <1>2 DEF Intent, StoreIntent
<1>3. ASSUME Send(k) PROVE FactsTyped'
  BY <1>3 DEF Send, Shown
<1>4. ASSUME Receipt(k) PROVE FactsTyped'
  BY <1>4 DEF Receipt, StoreReceipt
<1>5. ASSUME NotDelivered(k) PROVE FactsTyped'
  BY <1>5 DEF NotDelivered, StoreFailure
<1>6. ASSUME Mark(k) PROVE FactsTyped'
  BY <1>6, WithoutFacts DEF Mark
<1>7. ASSUME PutSignal(k) PROVE FactsTyped'
  BY <1>7, AppendProperties DEF PutSignal
<1>8. ASSUME SendUnknown(k) PROVE FactsTyped'
  BY <1>8 DEF SendUnknown, Shown, Fault
<1>9. ASSUME \/ StartTick(k) \/ ListPending(k) \/ FlushNext(k) \/ Notify(k) \/ Claim(k) \/ EndTick(k)
             \/ Search(k) \/ Fetch(k) \/ Ingest(k) \/ Degrade(k) \/ RecordError(k) \/ RecordSignal(k)
             \/ PublishFails(k) \/ SendRefused(k) \/ SourceFails(k) \/ Crash(k)
      PROVE FactsTyped'
  BY <1>9 DEF StartTick, ListPending, FlushNext, Notify, Claim, EndTick, Search, Fetch, Ingest,
     Degrade, RecordError, RecordSignal, PublishFails, SendRefused, SourceFails, Crash
<1> QED BY <1>1, <1>2, <1>3, <1>4, <1>5, <1>6, <1>7, <1>8, <1>9 DEF Step, Fails

LEMMA EnvTypedStep ==
  ASSUME TypeOK, NEW k \in Tick, Step(k) \/ Fails(k)
  PROVE  EnvTyped'
<1> USE WatchAssumption, TypeParts DEF EnvTyped, envVars
<1>1. ASSUME Step(k) PROVE EnvTyped'
  BY <1>1 DEF Step, StartTick, ListPending, FlushNext, Publish, Notify, Intent, Send, Receipt,
     NotDelivered, Mark, Claim, EndTick, Search, Fetch, Ingest, Degrade, RecordError, RecordSignal,
     PutSignal
<1>2. ASSUME Fails(k) PROVE EnvTyped'
  BY <1>2 DEF Fails, Fault, PublishFails, SendUnknown, SendRefused, SourceFails, Crash
<1> QED BY <1>1, <1>2

LEMMA TypeInit == Init => TypeOK
<1> SUFFICES ASSUME Init PROVE TypeOK
  OBVIOUS
<1>1. TickTyped
  <2>1. Idle \in Held /\ Off \in Held
    BY IdleHeld, HeldPc DEF Off, PC
  <2> QED BY <2>1 DEF Init, TickTyped
<1>2. WatchesTyped
  <2>1. watches \subseteq Watch /\ Cardinality(watches) \in Nat
    BY WatchAssumption, FS_Subset, FS_CardinalityType DEF Init
  <2>2. ready \in [1 .. Cardinality(watches) -> Watch]
    BY <2>1 DEF Init
  <2>3. ready \in Seq(Watch)
    BY <2>1, <2>2, SeqDef
  <2> QED BY <2>3 DEF Init, WatchesTyped, Coverage
<1>3. FactsTyped
  BY EmptySeq DEF Init, FactsTyped, DeliveryInit, Status
<1>4. EnvTyped
  BY DEF Init, EnvTyped
<1> QED BY <1>1, <1>2, <1>3, <1>4, TypeParts

LEMMA TypeNext == TypeOK /\ InHand /\ [Next]_vars => TypeOK'
<1> SUFFICES ASSUME TypeOK, InHand, [Next]_vars PROVE TypeOK'
  OBVIOUS
<1>1. ASSUME NEW k \in Tick, Step(k) \/ Fails(k) PROVE TypeOK'
  BY <1>1, TickTypedStep, WatchesTypedStep, FactsTypedStep, EnvTypedStep, TypeParts
<1> USE TypeParts DEF TickTyped, WatchesTyped, FactsTyped, EnvTyped, envVars, watchVars, factVars,
        deliveryVars, history
<1>2. ASSUME NEW w \in Watch, SourceSays(w) PROVE TypeOK'
  BY <1>2 DEF SourceSays
<1>3. ASSUME NEW w \in Watch, ComesDue(w) PROVE TypeOK'
  <2>1. ready' \in Seq(Watch)
    BY <1>3, AppendProperties DEF ComesDue
  <2> QED BY <1>3, <2>1 DEF ComesDue
<1>4. CASE CollectData
  BY <1>4, WithoutFacts DEF CollectData, Unpublished
<1>5. CASE DeleteData
  BY <1>5, WithoutFacts, EmptySeq DEF DeleteData
<1>6. CASE UNCHANGED vars
  BY <1>6 DEF vars
<1> QED BY <1>1, <1>2, <1>3, <1>4, <1>5, <1>6 DEF Next

\* Facts about the lists of facts.
LEMMA NothingInEmpty == Elements(<<>>) = {}
  BY DEF Elements

LEMMA TailFacts ==
  ASSUME NEW S, NEW s \in Seq(S), s # <<>>
  PROVE  /\ Head(s) \in Elements(s)
         /\ Elements(Tail(s)) \subseteq Elements(s)
<1>1. Len(s) \in Nat \ {0} /\ DOMAIN s = 1 .. Len(s)
  BY LenProperties, EmptySeq
<1>2. /\ Tail(s) \in Seq(S) /\ Len(Tail(s)) = Len(s) - 1
      /\ \A i \in 1 .. Len(Tail(s)) : Tail(s)[i] = s[i + 1]
  BY HeadTailProperties
<1>3. DOMAIN Tail(s) = 1 .. Len(s) - 1
  BY <1>2, LenProperties
<1>4. Head(s) = s[1]
  OBVIOUS
<1> QED BY <1>1, <1>2, <1>3, <1>4 DEF Elements

\* What a step leaves in the tick's record, field by field.
LEMMA GotoAt ==
  ASSUME TickTyped, NEW k \in Tick, NEW pc, Goto(k, pc)
  PROVE  /\ tick'[k].pc = pc /\ tick'[k].fact = tick[k].fact /\ tick'[k].w = tick[k].w
         /\ tick'[k].pend = tick[k].pend /\ tick'[k].todo = tick[k].todo
  BY DEF TickTyped, Held, Goto

LEMMA OnwardAt ==
  ASSUME TickTyped, NEW k \in Tick, Onward(k)
  PROVE  /\ tick'[k].pc \in {"watch", "flush"} /\ tick'[k].w = tick[k].w
         /\ tick'[k].pend = tick[k].pend /\ tick'[k].todo = tick[k].todo
  BY DEF TickTyped, Held, Onward

LEMMA AbandonAt ==
  ASSUME TickTyped, NEW k \in Tick, Abandon(k)
  PROVE  /\ tick'[k].pc = "watch" /\ tick'[k].w = tick[k].w
         /\ tick'[k].pend = <<>> /\ tick'[k].todo = tick[k].todo
  BY DEF TickTyped, Held, Abandon

LEMMA LetGoAt ==
  ASSUME TickTyped, NEW k \in Tick, LetGo(k)
  PROVE  tick'[k].pc = "idle" /\ tick'[k].pend = <<>> /\ tick'[k].todo = {}
  BY DEF TickTyped, Held, LetGo, Idle

LEMMA ObservedAt ==
  ASSUME TickTyped, NEW k \in Tick, NEW w, Observed(k, w)
  PROVE  /\ tick'[k].pc = IF report[w] = None THEN "watch" ELSE "record"
         /\ tick'[k].fact = report[w] /\ tick'[k].w = tick[k].w
         /\ tick'[k].pend = tick[k].pend /\ tick'[k].todo = tick[k].todo
  BY DEF TickTyped, Held, Observed

LEMMA StartTickAt ==
  ASSUME TickTyped, NEW k \in Tick, StartTick(k)
  PROVE  /\ tick'[k].pc = "pending" /\ tick'[k].pend = tick[k].pend
         /\ tick'[k].todo = Listed
<1>1. tick' = [tick EXCEPT ![k] = [tick[k] EXCEPT !.pc = "pending", !.todo = Listed]]
  BY DEF StartTick
<1> QED BY <1>1 DEF TickTyped, Held

LEMMA ListPendingAt ==
  ASSUME TypeOK, NEW k \in Tick, ListPending(k)
  PROVE  /\ tick'[k].pc = "flush" /\ Elements(tick'[k].pend) \subseteq Unpublished
         /\ tick'[k].todo = tick[k].todo
<1>1. TickTyped /\ signals \in Seq(Fact)
  BY TypeParts DEF FactsTyped
<1>2. tick' = [tick EXCEPT ![k] = [tick[k] EXCEPT !.pc = "flush", !.pend = Oldest(signals)]]
  BY DEF ListPending
<1>3. /\ tick'[k].pc = "flush" /\ tick'[k].pend = Oldest(signals)
      /\ tick'[k].todo = tick[k].todo
  BY <1>1, <1>2 DEF TickTyped, Held
<1>4. Elements(Oldest(signals)) \subseteq Elements(signals)
  BY <1>1, OldestFacts
<1> QED BY <1>3, <1>4 DEF Elements, Unpublished

LEMMA FlushNextAt ==
  ASSUME TypeOK, NEW k \in Tick, FlushNext(k)
  PROVE  /\ tick'[k].todo = tick[k].todo
         /\ \/ tick'[k].pc = "watch" /\ tick'[k].pend = tick[k].pend
            \/ \E f \in Elements(tick[k].pend) \intersect Fact :
                  /\ Elements(tick'[k].pend) \subseteq Elements(tick[k].pend)
                  /\ tick'[k].fact = f /\ tick'[k].pc \in {Route(f), "flush"}
<1>1. TickTyped
  BY TypeParts
<1>2. CASE tick[k].pend = <<>>
  <2>1. Goto(k, "watch") BY <1>2 DEF FlushNext
  <2> QED BY <1>1, <2>1, GotoAt
<1>3. CASE tick[k].pend # <<>>
  <2> DEFINE f == Head(tick[k].pend)
             rest == Tail(tick[k].pend)
             pc == IF About[f] \in watches /\ trip THEN Route(f) ELSE "flush"
  <2>1. tick' = [tick EXCEPT ![k] = [tick[k] EXCEPT !.pend = rest, !.fact = f,
                                                    !.direct = FALSE, !.pc = pc]]
    BY <1>3 DEF FlushNext
  <2>2. pc \in {Route(f), "flush"}
    OBVIOUS
  <2>3. tick[k].pend \in Seq(Fact)
    BY <1>1 DEF TickTyped, Held
  <2>4. /\ f \in Elements(tick[k].pend) /\ f \in Fact
        /\ Elements(rest) \subseteq Elements(tick[k].pend)
    BY <1>3, <2>3, TailFacts, HeadTailProperties
  <2> HIDE DEF f, rest, pc
  <2>5. /\ tick'[k].pend = rest /\ tick'[k].fact = f /\ tick'[k].pc = pc
        /\ tick'[k].todo = tick[k].todo
    BY <1>1, <2>1 DEF TickTyped, Held
  <2> QED BY <2>2, <2>4, <2>5
<1> QED BY <1>2, <1>3

LEMMA ClaimAt ==
  ASSUME TickTyped, NEW k \in Tick, NEW w \in tick[k].todo, tick[k].pc = "watch", ClaimOf(k, w)
  PROVE  /\ tick'[k].pend = tick[k].pend /\ tick'[k].todo = tick[k].todo \ {w} /\ w \in Watch
         /\ IF HoldsSchedule(k, w) THEN tick'[k].pc \in {"observe", "error"} /\ tick'[k].w = w
            ELSE tick'[k].pc = "watch"
<1> DEFINE rest == tick[k].todo \ {w}
           pc == IF trip THEN "observe" ELSE "error"
<1>1. w \in Watch /\ pc \in {"observe", "error"}
  BY DEF TickTyped, Held
<1>2. CASE HoldsSchedule(k, w)
  <2>1. tick' = [tick EXCEPT ![k] = [tick[k] EXCEPT !.todo = rest, !.w = w, !.direct = TRUE,
                                                    !.pc = pc]]
    BY <1>2 DEF ClaimOf
  <2> HIDE DEF pc, rest
  <2>2. /\ tick'[k].pend = tick[k].pend /\ tick'[k].todo = rest /\ tick'[k].w = w
        /\ tick'[k].pc = pc
    BY <2>1 DEF TickTyped, Held
  <2> QED BY <1>1, <1>2, <2>2 DEF rest
<1>3. CASE ~HoldsSchedule(k, w)
  <2>1. tick' = [tick EXCEPT ![k] = [tick[k] EXCEPT !.todo = rest]]
    BY <1>3 DEF ClaimOf
  <2> HIDE DEF rest
  <2>2. /\ tick'[k].pend = tick[k].pend /\ tick'[k].todo = rest /\ tick'[k].pc = "watch"
    BY <2>1 DEF TickTyped, Held
  <2> QED BY <1>1, <1>3, <2>2 DEF rest
<1> QED BY <1>2, <1>3

\* The other ticks go on with what they hold.
LEMMA OthersKeep ==
  ASSUME TypeOK, NEW k \in Tick, Step(k) \/ Fails(k), NEW j \in Tick, j # k
  PROVE  tick'[j] = tick[j]
<1> USE TypeParts DEF TickTyped
<1>1. ASSUME Step(k) PROVE tick'[j] = tick[j]
  BY <1>1 DEF Step, StartTick, ListPending, FlushNext, Publish, Notify, Intent, Send, Receipt,
     NotDelivered, Mark, Claim, ClaimOf, EndTick, Search, Fetch, Ingest, Degrade, RecordError,
     RecordSignal, PutSignal, Goto, Onward, Abandon, LetGo, Observed
<1>2. ASSUME Fails(k) PROVE tick'[j] = tick[j]
  BY <1>2 DEF Fails, PublishFails, SendUnknown, SendRefused, SourceFails, Crash, Goto, Abandon,
     LetGo
<1> QED BY <1>1, <1>2

\* The tick that takes the step still has in hand what its next step needs.
LEMMA InHandStep ==
  ASSUME TypeOK, InHand, NEW k \in Tick, Step(k) \/ Fails(k)
  PROVE  HasInHand(k)'
<1> USE TypeParts DEF TickTyped, Held, PC, EnvTyped, InHand, HasInHand, Checking, Telling
<1>1. ASSUME StartTick(k) PROVE HasInHand(k)'
  <2>1. tick'[k].pc = "pending"
    BY <1>1, StartTickAt
  <2> QED BY <2>1
<1>2. ASSUME ListPending(k) PROVE HasInHand(k)'
  BY <1>2 DEF ListPending
<1>3. ASSUME FlushNext(k) PROVE HasInHand(k)'
  BY <1>3, HeadTailProperties DEF FlushNext, Route, Goto
<1>4. ASSUME Publish(k) PROVE HasInHand(k)'
  BY <1>4 DEF Publish, Goto
<1>5. ASSUME Notify(k) PROVE HasInHand(k)'
  BY <1>5 DEF Notify, Goto, Onward
<1>6. ASSUME Intent(k) PROVE HasInHand(k)'
  BY <1>6 DEF Intent, Goto
<1>7. ASSUME Send(k) PROVE HasInHand(k)'
  BY <1>7 DEF Send, Goto
<1>8. ASSUME Receipt(k) PROVE HasInHand(k)'
  <2>1. CASE Goto(k, "mark")
    BY <1>8, <2>1 DEF Receipt, Goto
  <2>2. CASE Abandon(k)
    BY <2>2 DEF Abandon
  <2> QED BY <1>8, <2>1, <2>2 DEF Receipt
<1>9. ASSUME NotDelivered(k) PROVE HasInHand(k)'
  BY <1>9 DEF NotDelivered, Onward
<1>10. ASSUME Mark(k) PROVE HasInHand(k)'
  BY <1>10 DEF Mark, Onward
<1>11. ASSUME Claim(k) PROVE HasInHand(k)'
  <2>1. PICK w \in tick[k].todo : ClaimOf(k, w)
    BY <1>11 DEF Claim
  <2>2. CASE HoldsSchedule(k, w)
    <3>1. tick'[k].w = w /\ tick'[k].pc \in {"observe", "error"}
      BY <2>1, <2>2 DEF ClaimOf
    <3> QED BY <3>1
  <2>3. CASE ~HoldsSchedule(k, w)
    <3>1. tick'[k].pc = "watch"
      BY <1>11, <2>1, <2>3 DEF Claim, ClaimOf
    <3> QED BY <3>1
  <2> QED BY <2>2, <2>3
<1>12. ASSUME EndTick(k) PROVE HasInHand(k)'
  BY <1>12 DEF EndTick, LetGo, Idle
<1>13. ASSUME Search(k) PROVE HasInHand(k)'
  BY <1>13 DEF Search, Observed
<1>14. ASSUME Fetch(k) PROVE HasInHand(k)'
  BY <1>14 DEF Fetch, Goto
<1>15. ASSUME Ingest(k) PROVE HasInHand(k)'
  BY <1>15 DEF Ingest, Goto, Observed
<1>16. ASSUME Degrade(k) PROVE HasInHand(k)'
  BY <1>16 DEF Degrade, Goto
<1>17. ASSUME RecordError(k) PROVE HasInHand(k)'
  BY <1>17 DEF RecordError, Goto
<1>18. ASSUME RecordSignal(k) PROVE HasInHand(k)'
  <2>1. CASE Goto(k, "put")
    BY <1>18, <2>1 DEF RecordSignal, Goto
  <2>2. CASE Goto(k, "watch")
    BY <2>2 DEF Goto
  <2> QED BY <1>18, <2>1, <2>2 DEF RecordSignal
<1>19. ASSUME PutSignal(k) PROVE HasInHand(k)'
  BY <1>19 DEF PutSignal, Goto, Route
<1>20. ASSUME PublishFails(k) PROVE HasInHand(k)'
  BY <1>20 DEF PublishFails, Abandon
<1>21. ASSUME SendUnknown(k) PROVE HasInHand(k)'
  BY <1>21 DEF SendUnknown, Goto
<1>22. ASSUME SendRefused(k) PROVE HasInHand(k)'
  <2>1. CASE Goto(k, "BLOCKED")
    BY <1>22, <2>1 DEF SendRefused, Goto
  <2>2. CASE Abandon(k)
    BY <2>2 DEF Abandon
  <2> QED BY <1>22, <2>1, <2>2 DEF SendRefused
<1>23. ASSUME SourceFails(k) PROVE HasInHand(k)'
  BY <1>23 DEF SourceFails, Goto
<1>24. ASSUME Crash(k) PROVE HasInHand(k)'
  BY <1>24 DEF Crash, LetGo, Idle
<1> QED BY <1>1, <1>2, <1>3, <1>4, <1>5, <1>6, <1>7, <1>8, <1>9, <1>10, <1>11, <1>12, <1>13, <1>14,
     <1>15, <1>16, <1>17, <1>18, <1>19, <1>20, <1>21, <1>22, <1>23, <1>24 DEF Step, Fails

-----------------------------------------------------------------------------
(***************************************************************************)
(* What a worker may do with a fact: it was recorded before anyone told    *)
(* of it, the validator decided which way it is told, and it is marked     *)
(* only when it was heard of or nobody is left to hear it.                 *)
(***************************************************************************)
Reports(k) ==
    /\ Elements(tick[k].pend) \subseteq recorded
    /\ tick[k].pc \in Telling => tick[k].fact \in recorded
    /\ tick[k].pc = "publish" => tick[k].fact \in Recovery
    /\ tick[k].pc \in Telling \ {"publish", "mark"} => tick[k].fact \notin Recovery
    /\ tick[k].pc = "receipt" => tick[k].fact \in inbox
    /\ tick[k].pc = "mark" => tick[k].fact \in topic \union inbox \/ ~trip
KnownFirst == Unpublished \subseteq recorded
NotesAreShown == \A f \in Fact : note[f] = "SENT" => f \in inbox
ReportsSound == KnownFirst /\ NotesAreShown /\ \A k \in Tick : Reports(k)

\* The tick that takes the step still reports soundly.
LEMMA ReportsStep ==
  ASSUME TypeOK, InHand, ReportsSound, NEW k \in Tick, Step(k) \/ Fails(k)
  PROVE  Reports(k)'
<1> USE TypeParts DEF Reports, Telling
<1>0. Reports(k) /\ HasInHand(k) /\ TickTyped /\ trip \in BOOLEAN
  BY DEF ReportsSound, InHand, EnvTyped
<1> USE <1>0
<1> DEFINE Same == UNCHANGED <<recorded, topic, inbox, trip>>
           Quiet == tick'[k].pc \notin Telling
           Keeps == Elements(tick'[k].pend) \subseteq Elements(tick[k].pend)
<1>q. ASSUME Quiet, Keeps, recorded \subseteq recorded' PROVE Reports(k)'
  BY <1>q
<1>e. ASSUME Quiet, tick'[k].pend = <<>> PROVE Reports(k)'
  BY <1>e, NothingInEmpty
<1> USE DEF envVars, factVars, deliveryVars, history
<1>1. ASSUME StartTick(k) PROVE Reports(k)'
  <2>1. Quiet /\ Keeps
    BY <1>1, StartTickAt
  <2>2. recorded' = recorded
    BY <1>1 DEF StartTick
  <2> QED BY <1>q, <2>1, <2>2
<1>2. ASSUME ListPending(k) PROVE Reports(k)'
  <2>1. Quiet /\ Elements(tick'[k].pend) \subseteq Unpublished
    BY <1>2, ListPendingAt
  <2>2. recorded' = recorded
    BY <1>2 DEF ListPending
  <2>3. Unpublished \subseteq recorded
    BY DEF ReportsSound, KnownFirst
  <2> QED BY <2>1, <2>2, <2>3
<1>3. ASSUME FlushNext(k) PROVE Reports(k)'
  <2>1. Same
    BY <1>3 DEF FlushNext
  <2>2. CASE tick'[k].pc = "watch" /\ tick'[k].pend = tick[k].pend
    BY <1>q, <2>1, <2>2
  <2>3. CASE ~(tick'[k].pc = "watch" /\ tick'[k].pend = tick[k].pend)
    <3>1. PICK f \in Elements(tick[k].pend) \intersect Fact :
                  /\ Elements(tick'[k].pend) \subseteq Elements(tick[k].pend)
                  /\ tick'[k].fact = f /\ tick'[k].pc \in {Route(f), "flush"}
      BY <1>3, <2>3, FlushNextAt
    <3> QED BY <2>1, <3>1 DEF Route
  <2> QED BY <2>2, <2>3
<1>4. ASSUME Publish(k) PROVE Reports(k)'
  <2>1. Goto(k, "mark")
    BY <1>4 DEF Publish
  <2> QED BY <1>4, <2>1, GotoAt DEF Publish
<1>5. ASSUME Notify(k) PROVE Reports(k)'
  <2>1. Same /\ tick[k].pc = "notify" /\ tick[k].fact \in Fact
    BY <1>5 DEF Notify, HasInHand
  <2>2. CASE Goto(k, "mark") /\ (~trip \/ Sent(tick[k].fact))
    BY <2>1, <2>2, GotoAt DEF ReportsSound, NotesAreShown, Sent
  <2>3. CASE Onward(k)
    BY <1>q, <2>1, <2>3, OnwardAt
  <2>4. CASE Goto(k, "intent")
    BY <2>1, <2>4, GotoAt
  <2> QED BY <1>5, <2>2, <2>3, <2>4 DEF Notify
<1>6. ASSUME Intent(k) PROVE Reports(k)'
  <2>1. Goto(k, "send")
    BY <1>6 DEF Intent
  <2> QED BY <1>6, <2>1, GotoAt DEF Intent
<1>7. ASSUME Send(k) PROVE Reports(k)'
  <2>1. Goto(k, "receipt")
    BY <1>7 DEF Send
  <2> QED BY <1>7, <2>1, GotoAt DEF Send, Shown
<1>8. ASSUME Receipt(k) PROVE Reports(k)'
  <2>1. Same
    BY <1>8 DEF Receipt
  <2>2. CASE Goto(k, "mark")
    BY <1>8, <2>1, <2>2, GotoAt DEF Receipt
  <2>3. CASE Abandon(k)
    BY <1>e, <2>3, AbandonAt
  <2> QED BY <1>8, <2>2, <2>3 DEF Receipt
<1>9. ASSUME NotDelivered(k) PROVE Reports(k)'
  <2>1. Onward(k) /\ recorded' = recorded
    BY <1>9 DEF NotDelivered
  <2> QED BY <1>q, <2>1, OnwardAt
<1>10. ASSUME Mark(k) PROVE Reports(k)'
  <2>1. Onward(k) /\ recorded' = recorded
    BY <1>10 DEF Mark
  <2> QED BY <1>q, <2>1, OnwardAt
<1>11. ASSUME Claim(k) PROVE Reports(k)'
  <2>1. PICK w \in tick[k].todo : ClaimOf(k, w)
    BY <1>11 DEF Claim
  <2>2. tick[k].pc = "watch" /\ recorded' = recorded
    BY <1>11 DEF Claim
  <2> QED BY <1>q, <2>1, <2>2, ClaimAt
<1>12. ASSUME EndTick(k) PROVE Reports(k)'
  BY <1>e, <1>12, LetGoAt DEF EndTick
<1>13. ASSUME Search(k) PROVE Reports(k)'
  <2>1. Observed(k, tick[k].w) /\ recorded' = recorded
    BY <1>13 DEF Search
  <2> QED BY <1>q, <2>1, ObservedAt
<1>14. ASSUME NEW pc \in PC \ Telling, Goto(k, pc), recorded' = recorded PROVE Reports(k)'
  BY <1>q, <1>14, GotoAt
<1> USE DEF PC
<1>15. ASSUME Fetch(k) PROVE Reports(k)'
  BY <1>14, <1>15 DEF Fetch
<1>16. ASSUME Ingest(k) PROVE Reports(k)'
  <2>1. recorded' = recorded /\ (Goto(k, "watch") \/ Observed(k, tick[k].w))
    BY <1>16 DEF Ingest
  <2> QED BY <1>q, <1>14, <2>1, ObservedAt
<1>17. ASSUME Degrade(k) PROVE Reports(k)'
  BY <1>14, <1>17 DEF Degrade
<1>18. ASSUME RecordError(k) PROVE Reports(k)'
  BY <1>14, <1>18 DEF RecordError
<1>19. ASSUME RecordSignal(k) PROVE Reports(k)'
  <2>1. recorded' = recorded /\ (Goto(k, "watch") \/ Goto(k, "put"))
    BY <1>19 DEF RecordSignal
  <2> QED BY <1>14, <2>1
<1>20. ASSUME PutSignal(k) PROVE Reports(k)'
  <2> DEFINE f == tick[k].fact
  <2>1. /\ recorded' = recorded \union {f}
        /\ Goto(k, Route(f)) \/ Goto(k, "watch")
    BY <1>20 DEF PutSignal
  <2>2. CASE Goto(k, Route(f))
    BY <2>1, <2>2, GotoAt DEF Route
  <2>3. CASE Goto(k, "watch")
    BY <1>q, <2>1, <2>3, GotoAt
  <2> QED BY <2>1, <2>2, <2>3
<1>21. ASSUME PublishFails(k) PROVE Reports(k)'
  BY <1>e, <1>21, AbandonAt DEF PublishFails
<1>22. ASSUME SendUnknown(k) PROVE Reports(k)'
  <2>1. Goto(k, "UNKNOWN")
    BY <1>22 DEF SendUnknown
  <2> QED BY <1>22, <2>1, GotoAt DEF SendUnknown
<1>23. ASSUME SendRefused(k) PROVE Reports(k)'
  <2>1. CASE Goto(k, "BLOCKED")
    BY <1>23, <2>1, GotoAt DEF SendRefused
  <2>2. CASE Abandon(k)
    BY <1>e, <2>2, AbandonAt
  <2> QED BY <1>23, <2>1, <2>2 DEF SendRefused
<1>24. ASSUME SourceFails(k) PROVE Reports(k)'
  BY <1>14, <1>24 DEF SourceFails
<1>25. ASSUME Crash(k) PROVE Reports(k)'
  BY <1>e, <1>25, LetGoAt DEF Crash
<1> QED BY <1>1, <1>2, <1>3, <1>4, <1>5, <1>6, <1>7, <1>8, <1>9, <1>10, <1>11, <1>12, <1>13, <1>15,
     <1>16, <1>17, <1>18, <1>19, <1>20, <1>21, <1>22, <1>23, <1>24, <1>25 DEF Step, Fails

\* A step of the environment changes no tick.
Outside ==
    \/ \E w \in Watch : SourceSays(w) \/ ComesDue(w)
    \/ CollectData \/ DeleteData \/ UNCHANGED vars

LEMMA NextParts ==
  ASSUME [Next]_vars
  PROVE  (\E k \in Tick : Step(k) \/ Fails(k)) \/ Outside
  BY DEF Next, Outside

LEMMA OutsideKeeps ==
  ASSUME Outside
  PROVE  /\ tick' = tick
         /\ UNCHANGED <<recorded, topic, inbox, note, handled, outcome, due, degraded>>
         /\ trip' = trip \/ trip' = FALSE
  BY DEF Outside, SourceSays, ComesDue, CollectData, DeleteData, vars, envVars, watchVars, factVars,
     deliveryVars, history

\* What was recorded, published or shown stays so, and a deleted trip is gone for good.
LEMMA Growth ==
  ASSUME [Next]_vars
  PROVE  /\ recorded \subseteq recorded' /\ topic \subseteq topic' /\ inbox \subseteq inbox'
         /\ trip' = trip \/ trip' = FALSE
<1>1. CASE Outside
  BY <1>1, OutsideKeeps
<1> USE DEF envVars, factVars, deliveryVars, history
<1>2. ASSUME NEW k \in Tick, Step(k)
      PROVE  /\ recorded \subseteq recorded' /\ topic \subseteq topic' /\ inbox \subseteq inbox'
             /\ trip' = trip
  <2>1. CASE \/ StartTick(k) \/ ListPending(k) \/ FlushNext(k) \/ Publish(k) \/ Notify(k)
             \/ Intent(k) \/ Mark(k)
    BY <2>1 DEF StartTick, ListPending, FlushNext, Publish, Notify, Intent, Mark
  <2>2. CASE Send(k) \/ Receipt(k) \/ NotDelivered(k) \/ Claim(k) \/ EndTick(k)
    BY <2>2 DEF Send, Shown, Receipt, NotDelivered, Claim, EndTick
  <2>3. CASE \/ Search(k) \/ Fetch(k) \/ Ingest(k) \/ Degrade(k) \/ RecordError(k) \/ RecordSignal(k)
             \/ PutSignal(k)
    BY <2>3 DEF Search, Fetch, Ingest, Degrade, RecordError, RecordSignal, PutSignal
  <2> QED BY <1>2, <2>1, <2>2, <2>3 DEF Step
<1>3. ASSUME NEW k \in Tick, Fails(k)
      PROVE  /\ recorded \subseteq recorded' /\ topic \subseteq topic' /\ inbox \subseteq inbox'
             /\ trip' = trip
  BY <1>3 DEF Fails, PublishFails, SendUnknown, Shown, SendRefused, SourceFails, Crash
<1> QED BY <1>1, <1>2, <1>3, NextParts

\* The invariants of all ticks together.
LEMMA InHandNext == TypeOK /\ InHand /\ [Next]_vars => InHand'
<1> SUFFICES ASSUME TypeOK, InHand, [Next]_vars, NEW j \in Tick PROVE HasInHand(j)'
  BY DEF InHand
<1>1. HasInHand(j)
  BY DEF InHand
<1>2. CASE Outside
  BY <1>1, <1>2, OutsideKeeps DEF HasInHand
<1>3. ASSUME NEW k \in Tick, Step(k) \/ Fails(k) PROVE HasInHand(j)'
  <2>1. CASE j = k
    BY <1>3, <2>1, InHandStep
  <2>2. CASE j # k
    BY <1>1, <1>3, <2>2, OthersKeep DEF HasInHand
  <2> QED BY <2>1, <2>2
<1> QED BY <1>2, <1>3, NextParts

LEMMA KnownFirstNext ==
  ASSUME TypeOK, InHand, ReportsSound, [Next]_vars
  PROVE  KnownFirst'
<1>0. Unpublished \subseteq recorded /\ recorded \subseteq recorded' /\ signals \in Seq(Fact)
  BY Growth DEF ReportsSound, KnownFirst, TypeOK
<1> USE DEF KnownFirst, Unpublished, Elements, factVars
<1>1. CASE signals' = signals
  BY <1>0, <1>1
<1>2. ASSUME NEW gone, signals' = Without(signals, gone) PROVE KnownFirst'
  BY <1>0, <1>2, WithoutFacts
<1>3. ASSUME NEW k \in Tick, PutSignal(k) PROVE KnownFirst'
  <2>1. tick[k].fact \in Fact
    BY <1>3 DEF PutSignal, InHand, HasInHand
  <2> QED BY <1>0, <1>1, <1>3, <2>1, AppendFacts DEF PutSignal
<1>4. CASE Outside
  BY <1>1, <1>2, <1>4 DEF Outside, SourceSays, ComesDue, CollectData, DeleteData, vars
<1>5. ASSUME NEW k \in Tick, Step(k) PROVE KnownFirst'
  <2>1. CASE Mark(k)
    BY <1>2, <2>1 DEF Mark
  <2>2. CASE ~Mark(k) /\ ~PutSignal(k)
    BY <1>1, <1>5, <2>2 DEF Step, StartTick, ListPending, FlushNext, Publish, Notify, Intent, Send,
       Receipt, NotDelivered, Claim, EndTick, Search, Fetch, Ingest, Degrade, RecordError,
       RecordSignal
  <2> QED BY <1>3, <2>1, <2>2
<1>6. ASSUME NEW k \in Tick, Fails(k) PROVE KnownFirst'
  BY <1>1, <1>6 DEF Fails, PublishFails, SendUnknown, SendRefused, SourceFails, Crash
<1> QED BY <1>4, <1>5, <1>6, NextParts

LEMMA NotesAreShownNext ==
  ASSUME TypeOK, InHand, ReportsSound, [Next]_vars
  PROVE  NotesAreShown'
<1>0. NotesAreShown /\ inbox \subseteq inbox' /\ note \in [Fact -> Status]
  BY WatchAssumption, Growth DEF ReportsSound, TypeOK
<1>1. CASE note' = note
  BY <1>0, <1>1 DEF NotesAreShown
<1>2. ASSUME NEW k \in Tick, Intent(k) \/ Receipt(k) \/ NotDelivered(k) PROVE NotesAreShown'
  <2>1. tick[k].fact \in Fact
    BY <1>2 DEF Intent, Receipt, NotDelivered, InHand, HasInHand, Telling
  <2>2. CASE Receipt(k)
    <3>1. tick[k].fact \in inbox
      BY <2>2 DEF Receipt, ReportsSound, Reports
    <3> QED BY <1>0, <2>1, <2>2, <3>1 DEF Receipt, StoreReceipt, NotesAreShown
  <2>3. CASE Intent(k) \/ NotDelivered(k)
    BY <1>0, <2>1, <2>3 DEF Intent, StoreIntent, NotDelivered, StoreFailure, NotesAreShown
  <2> QED BY <1>2, <2>2, <2>3
<1>3. CASE Outside
  BY <1>1, <1>3, OutsideKeeps
<1>4. ASSUME NEW k \in Tick, Step(k), ~(Intent(k) \/ Receipt(k) \/ NotDelivered(k)) PROVE NotesAreShown'
  BY <1>1, <1>4 DEF Step, StartTick, ListPending, FlushNext, Publish, Notify, Send, Mark,
       Claim, EndTick, Search, Fetch, Ingest, Degrade, RecordError, RecordSignal, PutSignal,
       deliveryVars
<1>5. ASSUME NEW k \in Tick, Fails(k) PROVE NotesAreShown'
  BY <1>1, <1>5 DEF Fails, PublishFails, SendUnknown, SendRefused, SourceFails, Crash, deliveryVars
<1> QED BY <1>2, <1>3, <1>4, <1>5, NextParts

LEMMA ReportsNext == TypeOK /\ InHand /\ ReportsSound /\ [Next]_vars => ReportsSound'
<1> SUFFICES ASSUME TypeOK, InHand, ReportsSound, [Next]_vars PROVE ReportsSound'
  OBVIOUS
<1>1. ASSUME NEW j \in Tick PROVE Reports(j)'
  <2>1. ASSUME tick'[j] = tick[j] PROVE Reports(j)'
    <3>1. Reports(j)
      BY DEF ReportsSound
    <3>2. trip' => trip
      BY Growth DEF TypeOK
    <3> QED BY <2>1, <3>1, <3>2, Growth DEF Reports
  <2>2. CASE Outside
    BY <2>1, <2>2, OutsideKeeps
  <2>3. ASSUME NEW k \in Tick, Step(k) \/ Fails(k) PROVE Reports(j)'
    <3>1. CASE j = k
      BY <2>3, <3>1, ReportsStep
    <3>2. CASE j # k
      BY <2>1, <2>3, <3>2, OthersKeep
    <3> QED BY <3>1, <3>2
  <2> QED BY <2>2, <2>3, NextParts
<1>2. KnownFirst' /\ NotesAreShown'
  BY KnownFirstNext, NotesAreShownNext
<1> QED BY <1>1, <1>2 DEF ReportsSound

LEMMA InHandInit == Init => InHand /\ ReportsSound
<1> SUFFICES ASSUME Init PROVE InHand /\ ReportsSound
  OBVIOUS
<1>1. ASSUME NEW k \in Tick PROVE HasInHand(k) /\ Reports(k)
  <2>1. tick[k].pc \in {"idle", "off"} /\ tick[k].pend = <<>>
    BY DEF Init, Idle, Off
  <2> QED BY <2>1, NothingInEmpty DEF HasInHand, Reports, Checking, Telling
<1>2. KnownFirst
  BY NothingInEmpty DEF Init, KnownFirst, Unpublished, Elements
<1>3. NotesAreShown
  BY WatchAssumption DEF Init, DeliveryInit, NotesAreShown
<1> QED BY <1>1, <1>2, <1>3 DEF InHand, ReportsSound

-----------------------------------------------------------------------------
\* The topic and the chat get a fact from a worker the validator sent there.
LEMMA ValidatedNext ==
  TypeOK /\ InHand /\ ReportsSound /\ RecoveryIsValidated /\ [Next]_vars => RecoveryIsValidated'
<1> SUFFICES ASSUME TypeOK, InHand, ReportsSound, RecoveryIsValidated, [Next]_vars PROVE RecoveryIsValidated'
  OBVIOUS
<1> USE DEF RecoveryIsValidated, factVars, deliveryVars
<1>1. CASE Outside
  BY <1>1, OutsideKeeps
<1>2. ASSUME NEW k \in Tick, Publish(k) PROVE RecoveryIsValidated'
  <2>1. tick[k].fact \in Recovery
    BY <1>2 DEF Publish, ReportsSound, Reports
  <2> QED BY <1>2, <2>1 DEF Publish
<1>3. ASSUME NEW k \in Tick, Send(k) \/ SendUnknown(k) PROVE RecoveryIsValidated'
  <2>1. tick[k].fact \notin Recovery
    BY <1>3 DEF Send, SendUnknown, ReportsSound, Reports, Telling
  <2> QED BY <1>3, <2>1 DEF Send, SendUnknown, Shown
<1>4. ASSUME NEW k \in Tick, Step(k), ~Publish(k), ~Send(k) PROVE RecoveryIsValidated'
  BY <1>4 DEF Step, StartTick, ListPending, FlushNext, Notify, Intent, Receipt, NotDelivered, Mark,
     Claim, EndTick, Search, Fetch, Ingest, Degrade, RecordError, RecordSignal, PutSignal
<1>5. ASSUME NEW k \in Tick, Fails(k), ~SendUnknown(k) PROVE RecoveryIsValidated'
  BY <1>5 DEF Fails, PublishFails, SendRefused, SourceFails, Crash
<1> QED BY <1>1, <1>2, <1>3, <1>4, <1>5, NextParts

-----------------------------------------------------------------------------
(***************************************************************************)
(* Who holds a schedule.  A tick that still has to claim a watchpoint it   *)
(* listed holds the due_at only while that time has come; the check that   *)
(* holds the one written by its claim is the only one, and no error is     *)
(* shown while it runs.                                                    *)
(***************************************************************************)
Schedule == \A k \in Tick, w \in Watch : w \in tick[k].todo /\ HoldsSchedule(k, w) => IsReady(w)
Examines(k, w) == tick[k].pc \in Checking /\ tick[k].w = w /\ k \in due[w]
OneCheck ==
    \A k \in Tick, w \in Watch : Examines(k, w) =>
        ~degraded[w] /\ \A j \in Tick : Examines(j, w) => j = k

\* Which schedules a step of a tick takes or gives up.
LEMMA DueStep ==
  ASSUME TypeOK, NEW k \in Tick, Step(k) \/ Fails(k), NEW w \in Watch
  PROVE  \/ due'[w] = due[w] /\ (IsReady(w)' <=> IsReady(w))
         \/ LetGo(k) /\ due'[w] = due[w] \ {k} /\ (IsReady(w)' <=> IsReady(w))
         \/ /\ StartTick(k) /\ IsReady(w)
            /\ due'[w] = due[w] \union {k} /\ (IsReady(w)' <=> IsReady(w))
         \/ /\ tick[k].pc = "watch" /\ w \in tick[k].todo /\ ClaimOf(k, w) /\ HoldsSchedule(k, w)
            /\ due'[w] = {k} /\ ~degraded'[w]
<1>0. /\ due \in [Watch -> SUBSET Tick] /\ ready \in Seq(Watch)
      /\ degraded \in [Watch -> BOOLEAN] /\ TickTyped
  BY TypeParts DEF WatchesTyped
<1>r. IsReady(w) <=> w \in Elements(ready)
  BY DEF IsReady, Elements
<1>s. IsReady(w)' <=> w \in Elements(ready')
  BY DEF IsReady, Elements
<1>1. CASE UNCHANGED <<due, ready>>
  BY <1>1 DEF IsReady
<1>2. CASE StartTick(k)
  <2>1. ready' = ready /\ due' = [v \in Watch |-> IF v \in Listed THEN due[v] \union {k} ELSE due[v]]
    BY <1>2 DEF StartTick
  <2>2. (IsReady(w)' <=> IsReady(w))
    BY <2>1 DEF IsReady
  <2>3. w \in Listed => IsReady(w)
    BY <1>0, ListedFacts
  <2> HIDE DEF Listed
  <2> QED BY <1>0, <1>2, <2>1, <2>2, <2>3
<1>3. CASE EndTick(k) \/ Crash(k)
  BY <1>0, <1>3 DEF EndTick, Crash, LetGo, IsReady
<1>4. CASE Claim(k)
  <2>1. PICK v \in tick[k].todo : ClaimOf(k, v)
    BY <1>4 DEF Claim
  <2>2. v \in Watch /\ tick[k].pc = "watch"
    BY <1>0, <1>4 DEF Claim, TickTyped, Held
  <2>3. CASE ~HoldsSchedule(k, v)
    BY <1>1, <2>1, <2>3 DEF ClaimOf
  <2>4. CASE HoldsSchedule(k, v)
    <3>1. /\ due' = [due EXCEPT ![v] = {k}] /\ ready' = Without(ready, {v})
          /\ degraded' = [degraded EXCEPT ![v] = FALSE]
      BY <2>1, <2>4 DEF ClaimOf
    <3>2. CASE v = w
      BY <1>0, <2>1, <2>2, <2>4, <3>1, <3>2
    <3>3. CASE v # w
      <4>1. Elements(ready') = Elements(ready) \ {v}
        BY <1>0, <3>1, WithoutFacts
      <4>2. (IsReady(w)' <=> IsReady(w))
        BY <1>r, <1>s, <3>3, <4>1
      <4> QED BY <1>0, <2>2, <3>1, <3>3, <4>2
    <3> QED BY <3>2, <3>3
  <2> QED BY <2>3, <2>4
<1> USE DEF watchVars
<1>5. CASE Step(k) /\ ~(StartTick(k) \/ EndTick(k) \/ Claim(k))
  BY <1>1, <1>5 DEF Step, ListPending, FlushNext, Publish, Notify, Intent, Send, Receipt,
     NotDelivered, Mark,
     Search, Fetch, Ingest, Degrade, RecordError, RecordSignal, PutSignal
<1>6. CASE Fails(k) /\ ~Crash(k)
  BY <1>1, <1>6 DEF Fails, PublishFails, SendUnknown, SendRefused, SourceFails
<1> QED BY <1>2, <1>3, <1>4, <1>5, <1>6

LEMMA OutsideSchedule ==
  ASSUME TypeOK, Outside, NEW w \in Watch
  PROVE  /\ tick' = tick /\ due' = due /\ watches' \subseteq watches
         /\ IsReady(w) /\ w \in watches' => IsReady(w)'
<1>1. ASSUME ready' = ready PROVE IsReady(w) => IsReady(w)'
  BY <1>1 DEF IsReady
<1>2. ASSUME NEW v \in Watch, ready' = Append(ready, v) PROVE IsReady(w) => IsReady(w)'
  <2>1. Elements(ready') = Elements(ready) \union {v}
    BY <1>2, AppendFacts DEF TypeOK
  <2>2. (IsReady(w) <=> w \in Elements(ready)) /\ (IsReady(w)' <=> w \in Elements(ready'))
    BY DEF IsReady, Elements
  <2> QED BY <2>1, <2>2
<1> USE DEF watchVars
<1>3. ASSUME NEW v \in Watch, SourceSays(v) \/ ComesDue(v) PROVE IsReady(w) => IsReady(w)'
  BY <1>1, <1>2, <1>3 DEF SourceSays, ComesDue
<1>4. CASE CollectData \/ UNCHANGED vars
  BY <1>1, <1>4 DEF CollectData, vars
<1>5. CASE DeleteData
  BY <1>5 DEF DeleteData
<1> QED BY <1>3, <1>4, <1>5 DEF Outside, SourceSays, ComesDue, CollectData, DeleteData, vars

\* Only listing adds to what a tick has to do.
LEMMA TodoStep ==
  ASSUME TypeOK, NEW k \in Tick, Step(k) \/ Fails(k), ~StartTick(k)
  PROVE  tick'[k].todo \subseteq tick[k].todo
<1>0. TickTyped
  BY TypeParts
<1>1. CASE ListPending(k) \/ FlushNext(k)
  BY <1>1, ListPendingAt, FlushNextAt
<1>2. CASE Claim(k)
  <2>1. PICK v \in tick[k].todo : ClaimOf(k, v)
    BY <1>2 DEF Claim
  <2>2. tick[k].pc = "watch"
    BY <1>2 DEF Claim
  <2> QED BY <1>0, <2>1, <2>2, ClaimAt
<1>3. ASSUME NEW pc, Goto(k, pc) PROVE tick'[k].todo \subseteq tick[k].todo
  BY <1>0, <1>3, GotoAt
<1>4. CASE Onward(k) \/ Abandon(k) \/ LetGo(k) \/ \E w : Observed(k, w)
  BY <1>0, <1>4, OnwardAt, AbandonAt, LetGoAt, ObservedAt
<1>5. CASE Step(k) /\ ~(ListPending(k) \/ FlushNext(k) \/ Claim(k))
  BY <1>3, <1>4, <1>5 DEF Step, Publish, Notify, Intent, Send, Receipt, NotDelivered, Mark,
     EndTick, Search, Fetch, Ingest, Degrade, RecordError, RecordSignal, PutSignal
<1>6. CASE Fails(k)
  BY <1>3, <1>4, <1>6 DEF Fails, PublishFails, SendUnknown, SendRefused, SourceFails, Crash
<1> QED BY <1>1, <1>2, <1>5, <1>6

\* Only the deletion removes a watchpoint.
LEMMA StepKeepsWatches ==
  ASSUME NEW k \in Tick, Step(k) \/ Fails(k)
  PROVE  watches' = watches
<1> USE DEF watchVars
<1>1. CASE Step(k)
  BY <1>1 DEF Step, StartTick, ListPending, FlushNext, Publish, Notify, Intent, Send, Receipt,
     NotDelivered, Mark, Claim, EndTick, Search, Fetch, Ingest, Degrade, RecordError,
     RecordSignal, PutSignal
<1>2. CASE Fails(k)
  BY <1>2 DEF Fails, PublishFails, SendUnknown, SendRefused, SourceFails, Crash
<1> QED BY <1>1, <1>2

LEMMA ScheduleNext == TypeOK /\ Schedule /\ [Next]_vars => Schedule'
<1> SUFFICES ASSUME TypeOK, Schedule, [Next]_vars, NEW j \in Tick, NEW w \in Watch,
                    w \in tick'[j].todo, w \in watches', j \in due'[w]
             PROVE  IsReady(w)'
  BY DEF Schedule, HoldsSchedule
<1>1. CASE Outside
  BY <1>1, OutsideSchedule DEF Schedule, HoldsSchedule
<1>2. ASSUME NEW k \in Tick, Step(k) \/ Fails(k) PROVE IsReady(w)'
  <2>0. TickTyped
    BY TypeParts
  <2>1. CASE StartTick(k)
    <3>1. /\ tick'[k].todo = Listed /\ ready' = ready /\ watches' = watches
          /\ (IsReady(w)' <=> IsReady(w))
      BY <2>0, <2>1, StartTickAt DEF StartTick, IsReady
    <3>2. CASE j = k
      BY <3>1, <3>2, ListedFacts DEF TypeOK
    <3>3. CASE j # k
      <4>1. tick'[j] = tick[j]
        BY <1>2, <3>3, OthersKeep
      <4>2. j \in due[w]
        BY <2>1, <3>3 DEF StartTick, TypeOK
      <4> QED BY <3>1, <4>1, <4>2 DEF Schedule, HoldsSchedule
    <3> QED BY <3>2, <3>3
  <2>2. CASE ~StartTick(k)
    <3>1. w \in tick[j].todo
      BY <1>2, <2>2, OthersKeep, TodoStep
    <3>w. watches' = watches
      BY <1>2, StepKeepsWatches
    <3>2. CASE j \in due[w] /\ (IsReady(w)' <=> IsReady(w))
      BY <3>1, <3>2, <3>w DEF Schedule, HoldsSchedule
    <3>3. CASE due'[w] = {k} /\ tick[k].pc = "watch" /\ w \in tick[k].todo /\ ClaimOf(k, w) /\ HoldsSchedule(k, w)
      <4>1. tick'[k].todo = tick[k].todo \ {w} /\ j = k
        BY <2>0, <3>3, ClaimAt
      <4> QED BY <4>1
    <3> QED BY <1>2, <2>2, <3>2, <3>3, DueStep
  <2> QED BY <2>1, <2>2
<1> QED BY <1>1, <1>2, NextParts

\* A check begins with a claim, and a claim needs a due time that has come.
LEMMA DueTimeStep ==
  TypeOK /\ Schedule /\ [Next]_vars =>
    [\A k \in Tick, w \in Watch :
        (tick[k].pc = "watch" /\ tick'[k].pc \in {"observe", "error"} /\ tick'[k].w = w) => IsReady(w)]_vars
<1> SUFFICES ASSUME TypeOK, Schedule, [Next]_vars, NEW j \in Tick, NEW w \in Watch,
                    tick[j].pc = "watch", tick'[j].pc \in {"observe", "error"}, tick'[j].w = w
             PROVE  IsReady(w)
  OBVIOUS
<1>0. TickTyped
  BY TypeParts
<1>1. ~Outside
  BY OutsideKeeps
<1>2. PICK k \in Tick : Step(k) \/ Fails(k)
  BY <1>1, NextParts
<1>3. j = k
  BY <1>2, OthersKeep
<1>4. CASE Claim(k)
  <2>1. PICK v \in tick[k].todo : ClaimOf(k, v)
    BY <1>4 DEF Claim
  <2>2. v = w /\ HoldsSchedule(k, v)
    BY <1>0, <1>3, <2>1, ClaimAt
  <2> QED BY <1>3, <2>1, <2>2 DEF Schedule
<1>5. CASE EndTick(k) \/ Crash(k)
  BY <1>0, <1>3, <1>5, LetGoAt DEF EndTick, Crash
<1>6. CASE ~Claim(k) /\ ~EndTick(k) /\ ~Crash(k)
  BY <1>2, <1>3, <1>6 DEF Step, Fails, StartTick, ListPending, FlushNext, Publish, Notify, Intent,
     Send,
     Receipt, NotDelivered, Mark, Search, Fetch, Ingest, Degrade, RecordError, RecordSignal,
     PutSignal,
     PublishFails, SendUnknown, SendRefused, SourceFails
<1> QED BY <1>4, <1>5, <1>6

\* A check that goes on was under way, or the step claims it.
LEMMA ExaminesStep ==
  ASSUME TypeOK, NEW k \in Tick, Step(k) \/ Fails(k), NEW j \in Tick, NEW w \in Watch, Examines(j, w)'
  PROVE  \/ Examines(j, w) /\ (j = k => due'[w] = due[w])
         \/ j = k /\ due'[w] = {k} /\ ~degraded'[w] /\ Claim(k)
<1>0. TickTyped
  BY TypeParts
<1>1. tick'[j].pc \in Checking /\ tick'[j].w = w /\ j \in due'[w]
  BY DEF Examines
<1> USE DEF Checking
<1>2. CASE j # k
  <2>1. tick'[j] = tick[j]
    BY <1>2, OthersKeep
  <2>2. j \in due[w]
    BY <1>1, <1>2, DueStep
  <2> QED BY <1>1, <1>2, <2>1, <2>2 DEF Examines
<1>3. CASE j = k /\ Claim(k)
  <2>1. PICK v \in tick[k].todo : ClaimOf(k, v)
    BY <1>3 DEF Claim
  <2>2. tick[k].pc = "watch"
    BY <1>3 DEF Claim
  <2>3. HoldsSchedule(k, v) /\ v = w
    BY <1>0, <1>1, <1>3, <2>1, <2>2, ClaimAt
  <2>4. due' = [due EXCEPT ![w] = {k}] /\ degraded' = [degraded EXCEPT ![w] = FALSE]
    BY <2>1, <2>3 DEF ClaimOf
  <2> QED BY <1>3, <2>4 DEF TypeOK
<1>4. CASE j = k /\ (Search(k) \/ Fetch(k) \/ Ingest(k) \/ Degrade(k) \/ SourceFails(k))
  <2>1. tick[k].pc \in Checking
    BY <1>4 DEF Search, Fetch, Ingest, Degrade, SourceFails
  <2>2. due' = due
    BY <1>4 DEF Search, Fetch, Ingest, Degrade, SourceFails, watchVars
  <2>3. tick'[k].w = tick[k].w
    BY <1>0, <1>4, GotoAt, ObservedAt DEF Search, Fetch, Ingest, Degrade, SourceFails
  <2> QED BY <1>1, <1>4, <2>1, <2>2, <2>3 DEF Examines
<1>5. CASE /\ j = k
           /\ ~(Claim(k) \/ Search(k) \/ Fetch(k) \/ Ingest(k) \/ Degrade(k) \/ SourceFails(k))
  <2>1. CASE StartTick(k) \/ ListPending(k)
    BY <1>0, <1>1, <1>5, <2>1, StartTickAt, ListPendingAt
  <2>2. CASE FlushNext(k)
    BY <1>0, <1>1, <1>5, <2>2, FlushNextAt DEF Route
  <2>3. CASE EndTick(k) \/ Crash(k)
    BY <1>0, <1>1, <1>5, <2>3, LetGoAt DEF EndTick, Crash
  <2>4. CASE Publish(k) \/ Intent(k) \/ Send(k) \/ NotDelivered(k) \/ Mark(k) \/ RecordError(k)
    BY <1>0, <1>1, <1>5, <2>4, GotoAt, OnwardAt DEF Publish, Intent, Send, NotDelivered, Mark,
     RecordError
  <2>5. CASE Notify(k) \/ Receipt(k) \/ RecordSignal(k) \/ PutSignal(k)
    BY <1>0, <1>1, <1>5, <2>5, GotoAt, OnwardAt, AbandonAt DEF Notify, Receipt, RecordSignal,
     PutSignal, Route
  <2>6. CASE PublishFails(k) \/ SendUnknown(k) \/ SendRefused(k)
    BY <1>0, <1>1, <1>5, <2>6, GotoAt, AbandonAt DEF PublishFails, SendUnknown, SendRefused
  <2> QED BY <1>5, <2>1, <2>2, <2>3, <2>4, <2>5, <2>6 DEF Step, Fails
<1> QED BY <1>2, <1>3, <1>4, <1>5

\* Only a claim and the check's own failure write the error a watchpoint shows.
LEMMA DegradedStep ==
  ASSUME TypeOK, InHand, NEW k \in Tick, Step(k) \/ Fails(k), NEW w \in Watch
  PROVE  \/ degraded'[w] = degraded[w]
         \/ ~degraded'[w]
         \/ RecordError(k) /\ Examines(k, w) /\ w \in watches
<1>1. CASE RecordError(k)
  <2>1. tick[k].w \in Watch
    BY <1>1 DEF RecordError, InHand, HasInHand, Checking
  <2> QED BY <1>1, <2>1 DEF TypeOK, RecordError, HoldsSchedule, Examines, Checking
<1>2. CASE Claim(k)
  <2>1. PICK v \in tick[k].todo : ClaimOf(k, v)
    BY <1>2 DEF Claim
  <2> QED BY <2>1 DEF TypeOK, ClaimOf
<1> USE DEF watchVars
<1>3. CASE Step(k) /\ ~RecordError(k) /\ ~Claim(k)
  BY <1>3 DEF Step, StartTick, ListPending, FlushNext, Publish, Notify, Intent, Send, Receipt,
     NotDelivered,
     Mark, EndTick, Search, Fetch, Ingest, Degrade, RecordSignal, PutSignal
<1>4. CASE Fails(k)
  BY <1>4 DEF Fails, PublishFails, SendUnknown, SendRefused, SourceFails, Crash
<1> QED BY <1>1, <1>2, <1>3, <1>4

\* A claim leaves the tick as the only holder of the schedule it wrote.
LEMMA OneCheckNext == TypeOK /\ InHand /\ OneCheck /\ [Next]_vars => OneCheck'
<1> SUFFICES ASSUME TypeOK, InHand, OneCheck, [Next]_vars, NEW i \in Tick, NEW w \in Watch, Examines(i, w)'
             PROVE  ~degraded'[w] /\ \A j \in Tick : Examines(j, w)' => j = i
  BY DEF OneCheck
<1>1. CASE Outside
  BY <1>1, OutsideKeeps DEF OneCheck, Examines
<1>2. ASSUME NEW k \in Tick, Step(k) \/ Fails(k)
      PROVE  ~degraded'[w] /\ \A j \in Tick : Examines(j, w)' => j = i
  <2>1. CASE i = k /\ due'[w] = {k} /\ ~degraded'[w]
    BY <2>1 DEF Examines
  <2>2. CASE Examines(i, w)
    <3>1. ~degraded[w] /\ \A j \in Tick : Examines(j, w) => j = i
      BY <2>2 DEF OneCheck
    <3>2. ~degraded'[w]
      <4>1. CASE RecordError(k) /\ Examines(k, w)
        <5>1. k = i
          BY <3>1, <4>1
        <5>2. tick'[k].pc = "watch"
          BY <4>1, GotoAt, TypeParts DEF RecordError
        <5> QED BY <5>1, <5>2 DEF Examines, Checking
      <4> QED BY <1>2, <3>1, <4>1, DegradedStep
    <3>3. ASSUME NEW j \in Tick, Examines(j, w)' PROVE j = i
      <4>1. CASE Examines(j, w)
        BY <3>1, <4>1
      <4>2. CASE j = k /\ due'[w] = {k}
        BY <4>2 DEF Examines
      <4> QED BY <1>2, <3>3, <4>1, <4>2, ExaminesStep
    <3> QED BY <3>2, <3>3
  <2> QED BY <1>2, <2>1, <2>2, ExaminesStep
<1> QED BY <1>1, <1>2, NextParts

\* A check that ends without an error was not shown to have failed.
LEMMA FinishKeeps ==
  ASSUME TypeOK, OneCheck, ErrorIsTheLatestChecks, NEW k \in Tick, tick[k].pc \in Checking, tick[k].w \in Watch,
         NEW how, how # "failed", Finish(k, tick[k].w, how), UNCHANGED degraded, watches' \subseteq watches
  PROVE  ErrorIsTheLatestChecks'
<1> DEFINE v == tick[k].w
<1>1. CASE k \notin due[v]
  BY <1>1 DEF Finish, ErrorIsTheLatestChecks
<1>2. CASE k \in due[v]
  <2>1. ~degraded[v]
    BY <1>2 DEF OneCheck, Examines
  <2>2. outcome' = [outcome EXCEPT ![v] = how]
    BY <1>2 DEF Finish
  <2> QED BY <2>1, <2>2 DEF TypeOK, ErrorIsTheLatestChecks
<1> QED BY <1>1, <1>2

\* The error a watchpoint shows is that of the check that holds its schedule.
LEMMA ErrorNext ==
  TypeOK /\ InHand /\ OneCheck /\ ErrorIsTheLatestChecks /\ [Next]_vars => ErrorIsTheLatestChecks'
<1> SUFFICES ASSUME TypeOK, InHand, OneCheck, ErrorIsTheLatestChecks, [Next]_vars PROVE ErrorIsTheLatestChecks'
  OBVIOUS
<1>0. ASSUME UNCHANGED <<degraded, outcome>>, watches' \subseteq watches PROVE ErrorIsTheLatestChecks'
  BY <1>0 DEF ErrorIsTheLatestChecks
<1> USE DEF watchVars, history
<1>1. CASE Outside
  BY <1>0, <1>1 DEF Outside, SourceSays, ComesDue, CollectData, DeleteData, vars
<1>2. ASSUME NEW k \in Tick, Claim(k) PROVE ErrorIsTheLatestChecks'
  <2>1. PICK v \in tick[k].todo : ClaimOf(k, v)
    BY <1>2 DEF Claim
  <2>2. watches' = watches
    BY <1>2 DEF Claim
  <2>3. CASE HoldsSchedule(k, v)
    <3>1. degraded' = [degraded EXCEPT ![v] = FALSE] /\ outcome' = [outcome EXCEPT ![v] = None]
      BY <2>1, <2>3 DEF ClaimOf
    <3>2. None # "failed"
      BY DEF None
    <3> QED BY <2>2, <3>1, <3>2 DEF TypeOK, ErrorIsTheLatestChecks
  <2>4. CASE ~HoldsSchedule(k, v)
    BY <1>0, <2>1, <2>2, <2>4 DEF ClaimOf
  <2> QED BY <2>3, <2>4
<1>3. ASSUME NEW k \in Tick, Search(k) \/ Ingest(k) \/ RecordSignal(k) PROVE ErrorIsTheLatestChecks'
  <2>1. tick[k].pc \in Checking /\ tick[k].w \in Watch
    BY <1>3 DEF Search, Ingest, RecordSignal, InHand, HasInHand, Checking
  <2>2. UNCHANGED degraded /\ watches' = watches
    BY <1>3 DEF Search, Ingest, RecordSignal
  <2>3. UNCHANGED outcome \/ Finish(k, tick[k].w, "quiet") \/ Finish(k, tick[k].w, "signal")
    BY <1>3 DEF Search, Ingest, RecordSignal, Observed
  <2> QED BY <1>0, <2>1, <2>2, <2>3, FinishKeeps
<1>4. ASSUME NEW k \in Tick, RecordError(k) PROVE ErrorIsTheLatestChecks'
  <2> DEFINE v == tick[k].w
  <2>1. v \in Watch /\ watches' = watches
    BY <1>4 DEF RecordError, InHand, HasInHand, Checking
  <2>2. CASE HoldsSchedule(k, v)
    <3>1. degraded' = [degraded EXCEPT ![v] = TRUE] /\ outcome' = [outcome EXCEPT ![v] = "failed"]
      BY <1>4, <2>2 DEF RecordError, HoldsSchedule, Finish
    <3> QED BY <2>1, <3>1 DEF TypeOK, ErrorIsTheLatestChecks
  <2>3. CASE ~HoldsSchedule(k, v)
    BY <1>0, <1>4, <2>1, <2>3 DEF RecordError, HoldsSchedule, Finish
  <2> QED BY <2>2, <2>3
<1>5. ASSUME NEW k \in Tick, Step(k), ~Claim(k), ~Search(k), ~Ingest(k), ~RecordSignal(k), ~RecordError(k)
      PROVE  ErrorIsTheLatestChecks'
  BY <1>0, <1>5 DEF Step, StartTick, ListPending, FlushNext, Publish, Notify, Intent, Send, Receipt,
     NotDelivered, Mark, EndTick, Fetch, Degrade, PutSignal
<1>6. ASSUME NEW k \in Tick, Fails(k) PROVE ErrorIsTheLatestChecks'
  BY <1>0, <1>6 DEF Fails, PublishFails, SendUnknown, SendRefused, SourceFails, Crash
<1> QED BY <1>1, <1>2, <1>3, <1>4, <1>5, <1>6, NextParts

LEMMA ChecksInit == Init => Schedule /\ OneCheck /\ ErrorIsTheLatestChecks /\ RecoveryIsValidated
<1> SUFFICES ASSUME Init PROVE Schedule /\ OneCheck /\ ErrorIsTheLatestChecks /\ RecoveryIsValidated
  OBVIOUS
<1>1. \A k \in Tick : tick[k].pc \in {"idle", "off"}
  BY DEF Init, Idle, Off
<1>2. \A w \in Watch : due[w] = {} /\ ~degraded[w] /\ outcome[w] # "failed"
  BY DEF Init, None
<1>3. watches \subseteq Watch /\ topic = {} /\ inbox = {}
  BY DEF Init, DeliveryInit
<1> QED BY <1>1, <1>2, <1>3 DEF Schedule, HoldsSchedule, OneCheck, Examines, Checking,
     ErrorIsTheLatestChecks, RecoveryIsValidated

-----------------------------------------------------------------------------
(***************************************************************************)
(* The inductive invariant.  The properties alone are not inductive: that  *)
(* a fact told or marked was recorded and heard of depends on where every  *)
(* worker is (InHand, ReportsSound), and that an error is the latest       *)
(* check's on there being one check that holds the schedule (OneCheck).    *)
(***************************************************************************)
Inv ==
    /\ TypeOK /\ InHand /\ ReportsSound /\ Schedule /\ OneCheck
    /\ ErrorIsTheLatestChecks /\ RecoveryIsValidated

\* Every reachable state of the ticks, the documents and the messages satisfies
\* the inductive invariant.
THEOREM Invariance == Spec => []Inv
<1>1. Init => Inv
  BY TypeInit, InHandInit, ChecksInit DEF Inv
<1>2. Inv /\ [Next]_vars => Inv'
  BY TypeNext, InHandNext, ReportsNext, ScheduleNext, OneCheckNext, ErrorNext,
     ValidatedNext DEF Inv
<1> QED BY <1>1, <1>2, PTL DEF Spec

\* Documents, messages and the records of the ticks keep their types.
THEOREM TypeCorrect == Spec => []TypeOK
<1>1. Inv => TypeOK
  BY DEF Inv
<1> QED BY <1>1, Invariance, PTL

\* last_error_code: a watchpoint shows an error exactly when the check that holds
\* its schedule failed, whatever overtaken checks still do.
THEOREM ErrorsAreCurrent == Spec => []ErrorIsTheLatestChecks
<1>1. Inv => ErrorIsTheLatestChecks
  BY DEF Inv
<1> QED BY <1>1, Invariance, PTL

\* to_disruption: the recovery topic gets only facts the validator accepts, and
\* the traveler's chat only the others.
THEOREM RecoveriesAreValidated == Spec => []RecoveryIsValidated
<1>1. Inv => RecoveryIsValidated
  BY DEF Inv
<1> QED BY <1>1, Invariance, PTL

\* reschedule_watchpoint: every call of a source uses up a due time that had
\* come, so overlapping ticks never check a watchpoint twice for one.
THEOREM ChecksUseDueTimes == Spec => ACheckPerDueTime
<1>1. Inv /\ [Next]_vars => [\A k \in Tick, w \in Watch :
        (tick[k].pc = "watch" /\ tick'[k].pc \in {"observe", "error"} /\ tick'[k].w = w) => IsReady(w)]_vars
  BY DueTimeStep DEF Inv
<1> QED BY <1>1, Invariance, PTL DEF Spec, ACheckPerDueTime

-----------------------------------------------------------------------------
(***************************************************************************)
(* The refinement: a put is a Record, a publication or a message shown a   *)
(* Tell, a mark of a stored fact a Handle, the deletion a Leave, and every *)
(* other step changes nothing FactReporting speaks of.                     *)
(***************************************************************************)
LEMMA ReportingInit == Init => Reporting!Init
  BY DEF Init, DeliveryInit, Reporting!Init

LEMMA ReportingStep == Inv /\ [Next]_vars => [Reporting!Next]_(Reporting!vars)
<1> SUFFICES ASSUME Inv, [Next]_vars PROVE Reporting!Next \/ UNCHANGED Reporting!vars
  OBVIOUS
<1> USE DEF Reporting!vars, envVars, factVars, deliveryVars, history
<1>0. TypeOK /\ InHand /\ ReportsSound
  BY DEF Inv
<1>1. CASE Outside
  <2>1. CASE trip' = trip
    BY <1>1, <2>1, OutsideKeeps
  <2>2. CASE trip' = FALSE
    BY <1>1, <2>2, OutsideKeeps DEF Reporting!Next, Reporting!Leave
  <2> QED BY <1>1, <2>1, <2>2, OutsideKeeps
<1>2. ASSUME NEW k \in Tick, PutSignal(k) PROVE Reporting!Next
  <2>1. tick[k].fact \in Fact
    BY <1>0, <1>2 DEF PutSignal, InHand, HasInHand
  <2>2. Reporting!Record(tick[k].fact)
    BY <1>2 DEF PutSignal, Reporting!Record
  <2> QED BY <2>1, <2>2 DEF Reporting!Next
<1>3. ASSUME NEW k \in Tick, Publish(k) \/ Send(k) \/ SendUnknown(k)
      PROVE  Reporting!Next \/ UNCHANGED Reporting!vars
  <2>1. tick[k].fact \in Fact /\ tick[k].fact \in recorded
    BY <1>0, <1>3 DEF Publish, Send, SendUnknown, InHand, HasInHand, ReportsSound, Reports, Telling
  <2>2. Reporting!Tell(tick[k].fact) \/ UNCHANGED Reporting!vars
    BY <1>3, <2>1 DEF Publish, Send, SendUnknown, Shown, Reporting!Tell
  <2> QED BY <2>1, <2>2 DEF Reporting!Next
<1>4. ASSUME NEW k \in Tick, Mark(k) PROVE Reporting!Next \/ UNCHANGED Reporting!vars
  <2> DEFINE f == tick[k].fact
  <2>1. f \in Fact /\ f \in recorded /\ (f \in topic \union inbox \/ ~trip)
    BY <1>0, <1>4 DEF Mark, InHand, HasInHand, ReportsSound, Reports, Telling
  <2>2. CASE f \in Unpublished
    <3>1. Reporting!Handle(f)
      BY <1>4, <2>1, <2>2 DEF Mark, Reporting!Handle
    <3> QED BY <2>1, <3>1 DEF Reporting!Next
  <2>3. CASE f \notin Unpublished
    BY <1>4, <2>3 DEF Mark
  <2> QED BY <2>2, <2>3
<1>5. ASSUME NEW k \in Tick, Step(k), ~PutSignal(k), ~Publish(k), ~Send(k), ~Mark(k)
      PROVE  UNCHANGED Reporting!vars
  BY <1>5 DEF Step, StartTick, ListPending, FlushNext, Notify, Intent, Receipt, NotDelivered,
     Claim, EndTick, Search, Fetch, Ingest, Degrade, RecordError, RecordSignal
<1>6. ASSUME NEW k \in Tick, Fails(k), ~SendUnknown(k) PROVE UNCHANGED Reporting!vars
  BY <1>6 DEF Fails, PublishFails, SendRefused, SourceFails, Crash
<1> QED BY <1>1, <1>2, <1>3, <1>4, <1>5, <1>6, NextParts

\* Trip Watch keeps the promise of FactReporting: a fact is recorded before it is
\* told, and marked only after it was told or once the traveler's data is gone.
THEOREM ReportingRefined == Spec => ReportingIsRefined
<1>1. Inv /\ [Next]_vars => [Reporting!Next]_(Reporting!vars)
  BY ReportingStep
<1> QED BY <1>1, ReportingInit, Invariance, PTL DEF Spec, ReportingIsRefined, Reporting!Spec
=============================================================================
