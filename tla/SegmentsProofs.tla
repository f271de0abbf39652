--------------------------- MODULE SegmentsProofs ---------------------------
(***************************************************************************)
(* Facts about the operators of Segments and about the lists of segments   *)
(* the index store builds with them, for every set of ids and values.      *)
(***************************************************************************)
EXTENDS IndexStoreInv, WellFoundedInduction, TLAPS

(* Lists: their elements, joining them, cutting a range out of one.        *)
LEMMA ListElements ==
    ASSUME NEW S, NEW s \in Seq(S)
    PROVE  /\ Len(s) \in Nat /\ DOMAIN s = 1..Len(s) /\ s \in [1..Len(s) -> S]
           /\ \A i \in 1..Len(s) : s[i] \in S
BY SMT

LEMMA ListEqual ==
    ASSUME NEW S, NEW s \in Seq(S), NEW t \in Seq(S), Len(s) = Len(t),
           \A i \in 1..Len(s) : s[i] = t[i]
    PROVE  s = t
BY SMT

LEMMA ListConcat ==
    ASSUME NEW S, NEW s \in Seq(S), NEW t \in Seq(S)
    PROVE  /\ s \o t \in Seq(S) /\ Len(s \o t) = Len(s) + Len(t)
           /\ \A i \in 1..(Len(s) + Len(t)) :
                 (s \o t)[i] = IF i <= Len(s) THEN s[i] ELSE t[i - Len(s)]
BY SMT

LEMMA ListAppend ==
    ASSUME NEW S, NEW s \in Seq(S), NEW d \in S
    PROVE  /\ Append(s, d) \in Seq(S) /\ Len(Append(s, d)) = Len(s) + 1
           /\ \A i \in 1..Len(s) : Append(s, d)[i] = s[i]
           /\ Append(s, d)[Len(s) + 1] = d
BY SMT

LEMMA ListRange ==
    ASSUME NEW S, NEW s, NEW a \in Int, NEW b \in Int, \A i \in a..b : s[i] \in S
    PROVE  /\ SubSeq(s, a, b) \in Seq(S)
           /\ Len(SubSeq(s, a, b)) = IF a <= b THEN b - a + 1 ELSE 0
           /\ \A i \in 1..(b - a + 1) : SubSeq(s, a, b)[i] = s[a + i - 1]
BY SMT

(* Finite sets: one element, one more, a part, two together.               *)
LEMMA FiniteAdd ==
    ASSUME NEW S, IsFiniteSet(S), NEW x
    PROVE  IsFiniteSet(S \cup {x})
<1>1. PICK q \in Seq(S) : \A s \in S : \E n \in 1..Len(q) : q[n] = s
    BY DEF IsFiniteSet
<1>2. Append(q, x) \in Seq(S \cup {x})
    BY SMT
<1>3. \A s \in S \cup {x} : \E n \in 1..Len(Append(q, x)) : Append(q, x)[n] = s
    BY <1>1, SMT
<1> QED
    BY <1>2, <1>3, Zenon DEF IsFiniteSet

LEMMA FiniteSingle ==
    ASSUME NEW x
    PROVE  IsFiniteSet({x})
<1>1. <<x>> \in Seq({x}) /\ \A s \in {x} : \E n \in 1..Len(<<x>>) : <<x>>[n] = s
    BY SMT
<1> QED
    BY <1>1, Zenon DEF IsFiniteSet

LEMMA FiniteSubset ==
    ASSUME NEW S, IsFiniteSet(S), NEW T \in SUBSET S
    PROVE  IsFiniteSet(T)
<1>1. PICK q \in Seq(S) : \A s \in S : \E n \in 1..Len(q) : q[n] = s
    BY DEF IsFiniteSet
<1>2. CASE T = {}
    <2>1. <<>> \in Seq(T)
        BY SMT
    <2> QED
        BY <1>2, <2>1, Zenon DEF IsFiniteSet
<1>3. ASSUME NEW d \in T
      PROVE  IsFiniteSet(T)
    <2> DEFINE r == [n \in 1..Len(q) |-> IF q[n] \in T THEN q[n] ELSE d]
    <2>1. Len(q) \in Nat
        BY SMT
    <2>2. r \in [1..Len(q) -> T]
        BY Zenon
    <2>3. r \in Seq(T) /\ Len(r) = Len(q)
        BY <2>1, <2>2, SMT
    <2>4. ASSUME NEW s \in T
          PROVE  \E n \in 1..Len(r) : r[n] = s
        <3>1. PICK n \in 1..Len(q) : q[n] = s
            BY <1>1, Zenon
        <3>2. r[n] = s
            BY <3>1, Zenon
        <3> QED
            BY <2>3, <3>2, Zenon
    <2> QED
        BY <2>3, <2>4, Zenon DEF IsFiniteSet
<1> QED
    BY <1>2, <1>3

LEMMA FiniteUnion ==
    ASSUME NEW S, IsFiniteSet(S), NEW T, IsFiniteSet(T)
    PROVE  IsFiniteSet(S \cup T)
<1>1. PICK q \in Seq(S) : \A s \in S : \E n \in 1..Len(q) : q[n] = s
    BY DEF IsFiniteSet
<1>2. PICK r \in Seq(T) : \A s \in T : \E n \in 1..Len(r) : r[n] = s
    BY DEF IsFiniteSet
<1>3. q \in Seq(S \cup T) /\ r \in Seq(S \cup T)
    BY SMT
<1>4. q \o r \in Seq(S \cup T)
    BY <1>3, SMT
<1>5. ASSUME NEW s \in S
      PROVE  \E n \in 1..Len(q \o r) : (q \o r)[n] = s
    BY <1>1, <1>3, SMT
<1>6. ASSUME NEW s \in T
      PROVE  \E n \in 1..Len(q \o r) : (q \o r)[n] = s
    <2>1. PICK n \in 1..Len(r) : r[n] = s
        BY <1>2
    <2>2. Len(q) + n \in 1..Len(q \o r) /\ (q \o r)[Len(q) + n] = s
        BY <2>1, <1>3, SMT
    <2> QED
        BY <2>2
<1> QED
    BY <1>4, <1>5, <1>6, Zenon DEF IsFiniteSet

(* A nonempty set of positions of a list has a last one: the CHOOSE of     *)
(* LastTouch always finds it.                                              *)
LEMMA LastPosition ==
    ASSUME NEW n \in Nat, NEW S \in SUBSET (1..n), S # {}
    PROVE  \E i \in S : \A j \in S : j <= i
<1> DEFINE T == {n - i : i \in S}
<1>1. T \subseteq Nat /\ T # {}
    <2>1. \A i \in S : i \in 1..n
        OBVIOUS
    <2>2. \A i \in S : n - i \in Nat
        BY <2>1
    <2> QED
        BY <2>2, Zenon
<1>2. PICK x \in T : \A y \in T : ~ (<<y, x>> \in OpToRel(<, Nat))
    BY <1>1, NatLessThanWellFounded, WFMin, Zenon
<1>3. PICK i \in S : x = n - i
    OBVIOUS
<1>4. ASSUME NEW j \in S, ~ (j <= i)
      PROVE  FALSE
    <2>1. n - j \in T /\ n - j \in Nat /\ x \in Nat
        BY <1>1
    <2>2. n - j < x
        BY <1>3, <1>4
    <2>3. <<n - j, x>> \in OpToRel(<, Nat)
        BY <2>1, <2>2 DEF OpToRel
    <2> QED
        BY <1>2, <2>1, <2>3, Zenon
<1> QED
    BY <1>4

(* SegSet of the list operations the index is built with.                  *)
LEMMA ConcatFacts ==
    ASSUME NEW S, NEW s \in Seq(S), NEW t \in Seq(S)
    PROVE  SegSet(s \o t) = SegSet(s) \cup SegSet(t)
<1>1. SegSet(s \o t) \subseteq SegSet(s) \cup SegSet(t)
    BY ListConcat DEF SegSet
<1>2. SegSet(s) \subseteq SegSet(s \o t)
    BY ListConcat DEF SegSet
<1>3. SegSet(t) \subseteq SegSet(s \o t)
    <2> SUFFICES ASSUME NEW i \in 1..Len(t)
                 PROVE  t[i] \in SegSet(s \o t)
        BY DEF SegSet
    <2>1. /\ Len(s) + i \in 1..Len(s \o t)
          /\ (s \o t)[Len(s) + i] = t[i]
        BY ListConcat
    <2> QED
        BY <2>1 DEF SegSet
<1> QED
    BY <1>1, <1>2, <1>3

LEMMA SegSetFacts ==
    ASSUME NEW S, NEW s \in Seq(S), NEW d \in S
    PROVE  /\ SegSet(s) \subseteq S
           /\ SegSet(Append(s, d)) = SegSet(s) \cup {d}
           /\ SegSet(<<>>) = {}
BY ListAppend DEF SegSet

LEMMA SubSeqFacts ==
    ASSUME NEW S, NEW s \in Seq(S), NEW m \in Nat, NEW n \in Nat, m + n <= Len(s)
    PROVE  /\ SubSeq(s, m + 1, m + n) \in Seq(S)
           /\ Len(SubSeq(s, m + 1, m + n)) = n
           /\ \A i \in 1..n : SubSeq(s, m + 1, m + n)[i] = s[m + i]
<1>1. \A i \in (m + 1)..(m + n) : s[i] \in S
    BY ListElements
<1>2. m + 1 \in Int /\ m + n \in Int
    OBVIOUS
<1> DEFINE a == m + 1
           b == m + n
<1>3. /\ SubSeq(s, a, b) \in Seq(S)
      /\ Len(SubSeq(s, a, b)) = IF a <= b THEN b - a + 1 ELSE 0
      /\ \A i \in 1..(b - a + 1) : SubSeq(s, a, b)[i] = s[a + i - 1]
    <2> HIDE DEF a, b
    <2> QED
        BY <1>1, <1>2, ListRange DEF a, b
<1>4. b - a + 1 = n /\ (\A i \in 1..n : a + i - 1 = m + i)
    OBVIOUS
<1> QED
    BY <1>3, <1>4

(* The latest event of an id is an event; so are the events a compaction   *)
(* collects.                                                               *)
LEMMA LatestType ==
    ASSUME NEW segs \in Seq(Descriptor), NEW id \in Ids
    PROVE  Latest(segs, id) \in Event /\ Visible(segs, id) \in Event
<1> DEFINE at == {i \in 1..Len(segs) : segs[i].ev[id] # NoEvent}
<1>1. CASE at = {}
    BY <1>1 DEF Latest, LastTouch, Visible, Event
<1>2. CASE at # {}
    <2>1. \E i \in at : \A j \in at : j <= i
        BY <1>2, LastPosition, ListElements, Zenon
    <2>2. LastTouch(segs, id) \in at
        BY <1>2, <2>1, Zenon DEF LastTouch
    <2>3. segs[LastTouch(segs, id)] \in Descriptor
        BY <2>2
    <2>4. segs[LastTouch(segs, id)].ev[id] \in Event
        BY <2>3 DEF Descriptor, Events
    <2> QED
        BY <2>2, <2>4 DEF Latest, Visible, Event
<1> QED
    BY <1>1, <1>2

LEMMA CollectRangeType ==
    ASSUME NEW segs \in Seq(Descriptor), NEW drop \in BOOLEAN
    PROVE  CollectRange(segs, drop) \in Events
BY LatestType DEF CollectRange, Events

LEMMA SliceType ==
    ASSUME NEW ev \in Events, NEW S
    PROVE  Slice(ev, S) \in Events
BY DEF Slice, Events, Event

(* The planner's slices are segments' worth of events.                     *)
LEMMA PlansType ==
    ASSUME NEW ev \in Events, NEW max \in Nat, NEW p \in Plans(ev, max)
    PROVE  p \in Seq(Events)
<1>1. CASE Touched(ev) = {}
    <2>1. EmptyEvents \in Events
        BY DEF EmptyEvents, Events, Event
    <2>2. p = <<EmptyEvents>>
        BY <1>1 DEF Plans
    <2> QED
        BY <2>1, <2>2
<1>2. CASE Touched(ev) # {}
    <2>1. PICK n \in 1..max : \E c \in [Touched(ev) -> 1..n] :
              p = [k \in 1..n |-> Slice(ev, {id \in Touched(ev) : c[id] = k})]
        BY <1>2 DEF Plans
    <2>c. PICK c \in [Touched(ev) -> 1..n] :
              p = [k \in 1..n |-> Slice(ev, {id \in Touched(ev) : c[id] = k})]
        BY <2>1
    <2> DEFINE sl(k) == Slice(ev, {id \in Touched(ev) : c[id] = k})
    <2>2. \A k \in 1..n : sl(k) \in Events
        BY SliceType
    <2> HIDE DEF sl
    <2>3. [k \in 1..n |-> sl(k)] \in Seq(Events)
        BY <2>2
    <2> QED
        BY <2>c, <2>3 DEF sl
<1> QED
    BY <1>1, <1>2

LEMMA BisectionsType ==
    ASSUME NEW slices \in Seq(Events), NEW k \in 1..Len(slices),
           NEW p \in Bisections(slices, k)
    PROVE  p \in Seq(Events)
<1>1. PICK left : p = SubSeq(slices, 1, k - 1)
                        \o <<Slice(slices[k], left), Slice(slices[k], Touched(slices[k]) \ left)>>
                        \o SubSeq(slices, k + 1, Len(slices))
    BY Zenon DEF Bisections
<1>2. slices[k] \in Events
    OBVIOUS
<1>3. <<Slice(slices[k], left), Slice(slices[k], Touched(slices[k]) \ left)>> \in Seq(Events)
    BY <1>2, SliceType
<1>4. SubSeq(slices, 1, k - 1) \in Seq(Events) /\ SubSeq(slices, k + 1, Len(slices)) \in Seq(Events)
    BY ListRange
<1> QED
    BY <1>1, <1>3, <1>4, ListConcat

(* mkdtemp finds a name, and it is no directory's name.                    *)
LEMMA FreshSuffixFacts ==
    ASSUME NEW D, NEW kind \in Kinds, NEW gen \in Nat,
           NEW n \in FreshSuffixes(D, kind, gen), NEW ev \in Events
    PROVE  /\ Segment(kind, gen, n, ev) \in Descriptor
           /\ SegmentName(Segment(kind, gen, n, ev)) \notin Names(D)
           /\ Segment(kind, gen, n, ev) \notin D
<1>1. n \in Nat
    BY SMT DEF FreshSuffixes
<1>2. SegmentName(Segment(kind, gen, n, ev)) = <<kind, gen, n>>
    BY DEF SegmentName, Segment
<1>3. <<kind, gen, n>> \notin Names(D)
    BY DEF FreshSuffixes
<1> QED
    BY <1>1, <1>2, <1>3 DEF Segment, Descriptor, Names

-----------------------------------------------------------------------------
(* What a list of segments says of an id, without the CHOOSE of LastTouch: *)
(* e is the event of the last segment that has one.                        *)
Says(segs, id, e) ==
    \/ e = NoEvent /\ \A i \in 1..Len(segs) : segs[i].ev[id] = NoEvent
    \/ /\ e # NoEvent
       /\ \E i \in 1..Len(segs) :
             /\ segs[i].ev[id] = e
             /\ \A j \in 1..Len(segs) : j > i => segs[j].ev[id] = NoEvent

LEMMA LatestSays ==
    ASSUME NEW segs \in Seq(Descriptor), NEW id \in Ids
    PROVE  \A e : Says(segs, id, e) <=> Latest(segs, id) = e
<1> DEFINE at == {i \in 1..Len(segs) : segs[i].ev[id] # NoEvent}
<1>0. Len(segs) \in Nat
    OBVIOUS
<1>1. CASE at = {}
    <2>1. Latest(segs, id) = NoEvent
        BY <1>1 DEF Latest, LastTouch
    <2>2. \A i \in 1..Len(segs) : segs[i].ev[id] = NoEvent
        BY <1>1
    <2> QED
        BY <2>1, <2>2, Zenon DEF Says
<1>2. CASE at # {}
    <2> DEFINE m == LastTouch(segs, id)
    <2>1. \E i \in at : \A j \in at : j <= i
        BY <1>2, LastPosition, ListElements, Zenon
    <2>2. m \in at /\ \A j \in at : j <= m
        BY <1>2, <2>1, Zenon DEF LastTouch
    <2> HIDE DEF m
    <2>3. m \in 1..Len(segs) /\ segs[m].ev[id] # NoEvent /\ m # 0
        BY <2>2
    <2>4. Latest(segs, id) = segs[m].ev[id]
        BY <2>3, Zenon DEF Latest, m
    <2>5. \A j \in 1..Len(segs) : j > m => segs[j].ev[id] = NoEvent
        BY <1>0, <2>2, <2>3
    <2>6. ASSUME NEW e, Says(segs, id, e)
          PROVE  e = segs[m].ev[id]
        <3>1. PICK i \in 1..Len(segs) :
                 /\ segs[i].ev[id] = e /\ e # NoEvent
                 /\ \A j \in 1..Len(segs) : j > i => segs[j].ev[id] = NoEvent
            BY <2>3, <2>6, Zenon DEF Says
        <3>2. i = m
            BY <1>0, <2>3, <2>5, <3>1
        <3> QED
            BY <3>1, <3>2, Zenon
    <2>7. Says(segs, id, segs[m].ev[id])
        BY <2>3, <2>5, Zenon DEF Says
    <2> QED
        BY <2>4, <2>6, <2>7, Zenon
<1> QED
    BY <1>1, <1>2, Zenon

LEMMA ConcatIndex ==
    ASSUME NEW S, NEW s \in Seq(S), NEW t \in Seq(S)
    PROVE  /\ s \o t \in Seq(S) /\ Len(s \o t) = Len(s) + Len(t)
           /\ \A i \in 1..Len(s) : (s \o t)[i] = s[i]
           /\ \A i \in 1..Len(t) : (s \o t)[Len(s) + i] = t[i]
BY ListConcat, ListElements

(* The later of two lists decides, where it says anything.                 *)
LEMMA LatestConcat ==
    ASSUME NEW segs \in Seq(Descriptor), NEW new \in Seq(Descriptor), NEW id \in Ids
    PROVE  Latest(segs \o new, id) =
             IF Latest(new, id) = NoEvent THEN Latest(segs, id) ELSE Latest(new, id)
<1> DEFINE all == segs \o new
           m   == Len(segs)
           n   == Len(new)
<1>1. /\ m \in Nat /\ n \in Nat /\ Len(all) = m + n
      /\ \A i \in 1..m : all[i] = segs[i]
      /\ \A i \in 1..n : all[m + i] = new[i]
    BY ListConcat, ListElements
<1>t. all \in Seq(Descriptor)
    BY ListConcat
<1>2. Says(segs, id, Latest(segs, id)) /\ Says(new, id, Latest(new, id))
    BY LatestSays, Zenon
<1> HIDE DEF all
<1>3. \A k \in 1..(m + n) : \/ k \in 1..m /\ ~(k > m) /\ all[k] = segs[k]
                            \/ k - m \in 1..n /\ all[k] = new[k - m]
    <2> SUFFICES ASSUME NEW k \in 1..(m + n)
                 PROVE  \/ k \in 1..m /\ ~(k > m) /\ all[k] = segs[k]
                        \/ k - m \in 1..n /\ all[k] = new[k - m]
        OBVIOUS
    <2>1. CASE k > m
        <3>1. k - m \in 1..n /\ m + (k - m) = k
            BY <1>1, <2>1
        <3> QED
            BY <1>1, <3>1, Zenon
    <2>2. CASE ~(k > m)
        <3>1. k \in 1..m
            BY <1>1, <2>2
        <3> QED
            BY <1>1, <2>2, <3>1, Zenon
    <2> QED
        BY <2>1, <2>2, Zenon
<1>4. CASE Latest(new, id) = NoEvent
    <2>1. \A i \in 1..n : new[i].ev[id] = NoEvent
        BY <1>2, <1>4, Zenon DEF Says
    <2>2. \A k \in 1..(m + n) : k > m => all[k].ev[id] = NoEvent
        BY <1>3, <2>1, Zenon
    <2>3. CASE Latest(segs, id) = NoEvent
        <3>1. \A i \in 1..m : segs[i].ev[id] = NoEvent
            BY <1>2, <2>3, Zenon DEF Says
        <3>2. \A k \in 1..(m + n) : all[k].ev[id] = NoEvent
            BY <1>3, <2>1, <3>1, Zenon
        <3>3. Says(all, id, NoEvent)
            BY <1>1, <3>2, Zenon DEF Says
        <3> QED
            BY <1>t, <1>4, <2>3, <3>3, LatestSays, Zenon DEF all
    <2>4. CASE Latest(segs, id) # NoEvent
        <3>1. PICK i \in 1..m : /\ segs[i].ev[id] = Latest(segs, id)
                                /\ \A j \in 1..m : j > i => segs[j].ev[id] = NoEvent
            BY <1>2, <2>4, Zenon DEF Says
        <3>2. i \in 1..(m + n) /\ all[i].ev[id] = Latest(segs, id)
            BY <1>1, <3>1
        <3>3. \A k \in 1..(m + n) : k > i => all[k].ev[id] = NoEvent
            BY <1>1, <1>3, <2>1, <3>1
        <3>4. Says(all, id, Latest(segs, id))
            BY <1>1, <2>4, <3>2, <3>3, Zenon DEF Says
        <3> QED
            BY <1>t, <1>4, <3>4, LatestSays, Zenon DEF all
    <2> QED
        BY <2>3, <2>4, Zenon
<1>5. CASE Latest(new, id) # NoEvent
    <2>1. PICK i \in 1..n : /\ new[i].ev[id] = Latest(new, id)
                            /\ \A j \in 1..n : j > i => new[j].ev[id] = NoEvent
        BY <1>2, <1>5, Zenon DEF Says
    <2>2. m + i \in 1..(m + n) /\ all[m + i].ev[id] = Latest(new, id)
        BY <1>1, <2>1
    <2>3. \A k \in 1..(m + n) : k > m + i => all[k].ev[id] = NoEvent
        BY <1>1, <1>3, <2>1
    <2>4. Says(all, id, Latest(new, id))
        BY <1>1, <1>5, <2>2, <2>3, Zenon DEF Says
    <2> QED
        BY <1>t, <1>5, <2>4, LatestSays, Zenon DEF all
<1> QED
    BY <1>4, <1>5, Zenon

(* A plan covers a batch of events when its slices hold nothing else and   *)
(* leave nothing out.                                                      *)
Covers(slices, ev) ==
    \A id \in Ids :
        /\ \A k \in 1..Len(slices) : slices[k][id] \in {NoEvent, ev[id]}
        /\ ev[id] # NoEvent => \E k \in 1..Len(slices) : slices[k][id] = ev[id]

LEMMA PlansCover ==
    ASSUME NEW ev \in Events, NEW max \in Nat, NEW p \in Plans(ev, max)
    PROVE  Covers(p, ev)
<1>1. CASE Touched(ev) = {}
    <2>1. p = <<EmptyEvents>>
        BY <1>1 DEF Plans
    <2>2. \A id \in Ids : ev[id] = NoEvent /\ EmptyEvents[id] = NoEvent
        BY <1>1 DEF Touched, EmptyEvents
    <2> QED
        BY <2>1, <2>2 DEF Covers
<1>2. CASE Touched(ev) # {}
    <2>1. PICK n \in 1..max : \E c \in [Touched(ev) -> 1..n] :
              p = [k \in 1..n |-> Slice(ev, {id \in Touched(ev) : c[id] = k})]
        BY <1>2 DEF Plans
    <2>2. PICK c \in [Touched(ev) -> 1..n] :
              p = [k \in 1..n |-> Slice(ev, {id \in Touched(ev) : c[id] = k})]
        BY <2>1
    <2> DEFINE sl(k) == Slice(ev, {id \in Touched(ev) : c[id] = k})
    <2>3. \A id \in Ids, k \in 1..n :
             sl(k)[id] = IF id \in Touched(ev) /\ c[id] = k THEN ev[id] ELSE NoEvent
        BY DEF Slice
    <2>4. \A k \in 1..n : p[k] = sl(k)
        BY <2>2, Zenon
    <2>5. Len(p) = n
        BY <2>2
    <2> HIDE DEF sl
    <2>6. ASSUME NEW id \in Ids
          PROVE  /\ \A k \in 1..n : p[k][id] \in {NoEvent, ev[id]}
                 /\ ev[id] # NoEvent => \E k \in 1..n : p[k][id] = ev[id]
        <3>1. \A k \in 1..n : p[k][id] = IF id \in Touched(ev) /\ c[id] = k THEN ev[id] ELSE NoEvent
            <4> TAKE k \in 1..n
            <4>1. p[k] = sl(k)
                BY <2>4, Zenon
            <4>2. sl(k)[id] = IF id \in Touched(ev) /\ c[id] = k THEN ev[id] ELSE NoEvent
                BY <2>3, Zenon
            <4> QED
                BY <4>1, <4>2, Zenon
        <3>2. ev[id] # NoEvent => id \in Touched(ev) /\ c[id] \in 1..n
            BY Zenon DEF Touched
        <3>3. \A k \in 1..n : p[k][id] \in {NoEvent, ev[id]}
            BY <3>1, Zenon
        <3> QED
            BY <3>1, <3>2, <3>3, Zenon
    <2> QED
        BY <2>5, <2>6, Zenon DEF Covers
<1> QED
    BY <1>1, <1>2

LEMMA BisectionsCover ==
    ASSUME NEW slices \in Seq(Events), NEW k \in 1..Len(slices),
           NEW p \in Bisections(slices, k), NEW ev, Covers(slices, ev)
    PROVE  Covers(p, ev)
<1>1. PICK left : p = SubSeq(slices, 1, k - 1)
                        \o <<Slice(slices[k], left), Slice(slices[k], Touched(slices[k]) \ left)>>
                        \o SubSeq(slices, k + 1, Len(slices))
    BY Zenon DEF Bisections
<1> DEFINE a == SubSeq(slices, 1, k - 1)
           l == Slice(slices[k], left)
           r == Slice(slices[k], Touched(slices[k]) \ left)
           c == SubSeq(slices, k + 1, Len(slices))
           n == Len(slices)
<1>2. /\ l \in Events /\ r \in Events
      /\ \A id \in Ids : /\ l[id] \in {NoEvent, slices[k][id]}
                         /\ r[id] \in {NoEvent, slices[k][id]}
                         /\ l[id] = slices[k][id] \/ r[id] = slices[k][id]
    <2>1. slices[k] \in Events
        OBVIOUS
    <2> QED
        BY <2>1, SliceType, Zenon DEF Slice, Touched, Events
<1>n. n \in Nat /\ k \in 1..n
    OBVIOUS
<1>3. /\ a \in Seq(Events) /\ Len(a) = k - 1 /\ \A i \in 1..(k - 1) : a[i] = slices[i]
      /\ c \in Seq(Events) /\ Len(c) = n - k /\ \A i \in 1..(n - k) : c[i] = slices[k + i]
    <2>1. /\ k - 1 \in Nat /\ 0 \in Nat /\ 0 + (k - 1) <= n /\ n - k \in Nat /\ k \in Nat
          /\ k + (n - k) <= n /\ 0 + (k - 1) = k - 1 /\ 0 + 1 = 1 /\ k + (n - k) = n
        BY <1>n
    <2>2. \A i \in 1..(k - 1) : 0 + i = i
        BY <2>1
    <2>3. /\ SubSeq(slices, 0 + 1, 0 + (k - 1)) \in Seq(Events)
          /\ Len(SubSeq(slices, 0 + 1, 0 + (k - 1))) = k - 1
          /\ \A i \in 1..(k - 1) : SubSeq(slices, 0 + 1, 0 + (k - 1))[i] = slices[0 + i]
        BY <2>1, SubSeqFacts
    <2>4. /\ SubSeq(slices, k + 1, k + (n - k)) \in Seq(Events)
          /\ Len(SubSeq(slices, k + 1, k + (n - k))) = n - k
          /\ \A i \in 1..(n - k) : SubSeq(slices, k + 1, k + (n - k))[i] = slices[k + i]
        <3> DEFINE q == n - k
        <3>1. q \in Nat /\ k \in Nat /\ k + q <= n
            BY <2>1, Zenon
        <3> HIDE DEF q
        <3>2. /\ SubSeq(slices, k + 1, k + q) \in Seq(Events)
              /\ Len(SubSeq(slices, k + 1, k + q)) = q
              /\ \A i \in 1..q : SubSeq(slices, k + 1, k + q)[i] = slices[k + i]
            BY <3>1, SubSeqFacts, Zenon
        <3> QED
            BY <3>2, Zenon DEF q
    <2> QED
        BY <2>1, <2>2, <2>3, <2>4, Zenon
<1> HIDE DEF a, l, r, c, n
<1>c. \A s, t \in Seq(Events) :
          /\ s \o t \in Seq(Events) /\ Len(s \o t) = Len(s) + Len(t)
          /\ \A i \in 1..Len(s) : (s \o t)[i] = s[i]
          /\ \A i \in 1..Len(t) : (s \o t)[Len(s) + i] = t[i]
    <2> TAKE s, t \in Seq(Events)
    <2> QED
        BY ConcatIndex
<1>4. p = (a \o <<l, r>>) \o c
    BY <1>1, Zenon DEF a, l, r, c, n
<1>5. /\ Len(p) = n + 1
      /\ \A i \in 1..(k - 1) : p[i] = slices[i]
      /\ p[k] = l /\ p[k + 1] = r
      /\ \A i \in (k + 1)..n : p[i + 1] = slices[i]
    <2> DEFINE b == a \o <<l, r>>
    <2>1. /\ b \in Seq(Events) /\ Len(b) = k + 1
          /\ \A i \in 1..(k - 1) : b[i] = slices[i]
          /\ b[k] = l /\ b[k + 1] = r
        <3>1. /\ <<l, r>> \in Seq(Events) /\ Len(<<l, r>>) = 2
              /\ <<l, r>>[1] = l /\ <<l, r>>[2] = r /\ 1 \in 1..2 /\ 2 \in 1..2
            BY <1>2
        <3> DEFINE d == <<l, r>>
        <3> HIDE DEF d
        <3>4. d \in Seq(Events) /\ Len(d) = 2 /\ d[1] = l /\ d[2] = r
            BY <3>1, Zenon DEF d
        <3>2. /\ a \o d \in Seq(Events) /\ Len(a \o d) = Len(a) + Len(d)
              /\ \A i \in 1..Len(a) : (a \o d)[i] = a[i]
              /\ \A i \in 1..Len(d) : (a \o d)[Len(a) + i] = d[i]
            BY <1>3, <1>c, <3>4, Zenon
        <3>3. (k - 1) + 1 = k /\ (k - 1) + 2 = k + 1
            BY <1>n
        <3>5. (a \o d)[(k - 1) + 1] = l /\ (a \o d)[(k - 1) + 2] = r /\ Len(a \o d) = (k - 1) + 2
            BY <1>3, <3>1, <3>2, <3>4, Zenon
        <3>6. (a \o d)[k] = l /\ (a \o d)[k + 1] = r /\ Len(a \o d) = k + 1
            BY <3>3, <3>5, Zenon
        <3> QED
            BY <1>3, <3>2, <3>6, Zenon DEF d
    <2> HIDE DEF b
    <2>2. p = b \o c
        BY <1>4, Zenon DEF b
    <2>c. /\ Len(b \o c) = Len(b) + Len(c)
          /\ \A i \in 1..Len(b) : (b \o c)[i] = b[i]
          /\ \A i \in 1..Len(c) : (b \o c)[Len(b) + i] = c[i]
        BY <1>3, <1>c, <2>1, Zenon
    <2>3. Len(p) = n + 1 /\ \A i \in 1..(k + 1) : p[i] = b[i]
        <3>1. (k + 1) + (n - k) = n + 1
            BY <1>n
        <3> QED
            BY <1>3, <2>1, <2>2, <2>c, <3>1, Zenon
    <2>4. \A i \in 1..(n - k) : p[k + 1 + i] = slices[k + i]
        BY <1>3, <2>1, <2>2, <2>c, Zenon
    <2>5. \A i \in (k + 1)..n : p[i + 1] = slices[i]
        <3> TAKE i \in (k + 1)..n
        <3>1. i - k \in 1..(n - k) /\ k + 1 + (i - k) = i + 1 /\ k + (i - k) = i
            BY <1>n
        <3> QED
            BY <2>4, <3>1
    <2> QED
        BY <1>n, <2>1, <2>3, <2>5
<1>6. \A j \in 1..(n + 1) : \/ j \in 1..(k - 1) \/ j = k \/ j = k + 1
                            \/ j - 1 \in (k + 1)..n /\ j = (j - 1) + 1
    BY <1>n
<1>7. ASSUME NEW id \in Ids
      PROVE  /\ \A j \in 1..Len(p) : p[j][id] \in {NoEvent, ev[id]}
             /\ ev[id] # NoEvent => \E j \in 1..Len(p) : p[j][id] = ev[id]
    <2>1. \A j \in 1..n : slices[j][id] \in {NoEvent, ev[id]}
        BY Zenon DEF Covers, n
    <2>2. 1..(k - 1) \subseteq 1..n /\ (k + 1)..n \subseteq 1..n
        BY <1>n
    <2>3. \A j \in 1..Len(p) : p[j][id] \in {NoEvent, ev[id]}
        <3>1. \A j \in 1..(k - 1) : p[j][id] \in {NoEvent, ev[id]}
            BY <1>5, <2>1, <2>2, Zenon
        <3>2. \A j \in (k + 1)..n : p[j + 1][id] \in {NoEvent, ev[id]}
            BY <1>5, <2>1, <2>2, Zenon
        <3>3. p[k][id] \in {NoEvent, ev[id]} /\ p[k + 1][id] \in {NoEvent, ev[id]}
            BY <1>2, <1>5, <1>n, <2>1, Zenon
        <3> QED
            BY <1>5, <1>6, <3>1, <3>2, <3>3, Zenon
    <2>4. ASSUME ev[id] # NoEvent
          PROVE  \E j \in 1..(n + 1) : p[j][id] = ev[id]
        <3>1. PICK j \in 1..n : slices[j][id] = ev[id]
            BY <2>4, Zenon DEF Covers, n
        <3>2. j \in 1..(k - 1) \/ j = k \/ j \in (k + 1)..n
            BY <1>n
        <3>3. /\ k \in 1..(n + 1) /\ k + 1 \in 1..(n + 1) /\ j \in 1..(n + 1) /\ j + 1 \in 1..(n + 1)
            BY <1>n
        <3> QED
            BY <1>2, <1>5, <3>1, <3>2, <3>3, Zenon
    <2> QED
        BY <1>5, <2>3, <2>4, Zenon
<1> QED
    BY <1>7, Zenon DEF Covers

(* Segments written from such a plan say what the batch says.              *)
LEMMA CoverSays ==
    ASSUME NEW slices \in Seq(Events), NEW new \in Seq(Descriptor), Len(new) = Len(slices),
           \A i \in 1..Len(new) : new[i].ev = slices[i],
           NEW ev, Covers(slices, ev), NEW id \in Ids
    PROVE  Latest(new, id) = ev[id]
<1>1. /\ \A k \in 1..Len(new) : new[k].ev[id] \in {NoEvent, ev[id]}
      /\ ev[id] # NoEvent => \E k \in 1..Len(new) : new[k].ev[id] = ev[id]
    <2>1. /\ \A k \in 1..Len(new) : slices[k][id] \in {NoEvent, ev[id]}
          /\ ev[id] # NoEvent => \E k \in 1..Len(new) : slices[k][id] = ev[id]
        BY Zenon DEF Covers
    <2> QED
        BY <2>1, Zenon
<1>2. CASE ev[id] = NoEvent
    <2>1. Says(new, id, NoEvent)
        BY <1>1, <1>2, Zenon DEF Says
    <2> QED
        BY <1>2, <2>1, LatestSays, Zenon
<1>3. CASE ev[id] # NoEvent
    <2>1. Says(new, id, Latest(new, id))
        BY LatestSays, Zenon
    <2> QED
        BY <1>1, <1>3, <2>1, Zenon DEF Says
<1> QED
    BY <1>2, <1>3, Zenon

-----------------------------------------------------------------------------
(* Types of the pieces.                                                    *)

LEMMA RecordFacts ==
    /\ NoManifest \in Manifest
    /\ NoSource \in [first: Nat, segs: Seq(Descriptor)]
    /\ \A m \in Manifest : /\ m.gen \in Nat
                          /\ m.segs \in Seq(Descriptor)
                          /\ m.log \in Seq(Batches)
    /\ \A w \in Wal : w.base \in Nat /\ w.batch \in Batches
    /\ \A g \in Nat, segs \in Seq(Descriptor), log \in Seq(Batches) :
          [gen |-> g, segs |-> segs, log |-> log] \in Manifest
    /\ \A g \in Nat, b \in Batches : [base |-> g, batch |-> b] \in Wal
BY SMTT(30) DEF NoManifest, NoSource, Manifest, Wal

LEMMA AppliedType ==
    ASSUME DataType, ControlType, BatchAtHand, NEW t \in Threads,
           pc[t] \in {"apply", "write", "publish"}
    PROVE  Applied(t) \in Batches
<1>1. wal \in Wal \cup {NoWal} /\ replay[t] \in BOOLEAN
    BY Zenon DEF DataType, ControlType
<1>2. CASE replay[t]
    BY <1>1, <1>2, RecordFacts, Zenon DEF BatchAtHand, Applied
<1>3. CASE ~replay[t]
    BY <1>3, Zenon DEF BatchAtHand, Applied
<1> QED
    BY <1>2, <1>3, Zenon

LEMMA BuiltSegmentType == BuiltSegment \in Descriptor
BY StoreAssumption, Zenon DEF BuiltSegment, Segment, Descriptor, Kinds

LEMMA BatchEventsType ==
    ASSUME NEW b \in Batches
    PROVE  BatchEvents(b) \in Events
<1>1. Ops[b] \subseteq [id: Ids, event: Values \cup {Tomb}]
    BY StoreAssumption, Zenon
<1>2. ASSUME NEW id \in Ids, \E o \in Ops[b] : o.id = id
      PROVE  (CHOOSE o \in Ops[b] : o.id = id).event \in Event
    BY <1>1, <1>2, Zenon DEF Event
<1> QED
    BY <1>2, Zenon DEF BatchEvents, Events, Event

LEMMA RangesFacts ==
    ASSUME NEW segs \in Seq(Descriptor), NEW r \in Ranges(segs)
    PROVE  /\ r \in [first: Nat, segs: Seq(Descriptor)]
           /\ RangeUnchanged(r, segs)
<1>1. PICK p \in (0..Len(segs)) \X (1..MaxRange) :
          /\ p[1] + p[2] <= Len(segs)
          /\ r = [first |-> p[1], segs |-> SubSeq(segs, p[1] + 1, p[1] + p[2])]
    BY Zenon DEF Ranges
<1> DEFINE f == p[1]
           n == p[2]
<1>2. f \in Nat /\ n \in Nat /\ f + n <= Len(segs)
    BY <1>1, StoreAssumption, SMTT(30)
<1> DEFINE range == SubSeq(segs, f + 1, f + n)
<1>3. r = [first |-> f, segs |-> range]
    BY <1>1, Zenon
<1> HIDE DEF f, n
<1>4. range \in Seq(Descriptor) /\ Len(range) = n /\ \A i \in 1..n : range[i] = segs[f + i]
    <2>1. \A m, k \in Nat : m + k <= Len(segs) =>
              /\ SubSeq(segs, m + 1, m + k) \in Seq(Descriptor)
              /\ Len(SubSeq(segs, m + 1, m + k)) = k
              /\ \A i \in 1..k : SubSeq(segs, m + 1, m + k)[i] = segs[m + i]
        BY SubSeqFacts, SMTT(30)
    <2> QED
        BY <1>2, <2>1, Zenon
<1> HIDE DEF range
<1> QED
    BY <1>2, <1>3, <1>4, Zenon DEF RangeUnchanged

LEMMA ReplacedFacts ==
    ASSUME NEW segs \in Seq(Descriptor), NEW new \in Seq(Descriptor),
           NEW r \in [first: Nat, segs: Seq(Descriptor)], RangeUnchanged(r, segs)
    PROVE  /\ Replaced(segs, r, new) \in Seq(Descriptor)
           /\ \A d \in SegSet(Replaced(segs, r, new)) :
                 \/ d \in SegSet(new)
                 \/ \E i \in 1..Len(segs) :
                       segs[i] = d /\ i \notin (r.first + 1)..(r.first + Len(r.segs))
<1> DEFINE pre == SubSeq(segs, 1, r.first)
           suf == SubSeq(segs, r.first + Len(r.segs) + 1, Len(segs))
<1>1. r.first \in Nat /\ Len(r.segs) \in Nat /\ r.first + Len(r.segs) <= Len(segs)
    BY SMTT(30) DEF RangeUnchanged
<1>2. /\ pre \in Seq(Descriptor) /\ Len(pre) = r.first
      /\ \A i \in 1..r.first : pre[i] = segs[i]
    BY <1>1, SubSeqFacts, 0 + 1 = 1, 0 + r.first = r.first, SMTT(30)
<1>3. /\ suf \in Seq(Descriptor)
      /\ Len(suf) = Len(segs) - (r.first + Len(r.segs))
      /\ \A i \in 1..Len(suf) : suf[i] = segs[r.first + Len(r.segs) + i]
    <2> DEFINE m == r.first + Len(r.segs)
               n == Len(segs) - m
    <2>1. m \in Nat /\ n \in Nat /\ m + n = Len(segs)
        BY <1>1, SMTT(30)
    <2>2. suf = SubSeq(segs, m + 1, m + n)
        BY <2>1, Zenon
    <2> HIDE DEF m, n, suf
    <2>3. suf \in Seq(Descriptor) /\ Len(suf) = n /\ \A i \in 1..n : suf[i] = segs[m + i]
        BY <2>1, <2>2, SubSeqFacts, SMTT(30)
    <2> QED
        BY <2>3, Zenon DEF m, n
<1>4. /\ Replaced(segs, r, new) \in Seq(Descriptor)
      /\ SegSet(Replaced(segs, r, new)) = (SegSet(pre) \cup SegSet(new)) \cup SegSet(suf)
    <2> HIDE DEF pre, suf
    <2>1. Replaced(segs, r, new) = (pre \o new) \o suf
        BY Zenon DEF Replaced, pre, suf
    <2>2. pre \o new \in Seq(Descriptor)
        BY <1>2, ListConcat, Zenon
    <2>3. (pre \o new) \o suf \in Seq(Descriptor)
        BY <1>3, <2>2, ListConcat, Zenon
    <2>4. SegSet(pre \o new) = SegSet(pre) \cup SegSet(new)
        BY <1>2, ConcatFacts, SMTT(30)
    <2>5. SegSet((pre \o new) \o suf) = SegSet(pre \o new) \cup SegSet(suf)
        <3>1. \A s, t \in Seq(Descriptor) : SegSet(s \o t) = SegSet(s) \cup SegSet(t)
            BY ConcatFacts, Zenon
        <3> QED
            BY <1>3, <2>2, <3>1, Zenon
    <2> QED
        BY <2>1, <2>3, <2>4, <2>5, Zenon
<1> HIDE DEF pre, suf
<1>5. ASSUME NEW d \in SegSet(pre)
      PROVE  \E i \in 1..Len(segs) :
                 segs[i] = d /\ i \notin (r.first + 1)..(r.first + Len(r.segs))
    <2>1. PICK i \in 1..r.first : d = segs[i]
        BY <1>2, Zenon DEF SegSet
    <2> QED
        BY <1>1, <2>1, SMTT(30)
<1>6. ASSUME NEW d \in SegSet(suf)
      PROVE  \E i \in 1..Len(segs) :
                 segs[i] = d /\ i \notin (r.first + 1)..(r.first + Len(r.segs))
    <2>1. PICK i \in 1..Len(suf) : d = segs[r.first + Len(r.segs) + i]
        BY <1>3, Zenon DEF SegSet
    <2>2. /\ r.first + Len(r.segs) + i \in 1..Len(segs)
          /\ r.first + Len(r.segs) + i \notin (r.first + 1)..(r.first + Len(r.segs))
        BY <1>1, <1>3, SMTT(30)
    <2> QED
        BY <2>1, <2>2, Zenon
<1> QED
    BY <1>4, <1>5, <1>6, Zenon

(* Updates append, so a range found in a manifest stays where it is.       *)
LEMMA RangeSurvivesAppend ==
    ASSUME NEW segs \in Seq(Descriptor), NEW new \in Seq(Descriptor),
           NEW r \in [first: Nat, segs: Seq(Descriptor)], RangeUnchanged(r, segs)
    PROVE  RangeUnchanged(r, segs \o new)
BY ListConcat, SMTT(30) DEF RangeUnchanged

LEMMA RangeInManifest ==
    ASSUME NEW segs \in Seq(Descriptor),
           NEW r \in [first: Nat, segs: Seq(Descriptor)], RangeUnchanged(r, segs)
    PROVE  SegSet(r.segs) \subseteq SegSet(segs)
BY SMTT(30) DEF RangeUnchanged, SegSet

-----------------------------------------------------------------------------
(* What a batch, and a compaction, leave in the index.                     *)

(* The document behind an event.                                           *)
Shown(e) == IF e = Tomb THEN NoEvent ELSE e

(* Manifest m shows the documents its batches leave.                       *)
Reflects(m) == \A id \in Ids : Visible(m.segs, id) = Expected(m.log, id)

LEMMA ExpectedAppend ==
    ASSUME NEW log \in Seq(Batches), NEW b \in Batches, NEW id \in Ids
    PROVE  Expected(Append(log, b), id) =
             IF BatchEvents(b)[id] = NoEvent THEN Expected(log, id)
             ELSE Shown(BatchEvents(b)[id])
<1> DEFINE n     == Len(log)
           new   == Append(log, b)
           at    == {i \in 1..n : BatchEvents(log[i])[id] # NoEvent}
           after == {i \in 1..Len(new) : BatchEvents(new[i])[id] # NoEvent}
           last(S) == CHOOSE i \in S : \A j \in S : j <= i
<1>1. /\ n \in Nat /\ Len(new) = n + 1 /\ new[n + 1] = b
      /\ \A i \in 1..n : new[i] = log[i]
    BY ListAppend, ListElements, SMTT(30)
<1>2. /\ Expected(log, id) = Shown(IF at = {} THEN BuiltEvents[id]
                                   ELSE BatchEvents(log[last(at)])[id])
      /\ Expected(new, id) = Shown(IF after = {} THEN BuiltEvents[id]
                                   ELSE BatchEvents(new[last(after)])[id])
    BY Zenon DEF Expected, Shown
<1>3. \A i : i \in 1..(n + 1) <=> (i \in 1..n \/ i = n + 1)
    BY <1>1, SMTT(30)
<1>n. n + 1 \notin 1..n
    BY <1>1, SMTT(30)
<1> HIDE DEF new, n
<1>4. CASE BatchEvents(b)[id] = NoEvent
    <2>1. \A i : i \in after <=> i \in at
        BY <1>1, <1>3, <1>4, Zenon
    <2>2. after = at
        <3> HIDE DEF after, at
        <3> QED
            BY <2>1, Zenon
    <2>3. CASE at # {}
        <3>1. \E i \in at : \A j \in at : j <= i
            BY <1>1, <2>3, LastPosition, Zenon
        <3>2. last(at) \in at
            BY <3>1, Zenon
        <3>3. new[last(at)] = log[last(at)]
            BY <1>1, <3>2, Zenon
        <3> HIDE DEF at, after, last
        <3> QED
            BY <1>2, <1>4, <2>2, <3>3, Zenon DEF new
    <2> HIDE DEF at, after
    <2> QED
        BY <1>2, <1>4, <2>2, <2>3, Zenon DEF new
<1>5. CASE BatchEvents(b)[id] # NoEvent
    <2>1. n + 1 \in after
        BY <1>1, <1>3, <1>5, Zenon
    <2>2. \A i \in after : i <= n + 1
        BY <1>1, SMTT(30)
    <2>3. last(after) \in after /\ n + 1 <= last(after)
        BY <2>1, <2>2, Zenon
    <2>4. last(after) = n + 1
        <3>1. last(after) \in 1..(n + 1)
            BY <1>1, <2>3, Zenon
        <3> HIDE DEF last, after
        <3> QED
            BY <1>1, <2>3, <3>1, SMTT(30)
    <2>5. Expected(new, id) = Shown(BatchEvents(b)[id])
        <3>1. after # {}
            BY <2>1, Zenon
        <3> HIDE DEF last, after
        <3> QED
            BY <1>1, <1>2, <2>4, <3>1, Zenon
    <2> QED
        BY <1>5, <2>5, Zenon DEF new
<1> QED
    BY <1>4, <1>5, Zenon

(* A publication of new segments shows what its batch says.                *)
LEMMA AppendShows ==
    ASSUME NEW m \in Manifest, Reflects(m), NEW b \in Batches,
           NEW new \in Seq(Descriptor),
           \A id \in Ids : Latest(new, id) = BatchEvents(b)[id], NEW g
    PROVE  Reflects([gen |-> g, segs |-> m.segs \o new, log |-> Append(m.log, b)])
<1>1. m.segs \in Seq(Descriptor) /\ m.log \in Seq(Batches)
    BY RecordFacts, Zenon
<1>2. ASSUME NEW id \in Ids
      PROVE  Visible(m.segs \o new, id) = Expected(Append(m.log, b), id)
    <2>1. Latest(m.segs \o new, id) =
             IF Latest(new, id) = NoEvent THEN Latest(m.segs, id) ELSE Latest(new, id)
        BY <1>1, LatestConcat, Zenon
    <2>2. Expected(Append(m.log, b), id) =
             IF BatchEvents(b)[id] = NoEvent THEN Expected(m.log, id)
             ELSE Shown(BatchEvents(b)[id])
        BY <1>1, ExpectedAppend, Zenon
    <2>3. Visible(m.segs, id) = Expected(m.log, id)
        BY Zenon DEF Reflects
    <2> QED
        BY <2>1, <2>2, <2>3, Zenon DEF Visible, Shown
<1> QED
    BY <1>2, Zenon DEF Reflects

(* A range replaced by segments that say the same shows the same.          *)
LEMMA RangeSplits ==
    ASSUME NEW segs \in Seq(Descriptor),
           NEW r \in [first: Nat, segs: Seq(Descriptor)], RangeUnchanged(r, segs)
    PROVE  \E pre, suf \in Seq(Descriptor) :
              /\ segs = (pre \o r.segs) \o suf
              /\ Len(pre) = r.first
              /\ \A new : Replaced(segs, r, new) = (pre \o new) \o suf
<1> DEFINE f   == r.first
           n   == Len(r.segs)
           pre == SubSeq(segs, 1, f)
           suf == SubSeq(segs, f + n + 1, Len(segs))
<1>1. /\ f \in Nat /\ n \in Nat /\ f + n <= Len(segs) /\ Len(segs) \in Nat
      /\ r.segs \in Seq(Descriptor) /\ \A i \in 1..n : segs[f + i] = r.segs[i]
    BY SMTT(30) DEF RangeUnchanged
<1>0. f \in Nat /\ n \in Nat /\ f + n <= Len(segs) /\ Len(segs) \in Nat
    BY <1>1, Zenon
<1>2. /\ pre \in Seq(Descriptor) /\ Len(pre) = f
      /\ \A i \in 1..f : pre[i] = segs[i]
    BY <1>1, SubSeqFacts, 0 + 1 = 1, 0 + f = f, SMTT(30)
<1>3. /\ suf \in Seq(Descriptor) /\ Len(suf) = Len(segs) - (f + n)
      /\ \A i \in 1..Len(suf) : suf[i] = segs[f + n + i]
    <2> DEFINE a == f + n
               q == Len(segs) - a
    <2>1. a \in Nat /\ q \in Nat /\ a + q = Len(segs)
        <3> HIDE DEF f, n
        <3> QED
            BY <1>0, SMTT(30)
    <2>2. suf = SubSeq(segs, a + 1, a + q)
        BY <2>1, Zenon
    <2> HIDE DEF a, q, suf
    <2>3. suf \in Seq(Descriptor) /\ Len(suf) = q /\ \A i \in 1..q : suf[i] = segs[a + i]
        BY <2>1, <2>2, SubSeqFacts, SMTT(30)
    <2> QED
        BY <2>3, Zenon DEF a, q
<1>4. \A new : Replaced(segs, r, new) = (pre \o new) \o suf
    BY Zenon DEF Replaced
<1>5. segs = (pre \o r.segs) \o suf
    <2> HIDE DEF f, n, pre, suf
    <2>1. \A s, t \in Seq(Descriptor) :
              /\ s \o t \in Seq(Descriptor) /\ Len(s \o t) = Len(s) + Len(t)
              /\ \A i \in 1..Len(s) : (s \o t)[i] = s[i]
              /\ \A i \in 1..Len(t) : (s \o t)[Len(s) + i] = t[i]
        <3> TAKE s, t \in Seq(Descriptor)
        <3> QED
            BY ConcatIndex
    <2> DEFINE x == pre \o r.segs
               all == x \o suf
    <2>p. /\ x \in Seq(Descriptor) /\ Len(x) = Len(pre) + Len(r.segs)
          /\ \A i \in 1..Len(pre) : x[i] = pre[i]
          /\ \A i \in 1..Len(r.segs) : x[Len(pre) + i] = r.segs[i]
        BY <1>1, <1>2, <2>1, Zenon
    <2>2. /\ x \in Seq(Descriptor) /\ Len(x) = f + n
          /\ \A i \in 1..f : x[i] = segs[i]
          /\ \A i \in 1..n : x[f + i] = segs[f + i]
        <3> HIDE DEF x
        <3> QED
            BY <1>1, <1>2, <2>p, Zenon DEF n
    <2> HIDE DEF x
    <2>s. /\ all \in Seq(Descriptor) /\ Len(all) = Len(x) + Len(suf)
          /\ \A i \in 1..Len(x) : all[i] = x[i]
          /\ \A i \in 1..Len(suf) : all[Len(x) + i] = suf[i]
        BY <1>3, <2>1, <2>2, Zenon
    <2>3. /\ all \in Seq(Descriptor) /\ Len(all) = (f + n) + Len(suf)
          /\ \A i \in 1..(f + n) : all[i] = x[i]
          /\ \A i \in 1..Len(suf) : all[(f + n) + i] = segs[f + n + i]
        <3> HIDE DEF all
        <3> QED
            BY <1>3, <2>2, <2>s, Zenon
    <2> HIDE DEF all
    <2>4. Len(all) = Len(segs)
        BY <1>1, <1>3, <2>3, SMTT(30)
    <2>5. ASSUME NEW i \in 1..Len(segs)
          PROVE  all[i] = segs[i]
        <3>1. CASE i \in 1..f
            <4>1. i \in 1..(f + n)
                BY <1>1, <3>1, SMTT(30)
            <4> QED
                BY <2>2, <2>3, <3>1, <4>1, Zenon
        <3>2. CASE i \in (f + 1)..(f + n)
            <4>1. i - f \in 1..n /\ f + (i - f) = i /\ i \in 1..(f + n)
                BY <1>1, <3>2, SMTT(30)
            <4> QED
                BY <2>2, <2>3, <4>1, Zenon
        <3>3. CASE i \in (f + n + 1)..Len(segs)
            <4>1. i - (f + n) \in 1..Len(suf) /\ f + n + (i - (f + n)) = i
                BY <1>1, <1>3, <3>3, SMTT(30)
            <4> QED
                BY <2>3, <4>1, Zenon
        <3> QED
            BY <1>1, <3>1, <3>2, <3>3, SMTT(30)
    <2>6. all = segs
        BY <2>3, <2>4, <2>5, ListEqual
    <2> QED
        BY <2>6, Zenon DEF all, x
<1> QED
    BY <1>2, <1>3, <1>4, <1>5, Zenon

LEMMA ReplaceShows ==
    ASSUME NEW m \in Manifest, Reflects(m), NEW new \in Seq(Descriptor),
           NEW r \in [first: Nat, segs: Seq(Descriptor)], RangeUnchanged(r, m.segs),
           NEW drop \in BOOLEAN, drop => r.first = 0,
           \A id \in Ids : Latest(new, id) = CollectRange(r.segs, drop)[id], NEW g
    PROVE  Reflects([gen |-> g, segs |-> Replaced(m.segs, r, new), log |-> m.log])
<1>1. m.segs \in Seq(Descriptor) /\ r.segs \in Seq(Descriptor)
    BY RecordFacts, SMTT(30)
<1>2. PICK pre, suf \in Seq(Descriptor) :
         /\ m.segs = (pre \o r.segs) \o suf
         /\ Len(pre) = r.first
         /\ \A n : Replaced(m.segs, r, n) = (pre \o n) \o suf
    BY <1>1, RangeSplits, Zenon
<1>3. \A n \in Seq(Descriptor) : pre \o n \in Seq(Descriptor)
    BY ListConcat, Zenon
<1>4. ASSUME NEW id \in Ids
      PROVE  Visible(Replaced(m.segs, r, new), id) = Visible(m.segs, id)
    <2> DEFINE over(a, b) == IF b = NoEvent THEN a ELSE b
    <2>1. Latest(m.segs, id) = over(over(Latest(pre, id), Latest(r.segs, id)), Latest(suf, id))
        <3>1. Latest((pre \o r.segs) \o suf, id) = over(Latest(pre \o r.segs, id), Latest(suf, id))
            <4> DEFINE x == pre \o r.segs
            <4>1. x \in Seq(Descriptor)
                BY <1>1, <1>3, Zenon
            <4> HIDE DEF x
            <4>2. Latest(x \o suf, id) = over(Latest(x, id), Latest(suf, id))
                BY <4>1, LatestConcat, Zenon
            <4> QED
                BY <4>2, Zenon DEF x
        <3>2. Latest(pre \o r.segs, id) = over(Latest(pre, id), Latest(r.segs, id))
            BY <1>1, LatestConcat, Zenon
        <3> QED
            BY <1>2, <3>1, <3>2, Zenon
    <2>2. Latest(Replaced(m.segs, r, new), id) =
             over(over(Latest(pre, id), Latest(new, id)), Latest(suf, id))
        <3>1. Latest((pre \o new) \o suf, id) = over(Latest(pre \o new, id), Latest(suf, id))
            <4> DEFINE x == pre \o new
            <4>1. x \in Seq(Descriptor)
                BY <1>3, Zenon
            <4> HIDE DEF x
            <4>2. Latest(x \o suf, id) = over(Latest(x, id), Latest(suf, id))
                BY <4>1, LatestConcat, Zenon
            <4> QED
                BY <4>2, Zenon DEF x
        <3>2. Latest(pre \o new, id) = over(Latest(pre, id), Latest(new, id))
            BY LatestConcat, Zenon
        <3> QED
            BY <1>2, <3>1, <3>2, Zenon
    <2>3. Latest(new, id) = IF drop THEN Visible(r.segs, id) ELSE Latest(r.segs, id)
        BY Zenon DEF CollectRange
    <2>4. drop => Latest(pre, id) = NoEvent
        <3> SUFFICES ASSUME drop
                     PROVE  Latest(pre, id) = NoEvent
            BY Zenon
        <3>1. Len(pre) = 0
            BY <1>2, Zenon
        <3>2. \A i \in 1..Len(pre) : FALSE
            BY <3>1, SMTT(30)
        <3>3. Says(pre, id, NoEvent)
            BY <3>2, Zenon DEF Says
        <3> QED
            BY <3>3, LatestSays, Zenon
    <2> QED
        BY <2>1, <2>2, <2>3, <2>4, Zenon DEF Visible
<1> QED
    BY <1>4, Zenon DEF Reflects

(* The index as it was built.                                              *)
LEMMA BuiltShows ==
    ASSUME NEW id \in Ids
    PROVE  /\ Visible(<<BuiltSegment>>, id) = Shown(BuiltEvents[id])
           /\ Expected(<<>>, id) = Shown(BuiltEvents[id])
<1>1. <<BuiltSegment>> \in Seq(Descriptor)
    BY BuiltSegmentType, SMTT(30)
<1>2. BuiltSegment.ev = BuiltEvents
    BY Zenon DEF BuiltSegment, Segment
<1>3. Len(<<BuiltSegment>>) = 1 /\ <<BuiltSegment>>[1] = BuiltSegment
    BY Zenon
<1>4. \A i \in 1..1 : i = 1 /\ ~(i > 1)
    BY SMTT(30)
<1>5. 1 \in 1..1
    BY SMTT(30)
<1> DEFINE one == <<BuiltSegment>>
<1> HIDE DEF one
<1>6. Says(one, id, BuiltEvents[id])
    <2>1. Len(one) = 1 /\ one[1].ev[id] = BuiltEvents[id]
        BY <1>2, <1>3, Zenon DEF one
    <2> QED
        BY <1>4, <1>5, <2>1, Zenon DEF Says
<1>7. Latest(one, id) = BuiltEvents[id]
    BY <1>1, <1>6, LatestSays, Zenon DEF one
<1>8. {i \in 1..Len(<<>>) : BatchEvents(<<>>[i])[id] # NoEvent} = {}
    BY SMTT(30)
<1> QED
    BY <1>7, <1>8, Zenon DEF Visible, Expected, Shown, one

(* The segments m were written from the first slices of plan p.            *)
Copied(m, p) == Len(m) <= Len(p) /\ \A i \in 1..Len(m) : m[i].ev = p[i]

LEMMA CopiedFacts ==
    ASSUME NEW p \in Seq(Events)
    PROVE  /\ Copied(<<>>, p)
           /\ \A m \in Seq(Descriptor), d \in Descriptor :
                 /\ Copied(m, p) /\ Len(m) + 1 <= Len(p) /\ d.ev = p[Len(m) + 1]
                 => Copied(Append(m, d), p)
<1>1. Copied(<<>>, p)
    BY SMTT(30) DEF Copied
<1>2. ASSUME NEW m \in Seq(Descriptor), NEW d \in Descriptor, Copied(m, p),
             Len(m) + 1 <= Len(p), d.ev = p[Len(m) + 1]
      PROVE  Copied(Append(m, d), p)
    <2>1. /\ Len(Append(m, d)) = Len(m) + 1 /\ Append(m, d)[Len(m) + 1] = d
          /\ \A i \in 1..Len(m) : Append(m, d)[i] = m[i]
        BY ListAppend, SMTT(30)
    <2>2. \A i \in 1..(Len(m) + 1) : i \in 1..Len(m) \/ i = Len(m) + 1
        BY ListElements, SMTT(30)
    <2>3. \A i \in 1..(Len(m) + 1) : Append(m, d)[i].ev = p[i]
        BY <1>2, <2>1, <2>2, Zenon DEF Copied
    <2> QED
        BY <1>2, <2>1, <2>3, Zenon DEF Copied
<1> QED
    BY <1>1, <1>2, Zenon

LEMMA CopiedSays ==
    ASSUME NEW p \in Seq(Events), NEW m \in Seq(Descriptor), Copied(m, p), Len(m) = Len(p),
           NEW ev, Covers(p, ev)
    PROVE  \A id \in Ids : Latest(m, id) = ev[id]
<1> TAKE id \in Ids
<1>1. \A i \in 1..Len(m) : m[i].ev = p[i]
    BY Zenon DEF Copied
<1> QED
    BY <1>1, CoverSays, Zenon
=============================================================================
