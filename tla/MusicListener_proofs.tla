------------------------- MODULE MusicListener_proofs -------------------------
(***************************************************************************)
(* Proofs that, for every set of songs, rules, lines and command lines of  *)
(* the listeners, both links between them and the robot keep the channel's *)
(* promise, and that a room without music moves nothing.                   *)
(***************************************************************************)
EXTENDS MusicListener, SequenceTheorems, WellFoundedInduction, TLAPS

-----------------------------------------------------------------------------
(***************************************************************************)
(* Induction.  The least-number principle of the library speaks of sets,   *)
(* and so gives an induction that can be used for a set of our own.        *)
(***************************************************************************)
LEMMA LeastNumber ==
  ASSUME NEW T \in SUBSET Nat, T # {}
  PROVE  \E x \in T : \A y \in T : x <= y
<1>1. IsWellFoundedOn(OpToRel(<, Nat), Nat)
  BY NatLessThanWellFounded
<1>2. PICK x \in T : \A y \in T : <<y, x>> \notin OpToRel(<, Nat)
  BY <1>1, WFMin, Zenon
<1>3. \A y \in T : ~(y < x)
  BY <1>2, Zenon DEF OpToRel
<1> QED
  BY <1>3

\* A set that holds 0 and with a number the next holds every number.
LEMMA SetInduction ==
  ASSUME NEW S, 0 \in S, \A n \in Nat : n \in S => n + 1 \in S
  PROVE  \A n \in Nat : n \in S
<1> DEFINE T == {n \in Nat : n \notin S}
<1>1. SUFFICES ASSUME T # {} PROVE FALSE
  OBVIOUS
<1>2. PICK x \in T : \A y \in T : x <= y
  BY <1>1, LeastNumber
<1>3. x - 1 \in Nat /\ x - 1 \notin T
  BY <1>2
<1>4. (x - 1) + 1 \in S
  BY <1>3
<1> QED
  BY <1>2, <1>4

-----------------------------------------------------------------------------
(***************************************************************************)
(* Unread lines.  UpTo says that f has, for every n up to m, the lines of  *)
(* s in the first n connections of cs.                                     *)
(***************************************************************************)
UpTo(cs, s, m, f) ==
  f = [n \in 0 .. m |->
         IF n = 0 THEN <<>>
         ELSE IF cs[n].from = s THEN f[n - 1] \o cs[n].data ELSE f[n - 1]]

\* There is such a function.
LEMMA UpToExists == ASSUME NEW cs, NEW s PROVE \A m \in Nat : \E f : UpTo(cs, s, m, f)
<1> DEFINE S == {m \in Nat : \E f : UpTo(cs, s, m, f)}
<1>1. 0 \in S
  <2> DEFINE f == [n \in 0 .. 0 |-> <<>>]
  <2>1. UpTo(cs, s, 0, f)
    BY DEF UpTo
  <2> QED
    BY <2>1
<1>2. ASSUME NEW m \in Nat, m \in S PROVE m + 1 \in S
  <2>1. PICK f : UpTo(cs, s, m, f)
    BY <1>2
  <2> DEFINE next == IF cs[m + 1].from = s THEN f[m] \o cs[m + 1].data ELSE f[m]
             g == [n \in 0 .. m + 1 |-> IF n = m + 1 THEN next ELSE f[n]]
  <2>2. ASSUME NEW n \in 0 .. m + 1
        PROVE  g[n] = IF n = 0 THEN <<>>
                      ELSE IF cs[n].from = s THEN g[n - 1] \o cs[n].data ELSE g[n - 1]
    <3>1. CASE n = m + 1
      <4>1. n # 0 /\ n - 1 = m /\ m \in 0 .. m + 1 /\ m # m + 1
        BY <3>1
      <4>2. g[n - 1] = f[m] /\ g[n] = next
        BY <3>1, <4>1
      <4> QED
        BY <3>1, <4>1, <4>2
    <3>2. CASE n # m + 1
      <4>1. n \in 0 .. m /\ g[n] = f[n]
        BY <3>2
      <4>2. f[n] = IF n = 0 THEN <<>>
                   ELSE IF cs[n].from = s THEN f[n - 1] \o cs[n].data ELSE f[n - 1]
        BY <2>1, <4>1 DEF UpTo
      <4>3. n # 0 => g[n - 1] = f[n - 1]
        BY <4>1
      <4> QED
        BY <4>1, <4>2, <4>3
    <3> QED
      BY <3>1, <3>2
  <2>3. UpTo(cs, s, m + 1, g)
    BY <2>2 DEF UpTo
  <2> QED
    BY <2>3
<1> HIDE DEF S
<1>3. \A m \in Nat : m \in S
  BY <1>1, <1>2, SetInduction
<1> QED
  BY <1>3 DEF S

\* The unread lines are its last value.
LEMMA UnreadIsUpTo ==
  ASSUME NEW cs, NEW s, Len(cs) \in Nat
  PROVE  \E f : UpTo(cs, s, Len(cs), f) /\ UnreadOf(cs, s) = f[Len(cs)]
<1>1. PICK g : UpTo(cs, s, Len(cs), g)
  BY UpToExists
<1> DEFINE f == CHOOSE h : UpTo(cs, s, Len(cs), h)
<1>2. UpTo(cs, s, Len(cs), f)
  BY <1>1
<1>3. UnreadOf(cs, s) = f[Len(cs)]
  BY DEF UnreadOf, UpTo
<1> QED
  BY <1>2, <1>3

\* What such a function is: it begins with nothing and takes the connections
\* one by one.
Collects(cs, s, f) ==
  /\ f[0] = <<>>
  /\ \A n \in 0 .. Len(cs) : f[n] \in Seq(Line)
  /\ \A n \in 1 .. Len(cs) :
       f[n] = IF cs[n].from = s THEN f[n - 1] \o cs[n].data ELSE f[n - 1]

LEMMA UpToCollects ==
  ASSUME NEW cs \in Seq(Connection), NEW s, NEW f, UpTo(cs, s, Len(cs), f)
  PROVE  Collects(cs, s, f)
<1>1. Len(cs) \in Nat
  OBVIOUS
<1>2. \A n \in 0 .. Len(cs) :
        f[n] = IF n = 0 THEN <<>>
               ELSE IF cs[n].from = s THEN f[n - 1] \o cs[n].data ELSE f[n - 1]
  BY <1>1 DEF UpTo
<1>3. f[0] = <<>>
  BY <1>1, <1>2
<1>4. ASSUME NEW n \in 1 .. Len(cs)
      PROVE  f[n] = IF cs[n].from = s THEN f[n - 1] \o cs[n].data ELSE f[n - 1]
  <2>1. n \in 0 .. Len(cs) /\ n # 0
    BY <1>1
  <2> QED
    BY <1>2, <2>1
<1> DEFINE S == {n \in Nat : n \in 0 .. Len(cs) => f[n] \in Seq(Line)}
<1>5. 0 \in S
  <2>1. <<>> \in Seq(Line)
    OBVIOUS
  <2> QED
    BY <1>3, <2>1
<1>6. ASSUME NEW n \in Nat, n \in S PROVE n + 1 \in S
  <2>1. SUFFICES ASSUME n + 1 \in 0 .. Len(cs) PROVE f[n + 1] \in Seq(Line)
    OBVIOUS
  <2>2. f[n] \in Seq(Line) /\ n + 1 \in 1 .. Len(cs) /\ (n + 1) - 1 = n
    BY <1>1, <1>6, <2>1
  <2>3. cs[n + 1].data \in Seq(Line)
    <3>1. cs[n + 1] \in Connection
      BY <2>2, ElementOfSeq
    <3> QED
      BY <3>1 DEF Connection
  <2>4. f[n] \o cs[n + 1].data \in Seq(Line)
    BY <2>2, <2>3, ConcatProperties
  <2> QED
    BY <1>4, <2>2, <2>4
<1> HIDE DEF S
<1>7. \A n \in Nat : n \in S
  BY <1>5, <1>6, SetInduction
<1>8. \A n \in 0 .. Len(cs) : f[n] \in Seq(Line)
  BY <1>1, <1>7 DEF S
<1> QED
  BY <1>3, <1>4, <1>8 DEF Collects

LEMMA UnreadCollects ==
  ASSUME NEW cs \in Seq(Connection), NEW s
  PROVE  \E f : Collects(cs, s, f) /\ UnreadOf(cs, s) = f[Len(cs)]
<1>1. Len(cs) \in Nat
  OBVIOUS
<1>2. PICK f : UpTo(cs, s, Len(cs), f) /\ UnreadOf(cs, s) = f[Len(cs)]
  BY <1>1, UnreadIsUpTo
<1>3. Collects(cs, s, f)
  BY <1>2, UpToCollects, Zenon
<1> QED
  BY <1>2, <1>3, Zenon

LEMMA UnreadType ==
  ASSUME NEW cs \in Seq(Connection), NEW s
  PROVE  UnreadOf(cs, s) \in Seq(Line)
<1>1. PICK f : Collects(cs, s, f) /\ UnreadOf(cs, s) = f[Len(cs)]
  BY UnreadCollects, Zenon
<1>2. Len(cs) \in 0 .. Len(cs)
  OBVIOUS
<1> QED
  BY <1>1, <1>2, Zenon DEF Collects

\* Connections that have the same lines of s up to the m-th.
Agree(cs, ds, s, m) ==
  \A i \in 1 .. m : /\ ds[i].from = cs[i].from
                    /\ ds[i].from = s => ds[i].data = cs[i].data

LEMMA CollectsAgree ==
  ASSUME NEW cs, NEW ds, NEW s, NEW m \in Nat, Len(cs) \in Nat, Len(ds) \in Nat,
         m <= Len(cs), m <= Len(ds),
         Agree(cs, ds, s, m), NEW f, NEW g, Collects(cs, s, f), Collects(ds, s, g)
  PROVE  \A n \in 0 .. m : g[n] = f[n]
<1> DEFINE S == {n \in Nat : n <= m => g[n] = f[n]}
<1>1. 0 \in S
  BY DEF Collects
<1>2. ASSUME NEW n \in Nat, n \in S PROVE n + 1 \in S
  <2>1. SUFFICES ASSUME n + 1 <= m PROVE g[n + 1] = f[n + 1]
    OBVIOUS
  <2>2. /\ g[n] = f[n] /\ n + 1 \in 1 .. m /\ (n + 1) - 1 = n
        /\ n + 1 \in 1 .. Len(cs) /\ n + 1 \in 1 .. Len(ds)
    BY <1>2, <2>1
  <2>3. f[n + 1] = IF cs[n + 1].from = s THEN f[n] \o cs[n + 1].data ELSE f[n]
    BY <2>2 DEF Collects
  <2>4. g[n + 1] = IF ds[n + 1].from = s THEN g[n] \o ds[n + 1].data ELSE g[n]
    BY <2>2 DEF Collects
  <2>5. /\ ds[n + 1].from = cs[n + 1].from
        /\ ds[n + 1].from = s => ds[n + 1].data = cs[n + 1].data
    BY <2>2 DEF Agree
  <2> QED
    BY <2>2, <2>3, <2>4, <2>5
<1> HIDE DEF S
<1>3. \A n \in Nat : n \in S
  BY <1>1, <1>2, SetInduction
<1> QED
  BY <1>3 DEF S

LEMMA UnreadSame ==
  ASSUME NEW cs \in Seq(Connection), NEW ds \in Seq(Connection), NEW s,
         Len(cs) = Len(ds),
         Agree(cs, ds, s, Len(cs))
  PROVE  UnreadOf(ds, s) = UnreadOf(cs, s)
<1>1. Len(cs) \in Nat /\ Len(cs) \in 0 .. Len(cs)
  OBVIOUS
<1>2. PICK f : Collects(cs, s, f) /\ UnreadOf(cs, s) = f[Len(cs)]
  BY UnreadCollects, Zenon
<1>3. PICK g : Collects(ds, s, g) /\ UnreadOf(ds, s) = g[Len(ds)]
  BY UnreadCollects, Zenon
<1>4. /\ Len(ds) \in Nat /\ Len(cs) <= Len(cs) /\ Len(cs) <= Len(ds)
      /\ Collects(cs, s, f) /\ Collects(ds, s, g)
  BY <1>1, <1>2, <1>3
<1>5. \A n \in 0 .. Len(cs) : g[n] = f[n]
  BY <1>1, <1>4, CollectsAgree
<1> QED
  BY <1>1, <1>2, <1>3, <1>5

\* Where no connection holds a line of s, there is none.
LEMMA UnreadNone ==
  ASSUME NEW cs \in Seq(Connection), NEW s,
         \A i \in 1 .. Len(cs) : cs[i].from = s => cs[i].data = <<>>
  PROVE  UnreadOf(cs, s) = <<>>
<1>1. Len(cs) \in Nat
  OBVIOUS
<1>2. PICK f : Collects(cs, s, f) /\ UnreadOf(cs, s) = f[Len(cs)]
  BY UnreadCollects, Zenon
<1> DEFINE S == {n \in Nat : n <= Len(cs) => f[n] = <<>>}
<1>3. 0 \in S
  BY <1>2 DEF Collects
<1>4. ASSUME NEW n \in Nat, n \in S PROVE n + 1 \in S
  <2>1. SUFFICES ASSUME n + 1 <= Len(cs) PROVE f[n + 1] = <<>>
    OBVIOUS
  <2>2. f[n] = <<>> /\ n + 1 \in 1 .. Len(cs) /\ (n + 1) - 1 = n
    BY <1>1, <1>4, <2>1
  <2>3. f[n + 1] = IF cs[n + 1].from = s THEN f[n] \o cs[n + 1].data ELSE f[n]
    BY <1>2, <2>2 DEF Collects
  <2>4. <<>> \in Seq(Line) /\ <<>> \o <<>> = <<>>
    BY ConcatEmptySeq
  <2> QED
    BY <2>2, <2>3, <2>4
<1> HIDE DEF S
<1>5. \A n \in Nat : n \in S
  BY <1>3, <1>4, SetInduction
<1> QED
  BY <1>1, <1>2, <1>5 DEF S

LEMMA UnreadEmpty == ASSUME NEW s PROVE UnreadOf(<<>>, s) = <<>>
<1>1. <<>> \in Seq(Connection) /\ Len(<<>>) = 0
  OBVIOUS
<1>2. PICK f : Collects(<<>>, s, f) /\ UnreadOf(<<>>, s) = f[Len(<<>>)]
  BY <1>1, UnreadCollects
<1> QED
  BY <1>1, <1>2 DEF Collects

\* A connection more.
LEMMA UnreadAppend ==
  ASSUME NEW cs \in Seq(Connection), NEW c \in Connection, NEW s
  PROVE  UnreadOf(Append(cs, c), s)
           = IF c.from = s THEN UnreadOf(cs, s) \o c.data ELSE UnreadOf(cs, s)
<1> DEFINE ds == Append(cs, c)
           m == Len(cs)
<1>1. /\ m \in Nat /\ ds \in Seq(Connection) /\ Len(ds) = m + 1 /\ ds[m + 1] = c
      /\ \A i \in 1 .. m : ds[i] = cs[i]
  BY AppendProperties
<1> HIDE DEF ds
<1>2. PICK f : Collects(cs, s, f) /\ UnreadOf(cs, s) = f[Len(cs)]
  BY UnreadCollects, Zenon
<1>3. PICK g : Collects(ds, s, g) /\ UnreadOf(ds, s) = g[Len(ds)]
  BY <1>1, UnreadCollects, Zenon
<1>4. \A n \in 0 .. m : g[n] = f[n]
  <2>1. /\ m \in Nat /\ Len(cs) \in Nat /\ Len(ds) \in Nat
        /\ m <= Len(cs) /\ m <= Len(ds)
        /\ Collects(cs, s, f) /\ Collects(ds, s, g)
    BY <1>1, <1>2, <1>3
  <2>2. Agree(cs, ds, s, m)
    BY <1>1 DEF Agree
  <2> QED
    BY <2>1, <2>2, CollectsAgree
<1>5. m \in 0 .. m /\ m + 1 \in 1 .. Len(ds) /\ (m + 1) - 1 = m
  BY <1>1
<1>6. g[m + 1] = IF ds[m + 1].from = s THEN g[m] \o ds[m + 1].data ELSE g[m]
  BY <1>3, <1>5 DEF Collects
<1> QED
  BY <1>1, <1>2, <1>3, <1>4, <1>5, <1>6 DEF ds

LEMMA LinesAssociate ==
  ASSUME NEW x \in Seq(Line), NEW y \in Seq(Line), NEW z \in Seq(Line)
  PROVE  (x \o y) \o z = x \o (y \o z)
BY ConcatAssociative

LEMMA AppendAssociates ==
  ASSUME NEW x \in Seq(Line), NEW y \in Seq(Line), NEW line \in Line
  PROVE  x \o Append(y, line) = Append(x \o y, line)
<1>1. /\ x \o y \in Seq(Line) /\ <<line>> \in Seq(Line)
      /\ Append(y, line) = y \o <<line>>
  BY ConcatProperties, AppendIsConcat
<1>2. Append(x \o y, line) = (x \o y) \o <<line>>
  BY <1>1, AppendIsConcat
<1> QED
  BY <1>1, <1>2, LinesAssociate

\* The first connection and the others.
LEMMA UnreadHead ==
  ASSUME NEW cs \in Seq(Connection), NEW s, cs # <<>>
  PROVE  UnreadOf(cs, s)
           = (IF cs[1].from = s THEN cs[1].data ELSE <<>>) \o UnreadOf(Tail(cs), s)
<1> DEFINE ds == Tail(cs)
           m == Len(cs) - 1
           h == IF cs[1].from = s THEN cs[1].data ELSE <<>>
<1>1. /\ m \in Nat /\ Len(cs) = m + 1 /\ Len(cs) \in Nat
      /\ ds \in Seq(Connection) /\ Len(ds) = m
      /\ \A i \in 1 .. m : ds[i] = cs[i + 1]
  BY HeadTailProperties
<1>2. h \in Seq(Line) /\ <<>> \in Seq(Line)
  <2>1. cs[1] \in Connection
    BY <1>1, ElementOfSeq
  <2> QED
    BY <2>1 DEF Connection
<1> HIDE DEF ds
<1>3. PICK f : Collects(cs, s, f) /\ UnreadOf(cs, s) = f[Len(cs)]
  BY UnreadCollects, Zenon
<1>4. PICK g : Collects(ds, s, g) /\ UnreadOf(ds, s) = g[Len(ds)]
  BY <1>1, UnreadCollects, Zenon
<1> HIDE DEF h, m
<1> DEFINE S == {n \in Nat : n <= m => f[n + 1] = h \o g[n]}
<1>5. 0 \in S
  <2>1. f[0] = <<>> /\ g[0] = <<>> /\ 1 \in 1 .. Len(cs) /\ 1 - 1 = 0
    BY <1>1, <1>3, <1>4 DEF Collects
  <2>2. f[1] = IF cs[1].from = s THEN f[1 - 1] \o cs[1].data ELSE f[1 - 1]
    BY <1>3, <2>1, Zenon DEF Collects
  <2>3. f[1] = <<>> \o h \/ f[1] = h
    BY <2>1, <2>2 DEF h
  <2>4. f[1] = h /\ h \o <<>> = h
    BY <1>2, <2>3, ConcatEmptySeq
  <2>5. f[0 + 1] = h \o g[0]
    BY <2>1, <2>4
  <2> QED
    BY <2>5
<1>6. ASSUME NEW n \in Nat, n \in S PROVE n + 1 \in S
  <2>1. SUFFICES ASSUME n + 1 <= m PROVE f[(n + 1) + 1] = h \o g[n + 1]
    OBVIOUS
  <2>2. /\ f[n + 1] = h \o g[n] /\ n + 1 \in 1 .. m /\ n \in 0 .. Len(ds)
        /\ n + 1 \in 1 .. Len(ds) /\ (n + 1) - 1 = n
        /\ (n + 1) + 1 \in 1 .. Len(cs) /\ ((n + 1) + 1) - 1 = n + 1
    BY <1>1, <1>6, <2>1
  <2>3. f[(n + 1) + 1] = IF cs[(n + 1) + 1].from = s
                         THEN f[n + 1] \o cs[(n + 1) + 1].data ELSE f[n + 1]
    BY <1>3, <2>2 DEF Collects
  <2>4. g[n + 1] = IF ds[n + 1].from = s THEN g[n] \o ds[n + 1].data ELSE g[n]
    BY <1>4, <2>2 DEF Collects
  <2>5. ds[n + 1] = cs[(n + 1) + 1]
    BY <1>1, <2>2
  <2>6. ds[n + 1] \in Connection
    BY <1>1, <2>2, ElementOfSeq
  <2>7. g[n] \in Seq(Line)
    BY <1>4, <2>2, Zenon DEF Collects
  <2>8. ds[n + 1].data \in Seq(Line)
    BY <2>6 DEF Connection
  <2>9. (h \o g[n]) \o ds[n + 1].data = h \o (g[n] \o ds[n + 1].data)
    <3> DEFINE a == g[n]
               b == ds[n + 1].data
    <3>1. h \in Seq(Line) /\ a \in Seq(Line) /\ b \in Seq(Line)
      BY <1>2, <2>7, <2>8
    <3> HIDE DEF a, b
    <3>2. (h \o a) \o b = h \o (a \o b)
      BY <3>1, LinesAssociate
    <3> QED
      BY <3>2 DEF a, b
  <2> QED
    BY <2>2, <2>3, <2>4, <2>5, <2>9
<1> HIDE DEF S
<1>7. \A n \in Nat : n \in S
  BY <1>5, <1>6, SetInduction
<1>8. f[m + 1] = h \o g[m]
  BY <1>1, <1>7 DEF S
<1> QED
  BY <1>1, <1>3, <1>4, <1>8 DEF ds, h

\* An empty first connection goes.
LEMMA UnreadTail ==
  ASSUME NEW cs \in Seq(Connection), NEW s, cs # <<>>,
         cs[1].from = s => cs[1].data = <<>>
  PROVE  UnreadOf(Tail(cs), s) = UnreadOf(cs, s)
<1>1. Tail(cs) \in Seq(Connection)
  BY HeadTailProperties
<1>2. UnreadOf(Tail(cs), s) \in Seq(Line)
  BY <1>1, UnreadType
<1>3. UnreadOf(cs, s) = <<>> \o UnreadOf(Tail(cs), s)
  BY UnreadHead
<1> QED
  BY <1>2, <1>3, ConcatEmptySeq

\* A first line goes before the others.
LEMMA HeadOfConcat ==
  ASSUME NEW x \in Seq(Line), NEW y \in Seq(Line), x # <<>>
  PROVE  /\ x \o y # <<>>
         /\ Head(x \o y) = Head(x)
         /\ Tail(x \o y) = Tail(x) \o y
<1>1. /\ Len(x) \in Nat /\ Len(y) \in Nat /\ Len(x) > 0
      /\ Tail(x) \in Seq(Line) /\ Len(Tail(x)) = Len(x) - 1
      /\ \A i \in 1 .. Len(Tail(x)) : Tail(x)[i] = x[i + 1]
  BY HeadTailProperties
<1>2. /\ x \o y \in Seq(Line) /\ Len(x \o y) = Len(x) + Len(y)
      /\ \A i \in 1 .. Len(x) + Len(y) :
           (x \o y)[i] = IF i <= Len(x) THEN x[i] ELSE y[i - Len(x)]
  BY ConcatProperties
<1>3. x \o y # <<>> /\ (x \o y)[1] = x[1]
  BY <1>1, <1>2
<1>4. /\ Tail(x \o y) \in Seq(Line) /\ Len(Tail(x \o y)) = Len(x) + Len(y) - 1
      /\ \A i \in 1 .. Len(Tail(x \o y)) : Tail(x \o y)[i] = (x \o y)[i + 1]
  BY <1>2, <1>3, HeadTailProperties
<1>5. /\ Tail(x) \o y \in Seq(Line) /\ Len(Tail(x) \o y) = Len(x) - 1 + Len(y)
      /\ \A i \in 1 .. Len(x) - 1 + Len(y) :
           (Tail(x) \o y)[i] = IF i <= Len(x) - 1 THEN Tail(x)[i] ELSE y[i - (Len(x) - 1)]
  BY <1>1, ConcatProperties
<1>6. ASSUME NEW i \in 1 .. Len(x) + Len(y) - 1
      PROVE  Tail(x \o y)[i] = (Tail(x) \o y)[i]
  <2>1. /\ i \in 1 .. Len(Tail(x \o y)) /\ i + 1 \in 1 .. Len(x) + Len(y)
        /\ i \in 1 .. Len(x) - 1 + Len(y)
        /\ (i + 1) - Len(x) = i - (Len(x) - 1)
        /\ i + 1 <= Len(x) <=> i <= Len(x) - 1
    BY <1>1, <1>4
  <2>2. Tail(x \o y)[i] = IF i <= Len(x) - 1 THEN x[i + 1] ELSE y[i - (Len(x) - 1)]
    BY <1>2, <1>4, <2>1
  <2>3. i <= Len(x) - 1 => Tail(x)[i] = x[i + 1]
    BY <1>1, <2>1
  <2> QED
    BY <1>5, <2>1, <2>2, <2>3
<1>7. Tail(x \o y) = Tail(x) \o y
  BY <1>1, <1>4, <1>5, <1>6, SeqEqual
<1> QED
  BY <1>3, <1>7

\* Another connection in the place of the k-th.
Replaces(cs, k, c, ds) ==
  /\ ds \in Seq(Connection)
  /\ Len(ds) = Len(cs)
  /\ ds[k] = c
  /\ \A i \in 1 .. Len(cs) : i # k => ds[i] = cs[i]

LEMMA ConnectionReplaced ==
  ASSUME NEW cs \in Seq(Connection), NEW k \in 1 .. Len(cs), NEW c \in Connection
  PROVE  Replaces(cs, k, c, [cs EXCEPT ![k] = c])
BY ExceptSeq DEF Replaces

\* A line of the first connection goes.
LEMMA UnreadConsume ==
  ASSUME NEW cs \in Seq(Connection), NEW s, cs # <<>>, cs[1].data # <<>>,
         NEW ds, Replaces(cs, 1, [cs[1] EXCEPT !.data = Tail(@)], ds)
  PROVE  IF cs[1].from = s
         THEN /\ UnreadOf(cs, s) # <<>>
              /\ Head(UnreadOf(cs, s)) = Head(cs[1].data)
              /\ UnreadOf(ds, s) = Tail(UnreadOf(cs, s))
         ELSE UnreadOf(ds, s) = UnreadOf(cs, s)
<1> DEFINE c == [cs[1] EXCEPT !.data = Tail(@)]
<1>1. /\ Len(cs) \in Nat /\ Len(cs) > 0 /\ cs[1] \in Connection
      /\ Tail(cs) \in Seq(Connection)
  BY HeadTailProperties
<1>2. /\ cs[1].data \in Seq(Line) /\ Tail(cs[1].data) \in Seq(Line)
      /\ c \in Connection /\ c.from = cs[1].from /\ c.data = Tail(cs[1].data)
  <2>1. cs[1].data \in Seq(Line)
    BY <1>1 DEF Connection
  <2>2. Tail(cs[1].data) \in Seq(Line)
    BY <2>1, HeadTailProperties
  <2> QED
    BY <1>1, <2>1, <2>2 DEF Connection
<1> HIDE DEF c
<1>3. Replaces(cs, 1, c, ds)
  BY DEF c
<1>4. /\ ds \in Seq(Connection) /\ Len(ds) = Len(cs) /\ ds[1] = c /\ ds # <<>>
      /\ \A i \in 2 .. Len(cs) : ds[i] = cs[i]
  BY <1>1, <1>3 DEF Replaces
<1>5. Tail(ds) = Tail(cs)
  <2>1. /\ Tail(ds) \in Seq(Connection) /\ Len(Tail(ds)) = Len(cs) - 1
        /\ \A i \in 1 .. Len(cs) - 1 : Tail(ds)[i] = ds[i + 1]
    BY <1>4, HeadTailProperties
  <2>2. /\ Len(Tail(cs)) = Len(cs) - 1
        /\ \A i \in 1 .. Len(cs) - 1 : Tail(cs)[i] = cs[i + 1]
    BY <1>1, HeadTailProperties
  <2>3. \A i \in 1 .. Len(cs) - 1 : Tail(ds)[i] = Tail(cs)[i]
    BY <1>1, <1>4, <2>1, <2>2
  <2> QED
    BY <1>1, <2>1, <2>2, <2>3, SeqEqual
<1>6. UnreadOf(Tail(cs), s) \in Seq(Line)
  BY <1>1, UnreadType
<1>7. UnreadOf(cs, s)
        = (IF cs[1].from = s THEN cs[1].data ELSE <<>>) \o UnreadOf(Tail(cs), s)
  BY UnreadHead
<1>8. UnreadOf(ds, s)
        = (IF c.from = s THEN c.data ELSE <<>>) \o UnreadOf(Tail(cs), s)
  BY <1>4, <1>5, UnreadHead
<1>9. CASE cs[1].from = s
  <2>1. UnreadOf(cs, s) = cs[1].data \o UnreadOf(Tail(cs), s)
    BY <1>7, <1>9
  <2>2. UnreadOf(ds, s) = Tail(cs[1].data) \o UnreadOf(Tail(cs), s)
    BY <1>2, <1>8, <1>9
  <2> QED
    <3> DEFINE x == cs[1].data
               y == UnreadOf(Tail(cs), s)
    <3>1. x \in Seq(Line) /\ y \in Seq(Line) /\ x # <<>>
      BY <1>2, <1>6
    <3> HIDE DEF x, y
    <3>2. x \o y # <<>> /\ Head(x \o y) = Head(x) /\ Tail(x \o y) = Tail(x) \o y
      BY <3>1, HeadOfConcat
    <3> QED
      BY <1>9, <2>1, <2>2, <3>2 DEF x, y
<1>10. CASE cs[1].from # s
  BY <1>2, <1>4, <1>7, <1>8, <1>10
<1> QED
  BY <1>9, <1>10

\* A line more in the last connection of its sender.
LastIn(cs, k) == \A j \in 1 .. Len(cs) : j > k => cs[j].from # cs[k].from

LEMMA UnreadSubmit ==
  ASSUME NEW cs \in Seq(Connection), NEW k \in 1 .. Len(cs), NEW line \in Line, NEW s,
         LastIn(cs, k), NEW c \in Connection,
         c.from = cs[k].from, c.data = Append(cs[k].data, line),
         NEW ds, Replaces(cs, k, c, ds)
  PROVE  UnreadOf(ds, s)
           = IF cs[k].from = s THEN Append(UnreadOf(cs, s), line) ELSE UnreadOf(cs, s)
<1> DEFINE m == Len(cs)
<1>1. m \in Nat /\ k \in Nat /\ k - 1 \in Nat /\ cs[k] \in Connection
  BY ElementOfSeq
<1>2. cs[k].data \in Seq(Line)
  BY <1>1 DEF Connection
<1>3. Replaces(cs, k, c, ds)
  OBVIOUS
<1>4. /\ ds \in Seq(Connection) /\ Len(ds) = m /\ ds[k] = c
      /\ \A i \in 1 .. m : i # k => ds[i] = cs[i]
  BY <1>1, <1>3 DEF Replaces
<1>5. CASE cs[k].from # s
  <2>1. Agree(cs, ds, s, Len(cs))
    BY <1>2, <1>4, <1>5 DEF Agree
  <2> QED
    BY <1>4, <1>5, <2>1, UnreadSame
<1>6. CASE cs[k].from = s
  <2>1. PICK f : Collects(cs, s, f) /\ UnreadOf(cs, s) = f[Len(cs)]
    BY UnreadCollects, Zenon
  <2>2. PICK g : Collects(ds, s, g) /\ UnreadOf(ds, s) = g[Len(ds)]
    BY <1>4, UnreadCollects, Zenon
  <2>3. Agree(cs, ds, s, k - 1)
    BY <1>1, <1>4 DEF Agree
  <2>4. /\ Len(cs) \in Nat /\ Len(ds) \in Nat /\ k - 1 <= Len(cs) /\ k - 1 <= Len(ds)
        /\ Collects(cs, s, f) /\ Collects(ds, s, g)
    BY <1>1, <1>4, <2>1, <2>2
  <2>5. \A n \in 0 .. k - 1 : g[n] = f[n]
    <3> DEFINE l == k - 1
    <3>1. /\ l \in Nat /\ Len(cs) \in Nat /\ Len(ds) \in Nat
          /\ l <= Len(cs) /\ l <= Len(ds) /\ Agree(cs, ds, s, l)
          /\ Collects(cs, s, f) /\ Collects(ds, s, g)
      BY <1>1, <2>3, <2>4
    <3> HIDE DEF l
    <3>2. \A n \in 0 .. l : g[n] = f[n]
      BY <3>1, CollectsAgree, SMT
    <3> QED
      BY <3>2 DEF l
  <2> DEFINE S == {n \in Nat : k + n <= m => g[k + n] = Append(f[k + n], line)}
  <2>6. 0 \in S
    <3>1. k - 1 \in 0 .. k - 1 /\ k - 1 \in 0 .. Len(cs) /\ k \in 1 .. Len(ds)
      BY <1>1, <1>4
    <3>2. f[k - 1] \in Seq(Line) /\ f[k] = f[k - 1] \o cs[k].data
      BY <1>6, <2>1, <3>1, Zenon DEF Collects
    <3>3. g[k] = g[k - 1] \o ds[k].data
      BY <1>2, <1>4, <1>6, <2>2, <3>1 DEF Collects
    <3>4. g[k] = f[k - 1] \o Append(cs[k].data, line)
      BY <1>2, <1>4, <2>5, <3>1, <3>3
    <3>5. f[k - 1] \o Append(cs[k].data, line) = Append(f[k - 1] \o cs[k].data, line)
      BY <1>2, <3>2, AppendAssociates
    <3>6. k + 0 = k
      BY <1>1
    <3> QED
      BY <3>2, <3>4, <3>5, <3>6
  <2>7. ASSUME NEW n \in Nat, n \in S PROVE n + 1 \in S
    <3>1. SUFFICES ASSUME k + (n + 1) <= m
                   PROVE g[k + (n + 1)] = Append(f[k + (n + 1)], line)
      OBVIOUS
    <3>2. /\ g[k + n] = Append(f[k + n], line)
          /\ k + (n + 1) \in 1 .. m /\ k + (n + 1) > k /\ k + (n + 1) # k
          /\ (k + (n + 1)) - 1 = k + n
      BY <1>1, <2>7, <3>1
    <3>3. cs[k + (n + 1)].from # s /\ ds[k + (n + 1)] = cs[k + (n + 1)]
      BY <1>4, <1>6, <3>2 DEF LastIn
    <3>4. f[k + (n + 1)] = f[k + n]
      BY <2>1, <3>2, <3>3 DEF Collects
    <3>5. g[k + (n + 1)] = g[k + n]
      BY <1>4, <2>2, <3>2, <3>3 DEF Collects
    <3> QED
      BY <3>2, <3>4, <3>5
  <2> HIDE DEF S
  <2>8. \A n \in Nat : n \in S
    BY <2>6, <2>7, SetInduction
  <2>9. m - k \in Nat /\ k + (m - k) = m
    <3>1. k <= m
      OBVIOUS
    <3>2. m \in Nat /\ k \in Nat
      BY <1>1
    <3> HIDE DEF m
    <3> QED
      BY <3>1, <3>2
  <2>10. m - k \in S
    BY <2>8, <2>9
  <2>11. g[m] = Append(f[m], line)
    BY <1>1, <2>9, <2>10 DEF S
  <2> QED
    BY <1>4, <1>6, <2>1, <2>2, <2>11
<1> QED
  BY <1>5, <1>6

-----------------------------------------------------------------------------
(***************************************************************************)
(* The link on which the robot serves.  A live socket is the other end of  *)
(* the last connection of its sender, and no connection of a sender whose  *)
(* socket the robot has closed is left.                                    *)
(***************************************************************************)
Status == {"none", "live", "dropped", "reset"}

OpenAt(i, s) == i \in 1 .. Len(conns) /\ conns[i].from = s /\ ~conns[i].eof

LastOfSender(i) == LastIn(conns, i)

SockInv ==
  /\ \A s \in Sender : sock[s] = "live" => \E i \in 1 .. Len(conns) : OpenAt(i, s)
  /\ \A i \in 1 .. Len(conns) :
       ~conns[i].eof => sock[conns[i].from] = "live" /\ LastOfSender(i)
  /\ \A i \in 1 .. Len(conns) : sock[conns[i].from] \in {"none", "live"}

LinkInv ==
  /\ serving \in {"accept", "recv", "close"}
  /\ conns \in Seq(Connection)
  /\ sock \in [Sender -> Status]
  /\ serving # "accept" => conns # <<>>
  /\ SockInv

LEMMA ConnsType ==
  ASSUME LinkInv
  PROVE  /\ Len(conns) \in Nat
         /\ DOMAIN conns = 1 .. Len(conns)
         /\ \A i \in 1 .. Len(conns) :
              /\ conns[i] \in Connection
              /\ conns[i].from \in Sender
              /\ conns[i].data \in Seq(Line)
              /\ conns[i].eof \in BOOLEAN
<1>1. conns \in Seq(Connection)
  BY DEF LinkInv
<1>2. Len(conns) \in Nat /\ DOMAIN conns = 1 .. Len(conns)
  BY <1>1
<1>3. \A i \in 1 .. Len(conns) : conns[i] \in Connection
  BY <1>1, ElementOfSeq
<1> QED
  BY <1>2, <1>3 DEF Connection

LEMMA OpenConnIs ==
  ASSUME LinkInv, NEW s \in Sender, sock[s] = "live"
  PROVE  OpenAt(OpenConn(s), s) /\ LastOfSender(OpenConn(s))
<1>1. PICK i \in 1 .. Len(conns) : OpenAt(i, s)
  BY DEF LinkInv, SockInv
<1>2. DOMAIN conns = 1 .. Len(conns)
  BY ConnsType
<1>3. \E j \in DOMAIN conns : conns[j].from = s /\ ~conns[j].eof
  BY <1>1, <1>2 DEF OpenAt
<1>4. /\ OpenConn(s) \in DOMAIN conns
      /\ conns[OpenConn(s)].from = s /\ ~conns[OpenConn(s)].eof
  BY <1>3, Zenon DEF OpenConn
<1>5. OpenAt(OpenConn(s), s)
  BY <1>2, <1>4, Zenon DEF OpenAt
<1>6. LastOfSender(OpenConn(s))
  BY <1>5 DEF LinkInv, SockInv, OpenAt
<1> QED
  BY <1>5, <1>6

\* The first connection goes, with all that is in it.
LEMMA HeadGoes ==
  ASSUME LinkInv, conns # <<>>
  PROVE  /\ Head(conns) = conns[1] /\ 1 \in 1 .. Len(conns)
         /\ Tail(conns) \in Seq(Connection)
         /\ Len(Tail(conns)) = Len(conns) - 1
         /\ \A i \in 1 .. Len(Tail(conns)) : Tail(conns)[i] = conns[i + 1]
  BY HeadTailProperties DEF LinkInv

\* A line of the served connection is consumed.
LEMMA ConsumeKeeps ==
  ASSUME LinkInv, ConsumeLine
  PROVE  /\ LinkInv'
         /\ conns # <<>> /\ conns[1].from \in Sender
         /\ Replaces(conns, 1, [conns[1] EXCEPT !.data = Tail(@)], conns')
         /\ Enqueue(Head(UnreadOf(conns, conns[1].from)))
         /\ UnreadOf(conns, conns[1].from) # <<>>
         /\ \A s \in Sender :
              UnreadOf(conns', s) = IF s = conns[1].from THEN Tail(UnreadOf(conns, s))
                                    ELSE UnreadOf(conns, s)
<1> DEFINE c == [conns[1] EXCEPT !.data = Tail(@)]
<1>1. /\ conns # <<>> /\ Head(conns) = conns[1] /\ 1 \in 1 .. Len(conns)
      /\ conns[1] \in Connection /\ conns[1].from \in Sender
      /\ conns[1].data \in Seq(Line) /\ conns[1].data # <<>>
  BY ConnsType, HeadGoes DEF ConsumeLine, LinkInv
<1>2. c \in Connection /\ c.from = conns[1].from /\ c.eof = conns[1].eof
  <2>1. Tail(conns[1].data) \in Seq(Line)
    BY <1>1, HeadTailProperties
  <2> QED
    BY <1>1, <2>1 DEF Connection
<1>3. conns' = [conns EXCEPT ![1] = c]
  BY DEF ConsumeLine
<1> HIDE DEF c
<1>4. Replaces(conns, 1, c, conns')
  BY <1>1, <1>2, <1>3, ConnectionReplaced DEF LinkInv
<1>5. ASSUME NEW s \in Sender
      PROVE  /\ s = conns[1].from => /\ UnreadOf(conns, s) # <<>>
                                     /\ Head(UnreadOf(conns, s)) = Head(conns[1].data)
             /\ UnreadOf(conns', s) = IF s = conns[1].from THEN Tail(UnreadOf(conns, s))
                                      ELSE UnreadOf(conns, s)
  BY <1>1, <1>4, UnreadConsume DEF c, LinkInv
<1>6. Enqueue(Head(UnreadOf(conns, conns[1].from)))
  BY <1>1, <1>5 DEF ConsumeLine
<1>7. LinkInv'
  <2>1. /\ serving' = serving /\ sock' = sock /\ conns' \in Seq(Connection)
        /\ Len(conns') = Len(conns)
        /\ \A i \in 1 .. Len(conns) :
             conns'[i].from = conns[i].from /\ conns'[i].eof = conns[i].eof
    BY <1>2, <1>4 DEF ConsumeLine, Replaces
  <2>2. conns' # <<>>
    BY <1>1, <2>1
  <2>3. SockInv'
    BY <2>1 DEF LinkInv, SockInv, OpenAt, LastOfSender, LastIn
  <2> QED
    BY <2>1, <2>2, <2>3 DEF LinkInv
<1> QED
  BY <1>1, <1>4, <1>5, <1>6, <1>7 DEF c

\* A connection is closed: by its sender before, or by the robot.
LEMMA TailKeeps ==
  ASSUME LinkInv, conns # <<>>, conns' = Tail(conns), serving' = "accept",
         IF conns[1].eof THEN sock' = sock
         ELSE /\ LastOfSender(1)
              /\ \E st \in {"dropped", "reset"} :
                   sock' = [sock EXCEPT ![conns[1].from] = st]
  PROVE  LinkInv'
<1>1. /\ Len(conns) \in Nat /\ 1 \in 1 .. Len(conns) /\ conns' \in Seq(Connection)
      /\ Len(conns') = Len(conns) - 1
      /\ \A i \in 1 .. Len(conns') : conns'[i] = conns[i + 1]
      /\ conns[1].from \in Sender
  BY HeadGoes, ConnsType
<1>2. sock' \in [Sender -> Status]
  BY DEF LinkInv, Status
<1>3. ASSUME NEW s \in Sender, sock'[s] = "live"
      PROVE  \E i \in 1 .. Len(conns') : OpenAt(i, s)'
  <2>1. sock[s] = "live" /\ (~conns[1].eof => s # conns[1].from)
    BY <1>1, <1>3 DEF LinkInv
  <2>2. PICK i \in 1 .. Len(conns) : OpenAt(i, s)
    BY <2>1 DEF LinkInv, SockInv
  <2>3. i # 1 /\ i - 1 \in 1 .. Len(conns') /\ (i - 1) + 1 = i
    BY <1>1, <2>1, <2>2 DEF OpenAt
  <2>4. conns'[i - 1] = conns[i]
    BY <1>1, <2>3
  <2>5. OpenAt(i - 1, s)'
    BY <2>2, <2>3, <2>4 DEF OpenAt
  <2> QED
    BY <2>3, <2>5
<1>4. ASSUME NEW i \in 1 .. Len(conns')
      PROVE  /\ i + 1 \in 1 .. Len(conns) /\ i + 1 > 1
             /\ conns'[i] = conns[i + 1] /\ conns[i + 1].from \in Sender
  BY <1>1, ConnsType
<1>5. ASSUME NEW i \in 1 .. Len(conns')
      PROVE  sock'[conns'[i].from] = sock[conns'[i].from]
  <2>1. CASE conns[1].eof
    BY <2>1
  <2>2. CASE ~conns[1].eof
    <3>1. conns[i + 1].from # conns[1].from
      BY <1>4, <2>2 DEF LastOfSender, LastIn
    <3> QED
      BY <1>4, <2>2, <3>1 DEF LinkInv
  <2> QED
    BY <2>1, <2>2
<1>6. ASSUME NEW i \in 1 .. Len(conns'), ~conns'[i].eof
      PROVE  sock'[conns'[i].from] = "live" /\ LastOfSender(i)'
  <2>1. sock[conns[i + 1].from] = "live" /\ LastOfSender(i + 1)
    BY <1>4, <1>6 DEF LinkInv, SockInv
  <2>2. sock'[conns'[i].from] = "live"
    BY <1>4, <1>5, <2>1
  <2>3. ASSUME NEW j \in 1 .. Len(conns'), j > i
        PROVE  conns'[j].from # conns'[i].from
    BY <1>4, <2>1, <2>3 DEF LastOfSender, LastIn
  <2> QED
    BY <2>2, <2>3 DEF LastOfSender, LastIn
<1>7. ASSUME NEW i \in 1 .. Len(conns')
      PROVE  sock'[conns'[i].from] \in {"none", "live"}
  BY <1>4, <1>5 DEF LinkInv, SockInv
<1>8. SockInv'
  BY <1>3, <1>6, <1>7, Zenon DEF SockInv
<1> QED
  BY <1>1, <1>2, <1>8 DEF LinkInv

\* A connection is made, and the socket is its other end or is closed again.
LEMMA ConnectKeeps ==
  ASSUME LinkInv, NEW s \in Sender, NEW line \in Line, NEW eof \in BOOLEAN,
         sock[s] \notin {"live"},
         conns' = Append(conns, [from |-> s, data |-> <<line>>, eof |-> eof]),
         sock' = [sock EXCEPT ![s] = IF eof THEN "none" ELSE "live"],
         serving' = serving
  PROVE  /\ LinkInv'
         /\ Len(conns') = Len(conns) + 1
         /\ \A i \in 1 .. Len(conns) : conns'[i] = conns[i]
         /\ \A t \in Sender :
              UnreadOf(conns', t) = IF t = s THEN Append(UnreadOf(conns, t), line)
                                    ELSE UnreadOf(conns, t)
<1> DEFINE c == [from |-> s, data |-> <<line>>, eof |-> eof]
           m == Len(conns)
<1>1. c \in Connection /\ c.from = s /\ c.data = <<line>> /\ c.eof = eof
  BY DEF Connection
<1> HIDE DEF c
<1>2. conns' = Append(conns, c)
  BY DEF c
<1>3. /\ m \in Nat /\ conns' \in Seq(Connection) /\ Len(conns') = m + 1
      /\ conns'[m + 1] = c /\ conns' # <<>>
      /\ \A i \in 1 .. m : conns'[i] = conns[i] /\ conns[i].from \in Sender
  BY <1>1, <1>2, ConnsType, AppendProperties DEF LinkInv
<1>4. ASSUME NEW t \in Sender
      PROVE  UnreadOf(conns', t) = IF t = s THEN Append(UnreadOf(conns, t), line)
                                   ELSE UnreadOf(conns, t)
  <2>1. UnreadOf(conns', t) = IF c.from = t THEN UnreadOf(conns, t) \o c.data
                              ELSE UnreadOf(conns, t)
    <3>1. conns \in Seq(Connection)
      BY DEF LinkInv
    <3>2. UnreadOf(Append(conns, c), t)
            = IF c.from = t THEN UnreadOf(conns, t) \o c.data ELSE UnreadOf(conns, t)
      BY <1>1, <3>1, UnreadAppend
    <3> QED
      BY <1>2, <3>2
  <2>2. UnreadOf(conns, t) \in Seq(Line)
    BY UnreadType DEF LinkInv
  <2>3. UnreadOf(conns, t) \o <<line>> = Append(UnreadOf(conns, t), line)
    BY <2>2, AppendIsConcat
  <2> QED
    BY <1>1, <2>1, <2>3
<1>5. sock' \in [Sender -> Status]
  BY DEF LinkInv, Status
<1>6. ASSUME NEW t \in Sender, sock'[t] = "live"
      PROVE  \E i \in 1 .. Len(conns') : OpenAt(i, t)'
  <2>1. CASE t = s
    <3>1. eof = FALSE
      BY <1>6, <2>1 DEF LinkInv
    <3>2. PICK k \in 1 .. Len(conns') : k = m + 1
      BY <1>3
    <3>3. OpenAt(k, t)'
      BY <1>1, <1>3, <2>1, <3>1, <3>2 DEF OpenAt
    <3> QED
      BY <3>3
  <2>2. CASE t # s
    <3>1. sock[t] = "live"
      BY <1>6, <2>2 DEF LinkInv
    <3>2. PICK i \in 1 .. Len(conns) : OpenAt(i, t)
      BY <3>1 DEF LinkInv, SockInv
    <3>3. i \in 1 .. Len(conns') /\ OpenAt(i, t)'
      BY <1>3, <3>2 DEF OpenAt
    <3> QED
      BY <3>3
  <2> QED
    BY <2>1, <2>2
<1>7. ASSUME NEW i \in 1 .. Len(conns'), ~conns'[i].eof
      PROVE  sock'[conns'[i].from] = "live" /\ LastOfSender(i)'
  <2>1. CASE i = m + 1
    BY <1>1, <1>3, <1>7, <2>1 DEF LinkInv, LastOfSender, LastIn
  <2>2. CASE i \in 1 .. m
    <3>1. sock[conns[i].from] = "live" /\ LastOfSender(i) /\ conns'[i] = conns[i]
      BY <1>3, <1>7, <2>2 DEF LinkInv, SockInv
    <3>2. conns[i].from # s
      BY <3>1
    <3>3. sock'[conns'[i].from] = "live"
      BY <1>3, <2>2, <3>1, <3>2 DEF LinkInv
    <3>4. ASSUME NEW j \in 1 .. Len(conns'), j > i
          PROVE  conns'[j].from # conns'[i].from
      <4>1. CASE j = m + 1
        BY <1>1, <1>3, <3>1, <3>2, <4>1
      <4>2. CASE j \in 1 .. m
        BY <1>3, <2>2, <3>1, <3>4, <4>2 DEF LastOfSender, LastIn
      <4> QED
        BY <1>3, <4>1, <4>2
    <3> QED
      BY <3>3, <3>4 DEF LastOfSender, LastIn
  <2> QED
    BY <1>3, <2>1, <2>2
<1>8. ASSUME NEW i \in 1 .. Len(conns')
      PROVE  sock'[conns'[i].from] \in {"none", "live"}
  <2>1. CASE conns'[i].from = s
    BY <2>1 DEF LinkInv
  <2>2. CASE conns'[i].from # s
    BY <1>1, <1>3, <2>2 DEF LinkInv, SockInv
  <2> QED
    BY <2>1, <2>2
<1>9. SockInv'
  BY <1>6, <1>7, <1>8, Zenon DEF SockInv
<1>10. LinkInv'
  BY <1>3, <1>5, <1>9 DEF LinkInv
<1> QED
  BY <1>3, <1>4, <1>10

\* What sending a line comes to: it goes into a connection of its sender, or the
\* closed socket swallows it.
Sent(s, line) ==
  /\ sock[s] # "dropped" /\ sock'[s] = "live"
  /\ \A t \in Sender : t # s => sock'[t] = sock[t]
  /\ \A t \in Sender :
       UnreadOf(conns', t) = IF t = s THEN Append(UnreadOf(conns, t), line)
                             ELSE UnreadOf(conns, t)

Swallowed(s) ==
  /\ sock[s] = "dropped" /\ sock' = [sock EXCEPT ![s] = "reset"]
  /\ conns' = conns
  /\ UnreadOf(conns, s) = <<>>

\* Only one connection is touched, at its end.
OnlyItsOwn(s) ==
  \A i \in 1 .. Len(conns) :
    /\ i \in 1 .. Len(conns')
    /\ conns'[i].from = conns[i].from
    /\ conns'[i].eof = conns[i].eof
    /\ conns'[i].data # conns[i].data => OpenAt(i, s) /\ Len(conns'[i].data) = Len(conns[i].data) + 1

\* No connection is made but one of s.
MadeOnlyFor(s) ==
  \A i \in 1 .. Len(conns') : i \notin 1 .. Len(conns) => conns'[i].from = s

LEMMA SendLineKeeps ==
  ASSUME LinkInv, NEW s \in Sender, NEW line \in Line, SendLine(s, line)
  PROVE  /\ LinkInv' /\ (Sent(s, line) \/ Swallowed(s))
         /\ OnlyItsOwn(s) /\ MadeOnlyFor(s)
<1>1. Len(conns) \in Nat /\ sock \in [Sender -> Status]
  BY ConnsType DEF LinkInv
<1>2. CASE sock[s] = "live" /\ sock' = sock
           /\ conns' = [conns EXCEPT ![OpenConn(s)].data = Append(@, line)]
  <2> DEFINE k == OpenConn(s)
             c == [conns[k] EXCEPT !.data = Append(@, line)]
  <2>1. OpenAt(k, s) /\ LastOfSender(k)
    BY <1>2, OpenConnIs
  <2>2. conns' = [conns EXCEPT ![k] = c]
    BY <1>2
  <2> HIDE DEF k
  <2>3. /\ k \in 1 .. Len(conns) /\ conns[k] \in Connection /\ conns[k].data \in Seq(Line)
        /\ conns[k].from = s /\ ~conns[k].eof
    BY <2>1, ConnsType DEF OpenAt
  <2>4. /\ c \in Connection /\ c.from = s /\ c.eof = conns[k].eof
        /\ Len(c.data) = Len(conns[k].data) + 1
    <3>1. /\ Append(conns[k].data, line) \in Seq(Line)
          /\ Len(Append(conns[k].data, line)) = Len(conns[k].data) + 1
      BY <2>3, AppendProperties
    <3> QED
      BY <2>3, <3>1 DEF Connection
  <2>5. Replaces(conns, k, c, conns')
    BY <2>2, <2>3, <2>4, ConnectionReplaced DEF LinkInv
  <2>6. ASSUME NEW t \in Sender
        PROVE  UnreadOf(conns', t) = IF t = s THEN Append(UnreadOf(conns, t), line)
                                     ELSE UnreadOf(conns, t)
    <3>1. LastIn(conns, k)
      BY <2>1 DEF LastOfSender
    <3>2. Replaces(conns, k, c, conns') /\ c \in Connection
      BY <2>4, <2>5
    <3>3. conns \in Seq(Connection)
      BY DEF LinkInv
    <3>4. UnreadOf(conns', t)
            = IF conns[k].from = t THEN Append(UnreadOf(conns, t), line)
              ELSE UnreadOf(conns, t)
      <4>1. c.from = conns[k].from /\ c.data = Append(conns[k].data, line)
        BY <2>3, <2>4
      <4> HIDE DEF c
      <4> QED
        BY <2>3, <3>1, <3>2, <3>3, <4>1, UnreadSubmit
    <3> QED
      BY <2>3, <3>4
  <2> HIDE DEF c
  <2>7. /\ conns' \in Seq(Connection) /\ Len(conns') = Len(conns)
        /\ \A i \in 1 .. Len(conns) :
             conns'[i].from = conns[i].from /\ conns'[i].eof = conns[i].eof
    BY <2>3, <2>4, <2>5 DEF Replaces
  <2>8. conns # <<>> => conns' # <<>>
    BY <1>1, <2>7 DEF LinkInv
  <2>9. SockInv'
    BY <1>2, <2>7 DEF LinkInv, SockInv, OpenAt, LastOfSender, LastIn
  <2>10. LinkInv'
    BY <1>2, <2>7, <2>8, <2>9 DEF LinkInv, SendLine
  <2>11. Sent(s, line)
    BY <1>2, <2>6 DEF Sent
  <2>12. OnlyItsOwn(s) /\ MadeOnlyFor(s)
    BY <2>1, <2>3, <2>4, <2>5, <2>7 DEF OnlyItsOwn, MadeOnlyFor, Replaces
  <2> QED
    BY <2>10, <2>11, <2>12
<1>3. CASE sock[s] = "dropped" /\ sock' = [sock EXCEPT ![s] = "reset"] /\ conns' = conns
  <2>1. \A i \in 1 .. Len(conns) : conns[i].from # s
    BY <1>3 DEF LinkInv, SockInv
  <2>2. UnreadOf(conns, s) = <<>>
    BY <2>1, UnreadNone DEF LinkInv
  <2>3. SockInv'
    BY <1>1, <1>3, <2>1, ConnsType DEF LinkInv, SockInv, OpenAt, LastOfSender, LastIn
  <2>4. LinkInv'
    BY <1>1, <1>3, <2>3 DEF LinkInv, Status, SendLine
  <2>5. OnlyItsOwn(s) /\ MadeOnlyFor(s)
    BY <1>3 DEF OnlyItsOwn, MadeOnlyFor
  <2> QED
    BY <1>3, <2>2, <2>4, <2>5 DEF Swallowed
<1>4. CASE ConnectAndSend(s, line)
  <2>1. /\ sock[s] \notin {"live"} /\ sock[s] # "dropped" /\ serving' = serving
        /\ conns' = Append(conns, [from |-> s, data |-> <<line>>, eof |-> FALSE])
        /\ sock' = [sock EXCEPT ![s] = IF FALSE THEN "none" ELSE "live"]
    BY <1>4 DEF ConnectAndSend, SendLine
  <2>2. /\ LinkInv' /\ Len(conns') = Len(conns) + 1
        /\ \A i \in 1 .. Len(conns) : conns'[i] = conns[i]
        /\ \A t \in Sender :
             UnreadOf(conns', t) = IF t = s THEN Append(UnreadOf(conns, t), line)
                                   ELSE UnreadOf(conns, t)
    BY <2>1, ConnectKeeps
  <2>3. Sent(s, line)
    BY <1>1, <2>1, <2>2 DEF Sent
  <2>4. OnlyItsOwn(s)
    BY <1>1, <2>2 DEF OnlyItsOwn
  <2>5. MadeOnlyFor(s)
    <3>1. conns'[Len(conns) + 1].from = s
      BY <2>1, AppendProperties DEF LinkInv
    <3> QED
      BY <1>1, <2>2, <3>1 DEF MadeOnlyFor
  <2> QED
    BY <2>2, <2>3, <2>4, <2>5
<1> QED
  BY <1>2, <1>3, <1>4 DEF SendLine, SendOn

\* A sender whose connection is refused has no socket afterwards.
LEMMA RefusedKeeps ==
  ASSUME LinkInv, NEW s \in Sender, Refused(s)
  PROVE  /\ LinkInv' /\ conns' = conns /\ serving' = serving
         /\ sock' = [sock EXCEPT ![s] = "none"]
<1>1. /\ sock[s] \in {"none", "reset"} /\ sock' = [sock EXCEPT ![s] = "none"]
      /\ conns' = conns /\ serving' = serving
  BY DEF Refused
<1>2. sock' \in [Sender -> Status]
  BY <1>1 DEF LinkInv, Status
<1>3. SockInv'
  BY <1>1, ConnsType DEF LinkInv, SockInv, OpenAt, LastOfSender, LastIn
<1> QED
  BY <1>1, <1>2, <1>3 DEF LinkInv

\* A sender that ends leaves its lines to be read.
LEMMA CloseSenderKeeps ==
  ASSUME LinkInv, NEW s \in Sender, CloseSender(s)
  PROVE  /\ LinkInv' /\ serving' = serving
         /\ sock' = [sock EXCEPT ![s] = "none"]
         /\ Len(conns') = Len(conns)
         /\ \A i \in 1 .. Len(conns) :
              /\ conns'[i].from = conns[i].from /\ conns'[i].data = conns[i].data
              /\ conns'[i].eof # conns[i].eof => conns[i].from = s
         /\ \A t \in Sender : UnreadOf(conns', t) = UnreadOf(conns, t)
<1>1. serving' = serving /\ sock' = [sock EXCEPT ![s] = "none"]
  BY DEF CloseSender
<1>2. sock' \in [Sender -> Status] /\ Len(conns) \in Nat
  BY <1>1, ConnsType DEF LinkInv, Status
<1>3. CASE sock[s] # "live"
  <2>1. conns' = conns
    BY <1>3 DEF CloseSender
  <2>2. SockInv'
    BY <1>1, <1>3, <2>1, ConnsType DEF LinkInv, SockInv, OpenAt, LastOfSender, LastIn
  <2> QED
    BY <1>1, <1>2, <2>1, <2>2 DEF LinkInv
<1>4. CASE sock[s] = "live"
  <2> DEFINE k == OpenConn(s)
             c == [conns[k] EXCEPT !.eof = TRUE]
  <2>1. OpenAt(k, s) /\ LastOfSender(k)
    BY <1>4, OpenConnIs
  <2>2. conns' = [conns EXCEPT ![k] = c]
    BY <1>4 DEF CloseSender
  <2> HIDE DEF k
  <2>3. /\ k \in 1 .. Len(conns) /\ conns[k] \in Connection
        /\ conns[k].from = s /\ ~conns[k].eof
    BY <2>1, ConnsType DEF OpenAt
  <2>4. /\ c \in Connection /\ c.from = s /\ c.eof = TRUE /\ c.data = conns[k].data
    BY <2>3 DEF Connection
  <2> HIDE DEF c
  <2>5. Replaces(conns, k, c, conns')
    BY <2>2, <2>3, <2>4, ConnectionReplaced DEF LinkInv
  <2>6. /\ conns' \in Seq(Connection) /\ Len(conns') = Len(conns)
        /\ \A i \in 1 .. Len(conns) :
             /\ conns'[i].from = conns[i].from /\ conns'[i].data = conns[i].data
             /\ conns'[i].eof = IF i = k THEN TRUE ELSE conns[i].eof
    BY <2>3, <2>4, <2>5 DEF Replaces
  <2>7. \A i \in 1 .. Len(conns) : OpenAt(i, s) => i = k
    <3>1. SUFFICES ASSUME NEW i \in 1 .. Len(conns), OpenAt(i, s), i # k PROVE FALSE
      OBVIOUS
    <3>2. LastOfSender(i)
      BY <3>1 DEF LinkInv, SockInv, OpenAt
    <3>3. k \in Int /\ i \in Int
      BY <1>2, <2>3
    <3>4. CASE i < k
      BY <2>3, <3>1, <3>2, <3>4 DEF LastOfSender, LastIn, OpenAt
    <3>5. CASE i > k
      BY <2>1, <2>3, <3>1, <3>5 DEF LastOfSender, LastIn, OpenAt
    <3> QED
      BY <3>1, <3>3, <3>4, <3>5
  <2>8. ASSUME NEW t \in Sender, sock'[t] = "live"
        PROVE  \E i \in 1 .. Len(conns') : OpenAt(i, t)'
    <3>1. t # s /\ sock[t] = "live"
      BY <1>1, <2>8 DEF LinkInv
    <3>2. PICK i \in 1 .. Len(conns) : OpenAt(i, t)
      BY <3>1 DEF LinkInv, SockInv
    <3>3. i # k /\ i \in 1 .. Len(conns')
      BY <2>3, <2>6, <3>1, <3>2 DEF OpenAt
    <3>4. OpenAt(i, t)'
      BY <2>6, <3>2, <3>3 DEF OpenAt
    <3> QED
      BY <3>3, <3>4
  <2>9. ASSUME NEW i \in 1 .. Len(conns'), ~conns'[i].eof
        PROVE  sock'[conns'[i].from] = "live" /\ LastOfSender(i)'
    <3>1. i \in 1 .. Len(conns) /\ i # k /\ ~conns[i].eof /\ conns'[i].from = conns[i].from
      BY <2>6, <2>9
    <3>2. conns[i].from # s
      BY <2>7, <3>1 DEF OpenAt
    <3>3. sock[conns[i].from] = "live" /\ LastOfSender(i)
      BY <3>1 DEF LinkInv, SockInv
    <3>4. sock'[conns'[i].from] = "live"
      BY <1>1, <3>1, <3>2, <3>3, ConnsType DEF LinkInv
    <3>5. LastOfSender(i)'
      BY <2>6, <3>1, <3>3 DEF LastOfSender, LastIn
    <3> QED
      BY <3>4, <3>5
  <2>10. ASSUME NEW i \in 1 .. Len(conns')
         PROVE  sock'[conns'[i].from] \in {"none", "live"}
    <3>1. i \in 1 .. Len(conns) /\ conns'[i].from = conns[i].from /\ conns[i].from \in Sender
      BY <2>6, ConnsType
    <3> QED
      BY <1>1, <3>1 DEF LinkInv, SockInv
  <2>11. SockInv'
    BY <2>8, <2>9, <2>10, Zenon DEF SockInv
  <2>12. conns # <<>> => conns' # <<>>
    BY <1>2, <2>6 DEF LinkInv
  <2>13. LinkInv'
    BY <1>1, <1>2, <2>6, <2>11, <2>12 DEF LinkInv
  <2>14. ASSUME NEW t \in Sender PROVE UnreadOf(conns', t) = UnreadOf(conns, t)
    <3>1. Agree(conns, conns', t, Len(conns))
      BY <2>6 DEF Agree
    <3> QED
      BY <2>6, <3>1, UnreadSame DEF LinkInv
  <2> QED
    BY <1>1, <2>3, <2>6, <2>13, <2>14
<1> QED
  BY <1>3, <1>4

\* Nothing is left where the robot's program ends.
LEMMA DropsKeep ==
  ASSUME LinkInv, ServerDrops
  PROVE  /\ LinkInv' /\ serving' = "accept" /\ conns' = <<>>
         /\ \A s \in Sender : UnreadOf(conns', s) = <<>> /\ sock'[s] # "live"
         /\ \A s \in Sender : sock[s] = "none" => sock'[s] = "none"
<1>1. serving' = "accept" /\ conns' = <<>> /\ <<>> \in Seq(Connection) /\ Len(<<>>) = 0
  BY DEF ServerDrops
<1>2. \A s \in Sender : UnreadOf(<<>>, s) = <<>>
  BY UnreadEmpty
<1>3. sock' \in [Sender -> Status]
  BY DEF ServerDrops, LinkInv, Status
<1>4. \A s \in Sender : /\ sock'[s] # "live"
                        /\ sock[s] = "none" => sock'[s] = "none"
  BY DEF ServerDrops
<1>5. SockInv'
  BY <1>1, <1>4 DEF SockInv
<1> QED
  BY <1>1, <1>2, <1>3, <1>4, <1>5 DEF LinkInv

-----------------------------------------------------------------------------
(***************************************************************************)
(* The listeners.  Whatever is heard, only a policy of the rules is asked  *)
(* for, so that what goes out is a line; and a listener that records when  *)
(* its loop comes round has a clip or a line, never both.                  *)
(***************************************************************************)
LEMMA FirstPolicyType ==
  ASSUME NEW X \in SUBSET DOMAIN Items
  PROVE  FirstPolicy(Rules, X) \in PolicyId \cup {NoPolicy}
<1>1. CASE X = {}
  BY <1>1 DEF FirstPolicy
<1>2. CASE X # {}
  <2>1. X \in SUBSET Nat
    BY ListenerAssumption
  <2>2. \E n \in X : \A m \in X : n <= m
    BY <1>2, <2>1, LeastNumber
  <2> DEFINE n == CHOOSE n \in X : \A m \in X : n <= m
  <2>3. n \in X
    BY <2>2
  <2>4. FirstPolicy(Rules, X) = Items[n].policy
    BY <1>2 DEF FirstPolicy, Rules, ParseSongPolicyRules
  <2>5. Items[n].policy \in PolicyId
    BY <2>3, ListenerAssumption
  <2> QED
    BY <2>4, <2>5
<1> QED
  BY <1>1, <1>2

LEMMA ResolvePolicyType ==
  ASSUME NEW song
  PROVE  /\ ResolvePolicy(song, Rules) \in PolicyId \cup {NoPolicy}
         /\ \A at : ResolvePolicyWithOffset(song, at, Rules) \in PolicyId \cup {NoPolicy}
<1>1. Rules.plain \subseteq DOMAIN Items /\ Rules.timed \subseteq DOMAIN Items
  BY DEF Rules, ParseSongPolicyRules
<1>2. ResolvePolicy(song, Rules) \in PolicyId \cup {NoPolicy}
  <2> DEFINE X == {n \in Rules.plain : song \in Contains[Rules.items[n].key]}
  <2>1. X \in SUBSET DOMAIN Items
    BY <1>1
  <2> HIDE DEF X
  <2>2. FirstPolicy(Rules, X) \in PolicyId \cup {NoPolicy}
    BY <2>1, FirstPolicyType
  <2> QED
    BY <2>2 DEF ResolvePolicy, X
<1>3. ASSUME NEW at
      PROVE  ResolvePolicyWithOffset(song, at, Rules) \in PolicyId \cup {NoPolicy}
  <2> DEFINE X == {n \in Rules.timed : /\ at # NoOffset
                                       /\ song \in Contains[Rules.items[n].key]
                                       /\ OffsetInRange(at, Rules.items[n])}
  <2>1. X \in SUBSET DOMAIN Items
    BY <1>1
  <2>2. ResolvePolicyWithOffset(song, at, Rules)
          = IF FirstPolicy(Rules, X) # NoPolicy THEN FirstPolicy(Rules, X)
            ELSE ResolvePolicy(song, Rules)
    BY DEF ResolvePolicyWithOffset
  <2> HIDE DEF X
  <2>3. FirstPolicy(Rules, X) \in PolicyId \cup {NoPolicy}
    BY <2>1, FirstPolicyType
  <2> QED
    BY <1>2, <2>2, <2>3
<1> QED
  BY <1>2, <1>3

LEMMA DecisionsType ==
  ASSUME setup.script \in {"smart", "timed", "clips"}, NEW clip
  PROVE  Decisions(clip) \subseteq PolicyId \cup {NoPolicy}
<1>1. \A m : ConfidentPolicy(m, Rules) \in PolicyId \cup {NoPolicy}
  BY ResolvePolicyType DEF ConfidentPolicy
<1>2. ASSUME NEW m, NEW c, NEW k
      PROVE  TimedPolicy(setup.way, m, c, k, ClassItems, Rules) \in PolicyId \cup {NoPolicy}
  <2>1. ShazamPolicy(setup.way.id, m, Rules) \in PolicyId \cup {NoPolicy}
    BY ResolvePolicyType DEF ShazamPolicy
  <2>2. ClassPolicy(k.name, k.sure, ClassItems) \in PolicyId \cup {NoPolicy}
    BY ListenerAssumption DEF ClassPolicy
  <2>3. ClapPolicy(c, setup.way.offset, Rules) \in PolicyId \cup {NoPolicy}
    BY ResolvePolicyType DEF ClapPolicy
  <2> QED
    BY <2>1, <2>2, <2>3 DEF TimedPolicy
<1>3. /\ SmartDecisions(clip) \subseteq PolicyId \cup {NoPolicy}
      /\ ClipsDecisions(clip) \subseteq PolicyId \cup {NoPolicy}
  BY <1>1 DEF SmartDecisions, ClipsDecisions
<1>4. TimedDecisions(clip) \subseteq PolicyId \cup {NoPolicy}
  BY <1>2 DEF TimedDecisions
<1> QED
  BY <1>3, <1>4 DEF Decisions

\* The command line, and what there is beside it.
SetupInv ==
  /\ setup.script \in {"smart", "timed", "clips"}
  /\ setup.tcp \in {"client", "server"}
  /\ setup.capture \in {"record", "stream", "files"}
  /\ setup.script # "clips" => setup.capture = "record"
  /\ setup.script = "clips" => setup.tcp = "client"
  /\ setup.script # "timed" => ~setup.offline
  /\ gesti \in [at : {"listen", "heard", "send", "speak", "ended"},
               line : GestureLine \cup {<<>>}]
  /\ gesti.at = "send" => gesti.line \in GestureLine
  /\ setup.tcp = "server" => gesti.at = "ended"

\* What goes out.
OutgoingType ==
  [line : Line \cup {<<>>}, policy : PolicyId \cup {NoPolicy}, waited : Nat, talk : BOOLEAN]

OutgoingInv ==
  /\ outgoing \in OutgoingType
  /\ outgoing # Nothing => outgoing.line \in Line
  /\ stage = "closed" => outgoing = Nothing
  /\ stage = "final" /\ outgoing # Nothing => finals < FinalRepeat

\* What was recorded.
ClipsInv ==
  /\ room \in Room
  /\ clips \in Seq(Room)
  /\ stage # "listen" => clips = <<>>
  /\ setup.capture = "record" =>
       Len(clips) <= 1 /\ (outgoing = Nothing \/ clips = <<>>)

LEMMA SayingType ==
  ASSUME NEW line \in Line, NEW p \in PolicyId \cup {NoPolicy}, NEW talk \in BOOLEAN
  PROVE  Saying(line, p, talk) \in OutgoingType /\ Saying(line, p, talk).line = line
BY DEF Saying, OutgoingType

LEMMA NothingType == Nothing \in OutgoingType
BY DEF Nothing, Saying, OutgoingType

ListenerInv ==
  /\ SetupInv /\ OutgoingInv /\ ClipsInv
  /\ stage \in {"listen", "final", "closed"} /\ finals \in Nat

LEMMA ListenerStarts == Init => ListenerInv
<1> SUFFICES ASSUME Init PROVE ListenerInv
  OBVIOUS
<1>1. PICK s \in Setups :
        setup = s[1] /\ gesti = Gesti(IF s[2] THEN "listen" ELSE "ended")
  BY DEF Init, ListenerInit
<1>2. /\ s[1] \in SmartLines \cup TimedLines \cup ClipsLines /\ s[2] \in BOOLEAN
      /\ s[2] => s[1].tcp = "client"
  BY SetupsAssumption DEF GestiLines
<1>3. SetupInv
  BY <1>1, <1>2 DEF SetupInv, SmartLines, TimedLines, ClipsLines, SetupOf, Gesti
<1>4. OutgoingInv
  BY NothingType DEF Init, ListenerInit, OutgoingInv
<1>5. ClipsInv
  BY DEF Init, ListenerInit, ClipsInv
<1> QED
  BY <1>3, <1>4, <1>5 DEF Init, ListenerInit, ListenerInv

LEMMA FollowsType == ASSUME room \in Room PROVE Follows(room) \subseteq Room
<1>1. CASE room \in [song : Song, at : 0..MaxAt]
  <2>1. [room EXCEPT !.at = IF room.song \in Song /\ @ < MaxAt THEN @ + 1 ELSE @]
          \in [song : Song, at : 0..MaxAt]
    BY <1>1, ListenerAssumption
  <2> QED
    BY <1>1, <2>1 DEF Follows, Room
<1>2. CASE room \in [song : Quiet, at : {0}]
  <2>1. room.song \notin Song
    BY <1>2, ListenerAssumption
  <2>2. [room EXCEPT !.at = IF room.song \in Song /\ @ < MaxAt THEN @ + 1 ELSE @]
          \in [song : Quiet, at : {0}]
    BY <1>2, <2>1
  <2> QED
    BY <1>2, <2>2 DEF Follows, Room
<1> QED
  BY <1>1, <1>2 DEF Room

\* Time passes.
LEMMA ListenerTicks == ASSUME ListenerInv, Tick PROVE ListenerInv'
<1>1. SetupInv'
  BY DEF ListenerInv, SetupInv, Tick, Gesti
<1>2. OutgoingInv'
  <2>1. CASE outgoing' = outgoing
    BY <2>1 DEF ListenerInv, OutgoingInv, Tick
  <2>2. CASE outgoing # Nothing /\ outgoing' = [outgoing EXCEPT !.waited = @ + 1]
    BY <2>2 DEF ListenerInv, OutgoingInv, OutgoingType, Tick
  <2> QED
    BY <2>1, <2>2 DEF Tick
<1>3. ClipsInv'
  <2>1. room' \in Room /\ setup' = setup /\ stage' = stage
    BY FollowsType DEF Tick, ListenerInv, ClipsInv
  <2>2. outgoing = Nothing => outgoing' = Nothing
    BY DEF Tick
  <2>3. CASE clips' = clips
    <3>1. outgoing = Nothing \/ clips = <<>> => outgoing' = Nothing \/ clips' = <<>>
      BY <2>2, <2>3
    <3> QED
      BY <2>1, <2>3, <3>1 DEF ClipsInv, ListenerInv
  <2>4. CASE stage = "listen" /\ clips' = <<room>> /\ outgoing = Nothing
    BY <2>1, <2>2, <2>4 DEF ClipsInv, ListenerInv
  <2>5. CASE stage = "listen" /\ clips' = Append(clips, room) /\ setup.capture # "record"
    BY <2>1, <2>5 DEF ClipsInv, ListenerInv
  <2> QED
    BY <2>3, <2>4, <2>5 DEF Tick, Recorded, RecordedByLoop, RecordedByStream,
                            RecordedByMuxer, ListenerInv, SetupInv
<1> QED
  BY <1>1, <1>2, <1>3 DEF ListenerInv, Tick

\* A clip is dealt with.
LEMMA ClipGoes ==
  ASSUME ClipsInv, clips # <<>>, clips' = Tail(clips), UNCHANGED <<setup, room, stage>>
  PROVE  ClipsInv'
<1>1. Tail(clips) \in Seq(Room) /\ Len(clips) \in Nat /\ Len(Tail(clips)) = Len(clips) - 1
  BY HeadTailProperties DEF ClipsInv
<1>2. Len(Tail(clips)) = 0 => Tail(clips) = <<>>
  BY <1>1, EmptySeq
<1> QED
  BY <1>1, <1>2 DEF ClipsInv

LEMMA ListenerHears ==
  ASSUME ListenerInv, HearNothing \/ HearMusic \/ HearSpeech
  PROVE  ListenerInv'
<1>1. /\ stage = "listen" /\ clips # <<>> /\ clips' = Tail(clips) /\ outgoing = Nothing
      /\ UNCHANGED <<setup, room, stage, finals, gesti>>
  BY DEF HearNothing, HearMusic, HearSpeech, CanHear
<1>2. SetupInv'
  BY <1>1 DEF ListenerInv, SetupInv
<1>3. ClipsInv'
  BY <1>1, ClipGoes DEF ListenerInv
<1>4. OutgoingInv'
  <2>1. CASE HearNothing
    BY <1>1, <2>1 DEF HearNothing, ListenerInv, OutgoingInv
  <2>2. CASE HearMusic
    <3>1. PICK p \in Decisions(Head(clips)) \ {NoPolicy} :
            outgoing' = IF Throttled(p) THEN Nothing
                        ELSE Saying(Switch(p), p, FALSE)
      BY <2>2 DEF HearMusic
    <3>2. p \in PolicyId
      BY DecisionsType DEF ListenerInv, SetupInv
    <3>3. Switch(p) \in Line
      BY <3>2, ListenerAssumption
    <3> HIDE DEF Switch
    <3>4. outgoing' \in OutgoingType
      BY <3>1, <3>2, <3>3, NothingType, SayingType
    <3>5. outgoing' # Nothing => outgoing'.line \in Line
      BY <3>1, <3>2, <3>3, SayingType
    <3> QED
      BY <1>1, <3>4, <3>5 DEF OutgoingInv
  <2>3. CASE HearSpeech
    <3>1. PICK line \in GestureLine, talk \in BOOLEAN :
            outgoing' = Saying(line, NoPolicy, talk)
      BY <2>3 DEF HearSpeech, Answers
    <3>2. line \in Line
      BY <3>1, ListenerAssumption
    <3>3. outgoing' \in OutgoingType
      BY <3>1, <3>2, SayingType
    <3>4. outgoing'.line \in Line
      BY <3>1, <3>2, SayingType
    <3> QED
      BY <1>1, <3>3, <3>4 DEF OutgoingInv
  <2> QED
    BY <2>1, <2>2, <2>3
<1> QED
  BY <1>1, <1>2, <1>3, <1>4 DEF ListenerInv

\* A line has gone out, or is given up.
LEMMA ListenerSends ==
  ASSUME ListenerInv, NEW ok \in BOOLEAN, SendEnds(ok)
  PROVE  ListenerInv'
<1>1. outgoing' = Nothing /\ UNCHANGED <<setup, room, clips, stage, gesti>> /\ finals' \in Nat
  BY DEF SendEnds, ListenerInv
<1>2. SetupInv'
  BY <1>1 DEF ListenerInv, SetupInv
<1>3. OutgoingInv'
  BY <1>1, NothingType DEF OutgoingInv
<1>4. ClipsInv'
  BY <1>1 DEF ListenerInv, ClipsInv
<1> QED
  BY <1>1, <1>2, <1>3, <1>4 DEF ListenerInv

\* The listener has ended.
LEMMA ListenerCloses ==
  ASSUME ListenerInv, outgoing' = Nothing, stage' = "closed", clips' = <<>>,
         UNCHANGED <<setup, room, finals, gesti>>
  PROVE  ListenerInv'
<1>1. SetupInv'
  BY DEF ListenerInv, SetupInv
<1>2. OutgoingInv'
  BY NothingType DEF OutgoingInv
<1>3. ClipsInv'
  BY DEF ListenerInv, ClipsInv
<1> QED
  BY <1>1, <1>2, <1>3 DEF ListenerInv

\* A listener that closes has nothing under way.
LEMMA ClosesIdle ==
  ASSUME ListenerInv, Finish \/ UserStops
  PROVE  outgoing = Nothing /\ Close /\ stage # "closed"
BY ListenerAssumption DEF ListenerInv, OutgoingInv, Finish, UserStops

LEMMA ListenerStays == ASSUME ListenerInv, [Next]_vars PROVE ListenerInv'
<1>1. CASE UNCHANGED listenerVars
  BY <1>1 DEF listenerVars, ListenerInv, SetupInv, OutgoingInv, ClipsInv
<1>2. CASE Tick
  BY <1>2, ListenerTicks
<1>3. CASE HearNothing \/ HearMusic \/ HearSpeech
  BY <1>3, ListenerHears
<1>4. CASE TtsEnds
  BY <1>4 DEF TtsEnds, ListenerInv, SetupInv, OutgoingInv, ClipsInv
<1>5. CASE Send \/ SendRefused \/ (SendFails /\ setup.script = "clips")
  BY <1>5, ListenerSends DEF Send, SendRefused, SendFails
<1>6. CASE SendFails /\ setup.script # "clips"
  BY <1>6, ListenerCloses DEF SendFails
<1>7. CASE EndOfFile
  BY <1>7 DEF EndOfFile, ListenerInv, SetupInv, OutgoingInv, ClipsInv
<1>8. CASE SendFinal
  <2>1. Switch(FinalPolicy) \in Line /\ FinalPolicy \in PolicyId
    BY ListenerAssumption
  <2> HIDE DEF Switch
  <2>2. /\ stage = "final" /\ finals < FinalRepeat /\ outgoing = Nothing
        /\ outgoing' = Saying(Switch(FinalPolicy), FinalPolicy, FALSE)
        /\ UNCHANGED <<setup, room, clips, stage, finals, gesti>>
    BY <1>8 DEF SendFinal
  <2>3. outgoing' \in OutgoingType
    BY <2>1, <2>2, SayingType
  <2>4. outgoing'.line \in Line
    BY <2>1, <2>2, SayingType
  <2>5. SetupInv' /\ OutgoingInv'
    BY <2>2, <2>3, <2>4 DEF ListenerInv, SetupInv, OutgoingInv
  <2>6. ClipsInv'
    BY <2>2 DEF ListenerInv, ClipsInv
  <2> QED
    BY <2>2, <2>5, <2>6 DEF ListenerInv
<1>9. CASE Finish \/ UserStops
  <2>1. outgoing = Nothing /\ Close
    BY <1>9, ClosesIdle
  <2> QED
    BY <2>1, ListenerCloses DEF Close
<1>10. CASE GestiSkips \/ GestiSays \/ GestiSends \/ GestiRefused \/ GestiSpoke
  <2>1. UNCHANGED othersVars /\ gesti.at \in {"heard", "send", "speak"}
    BY <1>10 DEF GestiSkips, GestiSays, GestiSends, GestiRefused, GestiSpoke
  <2>2. \/ gesti' \in {Gesti("listen"), Gesti("speak"), Gesti("ended")}
        \/ \E line \in GestureLine : gesti' = [at |-> "send", line |-> line]
    BY <1>10 DEF GestiSkips, GestiSays, GestiSends, GestiRefused, GestiSpoke
  <2>3. SetupInv'
    BY <2>1, <2>2 DEF othersVars, ListenerInv, SetupInv, Gesti
  <2> QED
    BY <2>1, <2>3 DEF othersVars, ListenerInv, OutgoingInv, ClipsInv
<1>11. CASE AcceptForSend \/ RobotLink \/ PipelineStep \/ PipelineResets \/ RobotStops
            \/ RobotStarts
  <2>1. UNCHANGED listenerVars
    BY <1>11 DEF AcceptForSend, RobotLink, PipelineStep, PipelineResets, RobotStops,
                 RobotStarts
  <2> QED
    BY <1>1, <2>1
<1> QED
  BY <1>1, <1>2, <1>3, <1>4, <1>5, <1>6, <1>7, <1>8, <1>9, <1>10, <1>11 DEF Next, vars

-----------------------------------------------------------------------------
(***************************************************************************)
(* The link on which the PC serves.  Of the connections the robot made, it *)
(* reads the last one, and has left every other that the PC holds or that  *)
(* waits for it.                                                           *)
(***************************************************************************)
PcStatus == {"none", "live", "left", "reset", "closed"}

ClientInv ==
  /\ cli \in {"away", "first", "loop"} /\ pcSock \in PcStatus
  /\ wire \in Seq(Line)
  /\ pending \in Seq({"live", "left"})
  /\ pcSock = "live" => cli # "away" /\ pending = <<>>
  /\ pcSock = "closed" => pending = <<>>
  /\ \A i \in 1 .. Len(pending) : pending[i] = "live" => i = Len(pending) /\ cli # "away"
  /\ cli # "away" /\ pcSock \notin {"live", "closed"} =>
       pending # <<>> /\ pending[Len(pending)] = "live"
  /\ setup.tcp = "server" /\ stage = "closed" => pcSock = "closed"

\* The robot leaves its connection, whichever state that is in.
LEMMA LeavingKeeps ==
  ASSUME ClientInv, LeaveConnection, UNCHANGED <<setup, stage>>
  PROVE  /\ ClientInv'
         /\ LeftBehind \in Int
         /\ LeftBehind' = IF cli # "away" /\ pcSock # "closed" THEN LeftBehind + 1
                          ELSE LeftBehind
<1>1. /\ Len(pending) \in Nat /\ DOMAIN pending = 1 .. Len(pending)
      /\ pending' \in Seq({"live", "left"}) /\ Len(pending') = Len(pending)
      /\ \A i \in 1 .. Len(pending') : pending'[i] = "left"
      /\ pending = <<>> => pending' = <<>>
  <2> DEFINE q == [i \in 1 .. Len(pending) |-> "left"]
  <2>1. Len(pending) \in Nat /\ DOMAIN pending = 1 .. Len(pending)
    BY DEF ClientInv
  <2>2. pending' = q
    BY <2>1 DEF LeaveConnection
  <2>3. q \in Seq({"live", "left"}) /\ Len(q) = Len(pending)
    BY <2>1
  <2>4. pending = <<>> => q = <<>>
    BY <2>3
  <2> QED
    BY <2>1, <2>2, <2>3, <2>4
<1>2. cli' = "away" /\ wire' = <<>> /\ pcSock' = IF pcSock = "live" THEN "left" ELSE pcSock
  BY DEF LeaveConnection
<1>3. ClientInv'
  <2>1. <<>> \in Seq(Line) /\ pcSock' \in PcStatus /\ pcSock' # "live"
    BY <1>2 DEF ClientInv, PcStatus
  <2>2. pcSock' = "closed" => pending' = <<>>
    BY <1>1, <1>2 DEF ClientInv
  <2>3. setup.tcp = "server" /\ stage = "closed" => pcSock' = "closed"
    BY <1>2 DEF ClientInv
  <2>4. \A i \in 1 .. Len(pending') : pending'[i] # "live"
    BY <1>1
  <2> QED
    BY <1>1, <1>2, <2>1, <2>2, <2>3, <2>4 DEF ClientInv
<1>4. LeftBehind \in Int
  BY <1>1 DEF LeftBehind
<1>5. LeftBehind' = IF cli # "away" /\ pcSock # "closed" THEN LeftBehind + 1 ELSE LeftBehind
  <2> DEFINE n == Len(pending)
  <2>1. n \in Nat /\ Len(pending') = n
    BY <1>1
  <2> HIDE DEF n
  <2>2. CASE pcSock = "closed"
    BY <1>2, <2>2 DEF LeftBehind
  <2>3. CASE pcSock \in {"live", "left"}
    <3>1. pcSock' = "left"
      BY <1>2, <2>3
    <3>2. LeftBehind' = n + 1
      BY <1>2, <2>1, <3>1 DEF LeftBehind
    <3>3. LeftBehind = n + 1 - (IF cli # "away" THEN 1 ELSE 0)
      BY <2>3 DEF LeftBehind, n
    <3> QED
      BY <2>1, <2>3, <3>2, <3>3
  <2>4. CASE pcSock \in {"none", "reset"}
    <3>1. pcSock' = pcSock
      BY <1>2, <2>4
    <3>2. LeftBehind' = n
      BY <1>2, <2>1, <2>4, <3>1 DEF LeftBehind
    <3>3. LeftBehind = n + 0 - (IF cli # "away" THEN 1 ELSE 0)
      BY <2>4 DEF LeftBehind, n
    <3> QED
      BY <2>1, <2>4, <3>2, <3>3
  <2> QED
    BY <2>2, <2>3, <2>4 DEF ClientInv, PcStatus
<1> QED
  BY <1>3, <1>4, <1>5

\* The robot connects.
LEMMA ConnectingKeeps ==
  ASSUME ClientInv, Connect, UNCHANGED <<setup, stage>>
  PROVE  ClientInv' /\ LeftBehind' = LeftBehind /\ cli = "away" /\ cli' = "first"
         /\ pcSock # "closed"
<1>1. /\ Len(pending) \in Nat /\ pending' = Append(pending, "live")
      /\ cli = "away" /\ cli' = "first" /\ pcSock # "closed"
      /\ pcSock' = pcSock /\ wire' = wire
  BY DEF Connect, CanConnect, ClientInv
<1>2. /\ pending' \in Seq({"live", "left"}) /\ Len(pending') = Len(pending) + 1
      /\ pending'[Len(pending) + 1] = "live" /\ pending' # <<>>
      /\ \A i \in 1 .. Len(pending) : pending'[i] = pending[i]
  BY <1>1, AppendProperties DEF ClientInv
<1>3. \A i \in 1 .. Len(pending') : i # Len(pending') => i \in 1 .. Len(pending)
  BY <1>1, <1>2
<1>4. ClientInv'
  BY <1>1, <1>2, <1>3 DEF ClientInv, PcStatus
<1>5. LeftBehind' = LeftBehind
  BY <1>1, <1>2 DEF LeftBehind
<1> QED
  BY <1>1, <1>4, <1>5

\* The PC accepts the oldest connection that waits.
LEMMA AcceptingKeeps ==
  ASSUME ClientInv, AcceptClient, UNCHANGED <<setup, stage>>
  PROVE  ClientInv' /\ LeftBehind' = LeftBehind
<1>1. /\ pcSock \in {"none", "reset"} /\ pending # <<>>
      /\ pcSock' = pending[1] /\ pending' = Tail(pending) /\ UNCHANGED <<cli, wire>>
      /\ 1 \in 1 .. Len(pending) /\ Len(pending) \in Nat
  BY HeadTailProperties DEF AcceptClient, ClientInv
<1>2. /\ pending' \in Seq({"live", "left"}) /\ Len(pending') = Len(pending) - 1
      /\ \A i \in 1 .. Len(pending') : pending'[i] = pending[i + 1]
      /\ pending[1] \in {"live", "left"}
  BY <1>1, HeadTailProperties, ElementOfSeq DEF ClientInv
<1>3. pending[1] = "live" => cli # "away" /\ Len(pending) = 1 /\ pending' = <<>>
  <2>1. pending[1] = "live" => cli # "away" /\ Len(pending) = 1
    BY <1>1 DEF ClientInv
  <2> QED
    <3>1. pending[1] = "live" => Len(pending') = 0
      BY <1>1, <1>2, <2>1
    <3>2. Len(pending') = 0 => pending' = <<>>
      BY <1>2, EmptySeq
    <3> QED
      BY <2>1, <3>1, <3>2
<1>4. cli # "away" /\ pcSock' # "live" => pending' # <<>> /\ pending'[Len(pending')] = "live"
  <2>1. SUFFICES ASSUME cli # "away", pending[1] # "live"
                 PROVE  pending' # <<>> /\ pending'[Len(pending')] = "live"
    BY <1>1
  <2>2. pending[Len(pending)] = "live"
    BY <1>1, <2>1 DEF ClientInv
  <2>3. Len(pending') \in 1 .. Len(pending') /\ Len(pending') + 1 = Len(pending)
    BY <1>1, <1>2, <2>1, <2>2
  <2> QED
    BY <1>2, <2>2, <2>3
<1>5. ASSUME NEW i \in 1 .. Len(pending'), pending'[i] = "live"
      PROVE  i = Len(pending') /\ cli # "away"
  <2>1. i + 1 \in 1 .. Len(pending) /\ pending[i + 1] = "live"
    BY <1>1, <1>2, <1>5
  <2>2. i + 1 = Len(pending) /\ cli # "away"
    BY <2>1 DEF ClientInv
  <2>3. Len(pending') = Len(pending) - 1 /\ i \in Int /\ Len(pending) \in Int
    BY <1>1, <1>2
  <2> QED
    BY <2>2, <2>3
<1>6. ClientInv'
  BY <1>1, <1>2, <1>3, <1>4, <1>5 DEF ClientInv, PcStatus
<1>7. LeftBehind' = LeftBehind
  <2>1. LeftBehind = Len(pending) + 0 - (IF cli # "away" THEN 1 ELSE 0)
    BY <1>1 DEF LeftBehind
  <2>2. LeftBehind' = (Len(pending) - 1) + 1 - (IF cli # "away" THEN 1 ELSE 0)
    BY <1>1, <1>2 DEF LeftBehind
  <2> QED
    BY <1>1, <2>1, <2>2
<1> QED
  BY <1>6, <1>7

\* The PC sends: on the connection the robot reads, or on one that it has left.
LEMMA AcceptedKeeps ==
  ASSUME ClientInv, NEW line \in Line, SendAccepted(line), UNCHANGED <<setup, stage>>
  PROVE  /\ ClientInv' /\ cli' = cli
         /\ \/ wire' = Append(wire, line) /\ cli # "away" /\ LeftBehind = 0 /\ LeftBehind' = 0
            \/ /\ wire' = wire /\ LeftBehind \in Int
               /\ LeftBehind > 0 /\ LeftBehind' = LeftBehind - 1
<1>1. Len(pending) \in Nat /\ pending' = pending /\ cli' = cli
  BY DEF SendAccepted, ClientInv
<1>2. CASE pcSock = "live" /\ wire' = Append(wire, line) /\ pcSock' = pcSock
  <2>1. wire' \in Seq(Line)
    BY <1>2, AppendProperties DEF ClientInv
  <2>2. cli # "away" /\ Len(pending) = 0
    BY <1>2 DEF ClientInv
  <2>3. ClientInv'
    BY <1>1, <1>2, <2>1 DEF ClientInv
  <2>4. LeftBehind = 0 /\ LeftBehind' = 0
    BY <1>1, <1>2, <2>2 DEF LeftBehind
  <2> QED
    BY <1>1, <1>2, <2>2, <2>3, <2>4
<1>3. CASE pcSock = "left" /\ wire' = wire /\ pcSock' = "reset"
  <2>1. cli # "away" => Len(pending) > 0
    BY <1>1, <1>3, EmptySeq DEF ClientInv
  <2>2. ClientInv'
    BY <1>1, <1>3 DEF ClientInv, PcStatus
  <2>3. LeftBehind \in Int /\ LeftBehind > 0 /\ LeftBehind' = LeftBehind - 1
    BY <1>1, <1>3, <2>1 DEF LeftBehind
  <2> QED
    BY <1>1, <1>3, <2>2, <2>3
<1> QED
  BY <1>2, <1>3 DEF SendAccepted

\* Whatever the listener and the robot do.
LEMMA ClientStays == ASSUME ListenerInv, ClientInv, [Next]_vars PROVE ClientInv'
<1>1. CASE /\ UNCHANGED <<cli, wire, pcSock, pending, setup>>
           /\ stage' = "closed" => stage = "closed" \/ setup.tcp = "client"
  BY <1>1 DEF ClientInv
<1>2. CASE UNCHANGED vars
  BY <1>1, <1>2 DEF vars, listenerVars, clientVars
<1>3. CASE Tick
  BY <1>1, <1>3 DEF Tick, ClientWaits, clientVars
<1>4. CASE HearNothing \/ HearMusic \/ HearSpeech \/ TtsEnds \/ EndOfFile \/ SendFinal
  BY <1>1, <1>4 DEF HearNothing, HearMusic, HearSpeech, TtsEnds, EndOfFile, SendFinal, clientVars
<1>5. CASE SendRefused \/ SendFails
  BY <1>1, <1>5 DEF SendRefused, SendFails, SendEnds, clientVars
<1>6. CASE Send
  <2>1. /\ UNCHANGED <<setup, stage>> /\ outgoing.line \in Line
    BY <1>6 DEF Send, SendEnds, ListenerInv, OutgoingInv
  <2>2. CASE setup.tcp = "server"
    <3>1. PICK line \in Line : SendAccepted(line)
      BY <1>6, <2>1, <2>2 DEF Send
    <3> QED
      BY <2>1, <3>1, AcceptedKeeps
  <2>3. CASE setup.tcp # "server"
    BY <1>1, <1>6, <2>1, <2>3 DEF Send, clientVars
  <2> QED
    BY <2>2, <2>3
<1>7. CASE AcceptForSend
  BY <1>7, AcceptingKeeps DEF AcceptForSend, listenerVars
<1>8. CASE Finish \/ UserStops
  <2>1. Close /\ setup' = setup /\ setup.tcp \in {"client", "server"}
    BY <1>8 DEF Finish, UserStops, Close, ListenerInv, SetupInv
  <2>2. CASE setup.tcp = "client"
    BY <1>1, <2>1, <2>2 DEF Close, clientVars
  <2>3. CASE setup.tcp = "server"
    <3>1. wire' = wire /\ pcSock' = "closed" /\ pending' = <<>> /\ cli' = cli
      BY <2>1, <2>3 DEF Close, CloseServer
    <3>2. <<>> \in Seq({"live", "left"}) /\ Len(<<>>) = 0
      OBVIOUS
    <3> QED
      BY <2>1, <3>1, <3>2 DEF ClientInv, PcStatus
  <2> QED
    BY <2>1, <2>2, <2>3
<1>9. CASE GestiSkips \/ GestiSays \/ GestiSends \/ GestiRefused \/ GestiSpoke
  BY <1>1, <1>9 DEF GestiSkips, GestiSays, GestiSends, GestiRefused, GestiSpoke, othersVars,
                    clientVars
<1>10. CASE PipelineStep \/ PipelineResets \/ RobotStarts
  BY <1>1, <1>10 DEF PipelineStep, PipelineResets, RobotStarts, listenerVars, clientVars
<1>11. CASE RobotLink \/ RobotStops
  <2>1. UNCHANGED <<setup, stage>>
    BY <1>11 DEF RobotLink, RobotStops, listenerVars
  <2>2. CASE UNCHANGED clientVars
    BY <1>1, <2>1, <2>2 DEF clientVars
  <2>3. CASE LeaveConnection
    BY <2>1, <2>3, LeavingKeeps
  <2>4. CASE Connect
    BY <2>1, <2>4, ConnectingKeeps
  <2>5. CASE RecvLine
    <3>1. /\ cli # "away" /\ cli' = "loop" /\ wire' = Tail(wire) /\ wire # <<>>
          /\ UNCHANGED <<pcSock, pending>>
      BY <2>5 DEF RecvLine
    <3>2. wire' \in Seq(Line)
      BY <3>1, HeadTailProperties DEF ClientInv
    <3> QED
      BY <2>1, <3>1, <3>2 DEF ClientInv
  <2>6. CASE FirstRecvTimesOut
    BY <2>1, <2>6 DEF FirstRecvTimesOut, ClientInv
  <2> QED
    BY <1>11, <2>2, <2>3, <2>4, <2>5, <2>6
    DEF RobotLink, RobotStops, ClientStep, RecvTimesOut_Client, ServerGone
<1> QED
  BY <1>2, <1>3, <1>4, <1>5, <1>6, <1>7, <1>8, <1>9, <1>10, <1>11 DEF Next

-----------------------------------------------------------------------------
(***************************************************************************)
(* The steps of the channel, in terms of what a sender has in hand, what   *)
(* of its lines is on the way, and what has become of its connections.     *)
(***************************************************************************)
Same(t) ==
  /\ InHand(t)' = InHand(t) /\ Flight(t)' = Flight(t)
  /\ LinkTo(t)' = LinkTo(t) /\ LeftOf(t)' = LeftOf(t)

OthersSame(s) == \A t \in Sender : t # s => Same(t)

Ended(s) == s = "music" /\ stage = "closed"

LEMMA IsStutter ==
  ASSUME UNCHANGED <<inboxVars, setup>>, stage' = "closed" <=> stage = "closed",
         \A t \in Sender : Same(t)
  PROVE  UNCHANGED Channel!channelVars
<1>1. /\ [t \in Sender |-> InHand(t)]' = [t \in Sender |-> InHand(t)]
      /\ [t \in Sender |-> Flight(t)]' = [t \in Sender |-> Flight(t)]
      /\ [t \in Sender |-> LinkTo(t)]' = [t \in Sender |-> LinkTo(t)]
      /\ [t \in Sender |-> LeftOf(t)]' = [t \in Sender |-> LeftOf(t)]
  BY DEF Same
<1> QED
  BY <1>1 DEF Channel!channelVars, inboxVars, Channel!inboxVars

LEMMA IsSay ==
  ASSUME NEW s \in Sender, NEW line \in Line,
         UNCHANGED <<inboxVars, setup>>, stage' = stage, OthersSame(s),
         ~Ended(s), InHand(s) = <<>>,
         InHand(s)' = <<line>>, Flight(s)' = Flight(s),
         LinkTo(s)' = LinkTo(s), LeftOf(s)' = LeftOf(s)
  PROVE  Channel!Next
<1>1. [t \in Sender |-> InHand(t)]'
        = [[t \in Sender |-> InHand(t)] EXCEPT ![s] = <<line>>]
  BY DEF OthersSame, Same
<1>2. [t \in Sender |-> Flight(t)]' = [t \in Sender |-> Flight(t)]
  BY DEF OthersSame, Same
<1>3. [t \in Sender |-> LinkTo(t)]' = [t \in Sender |-> LinkTo(t)]
  BY DEF OthersSame, Same
<1>4. [t \in Sender |-> LeftOf(t)]' = [t \in Sender |-> LeftOf(t)]
  BY DEF OthersSame, Same
<1>5. s \notin (IF stage = "closed" THEN {"music"} ELSE {})
  BY DEF Ended
<1>6. Channel!Say(s)
  BY <1>1, <1>2, <1>3, <1>4, <1>5 DEF Channel!Say, inboxVars, Channel!inboxVars
<1> QED
  BY <1>6 DEF Channel!Next

LEMMA IsSend ==
  ASSUME NEW s \in Sender, NEW line,
         UNCHANGED <<inboxVars, setup>>, stage' = stage, OthersSame(s),
         InHand(s) = <<line>>, LeftOf(s) = 0,
         setup.tcp = "client" \/ LinkTo(s) = "open",
         InHand(s)' = <<>>, Flight(s)' = Append(Flight(s), line),
         LinkTo(s)' = (IF LinkTo(s) = "none" THEN "open" ELSE LinkTo(s)),
         LeftOf(s)' = LeftOf(s)
  PROVE  Channel!Next
<1>1. [t \in Sender |-> InHand(t)]'
        = [[t \in Sender |-> InHand(t)] EXCEPT ![s] = <<>>]
  BY DEF OthersSame, Same
<1>2. [t \in Sender |-> Flight(t)]'
        = [[t \in Sender |-> Flight(t)] EXCEPT ![s] = Append(@, line)]
  BY DEF OthersSame, Same
<1>3. [t \in Sender |-> LinkTo(t)]'
        = [[t \in Sender |-> LinkTo(t)] EXCEPT ![s] = IF @ = "none" THEN "open" ELSE @]
  BY DEF OthersSame, Same
<1>4. [t \in Sender |-> LeftOf(t)]' = [t \in Sender |-> LeftOf(t)]
  BY DEF OthersSame, Same
<1>5. InHand(s) # <<>> /\ InHand(s)[1] = line
  OBVIOUS
<1>6. Channel!Send(s)
  BY <1>1, <1>2, <1>3, <1>4, <1>5 DEF Channel!Send, inboxVars, Channel!inboxVars
<1> QED
  BY <1>6 DEF Channel!Next

LEMMA IsSwallow ==
  ASSUME NEW s \in Sender,
         UNCHANGED <<inboxVars, setup>>, stage' = stage, OthersSame(s),
         InHand(s) # <<>>, LeftOf(s) \in Int, LeftOf(s) > 0,
         InHand(s)' = <<>>, Flight(s)' = Flight(s),
         LinkTo(s)' = LinkTo(s), LeftOf(s)' = LeftOf(s) - 1
  PROVE  Channel!Next
<1>1. [t \in Sender |-> InHand(t)]'
        = [[t \in Sender |-> InHand(t)] EXCEPT ![s] = <<>>]
  BY DEF OthersSame, Same
<1>2. [t \in Sender |-> Flight(t)]' = [t \in Sender |-> Flight(t)]
  BY DEF OthersSame, Same
<1>3. [t \in Sender |-> LinkTo(t)]' = [t \in Sender |-> LinkTo(t)]
  BY DEF OthersSame, Same
<1>4. [t \in Sender |-> LeftOf(t)]'
        = [[t \in Sender |-> LeftOf(t)] EXCEPT ![s] = @ - 1]
  BY DEF OthersSame, Same
<1>5. Channel!Swallow(s)
  BY <1>1, <1>2, <1>3, <1>4 DEF Channel!Swallow, inboxVars, Channel!inboxVars
<1> QED
  BY <1>5 DEF Channel!Next

LEMMA IsRefuse ==
  ASSUME NEW s \in Sender,
         UNCHANGED <<inboxVars, setup>>, stage' = stage, OthersSame(s),
         setup.tcp = "client", ~up, InHand(s) # <<>>, LeftOf(s) = 0,
         InHand(s)' = <<>>, Flight(s)' = Flight(s),
         LinkTo(s)' = LinkTo(s), LeftOf(s)' = LeftOf(s)
  PROVE  Channel!Next
<1>1. [t \in Sender |-> InHand(t)]'
        = [[t \in Sender |-> InHand(t)] EXCEPT ![s] = <<>>]
  BY DEF OthersSame, Same
<1>2. [t \in Sender |-> Flight(t)]' = [t \in Sender |-> Flight(t)]
  BY DEF OthersSame, Same
<1>3. [t \in Sender |-> LinkTo(t)]' = [t \in Sender |-> LinkTo(t)]
  BY DEF OthersSame, Same
<1>4. [t \in Sender |-> LeftOf(t)]' = [t \in Sender |-> LeftOf(t)]
  BY DEF OthersSame, Same
<1>5. Channel!Refuse(s)
  BY <1>1, <1>2, <1>3, <1>4 DEF Channel!Refuse, inboxVars, Channel!inboxVars
<1> QED
  BY <1>5 DEF Channel!Next

LEMMA IsDeliver ==
  ASSUME NEW s \in Sender,
         setup' = setup, stage' = stage, OthersSame(s),
         Flight(s) # <<>>, Enqueue(Head(Flight(s))),
         InHand(s)' = InHand(s), Flight(s)' = Tail(Flight(s)),
         LinkTo(s)' = LinkTo(s), LeftOf(s)' = LeftOf(s)
  PROVE  Channel!Next
<1>1. [t \in Sender |-> InHand(t)]' = [t \in Sender |-> InHand(t)]
  BY DEF OthersSame, Same
<1>2. [t \in Sender |-> Flight(t)]'
        = [[t \in Sender |-> Flight(t)] EXCEPT ![s] = Tail(@)]
  BY DEF OthersSame, Same
<1>3. [t \in Sender |-> LinkTo(t)]' = [t \in Sender |-> LinkTo(t)]
  BY DEF OthersSame, Same
<1>4. [t \in Sender |-> LeftOf(t)]' = [t \in Sender |-> LeftOf(t)]
  BY DEF OthersSame, Same
<1>5. Channel!Enqueue(Head(Flight(s)))
  BY DEF Channel!Enqueue, Enqueue, Channel!Enqueued, Enqueued
<1>6. Channel!Deliver(s)
  BY <1>1, <1>2, <1>3, <1>4, <1>5 DEF Channel!Deliver
<1> QED
  BY <1>6 DEF Channel!Next

LEMMA IsConnect ==
  ASSUME NEW s \in Sender,
         UNCHANGED <<inboxVars, setup>>, stage' = stage, OthersSame(s),
         setup.tcp # "client", up, ~Ended(s), LinkTo(s) = "none",
         InHand(s)' = InHand(s), Flight(s)' = Flight(s),
         LinkTo(s)' = "open", LeftOf(s)' = LeftOf(s)
  PROVE  Channel!Next
<1>1. [t \in Sender |-> InHand(t)]' = [t \in Sender |-> InHand(t)]
  BY DEF OthersSame, Same
<1>2. [t \in Sender |-> Flight(t)]' = [t \in Sender |-> Flight(t)]
  BY DEF OthersSame, Same
<1>3. [t \in Sender |-> LinkTo(t)]'
        = [[t \in Sender |-> LinkTo(t)] EXCEPT ![s] = "open"]
  BY DEF OthersSame, Same
<1>4. [t \in Sender |-> LeftOf(t)]' = [t \in Sender |-> LeftOf(t)]
  BY DEF OthersSame, Same
<1>5. s \notin (IF stage = "closed" THEN {"music"} ELSE {})
  BY DEF Ended
<1>6. Channel!Connect(s)
  BY <1>1, <1>2, <1>3, <1>4, <1>5 DEF Channel!Connect, inboxVars, Channel!inboxVars
<1> QED
  BY <1>6 DEF Channel!Next

LEMMA IsFindSilent ==
  ASSUME NEW s \in Sender,
         UNCHANGED <<inboxVars, setup>>, stage' = stage, OthersSame(s),
         setup.tcp = "client", LinkTo(s) = "open", Flight(s) = <<>>,
         InHand(s)' = InHand(s), Flight(s)' = Flight(s),
         LinkTo(s)' = "silent", LeftOf(s)' = LeftOf(s)
  PROVE  Channel!Next
<1>1. [t \in Sender |-> InHand(t)]' = [t \in Sender |-> InHand(t)]
  BY DEF OthersSame, Same
<1>2. [t \in Sender |-> Flight(t)]' = [t \in Sender |-> Flight(t)]
  BY DEF OthersSame, Same
<1>3. [t \in Sender |-> LinkTo(t)]'
        = [[t \in Sender |-> LinkTo(t)] EXCEPT ![s] = "silent"]
  BY DEF OthersSame, Same
<1>4. [t \in Sender |-> LeftOf(t)]' = [t \in Sender |-> LeftOf(t)]
  BY DEF OthersSame, Same
<1>5. Channel!FindSilent(s)
  BY <1>1, <1>2, <1>3, <1>4 DEF Channel!FindSilent, inboxVars, Channel!inboxVars
<1> QED
  BY <1>5 DEF Channel!Next

LEMMA IsAbandon ==
  ASSUME NEW s \in Sender,
         UNCHANGED <<inboxVars, setup>>, stage' = stage, OthersSame(s),
         IF setup.tcp = "client"
         THEN LinkTo(s) = "silent" /\ Len(Flight(s)) <= 1 /\ LeftOf(s) = 0
         ELSE LinkTo(s) = "open" /\ Flight(s) = <<>>,
         InHand(s)' = InHand(s), Flight(s)' = <<>>,
         LinkTo(s)' = "none",
         LeftOf(s)' = (IF Flight(s) = <<>> /\ ~Ended(s) THEN LeftOf(s) + 1 ELSE LeftOf(s))
  PROVE  Channel!Next
<1>1. [t \in Sender |-> InHand(t)]' = [t \in Sender |-> InHand(t)]
  BY DEF OthersSame, Same
<1>2. [t \in Sender |-> Flight(t)]'
        = [[t \in Sender |-> Flight(t)] EXCEPT ![s] = <<>>]
  BY DEF OthersSame, Same
<1>3. [t \in Sender |-> LinkTo(t)]'
        = [[t \in Sender |-> LinkTo(t)] EXCEPT ![s] = "none"]
  BY DEF OthersSame, Same
<1>4. [t \in Sender |-> LeftOf(t)]'
        = [[t \in Sender |-> LeftOf(t)] EXCEPT
              ![s] = IF Flight(s) = <<>> /\ ~Ended(s) THEN @ + 1 ELSE @]
  BY DEF OthersSame, Same
<1>5. s \notin (IF stage = "closed" THEN {"music"} ELSE {}) <=> ~Ended(s)
  BY DEF Ended
<1>6. Channel!Abandon(s)
  BY <1>1, <1>2, <1>3, <1>4, <1>5 DEF Channel!Abandon, inboxVars, Channel!inboxVars
<1> QED
  BY <1>6 DEF Channel!Next

LEMMA IsFinish ==
  ASSUME NEW s \in Sender,
         UNCHANGED <<inboxVars, setup>>, stage' = stage, OthersSame(s),
         LinkTo(s) = "open", Flight(s) = <<>>,
         InHand(s)' = InHand(s), Flight(s)' = Flight(s),
         LinkTo(s)' = "none", LeftOf(s)' = LeftOf(s)
  PROVE  Channel!Next
<1>1. [t \in Sender |-> InHand(t)]' = [t \in Sender |-> InHand(t)]
  BY DEF OthersSame, Same
<1>2. [t \in Sender |-> Flight(t)]' = [t \in Sender |-> Flight(t)]
  BY DEF OthersSame, Same
<1>3. [t \in Sender |-> LinkTo(t)]'
        = [[t \in Sender |-> LinkTo(t)] EXCEPT ![s] = "none"]
  BY DEF OthersSame, Same
<1>4. [t \in Sender |-> LeftOf(t)]' = [t \in Sender |-> LeftOf(t)]
  BY DEF OthersSame, Same
<1>5. Channel!Finish(s)
  BY <1>1, <1>2, <1>3, <1>4 DEF Channel!Finish, inboxVars, Channel!inboxVars
<1> QED
  BY <1>5 DEF Channel!Next

LEMMA IsLeave ==
  ASSUME UNCHANGED <<inboxVars, setup>>, stage' = "closed", OthersSame("music"),
         InHand("music") = <<>> \/ ~up,
         InHand("music")' = <<>>, LeftOf("music")' = 0,
         Flight("music")' = Flight("music"), LinkTo("music")' = LinkTo("music")
  PROVE  Channel!Next
<1>1. [t \in Sender |-> InHand(t)]'
        = [[t \in Sender |-> InHand(t)] EXCEPT !["music"] = <<>>]
  BY DEF OthersSame, Same
<1>2. [t \in Sender |-> Flight(t)]' = [t \in Sender |-> Flight(t)]
  BY DEF OthersSame, Same
<1>3. [t \in Sender |-> LinkTo(t)]' = [t \in Sender |-> LinkTo(t)]
  BY DEF OthersSame, Same
<1>4. [t \in Sender |-> LeftOf(t)]'
        = [[t \in Sender |-> LeftOf(t)] EXCEPT !["music"] = 0]
  BY DEF OthersSame, Same
<1>5. [t \in Sender |-> InHand(t)]["music"] = <<>> \/ ~up
  BY ListenerAssumption
<1>6. Channel!Leave("music")
  BY <1>1, <1>2, <1>3, <1>4, <1>5 DEF Channel!Leave, inboxVars, Channel!inboxVars
<1> QED
  BY <1>6, ListenerAssumption DEF Channel!Next

LEMMA IsRobot ==
  ASSUME setup' = setup, stage' = stage, ProcessTriggers \/ ClearInbox \/ InboxBack,
         \A t \in Sender : Same(t)
  PROVE  Channel!Next
<1>1. /\ [t \in Sender |-> InHand(t)]' = [t \in Sender |-> InHand(t)]
      /\ [t \in Sender |-> Flight(t)]' = [t \in Sender |-> Flight(t)]
      /\ [t \in Sender |-> LinkTo(t)]' = [t \in Sender |-> LinkTo(t)]
      /\ [t \in Sender |-> LeftOf(t)]' = [t \in Sender |-> LeftOf(t)]
  BY DEF Same
<1>2. Channel!ProcessTriggers \/ Channel!ClearInbox \/ Channel!InboxBack
  BY DEF ProcessTriggers, ClearInbox, InboxBack,
         Channel!ProcessTriggers, Channel!ClearInbox, Channel!InboxBack
<1>3. Channel!Robot
  BY <1>1, <1>2 DEF Channel!Robot
<1> QED
  BY <1>3 DEF Channel!Next

LEMMA IsCrash ==
  ASSUME setup' = setup, stage' = stage, InboxLost,
         \A t \in Sender :
           /\ InHand(t)' = InHand(t) /\ Flight(t)' = <<>> /\ LinkTo(t)' = "none"
           /\ LeftOf(t)' \in Nat
           /\ \/ LeftOf(t)' = LeftOf(t)
              \/ LinkTo(t) # "none" /\ ~Ended(t) /\ LeftOf(t)' = LeftOf(t) + 1
  PROVE  Channel!Next
<1>1. /\ [t \in Sender |-> InHand(t)]' = [t \in Sender |-> InHand(t)]
      /\ [t \in Sender |-> Flight(t)]' = [t \in Sender |-> <<>>]
      /\ [t \in Sender |-> LinkTo(t)]' = [t \in Sender |-> "none"]
  OBVIOUS
<1>2. /\ [t \in Sender |-> LeftOf(t)]' \in [Sender -> Nat]
      /\ \A t \in Sender : [u \in Sender |-> LeftOf(u)]'[t] = LeftOf(t)'
  OBVIOUS
<1>3. \A t \in Sender : ~Ended(t) => t \notin (IF stage = "closed" THEN {"music"} ELSE {})
  BY DEF Ended
<1>4. \A t \in Sender :
        \/ [u \in Sender |-> LeftOf(u)]'[t] = [u \in Sender |-> LeftOf(u)][t]
        \/ /\ [u \in Sender |-> LinkTo(u)][t] # "none"
           /\ t \notin (IF stage = "closed" THEN {"music"} ELSE {})
           /\ [u \in Sender |-> LeftOf(u)]'[t] = [u \in Sender |-> LeftOf(u)][t] + 1
  BY <1>2, <1>3
<1>5. Channel!Crash
  BY <1>1, <1>2, <1>4 DEF Channel!Crash, InboxLost, Channel!InboxLost
<1> QED
  BY <1>5 DEF Channel!Next

-----------------------------------------------------------------------------
(***************************************************************************)
(* Both together.  While the robot closes a connection that fell silent,   *)
(* at most one line comes into it: its sender has nothing more to send     *)
(* before time passes, and time does not pass while the robot is at work.  *)
(***************************************************************************)
HasSent(s) ==
  /\ s = "music" => outgoing = Nothing /\ clips = <<>>
  /\ s = "gesti" => gesti.at \notin {"heard", "send"}

CloseInv ==
  serving = "close" =>
    /\ Len(conns[1].data) <= 1
    /\ LastOfSender(1)
    /\ conns[1].eof => conns[1].from = "music" /\ stage = "closed"
    /\ ~conns[1].eof /\ conns[1].data # <<>> => HasSent(conns[1].from)

SenderInv ==
  /\ stage = "closed" => sock["music"] = "none"
  /\ setup.script = "clips" => sock["music"] = "none"
  /\ setup.tcp = "server" => serving = "accept" /\ \A s \in Sender : sock[s] = "none"

IInv == ListenerInv /\ LinkInv /\ SenderInv /\ CloseInv /\ ClientInv

\* How the channel sees the link on which the robot serves.
Held(cs, t) == \E i \in 1 .. Len(cs) : cs[i].from = t

Standing(at, cs, t) ==
  IF at = "close" /\ cs[1].from = t THEN "silent"
  ELSE IF Held(cs, t) THEN "open" ELSE "none"

Owing(st) == IF st = "dropped" THEN 1 ELSE 0

LEMMA ServingView ==
  ASSUME LinkInv, LinkInv', setup.tcp = "client", setup' = setup
  PROVE  \A t \in Sender :
           /\ Flight(t) = UnreadOf(conns, t) /\ Flight(t)' = UnreadOf(conns', t)
           /\ LeftOf(t) = Owing(sock[t]) /\ LeftOf(t)' = Owing(sock'[t])
           /\ LinkTo(t) = Standing(serving, conns, t)
           /\ LinkTo(t)' = Standing(serving', conns', t)
<1>1. DOMAIN conns = 1 .. Len(conns) /\ DOMAIN conns' = 1 .. Len(conns')
  BY DEF LinkInv
<1> QED
  BY <1>1 DEF Flight, LeftOf, Owing, LinkTo, Standing, Held

\* How it sees the link on which the PC serves.
LEMMA ServedView ==
  ASSUME setup.tcp = "server", setup' = setup, NEW t \in Sender
  PROVE  /\ Flight(t) = IF t = "music" THEN wire ELSE <<>>
         /\ Flight(t)' = IF t = "music" THEN wire' ELSE <<>>
         /\ LeftOf(t) = IF t = "music" THEN LeftBehind ELSE 0
         /\ LeftOf(t)' = IF t = "music" THEN LeftBehind' ELSE 0
         /\ LinkTo(t) = IF t = "music" /\ cli # "away" THEN "open" ELSE "none"
         /\ LinkTo(t)' = IF t = "music" /\ cli' # "away" THEN "open" ELSE "none"
BY DEF Flight, LeftOf, LinkTo

\* Nothing of a link changes.
LEMMA LinksSame ==
  ASSUME UNCHANGED <<serverVars, cli, wire, setup>>, LeftBehind' = LeftBehind
  PROVE  \A t \in Sender : /\ Flight(t)' = Flight(t) /\ LinkTo(t)' = LinkTo(t)
                           /\ LeftOf(t)' = LeftOf(t)
BY DEF Flight, LinkTo, LeftOf, serverVars

LEMMA BehindSame ==
  ASSUME UNCHANGED <<cli, pcSock, pending>> PROVE LeftBehind' = LeftBehind
BY DEF LeftBehind

LEMMA HandsSame ==
  ASSUME UNCHANGED <<outgoing, gesti>> PROVE \A t \in Sender : InHand(t)' = InHand(t)
BY DEF InHand

\* A step of the listener that leaves the links alone.
LEMMA LinksAlone ==
  ASSUME IInv, UNCHANGED <<serverVars, setup>>,
         stage' = "closed" <=> stage = "closed",
         serving = "close" => \A s \in {"music", "gesti"} : HasSent(s) => HasSent(s)'
  PROVE  LinkInv' /\ SenderInv' /\ CloseInv'
<1>1. LinkInv' /\ SenderInv'
  BY DEF IInv, LinkInv, SockInv, OpenAt, LastOfSender, LastIn, SenderInv, serverVars
<1>2. CloseInv'
  BY DEF IInv, CloseInv, LastOfSender, LastIn, serverVars, HasSent
<1> QED
  BY <1>1, <1>2

\* The channel sees nothing of it where the hands stay as they are.
LEMMA HandsStay ==
  ASSUME UNCHANGED <<inboxVars, serverVars, cli, wire, setup>>, LeftBehind' = LeftBehind,
         stage' = "closed" <=> stage = "closed",
         \A t \in Sender : InHand(t)' = InHand(t)
  PROVE  UNCHANGED Channel!channelVars
<1>1. \A t \in Sender : Same(t)
  BY LinksSame DEF Same
<1> QED
  BY <1>1, IsStutter

\* The listener has a line to send, or has none.
LEMMA MusicSays ==
  ASSUME UNCHANGED <<inboxVars, serverVars, clientVars, setup, stage, gesti>>,
         stage # "closed", outgoing = Nothing,
         outgoing' # Nothing => outgoing'.line \in Line
  PROVE  [Channel!Next]_(Channel!channelVars)
<1>1. LeftBehind' = LeftBehind /\ UNCHANGED <<cli, wire>>
  BY BehindSame DEF clientVars
<1>2. CASE outgoing' = Nothing
  <2>1. \A t \in Sender : InHand(t)' = InHand(t)
    BY <1>2 DEF InHand
  <2> QED
    BY <1>1, <2>1, HandsStay
<1>3. CASE outgoing' # Nothing
  <2>1. PICK line \in Line : line = outgoing'.line
    BY <1>3
  <2>2. PICK s \in Sender : s = "music"
    BY ListenerAssumption
  <2>3. /\ InHand(s) = <<>> /\ InHand(s)' = <<line>> /\ ~Ended(s)
        /\ \A t \in Sender : t # s => InHand(t)' = InHand(t)
    BY <1>3, <2>1, <2>2 DEF InHand, Ended
  <2>4. /\ OthersSame(s)
        /\ Flight(s)' = Flight(s) /\ LinkTo(s)' = LinkTo(s) /\ LeftOf(s)' = LeftOf(s)
    BY <1>1, <2>3, LinksSame DEF OthersSame, Same
  <2> QED
    BY <2>3, <2>4, IsSay
<1> QED
  BY <1>2, <1>3

\* A line comes into a connection of its sender, the first of all or not.
LEMMA StandingKept ==
  ASSUME LinkInv, LinkInv', serving' = serving, NEW s \in Sender,
         OnlyItsOwn(s), MadeOnlyFor(s)
  PROVE  /\ \A t \in Sender :
              t # s => Standing(serving', conns', t) = Standing(serving, conns, t)
         /\ Held(conns', s) =>
              Standing(serving', conns', s)
                = IF Standing(serving, conns, s) = "none" THEN "open"
                  ELSE Standing(serving, conns, s)
<1>1. serving = "close" => conns'[1].from = conns[1].from
  BY HeadGoes DEF LinkInv, OnlyItsOwn
<1>2. \A t \in Sender : Held(conns, t) => Held(conns', t)
  BY DEF Held, OnlyItsOwn
<1>3. ASSUME NEW t \in Sender, t # s, Held(conns', t) PROVE Held(conns, t)
  <2>1. PICK i \in 1 .. Len(conns') : conns'[i].from = t
    BY <1>3 DEF Held
  <2>2. i \in 1 .. Len(conns) /\ conns[i].from = t
    BY <1>3, <2>1 DEF MadeOnlyFor, OnlyItsOwn
  <2> QED
    BY <2>2 DEF Held
<1> QED
  BY <1>1, <1>2, <1>3 DEF Standing

\* The first connection goes.
LEMMA TailHeld ==
  ASSUME LinkInv, conns # <<>>, conns' = Tail(conns)
  PROVE  /\ Held(conns, conns[1].from)
         /\ \A t \in Sender : t # conns[1].from => (Held(conns', t) <=> Held(conns, t))
         /\ LastOfSender(1) => ~Held(conns', conns[1].from)
<1>1. /\ 1 \in 1 .. Len(conns) /\ Len(conns) \in Nat /\ Len(conns') = Len(conns) - 1
      /\ \A i \in 1 .. Len(conns') : conns'[i] = conns[i + 1]
  BY HeadGoes, ConnsType
<1>2. \A i \in 1 .. Len(conns') : i + 1 \in 1 .. Len(conns) /\ i + 1 > 1
  BY <1>1
<1>3. \A i \in 1 .. Len(conns) : i # 1 => i - 1 \in 1 .. Len(conns') /\ (i - 1) + 1 = i
  BY <1>1
<1>4. ASSUME NEW t \in Sender, t # conns[1].from PROVE Held(conns', t) <=> Held(conns, t)
  <2>1. Held(conns', t) => Held(conns, t)
    BY <1>1, <1>2 DEF Held
  <2>2. ASSUME Held(conns, t) PROVE Held(conns', t)
    <3>1. PICK i \in 1 .. Len(conns) : conns[i].from = t
      BY <2>2 DEF Held
    <3>2. i - 1 \in 1 .. Len(conns') /\ conns'[i - 1] = conns[i]
      BY <1>1, <1>3, <1>4, <3>1
    <3> QED
      BY <3>1, <3>2 DEF Held
  <2> QED
    BY <2>1, <2>2
<1>5. LastOfSender(1) => ~Held(conns', conns[1].from)
  BY <1>1, <1>2 DEF Held, LastOfSender, LastIn
<1> QED
  BY <1>1, <1>4, <1>5 DEF Held

\* A line is sent on the link on which the robot serves.
LEMMA SendsOnLink ==
  ASSUME IInv, NEW s \in {"music", "gesti"}, NEW line \in Line, SendLine(s, line),
         setup.tcp = "client", UNCHANGED <<setup, stage>>,
         s = "music" => stage # "closed" /\ setup.script # "clips",
         ~HasSent(s), HasSent(s)',
         \A t \in {"music", "gesti"} : t # s /\ HasSent(t) => HasSent(t)',
         InHand(s) = <<line>>, InHand(s)' = <<>>,
         \A t \in Sender : t # s => InHand(t)' = InHand(t)
  PROVE  LinkInv' /\ SenderInv' /\ CloseInv' /\ Channel!Next
<1>1. s \in Sender /\ "music" \in Sender /\ sock \in [Sender -> Status]
  BY ListenerAssumption DEF IInv, LinkInv
<1>2. /\ LinkInv' /\ (Sent(s, line) \/ Swallowed(s))
      /\ OnlyItsOwn(s) /\ MadeOnlyFor(s)
  BY <1>1, SendLineKeeps DEF IInv
<1>3. SenderInv'
  <2>1. s # "music" => sock'["music"] = sock["music"]
    BY <1>1, <1>2 DEF Sent, Swallowed
  <2> QED
    BY <2>1 DEF IInv, SenderInv
<1>4. CloseInv'
  <2>1. SUFFICES ASSUME serving = "close"
                 PROVE  /\ Len(conns'[1].data) <= 1
                        /\ LastOfSender(1)'
                        /\ conns'[1].eof => conns'[1].from = "music" /\ stage' = "closed"
                        /\ ~conns'[1].eof /\ conns'[1].data # <<>> => HasSent(conns[1].from)'
    BY DEF CloseInv, SendLine
  <2>2. /\ 1 \in 1 .. Len(conns) /\ 1 \in 1 .. Len(conns') /\ Len(conns) \in Nat
        /\ conns[1].data \in Seq(Line) /\ conns'[1].data \in Seq(Line)
    <3>1. conns # <<>> /\ conns' # <<>>
      BY <1>2, <2>1 DEF IInv, LinkInv, SendLine
    <3>2. 1 \in 1 .. Len(conns) /\ 1 \in 1 .. Len(conns') /\ Len(conns) \in Nat
      BY <1>2, <3>1 DEF IInv, LinkInv
    <3>3. conns[1].data \in Seq(Line)
      BY <3>2, ConnsType DEF IInv
    <3>4. conns'[1] \in Connection
      BY <1>2, <3>2, ElementOfSeq DEF LinkInv
    <3> QED
      BY <3>2, <3>3, <3>4 DEF Connection
  <2>3. /\ conns'[1].from = conns[1].from /\ conns'[1].eof = conns[1].eof
        /\ conns'[1].data # conns[1].data =>
             OpenAt(1, s) /\ Len(conns'[1].data) = Len(conns[1].data) + 1
    BY <1>2, <2>2 DEF OnlyItsOwn
  <2>4. OpenAt(1, s) => conns[1].data = <<>>
    BY <2>1 DEF IInv, CloseInv, OpenAt
  <2>5. Len(conns'[1].data) <= 1
    BY <2>1, <2>2, <2>3, <2>4 DEF IInv, CloseInv
  <2>6. LastOfSender(1)'
    <3>1. CASE ~conns'[1].eof
      BY <1>2, <2>2, <3>1 DEF LinkInv, SockInv
    <3>2. CASE conns'[1].eof
      <4>1. conns[1].from = "music" /\ s # "music" /\ LastOfSender(1)
        BY <2>1, <2>3, <3>2 DEF IInv, CloseInv
      <4>2. ASSUME NEW j \in 1 .. Len(conns'), j > 1
            PROVE  conns'[j].from # conns'[1].from
        <5>1. CASE j \in 1 .. Len(conns)
          BY <1>2, <2>3, <4>1, <4>2, <5>1 DEF OnlyItsOwn, LastOfSender, LastIn
        <5>2. CASE j \notin 1 .. Len(conns)
          BY <1>2, <2>3, <4>1, <5>2 DEF MadeOnlyFor
        <5> QED
          BY <5>1, <5>2
      <4> QED
        BY <4>2 DEF LastOfSender, LastIn
    <3> QED
      BY <3>1, <3>2
  <2>7. ASSUME ~conns'[1].eof, conns'[1].data # <<>> PROVE HasSent(conns[1].from)'
    <3>1. CASE conns[1].from = s
      BY <2>3, <3>1
    <3>2. CASE conns[1].from # s
      <4>1. conns[1].data # <<>> /\ ~conns[1].eof
        BY <2>3, <2>7, <3>2 DEF OpenAt
      <4>2. HasSent(conns[1].from)
        BY <2>1, <4>1 DEF IInv, CloseInv
      <4> QED
        BY <2>3, <3>2, <4>2 DEF HasSent
    <3> QED
      BY <3>1, <3>2
  <2> QED
    BY <2>1, <2>3, <2>5, <2>6, <2>7 DEF IInv, CloseInv
<1>5. \A t \in Sender :
        /\ Flight(t) = UnreadOf(conns, t) /\ Flight(t)' = UnreadOf(conns', t)
        /\ LeftOf(t) = Owing(sock[t]) /\ LeftOf(t)' = Owing(sock'[t])
        /\ LinkTo(t) = Standing(serving, conns, t)
        /\ LinkTo(t)' = Standing(serving', conns', t)
  BY <1>2, ServingView DEF IInv
<1>6. serving' = serving /\ UNCHANGED inboxVars
  BY DEF SendLine
<1>7. /\ \A t \in Sender : t # s => LinkTo(t)' = LinkTo(t)
      /\ Held(conns', s) => LinkTo(s)' = IF LinkTo(s) = "none" THEN "open" ELSE LinkTo(s)
  BY <1>1, <1>2, <1>5, <1>6, StandingKept DEF IInv
<1>8. CASE Sent(s, line)
  <2>1. Held(conns', s)
    BY <1>1, <1>2, <1>8 DEF Sent, LinkInv, SockInv, OpenAt, Held
  <2>2. OthersSame(s)
    BY <1>1, <1>5, <1>7, <1>8 DEF Sent, OthersSame, Same
  <2>3. /\ Flight(s)' = Append(Flight(s), line)
        /\ LeftOf(s) = 0 /\ LeftOf(s)' = LeftOf(s)
        /\ LinkTo(s)' = IF LinkTo(s) = "none" THEN "open" ELSE LinkTo(s)
    BY <1>1, <1>5, <1>7, <1>8, <2>1 DEF Sent, Owing
  <2>4. Channel!Next
    BY <1>1, <1>6, <2>2, <2>3, IsSend
  <2> QED
    BY <1>2, <1>3, <1>4, <2>4
<1>9. CASE Swallowed(s)
  <2>1. OthersSame(s)
    BY <1>1, <1>5, <1>7, <1>9 DEF Swallowed, OthersSame, Same
  <2>2. /\ Flight(s)' = Flight(s) /\ LinkTo(s)' = LinkTo(s)
        /\ LeftOf(s) \in Int /\ LeftOf(s) > 0 /\ LeftOf(s)' = LeftOf(s) - 1
    BY <1>1, <1>5, <1>6, <1>9 DEF Swallowed, Owing
  <2>3. InHand(s) # <<>>
    OBVIOUS
  <2>4. Channel!Next
    BY <1>1, <1>6, <2>1, <2>2, <2>3, IsSwallow
  <2> QED
    BY <1>2, <1>3, <1>4, <2>4
<1> QED
  BY <1>2, <1>8, <1>9

\* A line is sent on a connection of its own.
LEMMA CommandOnLink ==
  ASSUME IInv, NEW line \in Line, SendCommand("music", line),
         setup.tcp = "client", setup.script = "clips", stage # "closed",
         UNCHANGED <<setup, stage>>,
         HasSent("gesti") => HasSent("gesti")',
         InHand("music") = <<line>>, InHand("music")' = <<>>,
         \A t \in Sender : t # "music" => InHand(t)' = InHand(t)
  PROVE  LinkInv' /\ SenderInv' /\ CloseInv' /\ Channel!Next
<1> DEFINE s == "music"
<1>1. /\ s \in Sender /\ sock \in [Sender -> Status] /\ sock[s] = "none"
      /\ sock' = sock /\ serving' = serving /\ UNCHANGED inboxVars
  BY ListenerAssumption DEF IInv, LinkInv, SenderInv, SendCommand
<1>2. /\ conns' = Append(conns, [from |-> s, data |-> <<line>>, eof |-> TRUE])
      /\ sock' = [sock EXCEPT ![s] = IF TRUE THEN "none" ELSE "live"]
  BY <1>1 DEF SendCommand
<1> HIDE DEF s
<1>3. /\ LinkInv' /\ Len(conns') = Len(conns) + 1
      /\ \A i \in 1 .. Len(conns) : conns'[i] = conns[i]
      /\ \A t \in Sender :
           UnreadOf(conns', t) = IF t = s THEN Append(UnreadOf(conns, t), line)
                                 ELSE UnreadOf(conns, t)
  BY <1>1, <1>2, ConnectKeeps DEF IInv
<1>4. SenderInv'
  BY <1>1 DEF IInv, SenderInv, s
<1>5. CloseInv'
  <2>1. SUFFICES ASSUME serving = "close" PROVE CloseInv'
    BY <1>1 DEF CloseInv
  <2>2. Len(conns) \in Nat /\ 1 \in 1 .. Len(conns) /\ conns'[Len(conns) + 1].from = s
    <3>1. conns # <<>>
      BY <2>1 DEF IInv, LinkInv
    <3> QED
      BY <1>2, <3>1, HeadGoes, ConnsType, AppendProperties DEF IInv, LinkInv
  <2>3. conns'[1] = conns[1]
    BY <1>3, <2>2
  <2>4. ~conns[1].eof /\ conns[1].from # s
    <3>1. ~conns[1].eof
      BY <2>1 DEF IInv, CloseInv
    <3>2. sock[conns[1].from] = "live"
      BY <2>2, <3>1 DEF IInv, LinkInv, SockInv
    <3> QED
      BY <1>1, <3>1, <3>2
  <2>5. LastOfSender(1)'
    BY <1>3, <2>2, <2>3, <2>4 DEF LinkInv, SockInv
  <2>6. HasSent(conns[1].from) => HasSent(conns[1].from)'
    BY <2>3, <2>4 DEF HasSent, s
  <2> QED
    BY <2>1, <2>3, <2>4, <2>5, <2>6 DEF IInv, CloseInv
<1>6. \A t \in Sender :
        /\ Flight(t)' = IF t = s THEN Append(Flight(t), line) ELSE Flight(t)
        /\ LeftOf(t)' = LeftOf(t)
        /\ LinkTo(t) = Standing(serving, conns, t)
        /\ LinkTo(t)' = Standing(serving', conns', t)
  BY <1>1, <1>3, ServingView DEF IInv
<1>7. OnlyItsOwn(s) /\ MadeOnlyFor(s) /\ Held(conns', s)
  <2>1. Len(conns) \in Nat /\ conns'[Len(conns) + 1].from = s
    BY <1>2, ConnsType, AppendProperties DEF IInv, LinkInv
  <2>2. Len(conns) + 1 \in 1 .. Len(conns')
    BY <1>3, <2>1
  <2> QED
    BY <1>3, <2>1, <2>2 DEF OnlyItsOwn, MadeOnlyFor, Held
<1>8. /\ \A t \in Sender : t # s => LinkTo(t)' = LinkTo(t)
      /\ LinkTo(s)' = IF LinkTo(s) = "none" THEN "open" ELSE LinkTo(s)
  BY <1>1, <1>3, <1>6, <1>7, StandingKept DEF IInv
<1>9. LeftOf(s) = 0
  BY <1>1, <1>3, ServingView DEF IInv, Owing
<1>10. OthersSame(s)
  BY <1>6, <1>8 DEF OthersSame, Same, s
<1>11. InHand(s) = <<line>> /\ InHand(s)' = <<>>
  BY DEF s
<1>12. Channel!Next
  BY <1>1, <1>6, <1>8, <1>9, <1>10, <1>11, IsSend
<1> QED
  BY <1>3, <1>4, <1>5, <1>12

\* A sender finds nobody, and may end for it.
LEMMA FindsNobody ==
  ASSUME IInv, NEW s \in {"music", "gesti"}, Refused(s), setup.tcp = "client",
         setup' = setup,
         stage' = stage \/ (s = "music" /\ stage' = "closed"),
         \A t \in {"music", "gesti"} : HasSent(t) => HasSent(t)',
         InHand(s) # <<>>, InHand(s)' = <<>>,
         \A t \in Sender : t # s => InHand(t)' = InHand(t)
  PROVE  LinkInv' /\ SenderInv' /\ CloseInv' /\ Channel!Next
<1>1. s \in Sender /\ "music" \in Sender /\ sock \in [Sender -> Status]
  BY ListenerAssumption DEF IInv, LinkInv
<1>2. /\ LinkInv' /\ conns' = conns /\ serving' = serving
      /\ sock' = [sock EXCEPT ![s] = "none"] /\ ~up /\ UNCHANGED inboxVars
  BY <1>1, RefusedKeeps DEF IInv, Refused
<1>3. SenderInv'
  BY <1>1, <1>2 DEF IInv, SenderInv
<1>4. CloseInv'
  BY <1>2 DEF IInv, CloseInv, LastOfSender, LastIn, HasSent
<1>5. \A t \in Sender :
        /\ Flight(t)' = Flight(t) /\ LinkTo(t)' = LinkTo(t)
        /\ LeftOf(t) = Owing(sock[t]) /\ LeftOf(t)' = Owing(sock'[t])
  BY <1>2, ServingView DEF IInv
<1>6. OthersSame(s)
  BY <1>1, <1>2, <1>5 DEF OthersSame, Same
<1>7. LeftOf(s) = 0 /\ LeftOf(s)' = 0
  BY <1>1, <1>2, <1>5 DEF Owing, Refused
<1>8. CASE stage' = stage
  BY <1>1, <1>2, <1>3, <1>4, <1>5, <1>6, <1>7, <1>8, IsRefuse
<1>9. CASE s = "music" /\ stage' = "closed"
  <2>1. OthersSame("music") /\ LeftOf("music")' = 0 /\ InHand("music")' = <<>>
    BY <1>6, <1>7, <1>9
  <2> QED
    BY <1>1, <1>2, <1>3, <1>4, <1>5, <1>9, <2>1, IsLeave
<1> QED
  BY <1>8, <1>9

\* The listener ends: its connection, or its server, is closed.
LEMMA EndsOnLink ==
  ASSUME IInv, Close, outgoing = Nothing
  PROVE  LinkInv' /\ SenderInv' /\ CloseInv' /\ Channel!Next
<1>1. /\ "music" \in Sender /\ sock \in [Sender -> Status]
      /\ setup' = setup /\ stage' = "closed" /\ clips' = <<>>
      /\ UNCHANGED <<outgoing, gesti>>
  BY ListenerAssumption DEF IInv, LinkInv, Close
<1>2. /\ InHand("music") = <<>> /\ InHand("music")' = <<>>
      /\ \A t \in Sender : InHand(t)' = InHand(t)
  BY <1>1, HandsSame DEF InHand
<1>3. CASE setup.tcp = "client"
  <2>1. /\ LinkInv' /\ serving' = serving
        /\ sock' = [sock EXCEPT !["music"] = "none"]
        /\ Len(conns') = Len(conns)
        /\ \A i \in 1 .. Len(conns) :
             /\ conns'[i].from = conns[i].from /\ conns'[i].data = conns[i].data
             /\ conns'[i].eof # conns[i].eof => conns[i].from = "music"
        /\ \A t \in Sender : UnreadOf(conns', t) = UnreadOf(conns, t)
    BY <1>1, <1>3, CloseSenderKeeps DEF IInv, Close
  <2>2. UNCHANGED inboxVars
    BY <1>3 DEF Close, CloseSender
  <2>3. SenderInv'
    BY <1>1, <1>3, <2>1 DEF IInv, SenderInv
  <2>4. CloseInv'
    <3>1. SUFFICES ASSUME serving = "close" PROVE CloseInv'
      BY <2>1 DEF CloseInv
    <3>2. 1 \in 1 .. Len(conns)
      BY <3>1, HeadGoes DEF IInv, LinkInv
    <3>3. LastOfSender(1)'
      BY <2>1, <3>1, <3>2 DEF IInv, CloseInv, LastOfSender, LastIn
    <3>4. /\ conns'[1].from = conns[1].from /\ conns'[1].data = conns[1].data
          /\ conns'[1].eof # conns[1].eof => conns[1].from = "music"
      BY <2>1, <3>2
    <3>5. ~conns'[1].eof => ~conns[1].eof
      BY <1>1, <2>1, <3>2, <3>4, ConnsType DEF LinkInv, SockInv
    <3>6. HasSent(conns[1].from) => HasSent(conns[1].from)'
      BY <1>1, <3>4 DEF HasSent
    <3> QED
      BY <1>1, <3>1, <3>3, <3>4, <3>5, <3>6 DEF IInv, CloseInv
  <2>5. \A t \in Sender :
          /\ Flight(t)' = Flight(t)
          /\ LinkTo(t) = Standing(serving, conns, t)
          /\ LinkTo(t)' = Standing(serving', conns', t)
          /\ LeftOf(t) = Owing(sock[t]) /\ LeftOf(t)' = Owing(sock'[t])
    BY <1>1, <1>3, <2>1, ServingView DEF IInv
  <2>6. \A t \in Sender : LinkTo(t)' = LinkTo(t)
    <3>1. \A t \in Sender : Held(conns', t) <=> Held(conns, t)
      BY <2>1 DEF Held
    <3>2. serving = "close" => conns'[1].from = conns[1].from
      BY <2>1, HeadGoes DEF IInv, LinkInv
    <3> QED
      BY <2>1, <2>5, <3>1, <3>2 DEF Standing
  <2>7. LeftOf("music")' = 0 /\ \A t \in Sender : t # "music" => LeftOf(t)' = LeftOf(t)
    BY <1>1, <2>1, <2>5 DEF Owing
  <2>8. OthersSame("music")
    BY <1>2, <2>5, <2>6, <2>7 DEF OthersSame, Same
  <2>9. Channel!Next
    BY <1>1, <1>2, <2>2, <2>5, <2>6, <2>7, <2>8, IsLeave
  <2> QED
    BY <2>1, <2>3, <2>4, <2>9
<1>4. CASE setup.tcp # "client"
  <2>1. UNCHANGED <<serverVars, inboxVars, cli, wire>> /\ pcSock' = "closed"
    BY <1>4 DEF Close, CloseServer
  <2>2. /\ serving = "accept" /\ \A s \in Sender : sock[s] = "none"
        /\ setup.tcp = "server"
    BY <1>4 DEF IInv, SenderInv, ListenerInv, SetupInv
  <2>3. LinkInv'
    BY <2>1 DEF serverVars, IInv, LinkInv, SockInv, OpenAt, LastOfSender, LastIn
  <2>4. SenderInv' /\ CloseInv'
    BY <1>1, <2>1, <2>2 DEF serverVars, IInv, SenderInv, CloseInv
  <2>5. LeftBehind' = 0
    BY <2>1 DEF LeftBehind
  <2>6. OthersSame("music")
    BY <1>1, <1>2, <2>2, ServedView DEF OthersSame, Same
  <2>7. /\ Flight("music")' = Flight("music") /\ LinkTo("music")' = LinkTo("music")
        /\ LeftOf("music")' = 0
    BY <1>1, <2>1, <2>2, <2>5, ServedView
  <2>8. Channel!Next
    BY <1>1, <1>2, <2>1, <2>6, <2>7, IsLeave
  <2> QED
    BY <2>3, <2>4, <2>8
<1> QED
  BY <1>3, <1>4

\* The robot's thread serves.
LEMMA RobotServes ==
  ASSUME IInv, ServerStep, setup.tcp = "client", UNCHANGED listenerVars
  PROVE  LinkInv' /\ SenderInv' /\ CloseInv' /\ [Channel!Next]_(Channel!channelVars)
<1>1. /\ setup' = setup /\ stage' = stage /\ outgoing' = outgoing /\ clips' = clips
      /\ gesti' = gesti
      /\ sock \in [Sender -> Status] /\ "music" \in Sender
  BY ListenerAssumption DEF listenerVars, IInv, LinkInv
<1>2. \A t \in Sender : InHand(t)' = InHand(t)
  BY <1>1, HandsSame
<1> DEFINE View ==
      \A t \in Sender :
        /\ Flight(t) = UnreadOf(conns, t) /\ Flight(t)' = UnreadOf(conns', t)
        /\ LeftOf(t) = Owing(sock[t]) /\ LeftOf(t)' = Owing(sock'[t])
        /\ LinkTo(t) = Standing(serving, conns, t)
        /\ LinkTo(t)' = Standing(serving', conns', t)
<1>3. CASE Accept
  <2>1. /\ UNCHANGED <<conns, sock, inboxVars>> /\ conns # <<>>
        /\ serving = "accept" /\ serving' = "recv"
    BY <1>3 DEF Accept
  <2>2. LinkInv' /\ SenderInv' /\ CloseInv'
    BY <1>1, <2>1 DEF IInv, LinkInv, SockInv, OpenAt, LastOfSender, LastIn, SenderInv, CloseInv
  <2>3. View
    BY <1>1, <2>2, ServingView DEF IInv
  <2>4. \A t \in Sender : Same(t)
    BY <1>2, <2>1, <2>3 DEF Same, Standing
  <2>5. UNCHANGED Channel!channelVars
    BY <1>1, <2>1, <2>4, IsStutter
  <2> QED
    BY <2>2, <2>5
<1>4. CASE ConsumeLine
  <2>1. PICK s \in Sender :
          /\ LinkInv'
          /\ Replaces(conns, 1, [conns[1] EXCEPT !.data = Tail(@)], conns')
          /\ Enqueue(Head(UnreadOf(conns, s)))
          /\ UnreadOf(conns, s) # <<>>
          /\ \A t \in Sender :
               UnreadOf(conns', t) = IF t = s THEN Tail(UnreadOf(conns, t))
                                     ELSE UnreadOf(conns, t)
    BY <1>4, ConsumeKeeps DEF IInv
  <2>2. serving = "recv" /\ serving' = "recv" /\ sock' = sock
    BY <1>4 DEF ConsumeLine
  <2>3. SenderInv' /\ CloseInv'
    BY <1>1, <1>4, <2>2 DEF IInv, SenderInv, CloseInv, ConsumeLine
  <2>4. View
    BY <1>1, <2>1, ServingView DEF IInv
  <2>5. \A t \in Sender : Held(conns', t) <=> Held(conns, t)
    <3>1. /\ Len(conns') = Len(conns)
          /\ \A i \in 1 .. Len(conns) : conns'[i].from = conns[i].from
      BY <2>1, ConnsType DEF IInv, Replaces, Connection
    <3> QED
      BY <3>1 DEF Held
  <2>6. \A t \in Sender : LinkTo(t)' = LinkTo(t) /\ LeftOf(t)' = LeftOf(t)
    BY <2>2, <2>4, <2>5 DEF Standing
  <2>7. OthersSame(s)
    BY <1>2, <2>1, <2>4, <2>6 DEF OthersSame, Same
  <2>8. Flight(s) = UnreadOf(conns, s) /\ Flight(s)' = UnreadOf(conns', s)
    BY <2>4
  <2>9. Flight(s)' = Tail(Flight(s))
    BY <2>1, <2>8
  <2>10. Flight(s) # <<>> /\ Enqueue(Head(Flight(s)))
    BY <2>1, <2>8
  <2>11. /\ setup' = setup /\ stage' = stage /\ InHand(s)' = InHand(s)
         /\ LinkTo(s)' = LinkTo(s) /\ LeftOf(s)' = LeftOf(s)
    BY <1>1, <1>2, <2>6
  <2>12. Channel!Next
    BY <2>7, <2>9, <2>10, <2>11, IsDeliver
  <2> QED
    BY <2>1, <2>3, <2>12
<1>5. CASE EndOfStream
  <2>1. /\ conns # <<>> /\ Head(conns) = conns[1] /\ conns[1].data = <<>> /\ conns[1].eof
        /\ serving = "recv" /\ serving' = "accept" /\ conns' = Tail(conns) /\ sock' = sock
        /\ UNCHANGED inboxVars
    BY <1>5, HeadGoes DEF EndOfStream, IInv, LinkInv
  <2>2. LinkInv'
    BY <2>1, TailKeeps DEF IInv
  <2>3. SenderInv' /\ CloseInv'
    BY <1>1, <2>1 DEF IInv, SenderInv, CloseInv
  <2>4. \A t \in Sender : UnreadOf(conns', t) = UnreadOf(conns, t)
    BY <2>1, UnreadTail DEF IInv, LinkInv
  <2>5. View
    BY <1>1, <2>2, ServingView DEF IInv
  <2>6. PICK s \in Sender : s = conns[1].from
    BY <2>1, HeadGoes, ConnsType DEF IInv
  <2>7. /\ Held(conns, s)
        /\ \A t \in Sender : t # s => (Held(conns', t) <=> Held(conns, t))
    BY <2>1, <2>6, TailHeld DEF IInv
  <2>8. \A t \in Sender : Flight(t)' = Flight(t) /\ LeftOf(t)' = LeftOf(t)
    BY <2>1, <2>4, <2>5
  <2>9. OthersSame(s)
    BY <1>2, <2>1, <2>5, <2>7, <2>8 DEF OthersSame, Same, Standing
  <2>10. LinkTo(s) = "open" /\ LinkTo(s)' = IF Held(conns', s) THEN "open" ELSE "none"
    BY <2>1, <2>5, <2>7 DEF Standing
  <2>11. CASE Held(conns', s)
    <3>1. \A t \in Sender : Same(t)
      BY <1>2, <2>8, <2>9, <2>10, <2>11 DEF OthersSame, Same
    <3>2. UNCHANGED Channel!channelVars
      BY <1>1, <2>1, <3>1, IsStutter
    <3> QED
      BY <2>2, <2>3, <3>2
  <2>12. CASE ~Held(conns', s)
    <3>1. UnreadOf(conns', s) = <<>>
      <4>1. \A i \in 1 .. Len(conns') : conns'[i].from # s
        BY <2>12 DEF Held
      <4> QED
        BY <2>2, <4>1, UnreadNone DEF LinkInv
    <3>2. Flight(s) = <<>> /\ LinkTo(s)' = "none"
      BY <2>4, <2>5, <2>10, <2>12, <3>1
    <3>3. Channel!Next
      BY <1>1, <1>2, <2>1, <2>8, <2>9, <2>10, <3>2, IsFinish
    <3> QED
      BY <2>2, <2>3, <3>3
  <2> QED
    BY <2>11, <2>12
<1>6. CASE RecvTimesOut
  <2>1. /\ conns # <<>> /\ Head(conns) = conns[1] /\ conns[1].data = <<>> /\ ~conns[1].eof
        /\ 1 \in 1 .. Len(conns)
        /\ serving = "recv" /\ serving' = "close" /\ conns' = conns /\ sock' = sock
        /\ UNCHANGED inboxVars
    BY <1>6, HeadGoes DEF RecvTimesOut, IInv, LinkInv
  <2>2. LinkInv'
    BY <2>1 DEF IInv, LinkInv, SockInv, OpenAt, LastOfSender, LastIn
  <2>3. SenderInv'
    <3>1. setup.tcp # "server"
      OBVIOUS
    <3> QED
      BY <1>1, <2>1, <3>1 DEF IInv, SenderInv
  <2>4. CloseInv'
    <3>1. LastOfSender(1)'
      BY <2>1, <2>2 DEF LinkInv, SockInv
    <3>2. Len(<<>>) = 0
      OBVIOUS
    <3> QED
      BY <2>1, <3>1, <3>2 DEF CloseInv
  <2>5. View
    BY <1>1, <2>2, ServingView DEF IInv
  <2>6. PICK s \in Sender : s = conns[1].from
    BY <2>1, ConnsType DEF IInv
  <2>7. Held(conns, s)
    BY <2>1, <2>6 DEF Held
  <2>8. OthersSame(s)
    BY <1>2, <2>1, <2>5, <2>6 DEF OthersSame, Same, Standing
  <2>9. /\ LinkTo(s) = "open" /\ LinkTo(s)' = "silent"
        /\ Flight(s)' = Flight(s) /\ LeftOf(s)' = LeftOf(s)
    BY <2>1, <2>5, <2>6, <2>7 DEF Standing
  <2>10. Flight(s) = <<>>
    <3>1. LastOfSender(1)
      BY <2>1 DEF IInv, LinkInv, SockInv
    <3>2. ASSUME NEW i \in 1 .. Len(conns), conns[i].from = s PROVE conns[i].data = <<>>
      <4>1. i = 1
        BY <2>6, <3>1, <3>2 DEF LastOfSender, LastIn
      <4> QED
        BY <2>1, <4>1
    <3> QED
      BY <2>5, <3>2, UnreadNone DEF IInv, LinkInv
  <2>11. Channel!Next
    BY <1>1, <1>2, <2>1, <2>8, <2>9, <2>10, IsFindSilent
  <2> QED
    BY <2>2, <2>3, <2>4, <2>11
<1>7. CASE CloseConn
  <2> DEFINE s == conns[1].from
             c == conns[1]
  <2>1. /\ conns # <<>> /\ Head(conns) = c /\ 1 \in 1 .. Len(conns) /\ Len(conns) \in Nat
        /\ s \in Sender /\ c.data \in Seq(Line) /\ c.eof \in BOOLEAN
        /\ serving = "close" /\ serving' = "accept" /\ conns' = Tail(conns)
        /\ sock' = [sock EXCEPT ![s] = AfterClose(c)] /\ UNCHANGED inboxVars
    BY <1>7, HeadGoes, ConnsType DEF CloseConn, IInv, LinkInv
  <2>2. /\ Len(c.data) <= 1 /\ LastOfSender(1)
        /\ c.eof => s = "music" /\ stage = "closed" /\ sock[s] = "none"
    BY <2>1 DEF IInv, CloseInv, SenderInv
  <2>3. ~c.eof => sock[s] = "live" /\ ~(s = "music" /\ stage = "closed")
    BY <2>1 DEF IInv, LinkInv, SockInv, SenderInv
  <2>4. LinkInv'
    <3>1. c.eof => sock' = sock
      BY <1>1, <2>1, <2>2 DEF AfterClose
    <3>2. ~c.eof => \E st \in {"dropped", "reset"} : sock' = [sock EXCEPT ![conns[1].from] = st]
      BY <2>1 DEF AfterClose
    <3> QED
      BY <2>1, <2>2, <3>1, <3>2, TailKeeps DEF IInv
  <2>5. SenderInv'
    <3>1. sock["music"] = "none" => sock'["music"] = "none"
      BY <1>1, <2>1, <2>2, <2>3 DEF AfterClose
    <3> QED
      BY <1>1, <2>1, <3>1 DEF IInv, SenderInv
  <2>6. CloseInv'
    BY <2>1 DEF CloseInv
  <2>7. ASSUME NEW t \in Sender, t # s
        PROVE  /\ UnreadOf(conns', t) = UnreadOf(conns, t)
               /\ sock'[t] = sock[t]
    BY <1>1, <2>1, <2>7, UnreadTail DEF IInv, LinkInv
  <2>8. PICK r \in Sender : r = s
    BY <2>1
  <2>9. View
    BY <1>1, <2>4, ServingView DEF IInv
  <2>10. /\ Held(conns, r) /\ ~Held(conns', r)
         /\ \A t \in Sender : t # r => (Held(conns', t) <=> Held(conns, t))
    BY <2>1, <2>2, <2>8, TailHeld DEF IInv
  <2>11. OthersSame(r)
    BY <1>2, <2>1, <2>7, <2>8, <2>9, <2>10 DEF OthersSame, Same, Standing
  <2>12. LinkTo(r) = "silent" /\ LinkTo(r)' = "none"
    BY <2>1, <2>8, <2>9, <2>10 DEF Standing
  <2>13. UnreadOf(conns', r) = <<>>
    <3>1. \A i \in 1 .. Len(conns') : conns'[i].from # r
      BY <2>10 DEF Held
    <3> QED
      BY <2>4, <3>1, UnreadNone DEF LinkInv
  <2>14. UnreadOf(conns, r) = c.data
    <3>1. UnreadOf(conns, r) = c.data \o UnreadOf(Tail(conns), r)
      BY <2>1, <2>8, UnreadHead DEF IInv, LinkInv
    <3> QED
      BY <2>1, <2>13, <3>1, ConcatEmptySeq
  <2>15. LeftOf(r) = 0 /\ LeftOf(r)' = IF c.data = <<>> /\ ~c.eof THEN 1 ELSE 0
    BY <1>1, <2>1, <2>2, <2>3, <2>8, <2>9 DEF AfterClose, Owing
  <2>16. Ended(r) <=> c.eof
    BY <2>1, <2>2, <2>3, <2>8 DEF Ended
  <2>17. /\ Flight(r) = c.data /\ Flight(r)' = <<>> /\ Len(c.data) <= 1
    BY <2>2, <2>9, <2>13, <2>14
  <2>18. LeftOf(r)' = IF Flight(r) = <<>> /\ ~Ended(r) THEN LeftOf(r) + 1 ELSE LeftOf(r)
    BY <2>15, <2>16, <2>17
  <2> HIDE DEF s, c
  <2>19. InHand(r)' = InHand(r) /\ Len(Flight(r)) <= 1
    BY <1>2, <2>17
  <2>20. Channel!Next
    BY <1>1, <2>1, <2>11, <2>12, <2>15, <2>17, <2>18, <2>19, IsAbandon
  <2> QED
    BY <2>4, <2>5, <2>6, <2>20
<1> QED
  BY <1>3, <1>4, <1>5, <1>6, <1>7 DEF ServerStep

\* The robot's thread reads, on the link on which the PC serves.
LEMMA RobotReads ==
  ASSUME IInv, ClientStep, setup.tcp = "server", UNCHANGED <<listenerVars, serverVars>>
  PROVE  LinkInv' /\ SenderInv' /\ CloseInv' /\ [Channel!Next]_(Channel!channelVars)
<1>1. /\ UNCHANGED <<setup, stage, outgoing, gesti>>
      /\ \A t \in Sender : InHand(t)' = InHand(t)
  BY HandsSame DEF listenerVars
<1>2. LinkInv' /\ CloseInv' /\ SenderInv'
  BY DEF IInv, LinkInv, SockInv, OpenAt, LastOfSender, LastIn, CloseInv, HasSent, SenderInv,
         serverVars, listenerVars
<1>3. PICK s \in Sender : s = "music"
  BY ListenerAssumption
<1>4. \A t \in Sender :
        /\ Flight(t) = IF t = s THEN wire ELSE <<>>
        /\ Flight(t)' = IF t = s THEN wire' ELSE <<>>
        /\ LeftOf(t) = IF t = s THEN LeftBehind ELSE 0
        /\ LeftOf(t)' = IF t = s THEN LeftBehind' ELSE 0
        /\ LinkTo(t) = IF t = s /\ cli # "away" THEN "open" ELSE "none"
        /\ LinkTo(t)' = IF t = s /\ cli' # "away" THEN "open" ELSE "none"
  BY <1>1, <1>3, ServedView
<1>5. OthersSame(s)
  BY <1>1, <1>4 DEF OthersSame, Same
<1>6. stage = "closed" => pcSock = "closed"
  BY DEF IInv, ClientInv
<1>7. CASE RecvLine
  <2>1. /\ wire # <<>> /\ Enqueue(Head(wire)) /\ wire' = Tail(wire)
        /\ cli # "away" /\ cli' # "away" /\ UNCHANGED <<pcSock, pending>>
    BY <1>7 DEF RecvLine
  <2>2. LeftBehind' = LeftBehind
    BY <2>1 DEF LeftBehind
  <2>3. /\ Flight(s) # <<>> /\ Enqueue(Head(Flight(s))) /\ Flight(s)' = Tail(Flight(s))
        /\ LeftOf(s)' = LeftOf(s) /\ LinkTo(s)' = LinkTo(s)
    BY <1>4, <2>1, <2>2
  <2>4. Channel!Next
    BY <1>1, <1>5, <2>3, IsDeliver
  <2> QED
    BY <1>2, <2>4
<1>8. CASE Connect
  <2>1. /\ LeftBehind' = LeftBehind /\ cli = "away" /\ cli' = "first" /\ pcSock # "closed"
    BY <1>1, <1>8, ConnectingKeeps DEF IInv
  <2>2. wire' = wire /\ up /\ UNCHANGED inboxVars
    BY <1>8 DEF Connect, CanConnect
  <2>3. /\ Flight(s)' = Flight(s) /\ LeftOf(s)' = LeftOf(s)
        /\ LinkTo(s) = "none" /\ LinkTo(s)' = "open" /\ ~Ended(s)
    BY <1>4, <1>6, <2>1, <2>2 DEF Ended
  <2>4. Channel!Next
    BY <1>1, <1>5, <2>2, <2>3, IsConnect
  <2> QED
    BY <1>2, <2>4
<1>9. CASE FirstRecvTimesOut
  <2>1. /\ cli # "away" /\ cli' # "away" /\ UNCHANGED <<wire, pcSock, pending, inboxVars>>
    BY <1>9 DEF FirstRecvTimesOut
  <2>2. LeftBehind' = LeftBehind
    BY <2>1 DEF LeftBehind
  <2>3. \A t \in Sender : Same(t)
    BY <1>1, <1>4, <2>1, <2>2 DEF Same
  <2>4. UNCHANGED Channel!channelVars
    BY <1>1, <2>1, <2>3, IsStutter
  <2> QED
    BY <1>2, <2>4
<1>10. CASE RecvTimesOut_Client \/ ServerGone
  <2>1. cli # "away" /\ wire = <<>> /\ LeaveConnection /\ UNCHANGED inboxVars
    BY <1>10 DEF RecvTimesOut_Client, ServerGone, Silent
  <2>2. /\ LeftBehind' = IF pcSock # "closed" THEN LeftBehind + 1 ELSE LeftBehind
        /\ wire' = <<>> /\ cli' = "away"
    <3>1. LeftBehind' = IF cli # "away" /\ pcSock # "closed" THEN LeftBehind + 1 ELSE LeftBehind
      BY <1>1, <2>1, LeavingKeeps DEF IInv
    <3> QED
      BY <2>1, <3>1 DEF LeaveConnection
  <2>3. /\ Flight(s) = <<>> /\ Flight(s)' = <<>>
        /\ LinkTo(s) = "open" /\ LinkTo(s)' = "none"
        /\ LeftOf(s) = LeftBehind /\ LeftOf(s)' = LeftBehind'
    BY <1>4, <2>1, <2>2
  <2>4. CASE pcSock = "closed"
    <3>1. LeftOf(s)' = LeftOf(s) /\ Flight(s)' = Flight(s)
      BY <2>2, <2>3, <2>4
    <3>2. Channel!Next
      BY <1>1, <1>5, <2>1, <2>3, <3>1, IsFinish
    <3> QED
      BY <1>2, <3>2
  <2>5. CASE pcSock # "closed"
    <3>1. ~Ended(s)
      BY <1>6, <2>5 DEF Ended
    <3>2. LeftOf(s)' = IF Flight(s) = <<>> /\ ~Ended(s) THEN LeftOf(s) + 1 ELSE LeftOf(s)
      BY <2>2, <2>3, <2>5, <3>1
    <3>3. IF setup.tcp = "client"
          THEN LinkTo(s) = "silent" /\ Len(Flight(s)) <= 1 /\ LeftOf(s) = 0
          ELSE LinkTo(s) = "open" /\ Flight(s) = <<>>
      BY <2>3
    <3>4. Channel!Next
      BY <1>1, <1>5, <2>1, <2>3, <3>2, <3>3, IsAbandon
    <3> QED
      BY <1>2, <3>4
  <2> QED
    BY <2>4, <2>5
<1> QED
  BY <1>7, <1>8, <1>9, <1>10 DEF ClientStep

\* The robot's program ends.
LEMMA RobotEnds ==
  ASSUME IInv, RobotStops
  PROVE  LinkInv' /\ SenderInv' /\ CloseInv' /\ Channel!Next
<1>1. /\ UNCHANGED <<setup, stage, outgoing, gesti>> /\ InboxLost
      /\ \A t \in Sender : InHand(t)' = InHand(t)
  BY HandsSame DEF RobotStops, listenerVars
<1>2. CASE setup.tcp = "client"
  <2>1. ServerDrops
    BY <1>2 DEF RobotStops
  <2>2. /\ LinkInv' /\ serving' = "accept" /\ conns' = <<>>
        /\ \A s \in Sender : UnreadOf(conns', s) = <<>>
        /\ \A s \in Sender : sock[s] = "none" => sock'[s] = "none"
    BY <2>1, DropsKeep DEF IInv
  <2>3. SenderInv' /\ CloseInv'
    <3>1. "music" \in Sender
      BY ListenerAssumption
    <3> QED
      BY <1>1, <1>2, <2>2, <3>1 DEF IInv, SenderInv, CloseInv
  <2>4. \A t \in Sender :
          /\ Flight(t)' = UnreadOf(conns', t)
          /\ LeftOf(t) = Owing(sock[t]) /\ LeftOf(t)' = Owing(sock'[t])
          /\ LinkTo(t) = Standing(serving, conns, t)
          /\ LinkTo(t)' = Standing(serving', conns', t)
    BY <1>1, <1>2, <2>2, ServingView DEF IInv
  <2>5. \A t \in Sender : Flight(t)' = <<>> /\ LinkTo(t)' = "none" /\ LeftOf(t)' \in Nat
    <3>1. Len(conns') = 0
      BY <2>2
    <3> QED
      BY <2>2, <2>4, <3>1 DEF Standing, Held, Owing
  <2>6. ASSUME NEW t \in Sender, LeftOf(t)' # LeftOf(t)
        PROVE  LinkTo(t) # "none" /\ ~Ended(t) /\ LeftOf(t)' = LeftOf(t) + 1
    <3>1. sock[t] = "live"
      BY <2>1, <2>4, <2>6 DEF ServerDrops, Owing
    <3>2. Held(conns, t)
      BY <3>1 DEF IInv, LinkInv, SockInv, OpenAt, Held
    <3>3. ~Ended(t)
      BY <3>1 DEF Ended, IInv, SenderInv
    <3>4. LeftOf(t) = 0 /\ LeftOf(t)' = 1
      BY <2>4, <2>6, <3>1 DEF Owing
    <3> QED
      BY <2>4, <3>2, <3>3, <3>4 DEF Standing
  <2>7. Channel!Next
    BY <1>1, <2>5, <2>6, IsCrash
  <2> QED
    BY <2>2, <2>3, <2>7
<1>3. CASE setup.tcp # "client"
  <2>1. UNCHANGED serverVars /\ LeaveConnection /\ setup.tcp = "server"
    BY <1>3 DEF RobotStops, IInv, ListenerInv, SetupInv
  <2>2. LinkInv' /\ CloseInv' /\ SenderInv'
    BY <1>1, <2>1
    DEF IInv, LinkInv, SockInv, OpenAt, LastOfSender, LastIn, CloseInv, HasSent,
        serverVars, listenerVars, RobotStops, SenderInv
  <2>3. /\ LeftBehind' = IF cli # "away" /\ pcSock # "closed" THEN LeftBehind + 1
                         ELSE LeftBehind
        /\ LeftBehind' \in Nat /\ wire' = <<>> /\ cli' = "away"
    <3>1. /\ LeftBehind' = IF cli # "away" /\ pcSock # "closed" THEN LeftBehind + 1
                           ELSE LeftBehind
          /\ ClientInv'
      BY <1>1, <2>1, LeavingKeeps DEF IInv
    <3>2. cli' = "away" /\ wire' = <<>>
      BY <2>1 DEF LeaveConnection
    <3>3. Len(pending') \in Nat
      BY <3>1 DEF ClientInv
    <3>4. LeftBehind' \in Nat
      BY <3>2, <3>3 DEF LeftBehind
    <3> QED
      BY <3>1, <3>2, <3>4
  <2>4. stage = "closed" => pcSock = "closed"
    BY <2>1 DEF IInv, ClientInv
  <2>5. ASSUME NEW t \in Sender
        PROVE  /\ Flight(t)' = <<>> /\ LinkTo(t)' = "none" /\ LeftOf(t)' \in Nat
               /\ \/ LeftOf(t)' = LeftOf(t)
                  \/ LinkTo(t) # "none" /\ ~Ended(t) /\ LeftOf(t)' = LeftOf(t) + 1
    BY <1>1, <2>1, <2>3, <2>4, ServedView DEF Ended
  <2>6. Channel!Next
    BY <1>1, <2>5, IsCrash
  <2> QED
    BY <2>2, <2>6
<1> QED
  BY <1>2, <1>3

\* A line of the listener goes out.
LEMMA ListenerSendsOnLink ==
  ASSUME IInv, Send
  PROVE  LinkInv' /\ SenderInv' /\ CloseInv' /\ [Channel!Next]_(Channel!channelVars)
<1>1. /\ outgoing # Nothing /\ outgoing.line \in Line /\ stage # "closed"
      /\ outgoing' = Nothing /\ UNCHANGED <<setup, clips, stage, gesti>>
      /\ setup.capture = "record" => clips = <<>>
  BY DEF Send, SendEnds, IInv, ListenerInv, OutgoingInv, ClipsInv
<1>2. PICK line \in Line : line = outgoing.line
  BY <1>1
<1>3. /\ InHand("music") = <<line>> /\ InHand("music")' = <<>>
      /\ \A t \in Sender : t # "music" => InHand(t)' = InHand(t)
  BY <1>1, <1>2 DEF InHand
<1>4. CASE setup.tcp = "client" /\ setup.script = "clips"
  <2>1. SendCommand("music", line)
    BY <1>2, <1>4 DEF Send
  <2>2. HasSent("gesti") => HasSent("gesti")'
    BY <1>1 DEF HasSent
  <2> QED
    BY <1>1, <1>3, <1>4, <2>1, <2>2, CommandOnLink
<1>5. CASE setup.tcp = "client" /\ setup.script # "clips"
  <2>1. SendLine("music", line)
    BY <1>2, <1>5 DEF Send
  <2>2. /\ ~HasSent("music") /\ HasSent("music")'
        /\ \A t \in {"music", "gesti"} : t # "music" /\ HasSent(t) => HasSent(t)'
    BY <1>1, <1>5 DEF HasSent, IInv, ListenerInv, SetupInv
  <2> QED
    BY <1>1, <1>3, <1>5, <2>1, <2>2, SendsOnLink
<1>6. CASE setup.tcp # "client"
  <2>1. /\ SendAccepted(line) /\ UNCHANGED <<serverVars, inboxVars>>
        /\ setup.tcp = "server"
    BY <1>2, <1>6 DEF Send, SendAccepted, IInv, ListenerInv, SetupInv
  <2>2. LinkInv' /\ CloseInv' /\ SenderInv'
    <3>1. serving = "accept"
      BY <2>1 DEF IInv, SenderInv
    <3> QED
      BY <1>1, <2>1, <3>1
      DEF IInv, LinkInv, SockInv, OpenAt, LastOfSender, LastIn, CloseInv, SenderInv, serverVars
  <2>3. PICK s \in Sender : s = "music"
    BY ListenerAssumption
  <2>4. \A t \in Sender :
          /\ Flight(t) = IF t = s THEN wire ELSE <<>>
          /\ Flight(t)' = IF t = s THEN wire' ELSE <<>>
          /\ LeftOf(t) = IF t = s THEN LeftBehind ELSE 0
          /\ LeftOf(t)' = IF t = s THEN LeftBehind' ELSE 0
          /\ LinkTo(t) = IF t = s /\ cli # "away" THEN "open" ELSE "none"
          /\ LinkTo(t)' = IF t = s /\ cli' # "away" THEN "open" ELSE "none"
    BY <1>1, <2>1, <2>3, ServedView
  <2>5. OthersSame(s)
    BY <1>3, <2>3, <2>4 DEF OthersSame, Same
  <2>6. cli' = cli
    BY <2>1 DEF SendAccepted
  <2>7. CASE wire' = Append(wire, line) /\ cli # "away" /\ LeftBehind = 0 /\ LeftBehind' = 0
    <3>1. /\ InHand(s) = <<line>> /\ InHand(s)' = <<>>
          /\ Flight(s)' = Append(Flight(s), line)
          /\ LeftOf(s) = 0 /\ LeftOf(s)' = LeftOf(s)
          /\ LinkTo(s) = "open"
          /\ LinkTo(s)' = IF LinkTo(s) = "none" THEN "open" ELSE LinkTo(s)
      BY <1>3, <2>3, <2>4, <2>6, <2>7
    <3>2. Channel!Next
      BY <1>1, <2>1, <2>5, <3>1, IsSend
    <3> QED
      BY <2>2, <3>2
  <2>8. CASE /\ wire' = wire /\ LeftBehind \in Int
             /\ LeftBehind > 0 /\ LeftBehind' = LeftBehind - 1
    <3>1. InHand(s) # <<>> /\ InHand(s)' = <<>>
      BY <1>3, <2>3
    <3>2. LeftOf(s) = LeftBehind /\ LeftOf(s)' = LeftBehind'
      BY <2>3, <2>4
    <3>3. LeftOf(s) \in Int /\ LeftOf(s) > 0 /\ LeftOf(s)' = LeftOf(s) - 1
      BY <2>8, <3>2
    <3>4. Flight(s)' = Flight(s) /\ LinkTo(s)' = LinkTo(s)
      BY <2>4, <2>6, <2>8
    <3>5. Channel!Next
      BY <1>1, <2>1, <2>5, <3>1, <3>3, <3>4, IsSwallow
    <3> QED
      BY <2>2, <3>5
  <2> QED
    BY <1>1, <2>1, <2>7, <2>8, AcceptedKeeps DEF IInv
<1> QED
  BY <1>4, <1>5, <1>6


\* What waits to be sent goes on waiting.
LEMMA OutgoingHeld ==
  ASSUME OutgoingInv, Tick
  PROVE  (outgoing' = Nothing <=> outgoing = Nothing) /\ outgoing'.line = outgoing.line
<1>1. CASE outgoing' = outgoing
  BY <1>1
<1>2. CASE outgoing # Nothing /\ outgoing' = [outgoing EXCEPT !.waited = @ + 1]
  <2>1. outgoing'.waited \in Nat \ {0} /\ outgoing'.line = outgoing.line
    BY <1>2 DEF OutgoingInv, OutgoingType
  <2>2. Nothing.waited = 0
    BY DEF Nothing, Saying
  <2> QED
    BY <1>2, <2>1, <2>2
<1> QED
  BY <1>1, <1>2 DEF Tick

\* Between two steps of the links.
LEMMA HandsChange ==
  ASSUME IInv, Tick \/ TtsEnds \/ GestiSkips \/ GestiSpoke \/ EndOfFile
  PROVE  LinkInv' /\ SenderInv' /\ CloseInv' /\ [Channel!Next]_(Channel!channelVars)
<1>1. CASE Tick
  <2>1. UNCHANGED <<inboxVars, serverVars, setup, stage, cli, wire, pcSock, pending>>
    BY <1>1 DEF Tick, ClientWaits, clientVars
  <2>2. serving # "close"
    BY <1>1 DEF Tick, RobotWaits, IInv, SenderInv, ListenerInv, SetupInv
  <2>3. gesti.at # "send" /\ gesti'.at # "send"
    BY <1>1 DEF Tick, ListenerWaits, Gesti
  <2>4. \A t \in Sender : InHand(t)' = InHand(t)
    <3>1. /\ outgoing' = Nothing <=> outgoing = Nothing
          /\ outgoing'.line = outgoing.line
      BY <1>1, OutgoingHeld DEF IInv, ListenerInv
    <3> QED
      BY <2>3, <3>1 DEF InHand
  <2>5. LinkInv' /\ SenderInv' /\ CloseInv'
    BY <2>1, <2>2, LinksAlone
  <2>6. LeftBehind' = LeftBehind
    BY <2>1, BehindSame
  <2> QED
    BY <2>1, <2>4, <2>5, <2>6, HandsStay
<1>2. CASE TtsEnds \/ GestiSkips \/ GestiSpoke \/ EndOfFile
  <2>1. /\ UNCHANGED <<inboxVars, serverVars, clientVars, setup, clips, outgoing>>
        /\ stage' = stage \/ (stage = "listen" /\ stage' = "final")
        /\ gesti' = gesti \/ (gesti.at # "send" /\ gesti'.at = "listen")
    BY <1>2 DEF TtsEnds, GestiSkips, GestiSpoke, EndOfFile, othersVars, Gesti
  <2>2. \A s \in {"music", "gesti"} : HasSent(s) => HasSent(s)'
    BY <2>1 DEF HasSent
  <2>3. \A t \in Sender : InHand(t)' = InHand(t)
    BY <2>1 DEF InHand
  <2>4. LinkInv' /\ SenderInv' /\ CloseInv'
    BY <2>1, <2>2, LinksAlone
  <2>5. LeftBehind' = LeftBehind /\ UNCHANGED <<cli, wire>>
    BY <2>1, BehindSame DEF clientVars
  <2> QED
    BY <2>1, <2>3, <2>4, <2>5, HandsStay
<1> QED
  BY <1>1, <1>2

\* A sender has a line to send.
LEMMA SenderSays ==
  ASSUME IInv, ListenerInv', HearNothing \/ HearMusic \/ HearSpeech \/ SendFinal \/ GestiSays
  PROVE  LinkInv' /\ SenderInv' /\ CloseInv' /\ [Channel!Next]_(Channel!channelVars)
<1>1. CASE HearNothing \/ HearMusic \/ HearSpeech \/ SendFinal
  <2>1. /\ UNCHANGED <<inboxVars, serverVars, clientVars, setup, stage, gesti>>
        /\ stage # "closed" /\ outgoing = Nothing
    BY <1>1 DEF HearNothing, HearMusic, HearSpeech, SendFinal, CanHear
  <2>2. outgoing' # Nothing => outgoing'.line \in Line
    BY DEF ListenerInv, OutgoingInv
  <2>3. [Channel!Next]_(Channel!channelVars)
    BY <2>1, <2>2, MusicSays
  <2>4. CASE clips # <<>>
    <3>1. \A s \in {"music", "gesti"} : HasSent(s) => HasSent(s)'
      BY <2>1, <2>4 DEF HasSent
    <3> QED
      BY <2>1, <2>3, <3>1, LinksAlone
  <2>5. CASE clips = <<>>
    <3>1. serving # "close"
      BY <1>1, <2>5 DEF HearNothing, HearMusic, HearSpeech, CanHear, SendFinal, RobotWaits,
                        IInv, SenderInv, ListenerInv, SetupInv
    <3> QED
      BY <2>1, <2>3, <3>1, LinksAlone
  <2> QED
    BY <2>4, <2>5
<1>2. CASE GestiSays
  <2>1. /\ UNCHANGED <<inboxVars, serverVars, clientVars, setup, stage, outgoing, clips>>
        /\ gesti.at = "heard"
    BY <1>2 DEF GestiSays, othersVars
  <2>2. PICK line \in GestureLine : gesti' = [at |-> "send", line |-> line]
    BY <1>2 DEF GestiSays
  <2>3. line \in Line
    BY ListenerAssumption
  <2>4. \A s \in {"music", "gesti"} : HasSent(s) => HasSent(s)'
    BY <2>1 DEF HasSent
  <2>5. LinkInv' /\ SenderInv' /\ CloseInv'
    BY <2>1, <2>4, LinksAlone
  <2>6. PICK s \in Sender : s = "gesti"
    BY ListenerAssumption
  <2>7. /\ InHand(s) = <<>> /\ InHand(s)' = <<line>> /\ ~Ended(s)
        /\ \A t \in Sender : t # s => InHand(t)' = InHand(t)
    BY <2>1, <2>2, <2>6 DEF InHand, Ended
  <2>8. LeftBehind' = LeftBehind /\ UNCHANGED <<cli, wire>>
    BY <2>1, BehindSame DEF clientVars
  <2>9. /\ OthersSame(s)
        /\ Flight(s)' = Flight(s) /\ LinkTo(s)' = LinkTo(s) /\ LeftOf(s)' = LeftOf(s)
    BY <2>1, <2>7, <2>8, LinksSame DEF OthersSame, Same
  <2>10. Channel!Next
    BY <2>1, <2>3, <2>7, <2>9, IsSay
  <2> QED
    BY <2>5, <2>10
<1> QED
  BY <1>1, <1>2

\* A step keeps the invariant and is one of the channel's, or none.
LEMMA StepSimulates ==
  ASSUME IInv, [Next]_vars
  PROVE  IInv' /\ [Channel!Next]_(Channel!channelVars)
<1>0. ListenerInv' /\ ClientInv'
  BY ListenerStays, ClientStays DEF IInv
<1> SUFFICES LinkInv' /\ SenderInv' /\ CloseInv' /\ [Channel!Next]_(Channel!channelVars)
  BY <1>0 DEF IInv
<1>1. CASE UNCHANGED vars
  <2>1. /\ UNCHANGED <<inboxVars, serverVars, cli, wire, pcSock, pending, setup>>
        /\ UNCHANGED <<stage, outgoing, gesti>>
        /\ \A s \in {"music", "gesti"} : HasSent(s) => HasSent(s)'
    BY <1>1 DEF vars, listenerVars, clientVars, HasSent
  <2>2. LinkInv' /\ SenderInv' /\ CloseInv'
    BY <2>1, LinksAlone
  <2>3. LeftBehind' = LeftBehind /\ \A t \in Sender : InHand(t)' = InHand(t)
    BY <2>1, BehindSame, HandsSame
  <2> QED
    BY <2>1, <2>2, <2>3, HandsStay
<1>2. CASE Tick \/ TtsEnds \/ GestiSkips \/ GestiSpoke \/ EndOfFile
  BY <1>2, HandsChange
<1>3. CASE HearNothing \/ HearMusic \/ HearSpeech \/ SendFinal \/ GestiSays
  BY <1>0, <1>3, SenderSays
<1>4. CASE Send
  BY <1>4, ListenerSendsOnLink
<1>5. CASE SendRefused \/ SendFails
  <2>1. /\ Refused("music") /\ setup.tcp = "client" /\ outgoing # Nothing
        /\ UNCHANGED <<setup, gesti>> /\ outgoing' = Nothing
        /\ clips' = clips \/ clips' = <<>>
        /\ stage' = stage \/ stage' = "closed"
    BY <1>5 DEF SendRefused, SendFails, SendEnds
  <2>2. \A t \in {"music", "gesti"} : HasSent(t) => HasSent(t)'
    BY <2>1 DEF HasSent
  <2>3. /\ InHand("music") # <<>> /\ InHand("music")' = <<>>
        /\ \A t \in Sender : t # "music" => InHand(t)' = InHand(t)
    BY <2>1 DEF InHand
  <2> QED
    BY <2>1, <2>2, <2>3, FindsNobody
<1>6. CASE AcceptForSend
  <2>1. /\ AcceptClient /\ UNCHANGED <<listenerVars, serverVars>>
        /\ UNCHANGED <<inboxVars, cli, wire>>
    BY <1>6 DEF AcceptForSend, AcceptClient
  <2>2. /\ UNCHANGED <<setup, stage, outgoing, gesti>>
        /\ \A s \in {"music", "gesti"} : HasSent(s) => HasSent(s)'
        /\ \A t \in Sender : InHand(t)' = InHand(t)
    BY <2>1, HandsSame DEF listenerVars, HasSent
  <2>3. LinkInv' /\ SenderInv' /\ CloseInv'
    BY <2>1, <2>2, LinksAlone
  <2>4. LeftBehind' = LeftBehind
    BY <2>1, <2>2, AcceptingKeeps DEF IInv
  <2> QED
    BY <2>1, <2>2, <2>3, <2>4, HandsStay
<1>7. CASE Finish \/ UserStops
  <2>1. Close /\ outgoing = Nothing
    BY <1>7, ClosesIdle DEF IInv
  <2> QED
    BY <2>1, EndsOnLink
<1>8. CASE GestiSends
  <2>1. PICK line \in Line : line = gesti.line
    BY <1>8, ListenerAssumption DEF GestiSends, IInv, ListenerInv, SetupInv
  <2>2. /\ SendLine("gesti", line) /\ setup.tcp = "client"
        /\ UNCHANGED <<setup, stage, outgoing, clips>>
        /\ gesti.at = "send" /\ gesti'.at \notin {"heard", "send"}
    BY <1>8, <2>1 DEF GestiSends, othersVars, IInv, ListenerInv, SetupInv, Gesti
  <2>3. /\ ~HasSent("gesti") /\ HasSent("gesti")'
        /\ \A t \in {"music", "gesti"} : t # "gesti" /\ HasSent(t) => HasSent(t)'
    BY <2>2 DEF HasSent
  <2>4. /\ InHand("gesti") = <<line>> /\ InHand("gesti")' = <<>>
        /\ \A t \in Sender : t # "gesti" => InHand(t)' = InHand(t)
    BY <2>1, <2>2 DEF InHand
  <2> QED
    BY <2>2, <2>3, <2>4, SendsOnLink
<1>9. CASE GestiRefused
  <2>1. /\ Refused("gesti") /\ setup.tcp = "client"
        /\ UNCHANGED <<setup, stage, outgoing, clips>>
        /\ gesti.at = "send" /\ gesti'.at \notin {"heard", "send"}
    BY <1>9 DEF GestiRefused, othersVars, IInv, ListenerInv, SetupInv, Gesti
  <2>2. \A t \in {"music", "gesti"} : HasSent(t) => HasSent(t)'
    BY <2>1 DEF HasSent
  <2>3. /\ InHand("gesti") # <<>> /\ InHand("gesti")' = <<>>
        /\ \A t \in Sender : t # "gesti" => InHand(t)' = InHand(t)
    BY <2>1 DEF InHand
  <2> QED
    BY <2>1, <2>2, <2>3, FindsNobody
<1>10. CASE RobotLink
  <2>1. CASE setup.tcp = "client"
    BY <1>10, <2>1, RobotServes DEF RobotLink
  <2>2. CASE setup.tcp # "client"
    <3>1. ClientStep /\ UNCHANGED <<listenerVars, serverVars>> /\ setup.tcp = "server"
      BY <1>10, <2>2 DEF RobotLink, IInv, ListenerInv, SetupInv
    <3> QED
      BY <3>1, RobotReads
  <2> QED
    BY <2>1, <2>2
<1>11. CASE PipelineStep \/ PipelineResets \/ RobotStarts
  <2>1. /\ ProcessTriggers \/ ClearInbox \/ InboxBack
        /\ UNCHANGED <<listenerVars, serverVars, clientVars>>
    BY <1>11 DEF PipelineStep, PipelineResets, RobotStarts
  <2>2. /\ UNCHANGED <<setup, stage, outgoing, gesti, cli, wire, pcSock, pending>>
        /\ \A s \in {"music", "gesti"} : HasSent(s) => HasSent(s)'
        /\ \A t \in Sender : InHand(t)' = InHand(t)
    BY <2>1, HandsSame DEF listenerVars, clientVars, HasSent
  <2>3. LinkInv' /\ SenderInv' /\ CloseInv'
    BY <2>1, <2>2, LinksAlone
  <2>4. \A t \in Sender : Same(t)
    BY <2>1, <2>2, BehindSame, LinksSame DEF Same
  <2>5. Channel!Next
    BY <2>1, <2>2, <2>4, IsRobot
  <2> QED
    BY <2>3, <2>5
<1>12. CASE RobotStops
  BY <1>12, RobotEnds
<1> QED
  BY <1>1, <1>2, <1>3, <1>4, <1>5, <1>6, <1>7, <1>8, <1>9, <1>10, <1>11, <1>12 DEF Next

\* In the beginning nothing is on its way.
LEMMA StartSimulates == Init => IInv /\ Channel!Init
<1> SUFFICES ASSUME Init PROVE IInv /\ Channel!Init
  OBVIOUS
<1>1. /\ serving = "accept" /\ conns = <<>> /\ sock = [s \in Sender |-> "none"]
      /\ cli = "away" /\ wire = <<>> /\ pcSock = "none" /\ pending = <<>>
      /\ stage = "listen" /\ outgoing = Nothing /\ gesti.at # "send"
      /\ InboxInit /\ "music" \in Sender
  BY ListenerAssumption DEF Init, ServerInit, ClientInit, ListenerInit, Gesti
<1>2. LinkInv
  BY <1>1 DEF LinkInv, SockInv, Status
<1>3. SenderInv /\ CloseInv
  BY <1>1 DEF SenderInv, CloseInv
<1>4. ClientInv
  <2>1. <<>> \in Seq(Line) /\ <<>> \in Seq({"live", "left"}) /\ Len(<<>>) = 0
    OBVIOUS
  <2> QED
    BY <1>1, <2>1 DEF ClientInv, PcStatus
<1>5. LeftBehind = 0
  BY <1>1 DEF LeftBehind
<1>6. \A t \in Sender : /\ InHand(t) = <<>> /\ Flight(t) = <<>>
                        /\ LinkTo(t) = "none" /\ LeftOf(t) = 0
  BY <1>1, <1>5, UnreadEmpty DEF InHand, Flight, LinkTo, LeftOf
<1>7. Channel!Init
  BY <1>1, <1>6 DEF Channel!Init, InboxInit, Channel!InboxInit
<1> QED
  BY <1>2, <1>3, <1>4, <1>7, ListenerStarts DEF IInv

\* Whatever is played, said and stopped, whichever of the two links there is and
\* however its connections are made and left, the robot's deque receives each
\* sender's lines in their order, none twice and none that nobody sent.  While the
\* robot runs a line is lost only to a connection the robot has left, and each of
\* those takes one line at most; where the robot serves no two lines of a sender
\* are lost in a row (music_command_socket_ctrl, music_command_socket_client_ctrl,
\* send_line() of the listeners).
THEOREM LinksKeepTheChannelsPromise == Spec => ImplementsChannel
<1>1. Init => IInv /\ Channel!Init
  BY StartSimulates
<1>2. IInv /\ [Next]_vars => IInv' /\ [Channel!Next]_(Channel!channelVars)
  BY StepSimulates
<1> QED
  BY <1>1, <1>2, PTL DEF Spec, ImplementsChannel, Channel!Spec

-----------------------------------------------------------------------------
(***************************************************************************)
(* A quiet room.  Where the listener looks at the votes, what it records   *)
(* of a room without music makes no switch, so that only gestures are on   *)
(* any of the ways to the pipeline.                                        *)
(***************************************************************************)
Gestures == Seq(GestureLine)

QuietConnection == [from : Sender, data : Gestures, eof : BOOLEAN]

QuietListener ==
  /\ setup.script # "timed"
  /\ stage # "final"
  /\ clips \in Seq([song : Quiet, at : {0}])
  /\ outgoing # Nothing => outgoing.line \in GestureLine

QuietLink == conns \in Seq(QuietConnection) /\ wire \in Gestures

QuietInbox == inbox \in Gestures /\ taken \in Gestures

QuietInv == QuietListener /\ QuietLink /\ QuietInbox

\* Nothing is decided upon a clip without music.
LEMMA QuietDecisions ==
  ASSUME setup.script \in {"smart", "clips"}, NEW clip \in [song : Quiet, at : {0}]
  PROVE  Decisions(clip) \subseteq {NoPolicy}
<1>1. clip.song \notin Song
  BY ListenerAssumption
<1>2. \A m \in ShazamHears(clip) : m.strong = FALSE
  BY <1>1 DEF ShazamHears, NoSong
<1>3. \A m \in ShazamHears(clip) : ConfidentPolicy(m, Rules) = NoPolicy
  BY <1>2 DEF ConfidentPolicy
<1> QED
  BY <1>3 DEF Decisions, SmartDecisions, ClipsDecisions

\* The steps of the listener.
LEMMA QuietListenerStays ==
  ASSUME IInv, QuietListener, room.song \in Quiet, [Next]_vars
  PROVE  QuietListener'
<1>1. room \in [song : Quiet, at : {0}] /\ setup.script \in {"smart", "clips"} /\ ~setup.offline
  BY ListenerAssumption
  DEF IInv, ListenerInv, SetupInv, ClipsInv, Room, QuietListener
<1>2. CASE UNCHANGED <<setup, stage, clips, outgoing>>
  BY <1>2 DEF QuietListener
<1>3. CASE Tick
  <2>1. setup' = setup /\ stage' = stage
    BY <1>3 DEF Tick
  <2>2. clips' \in Seq([song : Quiet, at : {0}])
    <3>1. clips' \in {clips, <<room>>, Append(clips, room)}
      BY <1>3 DEF Tick, Recorded, RecordedByLoop, RecordedByStream, RecordedByMuxer,
                  IInv, ListenerInv, SetupInv
    <3> DEFINE Clip == [song : Quiet, at : {0}]
    <3>2. clips \in Seq(Clip) /\ room \in Clip
      BY <1>1 DEF QuietListener
    <3> HIDE DEF Clip
    <3>3. Append(clips, room) \in Seq(Clip)
      BY <3>2, AppendProperties
    <3>4. <<room>> \in Seq(Clip)
      BY <3>2
    <3>5. clips' \in Seq(Clip)
      BY <3>1, <3>2, <3>3, <3>4
    <3> QED
      BY <3>5 DEF Clip
  <2>3. outgoing' # Nothing => outgoing # Nothing /\ outgoing'.line = outgoing.line
    BY <1>3 DEF Tick, IInv, ListenerInv, OutgoingInv, OutgoingType
  <2> QED
    BY <2>1, <2>2, <2>3 DEF QuietListener
<1>4. CASE HearNothing \/ HearMusic \/ HearSpeech
  <2>1. /\ clips # <<>> /\ clips' = Tail(clips) /\ outgoing = Nothing
        /\ UNCHANGED <<setup, stage>>
    BY <1>4 DEF HearNothing, HearMusic, HearSpeech, CanHear
  <2>2. /\ Head(clips) \in [song : Quiet, at : {0}]
        /\ clips' \in Seq([song : Quiet, at : {0}])
    BY <2>1, HeadTailProperties DEF QuietListener
  <2>3. Decisions(Head(clips)) \subseteq {NoPolicy}
    BY <1>1, <2>2, QuietDecisions
  <2>4. ~HearMusic
    BY <2>3 DEF HearMusic
  <2>5. outgoing' # Nothing => outgoing'.line \in GestureLine
    <3>1. CASE HearNothing
      BY <2>1, <3>1 DEF HearNothing
    <3>2. CASE HearSpeech
      BY <3>2 DEF HearSpeech, Answers, Saying
    <3> QED
      BY <1>4, <2>4, <3>1, <3>2
  <2> QED
    BY <2>1, <2>2, <2>5 DEF QuietListener
<1>5. CASE Send \/ SendRefused \/ SendFails \/ UserStops
  <2>1. /\ outgoing' = Nothing \/ outgoing' = outgoing
        /\ clips' = clips \/ clips' = <<>>
        /\ stage' = stage \/ stage' = "closed"
        /\ setup' = setup
    BY <1>5 DEF Send, SendRefused, SendFails, UserStops, Close, SendEnds
  <2>2. <<>> \in Seq([song : Quiet, at : {0}])
    OBVIOUS
  <2> QED
    BY <2>1, <2>2 DEF QuietListener
<1>6. ~EndOfFile /\ ~SendFinal /\ ~Finish
  BY <1>1 DEF EndOfFile, SendFinal, Finish, QuietListener
<1>7. CASE TtsEnds \/ AcceptForSend \/ GestiSkips \/ GestiSays \/ GestiSends \/ GestiRefused
           \/ GestiSpoke \/ RobotLink \/ PipelineStep \/ PipelineResets \/ RobotStops \/ RobotStarts
  BY <1>2, <1>7 DEF TtsEnds, AcceptForSend, GestiSkips, GestiSays, GestiSends, GestiRefused, GestiSpoke,
       RobotLink, PipelineStep, PipelineResets, RobotStops, RobotStarts,
       listenerVars, othersVars
<1>8. CASE UNCHANGED vars
  BY <1>2, <1>8 DEF vars, listenerVars
<1> QED
  BY <1>3, <1>4, <1>5, <1>6, <1>7, <1>8 DEF Next

\* The links hold gestures as long as only gestures are sent.
LEMMA QuietSend ==
  ASSUME LinkInv, QuietLink, NEW s \in Sender, NEW line \in GestureLine, SendLine(s, line)
  PROVE  conns' \in Seq(QuietConnection)
<1>1. CASE sock[s] = "live" /\ conns' = [conns EXCEPT ![OpenConn(s)].data = Append(@, line)]
  <2> DEFINE k == OpenConn(s)
             c == [conns[k] EXCEPT !.data = Append(@, line)]
  <2>1. k \in 1 .. Len(conns)
    BY <1>1, OpenConnIs DEF OpenAt
  <2>2. conns[k] \in QuietConnection
    BY <2>1, ElementOfSeq DEF QuietLink
  <2>3. Append(conns[k].data, line) \in Gestures
    BY <2>2 DEF QuietConnection, Gestures
  <2>4. c \in QuietConnection
    BY <2>2, <2>3 DEF QuietConnection
  <2>5. conns' = [conns EXCEPT ![k] = c]
    BY <1>1
  <2> HIDE DEF k, c
  <2> QED
    BY <2>1, <2>4, <2>5, ExceptSeq DEF QuietLink
<1>2. CASE conns' = conns
  BY <1>2 DEF QuietLink
<1>3. CASE ConnectAndSend(s, line)
  <2>1. [from |-> s, data |-> <<line>>, eof |-> FALSE] \in QuietConnection
    BY DEF QuietConnection, Gestures
  <2> QED
    BY <1>3, <2>1, AppendProperties DEF ConnectAndSend, QuietLink
<1> QED
  BY <1>1, <1>2, <1>3 DEF SendLine, SendOn

LEMMA QuietEnqueue ==
  ASSUME QuietInbox, NEW line \in GestureLine, Enqueue(line)
  PROVE  QuietInbox'
<1>1. inbox \in Gestures /\ taken' = taken /\ inbox' = Enqueued(inbox, line)
  BY DEF Enqueue, QuietInbox
<1>2. Len(inbox) = QueueMaxlen => Tail(inbox) \in Gestures
  <2>1. Len(<<>>) = 0
    OBVIOUS
  <2> QED
    BY <1>1, <2>1, InboxAssumption, HeadTailProperties DEF Gestures
<1>3. Enqueued(inbox, line) \in Gestures
  BY <1>1, <1>2, AppendProperties DEF Enqueued, Gestures
<1> QED
  BY <1>1, <1>3 DEF QuietInbox

\* The robot's threads.
LEMMA QuietServes ==
  ASSUME LinkInv, QuietLink, QuietInbox, ServerStep, wire' = wire
  PROVE  QuietLink' /\ QuietInbox'
<1>1. CASE ConsumeLine
  <2> DEFINE c == [conns[1] EXCEPT !.data = Tail(@)]
  <2>1. conns # <<>> /\ Head(conns) = conns[1] /\ 1 \in 1 .. Len(conns)
    BY <1>1, HeadGoes DEF ConsumeLine, LinkInv
  <2>2. /\ conns[1] \in QuietConnection /\ conns[1].data \in Gestures
        /\ conns[1].data # <<>>
    <3>1. conns[1] \in QuietConnection
      BY <2>1, ElementOfSeq DEF QuietLink
    <3>2. conns[1].data \in Gestures
      BY <3>1 DEF QuietConnection
    <3>3. conns[1].data # <<>>
      BY <1>1, <2>1 DEF ConsumeLine
    <3> QED
      BY <3>1, <3>2, <3>3
  <2>3. Head(conns[1].data) \in GestureLine /\ Tail(conns[1].data) \in Gestures
    BY <2>2, HeadTailProperties DEF Gestures
  <2>4. c \in QuietConnection
    BY <2>2, <2>3 DEF QuietConnection
  <2>5. conns' = [conns EXCEPT ![1] = c] /\ Enqueue(Head(conns[1].data))
    BY <1>1, <2>1 DEF ConsumeLine
  <2> HIDE DEF c
  <2>6. conns' \in Seq(QuietConnection)
    BY <2>1, <2>4, <2>5, ExceptSeq DEF QuietLink
  <2> QED
    BY <2>3, <2>5, <2>6, QuietEnqueue DEF QuietLink
<1>2. CASE EndOfStream \/ CloseConn
  <2>1. conns # <<>> /\ conns' = Tail(conns) /\ UNCHANGED <<inbox, taken>>
    BY <1>2 DEF EndOfStream, CloseConn, inboxVars, LinkInv
  <2>2. conns' \in Seq(QuietConnection)
    BY <2>1, HeadTailProperties DEF QuietLink
  <2> QED
    BY <2>1, <2>2 DEF QuietLink, QuietInbox
<1>3. CASE Accept \/ RecvTimesOut
  BY <1>3 DEF Accept, RecvTimesOut, inboxVars, QuietLink, QuietInbox
<1> QED
  BY <1>1, <1>2, <1>3 DEF ServerStep

LEMMA QuietReads ==
  ASSUME QuietLink, QuietInbox, ClientStep, UNCHANGED serverVars
  PROVE  QuietLink' /\ QuietInbox'
<1>1. CASE RecvLine
  <2>1. Head(wire) \in GestureLine /\ Tail(wire) \in Gestures /\ wire # <<>>
    BY <1>1, HeadTailProperties DEF RecvLine, QuietLink, Gestures
  <2> QED
    BY <1>1, <2>1, QuietEnqueue DEF RecvLine, QuietLink, serverVars
<1>2. CASE Connect \/ FirstRecvTimesOut \/ RecvTimesOut_Client \/ ServerGone
  BY <1>2 DEF Connect, FirstRecvTimesOut, RecvTimesOut_Client, ServerGone, Silent,
              LeaveConnection, inboxVars, serverVars, QuietLink, QuietInbox
<1> QED
  BY <1>1, <1>2 DEF ClientStep

LEMMA QuietLinkStays ==
  ASSUME IInv, QuietInv, [Next]_vars
  PROVE  QuietLink' /\ QuietInbox'
<1>1. CASE UNCHANGED <<conns, wire, inbox, taken>>
  BY <1>1 DEF QuietInv, QuietLink, QuietInbox
<1>2. CASE Send
  <2>1. outgoing.line \in GestureLine /\ "music" \in Sender /\ UNCHANGED <<inbox, taken>>
    BY <1>2, ListenerAssumption
    DEF Send, SendAccepted, SendCommand, SendLine, inboxVars, QuietInv, QuietListener
  <2>2. CASE setup.tcp # "server" /\ setup.script = "clips"
    <3>1. /\ conns' = Append(conns, [from |-> "music", data |-> <<outgoing.line>>, eof |-> TRUE])
          /\ wire' = wire
      BY <1>2, <2>2 DEF Send, SendCommand, clientVars
    <3>2. [from |-> "music", data |-> <<outgoing.line>>, eof |-> TRUE] \in QuietConnection
      BY <2>1 DEF QuietConnection, Gestures
    <3>3. conns' \in Seq(QuietConnection)
      BY <3>1, <3>2, AppendProperties DEF QuietInv, QuietLink
    <3> QED
      BY <2>1, <3>1, <3>3 DEF QuietInv, QuietLink, QuietInbox
  <2>3. CASE setup.tcp # "server" /\ setup.script # "clips"
    <3>1. SendLine("music", outgoing.line) /\ wire' = wire
      BY <1>2, <2>3 DEF Send, clientVars
    <3>2. conns' \in Seq(QuietConnection)
      BY <2>1, <3>1, QuietSend DEF QuietInv, IInv
    <3> QED
      BY <2>1, <3>1, <3>2 DEF QuietInv, QuietLink, QuietInbox
  <2>4. CASE setup.tcp = "server"
    <3>1. conns' = conns /\ (wire' = wire \/ wire' = Append(wire, outgoing.line))
      BY <1>2, <2>4 DEF Send, SendAccepted, serverVars
    <3>2. wire' \in Gestures
      BY <2>1, <3>1, AppendProperties DEF QuietInv, QuietLink, Gestures
    <3> QED
      BY <2>1, <3>1, <3>2 DEF QuietInv, QuietLink, QuietInbox
  <2> QED
    BY <2>2, <2>3, <2>4
<1>3. CASE GestiSends
  <2>1. PICK line \in GestureLine : SendLine("gesti", line)
    BY <1>3 DEF GestiSends, IInv, ListenerInv, SetupInv
  <2>2. "gesti" \in Sender /\ UNCHANGED <<wire, inbox, taken>>
    BY <1>3, <2>1, ListenerAssumption DEF GestiSends, SendLine, inboxVars, clientVars
  <2>3. conns' \in Seq(QuietConnection)
    BY <2>1, <2>2, QuietSend DEF QuietInv, IInv
  <2> QED
    BY <2>2, <2>3 DEF QuietInv, QuietLink, QuietInbox
<1>4. CASE SendRefused \/ SendFails \/ GestiRefused
  BY <1>1, <1>4 DEF SendRefused, SendFails, GestiRefused, Refused, inboxVars, clientVars
<1>5. CASE Tick
  BY <1>1, <1>5 DEF Tick, ClientWaits, inboxVars, serverVars, clientVars
<1>6. CASE HearNothing \/ HearMusic \/ HearSpeech \/ TtsEnds \/ AcceptForSend \/ EndOfFile
           \/ SendFinal \/ GestiSkips \/ GestiSays \/ GestiSpoke
  BY <1>1, <1>6 DEF HearNothing, HearMusic, HearSpeech, TtsEnds, AcceptForSend, AcceptClient,
       EndOfFile, SendFinal, GestiSkips, GestiSays, GestiSpoke, inboxVars, serverVars, clientVars
<1>7. CASE Finish \/ UserStops
  <2>1. Close
    BY <1>7 DEF Finish, UserStops
  <2>2. CASE setup.tcp # "client" \/ sock["music"] # "live"
    BY <1>1, <2>1, <2>2
    DEF Close, CloseSender, CloseServer, inboxVars, serverVars, clientVars
  <2>3. CASE setup.tcp = "client" /\ sock["music"] = "live"
    <3> DEFINE k == OpenConn("music")
               c == [conns[k] EXCEPT !.eof = TRUE]
    <3>1. /\ conns' = [conns EXCEPT ![k] = c]
          /\ UNCHANGED <<wire, inbox, taken>>
      BY <2>1, <2>3 DEF Close, CloseSender, inboxVars, clientVars
    <3>2. k \in 1 .. Len(conns)
      BY <2>3, OpenConnIs, ListenerAssumption DEF OpenAt, IInv
    <3>3. conns[k] \in QuietConnection
      BY <3>2, ElementOfSeq DEF QuietInv, QuietLink
    <3>4. c \in QuietConnection
      BY <3>3 DEF QuietConnection
    <3> HIDE DEF k, c
    <3>5. conns' \in Seq(QuietConnection)
      BY <3>1, <3>2, <3>4, ExceptSeq DEF QuietInv, QuietLink
    <3> QED
      BY <3>1, <3>5 DEF QuietInv, QuietLink, QuietInbox
  <2> QED
    BY <2>2, <2>3
<1>8. CASE RobotLink
  <2>1. CASE setup.tcp = "client"
    BY <1>8, <2>1, QuietServes DEF RobotLink, clientVars, QuietInv, IInv
  <2>2. CASE setup.tcp # "client"
    BY <1>8, <2>2, QuietReads DEF RobotLink, QuietInv
  <2> QED
    BY <2>1, <2>2
<1>9. CASE PipelineStep \/ PipelineResets \/ RobotStarts
  <2>1. /\ ProcessTriggers \/ ClearInbox \/ InboxBack
        /\ UNCHANGED <<conns, wire>>
    BY <1>9 DEF PipelineStep, PipelineResets, RobotStarts, serverVars, clientVars
  <2>2. <<>> \in Gestures
    BY DEF Gestures
  <2> QED
    BY <2>1, <2>2 DEF ProcessTriggers, ClearInbox, InboxBack, QuietInv, QuietLink, QuietInbox
<1>10. CASE RobotStops
  <2>1. <<>> \in Gestures /\ <<>> \in Seq(QuietConnection)
    BY DEF Gestures
  <2> QED
    BY <1>10, <2>1 DEF RobotStops, InboxLost, ServerDrops, LeaveConnection, serverVars,
                       clientVars, QuietInv, QuietLink, QuietInbox
<1>11. CASE UNCHANGED vars
  BY <1>1, <1>11 DEF vars, inboxVars, serverVars, clientVars
<1> QED
  BY <1>2, <1>3, <1>4, <1>5, <1>6, <1>7, <1>8, <1>9, <1>10, <1>11 DEF Next

\* A gesture is not a switch.
LEMMA QuietTakesNothing == QuietInv => \A p \in PolicyId : ~Taken(p)
<1> SUFFICES ASSUME QuietInv, NEW p \in PolicyId, Taken(p) PROVE FALSE
  OBVIOUS
<1>1. PICK i \in DOMAIN taken : taken[i] = Switch(p)
  BY DEF Taken
<1>2. taken[i] \in GestureLine
  BY <1>1, ElementOfSeq DEF QuietInv, QuietInbox, Gestures
<1>3. Len(Switch(p)) = 2 /\ \A line \in GestureLine : Len(line) = 1
  BY DEF Switch, GestureLine
<1> QED
  BY <1>1, <1>2, <1>3

\* While the room is without music, no policy is asked of the robot by a listener
\* that looks at Shazam's votes, for every set of songs and rules and over either
\* link, whatever is said in the room (listen_smart_mic, listen_shazam_and_send).
THEOREM NoMusicNoSwitch == Spec => QuietRoomMovesNothing
<1>1. Init => IInv
  BY StartSimulates
<1>2. IInv /\ [Next]_vars => IInv'
  BY StepSimulates
<1>3. Init /\ setup.script # "timed" => QuietInv
  <2>1. /\ <<>> \in Seq([song : Quiet, at : {0}])
        /\ <<>> \in Seq(QuietConnection) /\ <<>> \in Gestures
    BY DEF Gestures
  <2> QED
    BY <2>1 DEF Init, ListenerInit, ServerInit, ClientInit, InboxInit, QuietInv,
                QuietListener, QuietLink, QuietInbox
<1>4. IInv /\ QuietInv /\ room.song \in Quiet /\ [Next]_vars => QuietInv'
  BY QuietListenerStays, QuietLinkStays DEF QuietInv
<1>5. QuietInv => \A p \in PolicyId : ~Taken(p)
  BY QuietTakesNothing
<1> QED
  BY <1>1, <1>2, <1>3, <1>4, <1>5, PTL DEF Spec, QuietRoomMovesNothing
=============================================================================
