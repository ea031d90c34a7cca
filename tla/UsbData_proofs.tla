--------------------------- MODULE UsbData_proofs ---------------------------
(***************************************************************************)
(* What USB devices send, for whatever they send: the walk over the         *)
(* configuration descriptor, what the keyboard driver prints and what the   *)
(* mouse driver adds up, for any set of descriptors, keys and buttons and   *)
(* any report size.  The three share no variable and have a theorem each.   *)
(***************************************************************************)
EXTENDS ConfigDescriptor, HidReports, FiniteSetTheorems, NaturalsInduction, SequenceTheorems, TLAPS

-----------------------------------------------------------------------------
(* A sequence of sequences, flattened.                                      *)

(* The least of a set of numbers. *)
LEMMA Least ==
    ASSUME NEW N \in SUBSET Nat, N # {}
    PROVE  \E q \in N : \A n \in N : q <= n
<1> DEFINE R == {p \in Nat \X Nat : p[1] < p[2]}
<1>1. IsWellFoundedOn(R, Nat)
  BY NatLessThanWellFounded DEF OpToRel
<1>2. PICK q \in N : \A n \in N : ~ (<<n, q>> \in R)
  BY <1>1, WFMin
<1>3. \A n \in N : ~ (n < q)
  BY <1>2
<1> QED BY <1>3

(* A place that is not the last has one after it. *)
LEMMA OneMore ==
    ASSUME NEW x \in Nat, NEW k \in 0 .. x, k # x, NEW n, n = k + 1
    PROVE  n \in 1 .. x /\ n - 1 = k /\ k \in Nat
OBVIOUS

(* g holds the first n elements of s flattened, one more at each place: the  *)
(* recursion of FlattenSeq.                                                  *)
IsFlat(s, n, g) == g = [j \in 1 .. n |-> IF j = 1 THEN s[j] ELSE g[j - 1] \o s[j]]

(* The recursion has a solution. *)
LEMMA FlatExists ==
    ASSUME NEW s, NEW n \in Nat \ {0}
    PROVE  \E g : IsFlat(s, n, g)
<1> DEFINE Without == {m \in Nat \ {0} : ~ \E g : IsFlat(s, m, g)}
<1> SUFFICES ASSUME Without # {} PROVE FALSE
  OBVIOUS
<1>1. PICK m \in Without : \A k \in Without : m <= k
  <2>1. Without \in SUBSET Nat
    OBVIOUS
  <2> HIDE DEF Without
  <2> QED BY <2>1, Least
<1>2. CASE m = 1
  <2>1. IsFlat(s, 1, [j \in 1 .. 1 |-> s[1]])
    BY DEF IsFlat
  <2> QED BY <1>1, <1>2, <2>1
<1>3. CASE m # 1
  <2>1. m - 1 \in Nat \ {0} /\ m - 1 < m
    BY <1>1, <1>3
  <2>2. PICK g : IsFlat(s, m - 1, g)
    BY <1>1, <2>1
  <2>3. PICK h : h = [j \in 1 .. m |-> IF j = m THEN g[m - 1] \o s[m] ELSE g[j]]
    OBVIOUS
  <2>4. ASSUME NEW j \in 1 .. m PROVE h[j] = IF j = 1 THEN s[j] ELSE h[j - 1] \o s[j]
    <3>1. CASE j = m
      <4>1. m - 1 \in 1 .. m /\ m - 1 # m
        BY <2>1
      <4>2. PICK p : p = m - 1 /\ p \in 1 .. m /\ p # m
        BY <4>1
      <4>3. h[p] = g[p] /\ h[m] = g[p] \o s[m]
        <5>1. m \in 1 .. m
          BY <2>1
        <5> QED BY <2>3, <4>2, <5>1
      <4> QED BY <1>3, <3>1, <4>2, <4>3
    <3>2. CASE j # m
      <4>1. j \in 1 .. m - 1
        BY <2>1, <3>2
      <4>2. g[j] = IF j = 1 THEN s[j] ELSE g[j - 1] \o s[j]
        BY <2>2, <4>1 DEF IsFlat
      <4>3. j # 1 => j - 1 \in 1 .. m /\ j - 1 # m
        BY <2>1
      <4> QED BY <2>3, <3>2, <4>2, <4>3
    <3> QED BY <3>1, <3>2
  <2>5. IsFlat(s, m, h)
    BY <2>3, <2>4 DEF IsFlat
  <2> QED BY <1>1, <2>5
<1> QED BY <1>2, <1>3

(* Sequences that begin alike are flattened alike as far as they do. *)
LEMMA FlatSame ==
    ASSUME NEW s, NEW t, NEW n \in Nat, NEW k \in 1 .. n, NEW g, NEW h,
           IsFlat(s, n, g), IsFlat(t, k, h), \A j \in 1 .. k : t[j] = s[j]
    PROVE  h[k] = g[k]
<1> DEFINE Wrong == {j \in 1 .. k : h[j] # g[j]}
<1>1. Wrong = {}
  <2> SUFFICES ASSUME Wrong # {} PROVE FALSE
    OBVIOUS
  <2>1. PICK q \in Wrong : \A j \in Wrong : q <= j
    <3>1. Wrong \in SUBSET Nat
      OBVIOUS
    <3> HIDE DEF Wrong
    <3> QED BY <3>1, Least
  <2>2. h[q] = IF q = 1 THEN s[q] ELSE h[q - 1] \o s[q]
    <3>1. q \in 1 .. k
      BY <2>1
    <3>2. h[q] = (IF q = 1 THEN t[q] ELSE h[q - 1] \o t[q]) /\ t[q] = s[q]
      BY <3>1, Zenon DEF IsFlat
    <3> QED BY <3>2, Zenon
  <2>3. g[q] = IF q = 1 THEN s[q] ELSE g[q - 1] \o s[q]
    <3>1. q \in 1 .. n
      OBVIOUS
    <3> QED BY <3>1 DEF IsFlat
  <2>4. CASE q = 1
    BY <2>1, <2>2, <2>3, <2>4
  <2>5. CASE q # 1
    <3>1. q - 1 \in 1 .. k /\ q - 1 < q
      BY <2>1, <2>5
    <3>2. h[q - 1] = g[q - 1]
      BY <2>1, <3>1
    <3> QED BY <2>1, <2>2, <2>3, <2>5, <3>2
  <2> QED BY <2>4, <2>5
<1>2. k \in 1 .. k
  OBVIOUS
<1> QED BY <1>1, <1>2

(* FlattenSeq is the last element of the recursion. *)
LEMMA FlatIs ==
    ASSUME NEW s, Len(s) \in Nat \ {0}
    PROVE  \E g : IsFlat(s, Len(s), g) /\ FlattenSeq(s) = g[Len(s)]
<1> DEFINE P(h) == h = [j \in 1 .. Len(s) |-> IF j = 1 THEN s[j] ELSE h[j - 1] \o s[j]]
<1>1. PICK g : P(g)
  BY FlatExists DEF IsFlat
<1>2. PICK f : f = CHOOSE h : P(h)
  OBVIOUS
<1>3. P(f)
  <2> HIDE DEF P
  <2> QED BY <1>1, <1>2, Zenon
<1>4. FlattenSeq(s) = f[Len(s)]
  BY <1>2, Zenon DEF FlattenSeq
<1> QED BY <1>3, <1>4 DEF IsFlat

(* The first k sequences of s, flattened. *)
Flat(s, k) == FlattenSeq(SubSeq(s, 1, k))

(* Flattening goes on from one sequence to the next. *)
LEMMA FlatNext ==
    ASSUME NEW S, NEW s \in Seq(Seq(S))
    PROVE  /\ Flat(s, 0) = << >> /\ Flat(s, Len(s)) = FlattenSeq(s)
           /\ \A k \in 1 .. Len(s) : Flat(s, k) = Flat(s, k - 1) \o s[k]
<1>0. Len(s) \in Nat /\ \A k \in 1 .. Len(s) : s[k] \in Seq(S)
  BY LenProperties, ElementOfSeq
<1>1. Flat(s, 0) = << >>
  <2>1. SubSeq(s, 1, 0) = << >>
    BY SubSeqEmpty
  <2> QED BY <2>1 DEF Flat, FlattenSeq
<1>2. Flat(s, Len(s)) = FlattenSeq(s)
  BY SubSeqFull DEF Flat
<1>3. \A k \in 1 .. Len(s) : /\ Len(SubSeq(s, 1, k)) = k
                             /\ \A j \in 1 .. k : SubSeq(s, 1, k)[j] = s[j]
  <2> SUFFICES ASSUME NEW k \in 1 .. Len(s)
               PROVE  Len(SubSeq(s, 1, k)) = k /\ \A j \in 1 .. k : SubSeq(s, 1, k)[j] = s[j]
    OBVIOUS
  <2>1. \A j \in 1 .. k : s[j] \in Seq(S)
    BY <1>0
  <2>2. k \in Int /\ 1 \in Int
    OBVIOUS
  <2>3. /\ Len(SubSeq(s, 1, k)) = (IF 1 <= k THEN k - 1 + 1 ELSE 0)
        /\ \A j \in 1 .. k - 1 + 1 : SubSeq(s, 1, k)[j] = s[1 + j - 1]
    BY <2>1, <2>2, SubSeqProperties
  <2>4. k - 1 + 1 = k /\ 1 <= k /\ \A j \in 1 .. k : 1 + j - 1 = j
    OBVIOUS
  <2> QED BY <2>3, <2>4
<1>4. PICK g : IsFlat(s, Len(s), g) \/ Len(s) = 0
  BY <1>0, FlatExists
<1>5. \A k \in 1 .. Len(s) : Flat(s, k) = g[k]
  <2> SUFFICES ASSUME NEW k \in 1 .. Len(s) PROVE Flat(s, k) = g[k]
    OBVIOUS
  <2>1. PICK t : t = SubSeq(s, 1, k)
    OBVIOUS
  <2>2. Len(t) = k /\ \A j \in 1 .. k : t[j] = s[j]
    BY <1>3, <2>1
  <2>3. PICK h : IsFlat(t, k, h) /\ FlattenSeq(t) = h[k]
    <3>1. Len(t) \in Nat \ {0}
      BY <2>2
    <3>2. \E h : IsFlat(t, Len(t), h) /\ FlattenSeq(t) = h[Len(t)]
      BY <3>1, FlatIs
    <3> QED BY <2>2, <3>2
  <2>4. IsFlat(s, Len(s), g)
    BY <1>0, <1>4
  <2>5. h[k] = g[k]
    BY <1>0, <2>2, <2>3, <2>4, FlatSame
  <2> QED BY <2>1, <2>3, <2>5 DEF Flat
<1>6. ASSUME NEW k \in 1 .. Len(s) PROVE Flat(s, k) = Flat(s, k - 1) \o s[k]
  <2>1. g[k] = IF k = 1 THEN s[k] ELSE g[k - 1] \o s[k]
    <3>1. IsFlat(s, Len(s), g)
      BY <1>0, <1>4, <1>6
    <3> QED BY <3>1 DEF IsFlat
  <2>2. CASE k = 1
    BY <1>0, <1>1, <1>5, <2>1, <2>2, ConcatEmptySeq
  <2>3. CASE k # 1
    <3>1. k - 1 \in 1 .. Len(s)
      BY <1>0, <2>3
    <3> QED BY <1>5, <2>1, <2>3, <3>1
  <2> QED BY <2>2, <2>3
<1> QED BY <1>1, <1>2, <1>6

(* Where the elements of s are in the flattened sequence. *)
LEMMA FlatPlaces ==
    ASSUME NEW S, NEW s \in Seq(Seq(S)), NEW n \in 0 .. Len(s)
    PROVE  /\ Flat(s, n) \in Seq(S)
           /\ \A k \in 1 .. n : /\ Len(Flat(s, k)) = Len(Flat(s, k - 1)) + Len(s[k])
                                /\ Len(Flat(s, k - 1)) \in Nat
                                /\ Len(Flat(s, k)) <= Len(Flat(s, n))
                                /\ \A j \in 1 .. Len(s[k]) :
                                      Flat(s, n)[Len(Flat(s, k - 1)) + j] = s[k][j]
<1> DEFINE Good(m) ==
             /\ Flat(s, m) \in Seq(S)
             /\ \A k \in 1 .. m : /\ Len(Flat(s, k)) = Len(Flat(s, k - 1)) + Len(s[k])
                                  /\ Len(Flat(s, k - 1)) \in Nat
                                  /\ Len(Flat(s, k)) <= Len(Flat(s, m))
                                  /\ \A j \in 1 .. Len(s[k]) :
                                        Flat(s, m)[Len(Flat(s, k - 1)) + j] = s[k][j]
           Bad == {m \in 0 .. Len(s) : ~ Good(m)}
<1>0. Len(s) \in Nat /\ \A k \in 1 .. Len(s) : s[k] \in Seq(S)
  BY LenProperties, ElementOfSeq
<1> SUFFICES ASSUME Bad # {} PROVE FALSE
  OBVIOUS
<1>1. PICK m \in Bad : \A k \in Bad : m <= k
  <2>1. Bad \in SUBSET Nat
    <3> HIDE DEF Good
    <3>1. Bad \subseteq 0 .. Len(s)
      OBVIOUS
    <3> QED BY <1>0, <3>1
  <2> HIDE DEF Bad
  <2> QED BY <2>1, Least
<1>2. m \in 0 .. Len(s) /\ ~ Good(m)
  OBVIOUS
<1>3. CASE m = 0
  <2>1. Flat(s, 0) \in Seq(S)
    <3>1. Flat(s, 0) = << >>
      BY FlatNext
    <3> QED BY <3>1, EmptySeq
  <2>2. \A k \in 1 .. 0 : FALSE
    OBVIOUS
  <2> QED BY <1>2, <1>3, <2>1, <2>2
<1>4. CASE m # 0
  <2>1. m - 1 \in 0 .. Len(s) /\ m \in 1 .. Len(s) /\ m - 1 < m /\ ~ (m <= m - 1)
    BY <1>0, <1>2, <1>4
  <2>2. Good(m - 1)
    BY <1>1, <2>1
  <2> HIDE DEF Bad
  <2>3. PICK a, b, c : a = Flat(s, m - 1) /\ b = s[m] /\ c = Flat(s, m)
    OBVIOUS
  <2>4. a \in Seq(S) /\ b \in Seq(S) /\ c = a \o b
    BY <1>0, <2>1, <2>2, <2>3, FlatNext
  <2>5. /\ c \in Seq(S) /\ Len(c) = Len(a) + Len(b) /\ Len(a) \in Nat /\ Len(b) \in Nat
        /\ \A j \in 1 .. Len(a) + Len(b) : c[j] = IF j <= Len(a) THEN a[j] ELSE b[j - Len(a)]
    BY <2>4, ConcatProperties, LenProperties
  <2>6. ASSUME NEW k \in 1 .. m
        PROVE  /\ Len(Flat(s, k)) = Len(Flat(s, k - 1)) + Len(s[k])
               /\ Len(Flat(s, k - 1)) \in Nat
               /\ Len(Flat(s, k)) <= Len(c)
               /\ \A j \in 1 .. Len(s[k]) : c[Len(Flat(s, k - 1)) + j] = s[k][j]
    <3>1. CASE k = m
      <4>1. ASSUME NEW j \in 1 .. Len(b) PROVE c[Len(a) + j] = b[j]
        <5>1. /\ Len(a) + j \in 1 .. Len(a) + Len(b) /\ ~ (Len(a) + j <= Len(a))
              /\ Len(a) + j - Len(a) = j
          BY <2>5
        <5> QED BY <2>5, <5>1
      <4>2. Len(c) <= Len(c) /\ s[k] = b /\ Flat(s, k) = c /\ Flat(s, k - 1) = a
        BY <2>3, <2>5, <3>1
      <4> QED BY <2>5, <4>1, <4>2
    <3>2. CASE k # m
      <4>1. k \in 1 .. m - 1 /\ k \in 1 .. Len(s)
        BY <2>1, <3>2
      <4>2. PICK p, q, d : p = Len(Flat(s, k - 1)) /\ q = Len(Flat(s, k)) /\ d = s[k]
        OBVIOUS
      <4>3. /\ q = p + Len(d) /\ p \in Nat /\ q <= Len(a)
            /\ \A j \in 1 .. Len(d) : a[p + j] = d[j]
        BY <2>2, <2>3, <4>1, <4>2
      <4>4. Len(d) \in Nat
        BY <1>0, <4>1, <4>2, LenProperties
      <4>5. ASSUME NEW j \in 1 .. Len(d) PROVE c[p + j] = d[j]
        <5>1. p + j \in 1 .. Len(a) + Len(b) /\ p + j <= Len(a)
          BY <2>5, <4>3, <4>4
        <5> QED BY <2>5, <4>3, <5>1
      <4>6. q <= Len(c)
        <5>1. PICK x, y, z, e : x = Len(a) /\ y = Len(b) /\ z = Len(c) /\ e = Len(d)
          OBVIOUS
        <5>2. x \in Nat /\ y \in Nat /\ e \in Nat /\ z = x + y
          BY <2>5, <4>4, <5>1
        <5>3. q = p + e /\ p \in Nat /\ q <= x
          BY <4>3, <5>1
        <5> QED BY <5>1, <5>2, <5>3
      <4>7. \A j \in 1 .. Len(s[k]) : c[Len(Flat(s, k - 1)) + j] = s[k][j]
        BY <4>2, <4>5
      <4>8. Len(Flat(s, k)) = Len(Flat(s, k - 1)) + Len(s[k]) /\ Len(Flat(s, k - 1)) \in Nat
        BY <4>2, <4>3
      <4>9. Len(Flat(s, k)) <= Len(c)
        BY <4>2, <4>6
      <4> QED BY <4>7, <4>8, <4>9
    <3> QED BY <3>1, <3>2
  <2>7. Good(m)
    BY <2>3, <2>5, <2>6
  <2> QED BY <1>2, <2>7
<1> QED BY <1>3, <1>4

-----------------------------------------------------------------------------
(* The walk over the configuration descriptor.                              *)

Triple == Byte \X Byte \X Byte

WalkTypes ==
    /\ sent \in Seq(Seq(Byte)) /\ buf \in Seq(Byte) /\ i \in Nat
    /\ iface \in Triple /\ found \in Seq(Byte \X Triple)
    /\ walk \in {"walking", "done", "panic"}

(* The buffer holds the beginning of what the device sent. *)
BufferIs ==
    /\ Len(buf) <= Len(FlattenSeq(sent))
    /\ \A n \in 1 .. Len(buf) : buf[n] = FlattenSeq(sent)[n]

AllWellformed == \A k \in DOMAIN sent : Wellformed(sent[k])

(* The interrupt IN endpoints among the first k descriptors. *)
Endpoints(k) ==
    {j \in 1 .. k : sent[j][2] = ENDPOINT /\ IsIn(sent[j][3]) /\ IsInterrupt(sent[j][4])}

(* The walk is at the boundary behind descriptor k, with the interface of    *)
(* the next one and the endpoints of all before.                             *)
WalkedTo(k) ==
    /\ k \in 0 .. Len(sent) /\ i = Len(Flat(sent, k)) /\ i <= Len(buf)
    /\ iface = InterfaceOf(k + 1)
    /\ Len(found) = Cardinality(Endpoints(k))
    /\ \A j \in Endpoints(k) :
          found[Cardinality(Endpoints(j))] = <<sent[j][3], InterfaceOf(j)>>

WalkInv ==
    /\ WalkTypes /\ BufferIs
    /\ walk = "panic" => ShortAtTheEnd
    /\ AllWellformed =>
          /\ walk # "panic" /\ \E k : WalkedTo(k)
          /\ walk = "done" => ~ Complete

(* The endpoints seen are finitely many, and each has its place among them. *)
LEMMA EndpointsCount ==
    ASSUME NEW k \in Nat
    PROVE  /\ IsFiniteSet(Endpoints(k)) /\ Cardinality(Endpoints(k)) \in Nat
           /\ \A j \in Endpoints(k) :
                 Cardinality(Endpoints(j)) \in 1 .. Cardinality(Endpoints(k))
<1>1. \A j \in Nat : IsFiniteSet(Endpoints(j)) /\ Cardinality(Endpoints(j)) \in Nat
  <2> SUFFICES ASSUME NEW j \in Nat
               PROVE  IsFiniteSet(Endpoints(j)) /\ Cardinality(Endpoints(j)) \in Nat
    OBVIOUS
  <2>1. IsFiniteSet(1 .. j)
    BY FS_Interval
  <2>2. Endpoints(j) \subseteq 1 .. j
    BY DEF Endpoints
  <2> QED BY <2>1, <2>2, FS_Subset, FS_CardinalityType
<1>2. ASSUME NEW j \in Endpoints(k)
      PROVE  Cardinality(Endpoints(j)) \in 1 .. Cardinality(Endpoints(k))
  <2>1. j \in 1 .. k /\ j \in Endpoints(j)
    BY DEF Endpoints
  <2>2. Endpoints(j) \subseteq Endpoints(k)
    BY <2>1 DEF Endpoints
  <2>3. PICK A, B : A = Endpoints(j) /\ B = Endpoints(k)
    OBVIOUS
  <2>4. IsFiniteSet(A) /\ IsFiniteSet(B) /\ A \subseteq B /\ j \in A
    BY <1>1, <2>1, <2>2, <2>3
  <2>5. Cardinality(A) <= Cardinality(B)
    BY <2>4, FS_Subset
  <2>6. Cardinality(A) \in Nat /\ Cardinality(B) \in Nat /\ Cardinality(A) # 0
    BY <2>4, FS_CardinalityType, FS_EmptySet
  <2> QED BY <2>3, <2>5, <2>6
<1> QED BY <1>1, <1>2

(* The endpoints seen after one more descriptor. *)
LEMMA EndpointsNext ==
    ASSUME NEW k \in Nat
    PROVE  LET d == sent[k + 1] IN
           IF d[2] = ENDPOINT /\ IsIn(d[3]) /\ IsInterrupt(d[4])
             THEN /\ Endpoints(k + 1) = Endpoints(k) \cup {k + 1}
                  /\ Cardinality(Endpoints(k + 1)) = Cardinality(Endpoints(k)) + 1
             ELSE Endpoints(k + 1) = Endpoints(k)
<1>1. \A j : j \in 1 .. k + 1 <=> j \in 1 .. k \/ j = k + 1
  OBVIOUS
<1>2. IsFiniteSet(Endpoints(k)) /\ k + 1 \notin Endpoints(k)
  <2>1. k + 1 \notin 1 .. k
    OBVIOUS
  <2> QED BY <2>1, EndpointsCount DEF Endpoints
<1>3. Cardinality(Endpoints(k) \cup {k + 1}) = Cardinality(Endpoints(k)) + 1
  BY <1>2, FS_AddElement
<1> QED BY <1>1, <1>3 DEF Endpoints

(* The interface that the descriptor after the next belongs to. *)
LEMMA InterfaceNext ==
    ASSUME NEW k \in Nat
    PROVE  InterfaceOf(k + 2) = IF sent[k + 1][2] = INTERFACE
                                  THEN <<sent[k + 1][3], sent[k + 1][6], sent[k + 1][8]>>
                                  ELSE InterfaceOf(k + 1)
<1> DEFINE Before(n) == {j \in 1 .. n - 1 : sent[j][2] = INTERFACE}
           LastOf(B) == CHOOSE j \in B : \A n \in B : n <= j
           Of(B) == IF B = {} THEN NoInterface
                    ELSE <<sent[LastOf(B)][3], sent[LastOf(B)][6], sent[LastOf(B)][8]>>
<1>1. \A n : InterfaceOf(n) = Of(Before(n))
  BY DEF InterfaceOf
<1>2. \A j : j \in 1 .. k + 2 - 1 <=> j \in 1 .. k + 1 - 1 \/ j = k + 1
  OBVIOUS
<1>3. CASE sent[k + 1][2] # INTERFACE
  <2>1. Before(k + 2) = Before(k + 1)
    BY <1>2, <1>3
  <2> HIDE DEF Before, Of
  <2> QED BY <1>1, <1>3, <2>1
<1>4. CASE sent[k + 1][2] = INTERFACE
  <2>1. PICK B : B = Before(k + 2)
    OBVIOUS
  <2>2. k + 1 \in B /\ \A n \in B : n \in Int /\ n <= k + 1
    BY <1>2, <1>4, <2>1
  <2>3. LastOf(B) = k + 1
    <3>1. \A j \in B : (\A n \in B : n <= j) => j = k + 1
      BY <2>2
    <3> QED BY <2>2, <3>1
  <2>4. B # {}
    BY <2>2
  <2> HIDE DEF Before, LastOf
  <2> QED BY <1>1, <1>4, <2>1, <2>3, <2>4
<1> QED BY <1>3, <1>4

(* At a boundary with two bytes or more to go there is another descriptor,   *)
(* and what the walk reads at an offset from i are its bytes.                *)
LEMMA NextDescriptor ==
    ASSUME WalkTypes, BufferIs, AllWellformed, NEW k, WalkedTo(k), i + 2 <= Len(buf)
    PROVE  /\ k \in Nat /\ k + 1 \in 1 .. Len(sent)
           /\ Wellformed(sent[k + 1]) /\ Len(sent[k + 1]) \in Nat
           /\ b_length = Len(sent[k + 1]) /\ b_type = sent[k + 1][2]
           /\ Len(Flat(sent, k + 1)) = i + Len(sent[k + 1])
           /\ \A j \in 0 .. Len(sent[k + 1]) - 1 :
                 i + j < Len(buf) => At(i + j) = sent[k + 1][j + 1]
<1>1. /\ Len(sent) \in Nat /\ DOMAIN sent = 1 .. Len(sent) /\ Len(buf) \in Nat /\ i \in Nat
      /\ sent \in Seq(Seq(Byte))
  BY LenProperties DEF WalkTypes
<1>2. k \in 0 .. Len(sent) /\ i = Len(Flat(sent, k))
  BY DEF WalkedTo
<1>3. PICK all : all = FlattenSeq(sent) /\ all = Flat(sent, Len(sent))
  BY <1>1, FlatNext
<1>4. all \in Seq(Byte) /\ Len(all) \in Nat /\ Len(buf) <= Len(all)
      /\ \A n \in 1 .. Len(buf) : buf[n] = all[n]
  <2>1. Len(sent) \in 0 .. Len(sent)
    BY <1>1
  <2>2. all \in Seq(Byte)
    BY <1>1, <1>3, <2>1, FlatPlaces
  <2> QED BY <1>3, <2>2, LenProperties DEF BufferIs
<1>5. k # Len(sent)
  <2> SUFFICES ASSUME k = Len(sent) PROVE FALSE
    OBVIOUS
  <2>1. i = Len(all)
    BY <1>2, <1>3
  <2>2. PICK x, y : x = Len(all) /\ y = Len(buf)
    OBVIOUS
  <2>3. x \in Nat /\ y \in Nat /\ y <= x /\ i = x /\ i + 2 <= y
    BY <1>1, <1>4, <2>1, <2>2
  <2> QED BY <2>3
<1> PICK n : n = k + 1
  OBVIOUS
<1>6. n = k + 1 /\ n \in 1 .. Len(sent) /\ n - 1 = k /\ k \in Nat
  <2>1. n = k + 1
    OBVIOUS
  <2> QED BY <1>1, <1>2, <1>5, <2>1, OneMore, Zenon
<1>7. PICK d : d = sent[n]
  OBVIOUS
<1>8. Wellformed(d) /\ d \in Seq(Byte) /\ Len(d) \in Nat
  BY <1>1, <1>6, <1>7, ElementOfSeq, LenProperties DEF AllWellformed
<1>9. /\ Len(Flat(sent, n)) = i + Len(d)
      /\ \A j \in 1 .. Len(d) : all[i + j] = d[j]
  <2>1. Len(sent) \in 0 .. Len(sent)
    BY <1>1
  <2>2. \A q \in 1 .. Len(sent) :
           /\ Len(Flat(sent, q)) = Len(Flat(sent, q - 1)) + Len(sent[q])
           /\ \A j \in 1 .. Len(sent[q]) :
                 Flat(sent, Len(sent))[Len(Flat(sent, q - 1)) + j] = sent[q][j]
    BY <1>1, <2>1, FlatPlaces, Zenon
  <2>3. /\ Len(Flat(sent, n)) = Len(Flat(sent, n - 1)) + Len(sent[n])
        /\ \A j \in 1 .. Len(sent[n]) : Flat(sent, Len(sent))[Len(Flat(sent, n - 1)) + j] = sent[n][j]
    BY <1>6, <2>2, Zenon
  <2> QED BY <1>2, <1>3, <1>6, <1>7, <2>3
<1>10. ASSUME NEW j \in 0 .. Len(d) - 1, i + j < Len(buf)
       PROVE  At(i + j) = d[j + 1]
  <2>1. j + 1 \in 1 .. Len(d) /\ i + j + 1 \in 1 .. Len(buf) /\ i + j + 1 = i + (j + 1)
    BY <1>1, <1>8, <1>10
  <2>2. buf[i + j + 1] = all[i + (j + 1)] /\ all[i + (j + 1)] = d[j + 1]
    BY <1>4, <1>9, <2>1
  <2> QED BY <2>2 DEF At
<1>11. Len(d) >= 2 /\ d[1] = Len(d)
  BY <1>8, Zenon DEF Wellformed
<1>12. b_length = Len(d) /\ b_type = d[2]
  <2>1. At(i + 0) = d[0 + 1] /\ At(i + 1) = d[1 + 1]
    <3>1. 0 \in 0 .. Len(d) - 1 /\ 1 \in 0 .. Len(d) - 1 /\ i + 0 < Len(buf) /\ i + 1 < Len(buf)
      BY <1>1, <1>8, <1>11
    <3> QED BY <1>10, <3>1
  <2>2. i + 0 = i /\ 0 + 1 = 1 /\ 1 + 1 = 2
    BY <1>1
  <2> QED BY <1>11, <2>1, <2>2 DEF b_length, b_type
<1> QED
  <2>1. k + 1 = n
    BY <1>6
  <2> QED BY <1>6, <1>7, <1>8, <1>9, <1>10, <1>12, <2>1

(* Where the walk stops, the descriptors that arrived whole are those behind *)
(* it: what it found is what was to be found.                                *)
LEMMA WholeWalk ==
    ASSUME WalkTypes, BufferIs, AllWellformed, NEW k, WalkedTo(k), ~ Complete
    PROVE  WholeWalkFound
<1>1. /\ Len(sent) \in Nat /\ DOMAIN sent = 1 .. Len(sent) /\ Len(buf) \in Nat /\ i \in Nat
      /\ sent \in Seq(Seq(Byte))
  BY LenProperties DEF WalkTypes
<1>2. k \in 0 .. Len(sent) /\ i = Len(Flat(sent, k)) /\ i <= Len(buf) /\ k \in Nat
  BY <1>1 DEF WalkedTo
<1>3. ASSUME NEW j \in 1 .. k
      PROVE  j \in 1 .. Len(sent) /\ LengthTo(j) <= Len(buf)
  <2>1. Len(Flat(sent, j)) <= i /\ Len(Flat(sent, j - 1)) \in Nat
        /\ Len(Flat(sent, j)) = Len(Flat(sent, j - 1)) + Len(sent[j])
    BY <1>1, <1>2, FlatPlaces
  <2>2. j \in 1 .. Len(sent)
    BY <1>1, <1>2
  <2>3. Len(sent[j]) \in Nat
    BY <1>1, <2>2, ElementOfSeq, LenProperties
  <2>4. PICK a, b, c : a = Len(Flat(sent, j)) /\ b = Len(Flat(sent, j - 1)) /\ c = Len(sent[j])
    OBVIOUS
  <2>5. a <= i /\ a \in Nat
    <3>1. a <= i
      BY <2>1, <2>4
    <3>2. a = b + c /\ b \in Nat /\ c \in Nat
      BY <2>1, <2>3, <2>4
    <3> QED BY <3>1, <3>2
  <2>6. a <= Len(buf)
    BY <1>1, <1>2, <2>5
  <2> QED BY <2>2, <2>4, <2>6 DEF LengthTo, Flat
<1>4. ASSUME NEW j \in 1 .. Len(sent), j \notin 1 .. k, LengthTo(j) <= Len(buf)
      PROVE  FALSE
  <2>1. k + 1 \in 1 .. j /\ k + 1 \in 1 .. Len(sent) /\ j \in 0 .. Len(sent) /\ k + 1 - 1 = k
    BY <1>1, <1>2, <1>4
  <2>2. PICK d : d = sent[k + 1]
    OBVIOUS
  <2>3. /\ Len(Flat(sent, k + 1)) = i + Len(d)
        /\ Len(Flat(sent, k + 1)) <= Len(Flat(sent, j))
    <3>1. PICK n : n = k + 1 /\ n \in 1 .. j /\ n - 1 = k
      BY <1>2, <2>1
    <3>2. /\ Len(Flat(sent, n)) = Len(Flat(sent, n - 1)) + Len(sent[n])
          /\ Len(Flat(sent, n)) <= Len(Flat(sent, j))
      BY <1>1, <2>1, <3>1, FlatPlaces
    <3> QED BY <1>2, <2>2, <3>1, <3>2
  <2>4. Len(d) \in Nat /\ Len(d) >= 2
    <3>1. d \in Seq(Byte) /\ Wellformed(d)
      BY <1>1, <2>1, <2>2, ElementOfSeq DEF AllWellformed
    <3> QED BY <3>1, LenProperties DEF Wellformed
  <2>5. Flat(sent, j) \in Seq(Byte)
    BY <1>1, <2>1, FlatPlaces
  <2>6. Len(Flat(sent, j)) \in Nat /\ Len(Flat(sent, j)) <= Len(buf)
    BY <1>4, <2>5, LenProperties DEF LengthTo, Flat
  <2>7. PICK a, b, c : a = Len(Flat(sent, j)) /\ b = Len(buf) /\ c = Len(d)
    OBVIOUS
  <2>8. a \in Nat /\ b \in Nat /\ c \in Nat /\ i \in Nat /\ i + c <= a /\ a <= b /\ c >= 2
    BY <1>1, <2>3, <2>4, <2>6, <2>7
  <2>9. i + 2 <= b /\ i + c <= b /\ c # 0
    BY <2>8
  <2>10. b_length = c
    BY <2>2, <2>7, <2>9, NextDescriptor
  <2> QED BY <2>7, <2>9, <2>10 DEF Complete
<1>5. Received = 1 .. k
  BY <1>1, <1>3, <1>4 DEF Received
<1>6. EndpointsReceived = Endpoints(k)
  BY <1>5 DEF EndpointsReceived, Endpoints
<1>7. ASSUME NEW j \in Endpoints(k)
      PROVE  {n \in EndpointsReceived : n <= j} = Endpoints(j)
  <2>1. j \in 1 .. k
    BY DEF Endpoints
  <2>2. \A n : n \in 1 .. k /\ n <= j <=> n \in 1 .. j
    BY <1>2, <2>1
  <2> QED BY <1>6, <2>2 DEF Endpoints
<1>8. ASSUME NEW j \in EndpointsReceived
      PROVE  found[Cardinality({n \in EndpointsReceived : n <= j})] = <<sent[j][3], InterfaceOf(j)>>
  BY <1>6, <1>7 DEF WalkedTo
<1>9. Len(found) = Cardinality(EndpointsReceived)
  BY <1>6 DEF WalkedTo
<1> QED BY <1>8, <1>9 DEF WholeWalkFound

(* What is said of the descriptors does not change with the walk. *)
LEMMA SameSent ==
    ASSUME sent' = sent
    PROVE  /\ \A k : InterfaceOf(k)' = InterfaceOf(k) /\ Endpoints(k)' = Endpoints(k)
           /\ AllWellformed' = AllWellformed
  BY DEF InterfaceOf, Endpoints, AllWellformed

(* A descriptor that the buffer holds to its end, as the walk sees it. *)
LEMMA CompleteBytes ==
    ASSUME WalkTypes, Complete
    PROVE  /\ i \in Nat /\ Len(buf) \in Nat /\ b_length \in Byte \ {0} /\ i + b_length \in Nat
           /\ i + 2 <= Len(buf) /\ i + b_length <= Len(buf)
           /\ \A j \in Nat : i + j < Len(buf) => At(i + j) \in Byte
<1>1. i \in Nat /\ Len(buf) \in Nat
  BY LenProperties DEF WalkTypes
<1>2. i + 2 <= Len(buf) /\ b_length # 0 /\ i + b_length <= Len(buf)
  BY DEF Complete
<1>3. ASSUME NEW n \in Nat, n < Len(buf) PROVE At(n) \in Byte
  <2>1. n + 1 \in 1 .. Len(buf)
    BY <1>1, <1>3
  <2> QED BY <2>1, ElementOfSeq DEF WalkTypes, At
<1>4. b_length \in Byte
  <2>1. i < Len(buf)
    BY <1>1, <1>2
  <2> QED BY <1>1, <1>3, <2>1 DEF b_length
<1>5. \A j \in Nat : i + j < Len(buf) => At(i + j) \in Byte
  BY <1>1, <1>3
<1> QED BY <1>1, <1>2, <1>4, <1>5 DEF Byte

(* One more descriptor is behind the walk. *)
LEMMA WalkedOn ==
    ASSUME WalkTypes, BufferIs, AllWellformed, NEW k, WalkedTo(k), Complete,
           UNCHANGED <<sent, buf>>, i' = i + b_length,
           LET d == sent[k + 1] IN
           /\ iface' = IF d[2] = INTERFACE THEN <<d[3], d[6], d[8]>> ELSE iface
           /\ found' = IF d[2] = ENDPOINT /\ IsIn(d[3]) /\ IsInterrupt(d[4])
                         THEN Append(found, <<d[3], iface>>) ELSE found
    PROVE  WalkedTo(k + 1)'
<1> DEFINE d == sent[k + 1]
<1>1. /\ i + 2 <= Len(buf) /\ i + b_length <= Len(buf)
  BY DEF Complete
<1>2. /\ k \in Nat /\ k + 1 \in 1 .. Len(sent) /\ b_length = Len(d)
      /\ Len(Flat(sent, k + 1)) = i + Len(d)
  BY <1>1, NextDescriptor
<1>3. i' = Len(Flat(sent', k + 1)) /\ i' <= Len(buf')
  BY <1>1, <1>2
<1>4. iface' = InterfaceOf(k + 2)
  <2>1. iface = InterfaceOf(k + 1)
    BY DEF WalkedTo
  <2> QED BY <1>2, <2>1, InterfaceNext
<1>5. /\ Len(found) = Cardinality(Endpoints(k)) /\ found \in Seq(Byte \X Triple)
      /\ \A j \in Endpoints(k) : found[Cardinality(Endpoints(j))] = <<sent[j][3], InterfaceOf(j)>>
  BY DEF WalkedTo, WalkTypes
<1>6. \A j \in Endpoints(k) : Cardinality(Endpoints(j)) \in 1 .. Len(found)
  BY <1>2, <1>5, EndpointsCount
<1>7. /\ Len(found') = Cardinality(Endpoints(k + 1))
      /\ \A j \in Endpoints(k + 1) : found'[Cardinality(Endpoints(j))] = <<sent[j][3], InterfaceOf(j)>>
  <2>1. CASE d[2] = ENDPOINT /\ IsIn(d[3]) /\ IsInterrupt(d[4])
    <3>1. /\ Endpoints(k + 1) = Endpoints(k) \cup {k + 1}
          /\ Cardinality(Endpoints(k + 1)) = Cardinality(Endpoints(k)) + 1
      BY <1>2, <2>1, EndpointsNext
    <3>2. PICK e : e = <<d[3], iface>> /\ found' = Append(found, e)
      BY <2>1
    <3>3. e = <<sent[k + 1][3], InterfaceOf(k + 1)>>
      BY <3>2 DEF WalkedTo
    <3>4. /\ Len(found') = Len(found) + 1 /\ found'[Len(found) + 1] = e
          /\ \A n \in 1 .. Len(found) : found'[n] = found[n]
      BY <1>5, <3>2
    <3>5. Len(found') = Cardinality(Endpoints(k + 1))
      BY <1>5, <3>1, <3>4
    <3>6. ASSUME NEW j \in Endpoints(k)
          PROVE  found'[Cardinality(Endpoints(j))] = <<sent[j][3], InterfaceOf(j)>>
      BY <1>5, <1>6, <3>4
    <3>7. found'[Cardinality(Endpoints(k + 1))] = <<sent[k + 1][3], InterfaceOf(k + 1)>>
      BY <1>5, <3>1, <3>3, <3>4
    <3> QED BY <3>1, <3>5, <3>6, <3>7
  <2>2. CASE ~ (d[2] = ENDPOINT /\ IsIn(d[3]) /\ IsInterrupt(d[4]))
    <3>1. Endpoints(k + 1) = Endpoints(k)
      BY <1>2, <2>2, EndpointsNext
    <3>2. found' = found
      BY <2>2
    <3> QED BY <1>5, <3>1, <3>2
  <2> QED BY <2>1, <2>2
<1>8. \A n : InterfaceOf(n)' = InterfaceOf(n) /\ Endpoints(n)' = Endpoints(n)
  BY SameSent
<1>9. k + 1 \in 0 .. Len(sent') /\ k + 1 + 1 = k + 2
  <2>1. Len(sent) \in Nat
    BY LenProperties DEF WalkTypes
  <2> QED BY <1>2, <2>1
<1>10. iface' = InterfaceOf(k + 1 + 1)'
  BY <1>4, <1>8, <1>9
<1>11. /\ Len(found') = Cardinality(Endpoints(k + 1)')
       /\ \A j \in Endpoints(k + 1)' :
             found'[Cardinality(Endpoints(j)')] = <<sent'[j][3], InterfaceOf(j)'>>
  BY <1>7, <1>8
<1> QED BY <1>3, <1>9, <1>10, <1>11 DEF WalkedTo

(* Nothing but the end of the buffer makes the walk look beyond it.          *)
LEMMA SameBuffer ==
    ASSUME BufferIs, UNCHANGED <<sent, buf>>
    PROVE  BufferIs'
  BY DEF BufferIs

(* The arm for interface descriptors: whatever the device sent, it steps on  *)
(* or panics over bytes that are not there.                                  *)
LEMMA InterfaceStep ==
    ASSUME WalkInv, read_interface
    PROVE  WalkInv'
<1>0. WalkTypes /\ BufferIs /\ Complete /\ b_type = INTERFACE /\ walk = "walking"
      /\ UNCHANGED <<sent, buf, found>>
  BY DEF WalkInv, read_interface
<1>1. /\ i \in Nat /\ Len(buf) \in Nat /\ b_length \in Byte \ {0} /\ i + b_length \in Nat
      /\ i + 2 <= Len(buf) /\ i + b_length <= Len(buf)
      /\ \A j \in Nat : i + j < Len(buf) => At(i + j) \in Byte
  BY <1>0, CompleteBytes
<1>2. BufferIs' /\ AllWellformed' = AllWellformed
  BY <1>0, SameBuffer, SameSent
<1>3. CASE Inside(i + 7)
  <2>1. /\ iface' = <<At(i + 2), At(i + 5), At(i + 7)>> /\ i' = i + b_length /\ walk' = walk
    BY <1>3 DEF read_interface
  <2>2. i + 7 < Len(buf)
    BY <1>3 DEF Inside
  <2>3. WalkTypes'
    <3>1. At(i + 2) \in Byte /\ At(i + 5) \in Byte /\ At(i + 7) \in Byte
      BY <1>1, <2>2
    <3> QED BY <1>0, <1>1, <2>1, <3>1 DEF WalkTypes, Triple
  <2>4. ASSUME AllWellformed PROVE \E k : WalkedTo(k)'
    <3>1. PICK k : WalkedTo(k)
      BY <2>4 DEF WalkInv
    <3>2. PICK d : d = sent[k + 1]
      OBVIOUS
    <3>3. /\ Wellformed(d) /\ Len(d) \in Nat /\ b_length = Len(d) /\ b_type = d[2]
          /\ \A j \in 0 .. Len(d) - 1 : i + j < Len(buf) => At(i + j) = d[j + 1]
      BY <1>0, <1>1, <2>4, <3>1, <3>2, NextDescriptor
    <3>4. d[2] = INTERFACE /\ d[2] # ENDPOINT /\ Len(d) >= 8
      BY <1>0, <3>3 DEF Wellformed, INTERFACE, ENDPOINT
    <3>5. iface' = <<d[3], d[6], d[8]>>
      <4>1. 2 \in 0 .. Len(d) - 1 /\ 5 \in 0 .. Len(d) - 1 /\ 7 \in 0 .. Len(d) - 1
            /\ i + 2 < Len(buf) /\ i + 5 < Len(buf)
        BY <1>1, <2>2, <3>3, <3>4
      <4>2. At(i + 2) = d[2 + 1] /\ At(i + 5) = d[5 + 1] /\ At(i + 7) = d[7 + 1]
        BY <2>2, <3>3, <4>1
      <4> QED BY <2>1, <4>2
    <3>6. WalkedTo(k + 1)'
      BY <1>0, <2>1, <2>4, <3>1, <3>2, <3>4, <3>5, WalkedOn
    <3> QED BY <3>6
  <2> QED BY <1>0, <1>2, <2>1, <2>3, <2>4 DEF WalkInv
<1>4. CASE ~ Inside(i + 7)
  <2>1. walk' = "panic" /\ UNCHANGED <<i, iface>>
    BY <1>4 DEF read_interface
  <2>2. i + 7 >= Len(buf) /\ b_length < 8 /\ i + 8 > Len(buf)
    <3>1. ~ (i + 7 < Len(buf))
      BY <1>4 DEF Inside
    <3> QED BY <1>1, <3>1 DEF Byte
  <2>3. ShortAtTheEnd'
    <3>1. ShortAtTheEnd
      BY <1>0, <2>2 DEF ShortAtTheEnd
    <3> QED BY <1>0, <2>1, <3>1 DEF ShortAtTheEnd, b_type, b_length, At
  <2>4. ~ AllWellformed
    <3> SUFFICES ASSUME AllWellformed PROVE FALSE
      OBVIOUS
    <3>1. PICK k : WalkedTo(k)
      BY DEF WalkInv
    <3>2. PICK d : d = sent[k + 1]
      OBVIOUS
    <3>3. Wellformed(d) /\ b_length = Len(d) /\ b_type = d[2]
      BY <1>0, <1>1, <3>1, <3>2, NextDescriptor
    <3>4. b_length >= 8
      BY <1>0, <3>3 DEF Wellformed, INTERFACE
    <3> QED BY <1>1, <2>2, <3>4 DEF Byte
  <2>5. WalkTypes'
    BY <1>0, <2>1 DEF WalkTypes
  <2> QED BY <1>2, <2>1, <2>3, <2>4, <2>5 DEF WalkInv
<1> QED BY <1>3, <1>4

(* The arm for endpoint descriptors likewise. *)
LEMMA EndpointStep ==
    ASSUME WalkInv, read_endpoint
    PROVE  WalkInv'
<1>0. WalkTypes /\ BufferIs /\ Complete /\ b_type = ENDPOINT /\ walk = "walking"
      /\ UNCHANGED <<sent, buf, iface>>
  BY DEF WalkInv, read_endpoint
<1>1. /\ i \in Nat /\ Len(buf) \in Nat /\ b_length \in Byte \ {0} /\ i + b_length \in Nat
      /\ i + 2 <= Len(buf) /\ i + b_length <= Len(buf)
      /\ \A j \in Nat : i + j < Len(buf) => At(i + j) \in Byte
  BY <1>0, CompleteBytes
<1>2. BufferIs' /\ AllWellformed' = AllWellformed
  BY <1>0, SameBuffer, SameSent
<1>3. CASE Inside(i + 6)
  <2>1. /\ found' = IF IsIn(At(i + 2)) /\ IsInterrupt(At(i + 3))
                      THEN Append(found, <<At(i + 2), iface>>) ELSE found
        /\ i' = i + b_length /\ walk' = walk
    BY <1>3 DEF read_endpoint
  <2>2. i + 6 < Len(buf)
    BY <1>3 DEF Inside
  <2>3. WalkTypes'
    <3>1. At(i + 2) \in Byte
      BY <1>1, <2>2
    <3>2. PICK e : e = <<At(i + 2), iface>> /\ e \in Byte \X Triple
      <4>1. iface \in Triple
        BY <1>0 DEF WalkTypes
      <4>2. PICK a : a = At(i + 2) /\ a \in Byte
        BY <3>1
      <4>3. <<a, iface>> \in Byte \X Triple
        BY <4>1, <4>2
      <4> QED BY <4>2, <4>3
    <3>3. Append(found, e) \in Seq(Byte \X Triple) /\ found \in Seq(Byte \X Triple)
      BY <1>0, <3>2, AppendProperties DEF WalkTypes
    <3>4. found' \in Seq(Byte \X Triple)
      BY <2>1, <3>2, <3>3
    <3> QED BY <1>0, <1>1, <2>1, <3>4 DEF WalkTypes
  <2>4. ASSUME AllWellformed PROVE \E k : WalkedTo(k)'
    <3>1. PICK k : WalkedTo(k)
      BY <2>4 DEF WalkInv
    <3>2. PICK d : d = sent[k + 1]
      OBVIOUS
    <3>3. /\ Wellformed(d) /\ Len(d) \in Nat /\ b_length = Len(d) /\ b_type = d[2]
          /\ \A j \in 0 .. Len(d) - 1 : i + j < Len(buf) => At(i + j) = d[j + 1]
      BY <1>0, <1>1, <2>4, <3>1, <3>2, NextDescriptor
    <3>4. d[2] = ENDPOINT /\ d[2] # INTERFACE /\ Len(d) >= 7
      BY <1>0, <3>3 DEF Wellformed, INTERFACE, ENDPOINT
    <3>5. At(i + 2) = d[3] /\ At(i + 3) = d[4]
      <4>1. 2 \in 0 .. Len(d) - 1 /\ 3 \in 0 .. Len(d) - 1
            /\ i + 2 < Len(buf) /\ i + 3 < Len(buf)
        BY <1>1, <2>2, <3>3, <3>4
      <4>2. At(i + 2) = d[2 + 1] /\ At(i + 3) = d[3 + 1]
        BY <3>3, <4>1
      <4> QED BY <4>2
    <3>6. WalkedTo(k + 1)'
      BY <1>0, <2>1, <2>4, <3>1, <3>2, <3>4, <3>5, WalkedOn
    <3> QED BY <3>6
  <2> QED BY <1>0, <1>2, <2>1, <2>3, <2>4 DEF WalkInv
<1>4. CASE ~ Inside(i + 6)
  <2>1. walk' = "panic" /\ UNCHANGED <<i, found>>
    BY <1>4 DEF read_endpoint
  <2>2. i + 6 >= Len(buf) /\ b_length < 7 /\ i + 8 > Len(buf)
    <3>1. ~ (i + 6 < Len(buf))
      BY <1>4 DEF Inside
    <3> QED BY <1>1, <3>1 DEF Byte
  <2>3. ShortAtTheEnd'
    <3>1. ShortAtTheEnd
      BY <1>0, <2>2 DEF ShortAtTheEnd, INTERFACE, ENDPOINT
    <3> QED BY <1>0, <2>1, <3>1 DEF ShortAtTheEnd, b_type, b_length, At
  <2>4. ~ AllWellformed
    <3> SUFFICES ASSUME AllWellformed PROVE FALSE
      OBVIOUS
    <3>1. PICK k : WalkedTo(k)
      BY DEF WalkInv
    <3>2. PICK d : d = sent[k + 1]
      OBVIOUS
    <3>3. Wellformed(d) /\ b_length = Len(d) /\ b_type = d[2]
      BY <1>0, <1>1, <3>1, <3>2, NextDescriptor
    <3>4. b_length >= 7
      BY <1>0, <3>3 DEF Wellformed, ENDPOINT
    <3> QED BY <1>1, <2>2, <3>4 DEF Byte
  <2>5. WalkTypes'
    BY <1>0, <2>1 DEF WalkTypes
  <2> QED BY <1>2, <2>1, <2>3, <2>4, <2>5 DEF WalkInv
<1> QED BY <1>3, <1>4

(* Other descriptors are stepped over. *)
LEMMA SkipStep ==
    ASSUME WalkInv, skip_descriptor
    PROVE  WalkInv'
<1>0. /\ WalkTypes /\ BufferIs /\ Complete /\ b_type \notin {INTERFACE, ENDPOINT}
      /\ walk = "walking" /\ walk' = walk /\ i' = i + b_length
      /\ UNCHANGED <<sent, buf, iface, found>>
  BY DEF WalkInv, skip_descriptor
<1>1. i + b_length \in Nat /\ i + 2 <= Len(buf)
  BY <1>0, CompleteBytes
<1>2. BufferIs' /\ AllWellformed' = AllWellformed
  BY <1>0, SameBuffer, SameSent
<1>3. WalkTypes'
  BY <1>0, <1>1 DEF WalkTypes
<1>4. ASSUME AllWellformed PROVE \E k : WalkedTo(k)'
  <2>1. PICK k : WalkedTo(k)
    BY <1>4 DEF WalkInv
  <2>2. PICK d : d = sent[k + 1] /\ b_type = d[2]
    BY <1>0, <1>1, <1>4, <2>1, NextDescriptor
  <2>3. d[2] # INTERFACE /\ d[2] # ENDPOINT
    BY <1>0, <2>2
  <2>4. WalkedTo(k + 1)'
    BY <1>0, <1>4, <2>1, <2>2, <2>3, WalkedOn
  <2> QED BY <2>4
<1> QED BY <1>0, <1>2, <1>3, <1>4 DEF WalkInv

(* The loop ends at a boundary. *)
LEMMA EndStep ==
    ASSUME WalkInv, end_walk
    PROVE  WalkInv'
<1>0. WalkTypes /\ BufferIs /\ ~ Complete /\ walk' = "done"
      /\ UNCHANGED <<sent, buf, i, iface, found>>
  BY DEF WalkInv, end_walk
<1>1. BufferIs' /\ AllWellformed' = AllWellformed
  BY <1>0, SameBuffer, SameSent
<1>2. WalkTypes'
  BY <1>0 DEF WalkTypes
<1>3. ~ Complete'
  BY <1>0 DEF Complete, b_length, At
<1>4. ASSUME AllWellformed PROVE \E k : WalkedTo(k)'
  <2>1. PICK k : WalkedTo(k)
    BY <1>4, <1>0 DEF WalkInv, end_walk
  <2>2. \A n : InterfaceOf(n)' = InterfaceOf(n) /\ Endpoints(n)' = Endpoints(n)
    BY <1>0, SameSent
  <2>3. WalkedTo(k)'
    BY <1>0, <2>1, <2>2 DEF WalkedTo
  <2> QED BY <2>3
<1> QED BY <1>0, <1>1, <1>2, <1>3, <1>4 DEF WalkInv

(* The walk begins at the first descriptor, in whatever part of the          *)
(* configuration has arrived.                                                *)
LEMMA WalkBegins == WalkInit => WalkInv
<1> SUFFICES ASSUME WalkInit PROVE WalkInv
  OBVIOUS
<1>1. sent \in Seq(Seq(Byte))
  <2>1. PICK n \in 0 .. MaxDescriptors : sent \in [1 .. n -> Descriptors]
    BY DEF WalkInit
  <2>2. n \in Nat /\ sent \in [1 .. n -> Seq(Byte)]
    BY <2>1, DescriptorAssumption
  <2> QED BY <2>2
<1>2. PICK all : all = FlattenSeq(sent) /\ all \in Seq(Byte)
  <2>1. Len(sent) \in 0 .. Len(sent)
    BY <1>1, LenProperties
  <2>2. Flat(sent, Len(sent)) \in Seq(Byte) /\ Flat(sent, Len(sent)) = FlattenSeq(sent)
    BY <1>1, <2>1, FlatPlaces, FlatNext
  <2> QED BY <2>2
<1>3. PICK actual_len \in 0 .. Len(all) : buf = SubSeq(all, 1, actual_len)
  BY <1>2 DEF WalkInit
<1>4. buf \in Seq(Byte) /\ BufferIs
  <2>1. Len(all) \in Nat /\ \A n \in 1 .. Len(all) : all[n] \in Byte
    BY <1>2, LenProperties, ElementOfSeq
  <2>2. actual_len \in Int /\ 1 \in Int /\ \A n \in 1 .. actual_len : all[n] \in Byte
    BY <2>1
  <2>3. /\ buf \in Seq(Byte)
        /\ Len(buf) = IF 1 <= actual_len THEN actual_len - 1 + 1 ELSE 0
        /\ \A n \in 1 .. actual_len - 1 + 1 : buf[n] = all[1 + n - 1]
    BY <1>3, <2>2, SubSeqProperties
  <2>4. Len(buf) = actual_len
    BY <2>1, <2>3
  <2>5. \A n \in 1 .. Len(buf) : n \in 1 .. actual_len - 1 + 1 /\ 1 + n - 1 = n
    BY <2>1, <2>4
  <2> QED BY <1>2, <2>1, <2>3, <2>4, <2>5 DEF BufferIs
<1>5. WalkTypes
  <2>1. iface \in Triple
    BY DEF WalkInit, NoInterface, Triple, Byte
  <2>2. found \in Seq(Byte \X Triple)
    BY DEF WalkInit
  <2> QED BY <1>1, <1>4, <2>1, <2>2 DEF WalkInit, WalkTypes
<1>6. WalkedTo(0)
  <2>1. Flat(sent, 0) = << >> /\ Len(Flat(sent, 0)) = 0
    BY <1>1, FlatNext, EmptySeq
  <2>2. InterfaceOf(0 + 1) = NoInterface
    <3>1. {j \in 1 .. 0 + 1 - 1 : sent[j][2] = INTERFACE} = {}
      OBVIOUS
    <3> QED BY <3>1 DEF InterfaceOf
  <2>3. Endpoints(0) = {} /\ Cardinality(Endpoints(0)) = 0
    <3>1. Endpoints(0) = {}
      BY DEF Endpoints
    <3> QED BY <3>1, FS_EmptySet
  <2>4. Len(found) = 0 /\ i = 0 /\ iface = NoInterface
    BY DEF WalkInit
  <2>5. Len(sent) \in Nat /\ Len(buf) \in Nat
    BY <1>1, <1>4, LenProperties
  <2> QED BY <2>1, <2>2, <2>3, <2>4, <2>5 DEF WalkedTo
<1> QED BY <1>4, <1>5, <1>6 DEF WalkInv, WalkInit

(* Whatever part of a configuration of well-formed descriptors arrives, the  *)
(* walk of get_configuration_descriptor_and_find_interrupt_endpoints finds   *)
(* exactly the interrupt IN endpoints that arrived whole, in order and each  *)
(* with its interface; and whatever a device sends, it panics only over a    *)
(* short descriptor at the end of the buffer.                                *)
THEOREM WalkIsRight == WalkSpec => []WalkFindsAll
<1>1. WalkInv /\ [WalkNext]_walkVars => WalkInv'
  <2> SUFFICES ASSUME WalkInv, [WalkNext]_walkVars PROVE WalkInv'
    OBVIOUS
  <2>1. CASE read_interface
    BY <2>1, InterfaceStep
  <2>2. CASE read_endpoint
    BY <2>2, EndpointStep
  <2>3. CASE skip_descriptor
    BY <2>3, SkipStep
  <2>4. CASE end_walk
    BY <2>4, EndStep
  <2>5. CASE UNCHANGED walkVars
    <3>1. UNCHANGED <<sent, buf, i, iface, found, walk>>
      BY <2>5 DEF walkVars
    <3>2. BufferIs' /\ WalkTypes'
      BY <3>1 DEF WalkInv, WalkTypes, BufferIs
    <3>3. ShortAtTheEnd' = ShortAtTheEnd /\ Complete' = Complete
      BY <3>1 DEF ShortAtTheEnd, Complete, b_type, b_length, At
    <3>4. AllWellformed' = AllWellformed
          /\ \A n : InterfaceOf(n)' = InterfaceOf(n) /\ Endpoints(n)' = Endpoints(n)
      BY <3>1, SameSent
    <3>5. \A k : WalkedTo(k) => WalkedTo(k)'
      BY <3>1, <3>4 DEF WalkedTo
    <3> QED BY <3>1, <3>2, <3>3, <3>4, <3>5 DEF WalkInv
  <2> QED BY <2>1, <2>2, <2>3, <2>4, <2>5 DEF WalkNext
<1>2. WalkInv => WalkFindsAll
  BY WholeWalk DEF WalkInv, WalkFindsAll, AllWellformed
<1> QED BY WalkBegins, <1>1, <1>2, PTL DEF WalkSpec

-----------------------------------------------------------------------------
(* Keyboard.  The buffer always holds the report that was handled last.  A   *)
(* key that was printed is in that report, or an ErrorRollOver report came   *)
(* while it was down; one without a character was never printed.             *)

Report == [1 .. KeySlots -> Keys \cup {NoKey, ErrorRollOver}]

EchoesTrue ==
    \A k \in Keys :
        /\ echoed[k] > 0 => k \in rolled \cup Codes(last_keycodes)
        /\ echoed[k] > 1 => k \in rolled
        /\ k \notin Printable => echoed[k] = 0
        /\ k \in Codes(last_keycodes) /\ k \in Printable => echoed[k] > 0

KbdInv ==
    /\ last_keycodes \in Report /\ keycodes = last_keycodes
    /\ echoed \in [Keys -> Nat]
    /\ EchoesTrue

(* ReportsOf: a keyboard sends well-formed reports. *)
LEMMA ReportsAreReports ==
    ASSUME NEW keys \in SUBSET Keys, NEW r \in ReportsOf(keys)
    PROVE  r \in Report
  BY DEF ReportsOf, Report

(* handle_report of keyboard_usb.rs: whatever the report, what was printed   *)
(* stays accounted for.                                                      *)
LEMMA HandledReport ==
    ASSUME KbdInv, NEW r \in Report, handle_keyboard_report(r)
    PROVE  last_keycodes' = r /\ echoed' \in [Keys -> Nat] /\ EchoesTrue'
  <1> USE HidAssumption
  <1>1. last_keycodes' = r
    BY DEF handle_keyboard_report
  <1>2. echoed' \in [Keys -> Nat]
    BY DEF handle_keyboard_report, KbdInv
  <1>3. ASSUME NEW k \in Keys
        PROVE  /\ echoed'[k] > 0 => k \in rolled' \cup Codes(r)
               /\ echoed'[k] > 1 => k \in rolled'
               /\ k \notin Printable => echoed'[k] = 0
               /\ k \in Codes(r) /\ k \in Printable => echoed'[k] > 0
    <2> DEFINE old == Codes(last_keycodes)
    <2>1. k # NoKey /\ k # ErrorRollOver
      OBVIOUS
    <2>2. /\ echoed[k] \in Nat
          /\ echoed[k] > 0 => k \in rolled \cup old
          /\ echoed[k] > 1 => k \in rolled
          /\ k \notin Printable => echoed[k] = 0
          /\ k \in old /\ k \in Printable => echoed[k] > 0
      BY DEF KbdInv, EchoesTrue
    <2>3. rolled' = IF ErrorRollOver \in Codes(r) THEN rolled \cup old ELSE rolled \cap Codes(r)
      BY DEF handle_keyboard_report
    <2>4. echoed'[k] =
            CASE k \in NewKeys(r) \cap Printable ->
                     IF echoed[k] < MaxEchoes THEN echoed[k] + 1 ELSE MaxEchoes
              [] k \notin Codes(r) /\ ErrorRollOver \notin Codes(r) -> 0
              [] OTHER -> echoed[k]
      BY DEF handle_keyboard_report, KbdInv
    <2>5. k \in NewKeys(r) <=> k \in Codes(r) /\ k \notin old
      BY <2>1 DEF NewKeys
    <2>6. CASE k \in Codes(r) /\ ErrorRollOver \notin Codes(r)
      BY <2>2, <2>3, <2>4, <2>5, <2>6
    <2>7. CASE k \in Codes(r) /\ ErrorRollOver \in Codes(r)
      BY <2>2, <2>3, <2>4, <2>5, <2>7
    <2>8. CASE k \notin Codes(r)
      BY <2>2, <2>3, <2>4, <2>5, <2>8
    <2> QED BY <2>6, <2>7, <2>8
  <1> QED BY <1>1, <1>2, <1>3 DEF EchoesTrue

(* A key the user holds is printed once and no failed transfer prints it     *)
(* again, whatever the keyboard reports, unless an ErrorRollOver report came *)
(* in between (handle_report, keyboard_usb.rs).                              *)
THEOREM HeldKeysPrintedOnce == KbdSpec => [](HeldKeyOnceUnlessRollOver /\ KbdInv)
  <1> USE HidAssumption
  <1> DEFINE Down == down \subseteq Keys
  <1>1. KbdInit => Down /\ KbdInv
    BY DEF KbdInit, KbdInv, EchoesTrue, Report, Empty, Codes
  <1>2. Down /\ KbdInv /\ [KbdNext]_kbdVars => (Down /\ KbdInv)'
    <2> SUFFICES ASSUME Down, KbdInv, [KbdNext]_kbdVars
                 PROVE  Down' /\ KbdInv'
      OBVIOUS
    <2>1. ASSUME NEW k \in Keys, ChangeKey(k)
          PROVE  Down' /\ KbdInv'
      BY <2>1 DEF ChangeKey, KbdInv, EchoesTrue, Report, Codes
    <2>2. CASE KeyReport
      <3>1. keycodes' \in Report
        BY <2>2, ReportsAreReports DEF KeyReport
      <3>2. last_keycodes' = keycodes' /\ echoed' \in [Keys -> Nat] /\ EchoesTrue'
        BY <2>2, <3>1, HandledReport DEF KeyReport
      <3> QED BY <2>2, <3>1, <3>2 DEF KeyReport, KbdInv
    <2>3. CASE KeyReportFails
      <3>1. keycodes \in Report
        BY DEF KbdInv
      <3>2. last_keycodes' = keycodes /\ echoed' \in [Keys -> Nat] /\ EchoesTrue'
        BY <2>3, <3>1, HandledReport DEF KeyReportFails
      <3> QED BY <2>3, <3>1, <3>2 DEF KeyReportFails, KbdInv
    <2>4. CASE UNCHANGED kbdVars
      BY <2>4 DEF kbdVars, KbdInv, EchoesTrue, Report, Codes
    <2> QED BY <2>1, <2>2, <2>3, <2>4 DEF KbdNext
  <1>3. KbdInv => HeldKeyOnceUnlessRollOver
    BY DEF KbdInv, EchoesTrue, HeldKeyOnceUnlessRollOver
  <1> QED BY <1>1, <1>2, <1>3, PTL DEF KbdSpec

-----------------------------------------------------------------------------
(* Mouse.  Until the driver panics it has handled the report in the buffer   *)
(* once, and a second time when the transfer after it failed.                *)

MouseInv ==
    /\ report \in [buttons : SUBSET Buttons, x : Int] /\ held \subseteq Buttons
    /\ mouse \in {"running", "halted", "panic"}
    /\ pos_x \in Int /\ travel \in Int
    /\ mouse # "panic" =>
          /\ last_buttons = report.buttons
          /\ lines = [b \in Buttons |-> IF b \in report.buttons THEN 1 ELSE 0]
    /\ mouse = "running" => pos_x = travel
    /\ mouse = "halted" => pos_x = travel + report.x

(* The printed lines of a button alternate and end with its state, and the   *)
(* position is the sum of the movements, for any buttons and any movements   *)
(* (handle_report, mouse_usb.rs).                                            *)
THEOREM MouseLogIsTrue == MouseSpec => [](MouseLogTrue /\ MouseInv)
  <1>1. MouseInit => MouseInv
    BY DEF MouseInit, MouseInv
  <1>2. MouseInv /\ [MouseNext]_mouseVars => MouseInv'
    <2> SUFFICES ASSUME MouseInv, [MouseNext]_mouseVars
                 PROVE  MouseInv'
      OBVIOUS
    <2>1. ASSUME NEW b \in Buttons, ChangeButton(b)
          PROVE  MouseInv'
      BY <2>1 DEF ChangeButton, MouseInv
    <2>2. CASE MouseReport
      <3>1. PICK dx \in {-1, 0, 1} : /\ report' = [buttons |-> held, x |-> dx]
                                     /\ travel' = travel + dx
        BY <2>2 DEF MouseReport
      <3>2. report' \in [buttons : SUBSET Buttons, x : Int] /\ report'.x = dx /\ held' \subseteq Buttons
        BY <2>2, <3>1 DEF MouseReport, MouseInv
      <3>3. CASE InRange(pos_x + report'.x)
        BY <2>2, <3>1, <3>2, <3>3 DEF MouseReport, MouseInv, Handle, handle_mouse_report
      <3>4. CASE ~ InRange(pos_x + report'.x)
        BY <2>2, <3>1, <3>2, <3>4 DEF MouseReport, MouseInv, Handle
      <3> QED BY <3>3, <3>4
    <2>3. CASE MouseReportFails
      <3>1. CASE InRange(pos_x + report.x)
        BY <2>3, <3>1 DEF MouseReportFails, MouseInv, Handle, handle_mouse_report
      <3>2. CASE ~ InRange(pos_x + report.x)
        BY <2>3, <3>2 DEF MouseReportFails, MouseInv, Handle
      <3> QED BY <3>1, <3>2
    <2>4. CASE UNCHANGED mouseVars
      BY <2>4 DEF mouseVars, MouseInv
    <2> QED BY <2>1, <2>2, <2>3, <2>4 DEF MouseNext
  <1>3. MouseInv => MouseLogTrue
    BY DEF MouseInv, MouseLogTrue
  <1> QED BY <1>1, <1>2, <1>3, PTL DEF MouseSpec
=============================================================================
