-------------------------- MODULE RegionScanProofs --------------------------
(***************************************************************************)
(* The loop of liesInsideRegion decides Region!LiesInside, on every grid   *)
(* and for any number of vertices.                                         *)
(***************************************************************************)
EXTENDS RegionScan, FiniteSetTheorems, SequenceTheorems, TLAPS

USE GridAssumption DEF GridAssumption

\* The crossed edges whose first end is among the first k vertices.
Passed(k) == {e \in CrossedEdges(point, region) : e[1] <= k}

\* The two indexes: the last vertex is paired with the first, every other vertex with
\* the one after it.
Paired ==
    \/ i = 0 /\ j = Len(region) - 1
    \/ i > 0 /\ j = i + 1

IInv == TypeOK /\ Paired /\ ScanIsParity

\* A list of vertices is a sequence of points.
LEMMA RegionIsSeq ==
    ASSUME region \in Regions
    PROVE  region \in Seq(Points) /\ Len(region) \in Nat
<1>1. region \in Seq(Points)
    BY SeqDef DEF Regions
<1>2. QED
    BY <1>1, LenProperties

\* There are finitely many edges.
LEMMA PassedIsFinite ==
    ASSUME Len(region) \in Nat, NEW k
    PROVE  IsFiniteSet(CrossedEdges(point, region)) /\ IsFiniteSet(Passed(k))
<1>1. IsFiniteSet(1 .. Len(region))
    BY FS_Interval
<1>2. IsFiniteSet((1 .. Len(region)) \X (1 .. Len(region)))
    BY <1>1, FS_Product
<1>3. CrossedEdges(point, region) \subseteq (1 .. Len(region)) \X (1 .. Len(region))
    BY DEF CrossedEdges, Examined
<1>4. Passed(k) \subseteq CrossedEdges(point, region)
    BY DEF Passed
<1>5. IsFiniteSet(CrossedEdges(point, region))
    BY <1>2, <1>3, FS_Subset
<1>6. QED
    BY <1>4, <1>5, FS_Subset

\* No edge has its first end before the first vertex.
LEMMA NothingPassedAtFirst ==
    ASSUME Len(region) \in Nat
    PROVE  Passed(0) = {}
BY DEF Passed, CrossedEdges, Examined

\* The next vertex adds the edge the indexes stand for, if it is crossed, and no other.
LEMMA OneEdgePassed ==
    ASSUME Len(region) \in Nat, i \in Nat, j \in Int, i < Len(region), Safe(j), Paired
    PROVE  /\ Passed(i + 1) =
                 IF Crosses(point, region[i + 1], region[j + 1])
                 THEN Passed(i) \cup {<<i + 1, j + 1>>}
                 ELSE Passed(i)
           /\ <<i + 1, j + 1>> \notin Passed(i)
<1> DEFINE edge == <<i + 1, j + 1>>
           n == Len(region)
<1>1. edge \in Examined(region)
    BY DEF Examined, Paired, Safe
<1>2. ASSUME NEW e \in Examined(region), e[1] = i + 1
      PROVE  e = edge
    BY <1>2 DEF Examined, Paired
<1>3. \A e \in Examined(region) : e[1] \in Int
    BY DEF Examined
<1>4. \A e \in Examined(region) : e[1] <= i + 1 <=> e[1] <= i \/ e = edge
    BY <1>2, <1>3
<1>5. edge \in CrossedEdges(point, region)
        <=> Crosses(point, region[i + 1], region[j + 1])
    BY <1>1 DEF CrossedEdges
<1>6. CrossedEdges(point, region) \subseteq Examined(region)
    BY DEF CrossedEdges
<1>7. edge \notin Passed(i)
    BY DEF Passed
<1>8. CASE Crosses(point, region[i + 1], region[j + 1])
    <2>1. Passed(i + 1) = Passed(i) \cup {edge}
        BY <1>4, <1>5, <1>6, <1>8 DEF Passed
    <2>2. QED
        BY <2>1, <1>7, <1>8
<1>9. CASE ~Crosses(point, region[i + 1], region[j + 1])
    <2>1. Passed(i + 1) = Passed(i)
        BY <1>4, <1>5, <1>6, <1>9 DEF Passed
    <2>2. QED
        BY <2>1, <1>7, <1>9
<1>10. QED
    BY <1>8, <1>9

\* When the loop is left, either way, every edge has been passed.
LEMMA AllPassedAtTheEnd ==
    ASSUME Len(region) \in Nat, i \in Nat, j \in Int, Paired,
           i >= Len(region) \/ (i < Len(region) /\ ~Safe(j))
    PROVE  Passed(i) = CrossedEdges(point, region)
<1>1. \A e \in Examined(region) : e[1] <= i
    BY DEF Examined, Paired, Safe
<1>2. QED
    BY <1>1 DEF Passed, CrossedEdges

\* The loop starts with nothing passed and the flag down.
LEMMA ScanStarts == Init => IInv
<1> SUFFICES ASSUME Init PROVE IInv
    OBVIOUS
<1>1. Len(region) \in Nat
    BY RegionIsSeq DEF Init
<1>2. TypeOK
    <2>1. i \in 0 .. Len(region) /\ j \in -1 .. Len(region) + 1
        BY <1>1 DEF Init
    <2>2. liesInside \in BOOLEAN /\ done \in BOOLEAN
        BY Zenon DEF Init
    <2>3. QED
        BY <2>1, <2>2 DEF Init, TypeOK
<1>3. Cardinality(Passed(i)) = 0
    BY <1>1, NothingPassedAtFirst, FS_EmptySet DEF Init
<1>4. ScanIsParity
    <2>1. ~liesInside /\ ~done
        BY DEF Init
    <2>2. ~(Cardinality(Passed(i)) % 2 = 1)
        BY <1>3
    <2>3. liesInside = (Cardinality(Passed(i)) % 2 = 1)
        BY <2>1, <2>2, Zenon DEF Init
    <2>4. QED
        BY <2>1, <2>3 DEF ScanIsParity, Passed
<1>5. QED
    BY <1>2, <1>4 DEF IInv, Init, Paired

\* Every iteration, and either way out of the loop, keeps the flag the parity.
LEMMA ScanGoesOn == IInv /\ [Next]_vars => IInv'
<1> SUFFICES ASSUME IInv, [Next]_vars PROVE IInv'
    OBVIOUS
<1>1. /\ Len(region) \in Nat /\ i \in Nat /\ j \in Int
      /\ region \in Regions /\ point \in Points /\ liesInside \in BOOLEAN
    BY RegionIsSeq DEF IInv, TypeOK
<1>2. liesInside = (Cardinality(Passed(i)) % 2 = 1)
    BY DEF IInv, ScanIsParity, Passed
<1>3. CASE Iterate
    <2>1. /\ i < Len(region) /\ Safe(j) /\ Paired /\ ~done
          /\ point' = point /\ region' = region /\ done' = done
          /\ i' = i + 1 /\ j' = i + 2
          /\ liesInside' = (liesInside # Crosses(point, region[i + 1], region[j + 1]))
        BY <1>3, <1>1 DEF Iterate, IInv
    <2>2. TypeOK'
        <3>1. i' \in 0 .. Len(region') /\ j' \in -1 .. Len(region') + 1
            BY <2>1, <1>1
        <3>2. liesInside' \in BOOLEAN /\ done' \in BOOLEAN
            BY <2>1, Zenon DEF IInv, TypeOK
        <3>3. QED
            BY <2>1, <1>1, <3>1, <3>2 DEF TypeOK
    <2>3. Paired'
        BY <2>1, <1>1 DEF Paired
    <2>4. Cardinality(Passed(i)) \in Nat
        BY <1>1, PassedIsFinite, FS_CardinalityType
    <2>5. Cardinality(Passed(i + 1)) =
            IF Crosses(point, region[i + 1], region[j + 1])
            THEN Cardinality(Passed(i)) + 1 ELSE Cardinality(Passed(i))
        BY <2>1, <1>1, OneEdgePassed, PassedIsFinite, FS_AddElement
    <2>6. liesInside' = (Cardinality(Passed(i + 1)) % 2 = 1)
        <3> DEFINE edgeCrossed == Crosses(point, region[i + 1], region[j + 1])
                   oddBefore == Cardinality(Passed(i)) % 2 = 1
                   oddAfter == Cardinality(Passed(i + 1)) % 2 = 1
        <3>1. \A c \in Nat : (c + 1) % 2 = 1 <=> ~(c % 2 = 1)
            OBVIOUS
        <3>2. oddAfter <=> (edgeCrossed <=> ~oddBefore)
            BY <2>4, <2>5, <3>1
        <3>3. liesInside' = (liesInside # edgeCrossed)
            BY <2>1
        <3>4. liesInside = oddBefore
            BY <1>2
        <3>5. edgeCrossed \in BOOLEAN
            BY Zenon DEF Crosses
        <3> HIDE DEF edgeCrossed, oddBefore, oddAfter
        <3>6. QED
            BY <3>2, <3>3, <3>4, <3>5, <1>1 DEF oddAfter, oddBefore
    <2>7. ScanIsParity'
        BY <2>1, <2>6 DEF ScanIsParity, Passed
    <2>8. QED
        BY <2>2, <2>3, <2>7 DEF IInv
<1>4. CASE Break \/ Leave
    <2>1. /\ i >= Len(region) \/ (i < Len(region) /\ ~Safe(j))
          /\ Paired
          /\ done' = TRUE /\ UNCHANGED <<point, region, i, j, liesInside>>
        BY <1>4 DEF Break, Leave, IInv
    <2>2. Passed(i) = CrossedEdges(point, region)
        BY <2>1, <1>1, AllPassedAtTheEnd
    <2>3. liesInside = LiesInside(point, region)
        BY <2>2, <1>2 DEF LiesInside
    <2>4. ScanIsParity'
        BY <2>1, <2>3, <1>2 DEF ScanIsParity, Passed
    <2>5. TypeOK' /\ Paired'
        BY <2>1 DEF IInv, TypeOK, Paired
    <2>6. QED
        BY <2>4, <2>5 DEF IInv
<1>5. CASE UNCHANGED vars
    BY <1>5 DEF IInv, TypeOK, Paired, ScanIsParity, vars
<1>6. QED
    BY <1>3, <1>4, <1>5 DEF Next

\* The inductive invariant of this module.
LEMMA ScanHolds == Spec => []IInv
BY ScanStarts, ScanGoesOn, PTL DEF Spec

\* The variables keep their types: the indexes never leave the list by more than one.
THEOREM ScanTypes == Spec => []TypeOK
<1>1. IInv => TypeOK
    BY DEF IInv
<1>2. QED
    BY <1>1, ScanHolds, PTL

\* The flag is the parity of the crossed edges passed at every iteration, and decides
\* LiesInside when the loop is left, the empty list and the single vertex included
\* (Municipality:34-55).
THEOREM ScanDecides == Spec => []ScanIsParity
<1>1. IInv => ScanIsParity
    BY DEF IInv
<1>2. QED
    BY <1>1, ScanHolds, PTL

----------------------------------------------------------------------------
(* Rectangles: two upright sides are looked at, and one of constant        *)
(* latitude, which nothing crosses.                                        *)

\* The sign of a product tells that of a factor.
LEMMA SignOfProduct ==
    ASSUME NEW x \in Int, NEW d \in Int
    PROVE  /\ d > 0 => (x * d < 0 <=> x < 0)
           /\ d < 0 => (x * d > 0 <=> x < 0)
OBVIOUS

\* An upright side is crossed from the west of it.
LEMMA UprightSide ==
    ASSUME NEW p \in Points, NEW a \in Points, NEW b \in Points, a.longitude = b.longitude
    PROVE  Crosses(p, a, b) <=> Straddles(p, a, b) /\ p.longitude < a.longitude
<1> DEFINE d == b.latitude - a.latitude
           x == p.longitude - a.longitude
           run == (a.longitude - b.longitude) * (p.latitude - a.latitude)
<1>1. /\ p.latitude \in Int /\ a.latitude \in Int /\ b.latitude \in Int
      /\ p.longitude \in Int /\ a.longitude \in Int /\ b.longitude \in Int
    BY DEF Points
<1>2. d \in Int /\ x \in Int /\ run = 0 /\ (x < 0 <=> p.longitude < a.longitude)
    BY <1>1
<1>3. Straddles(p, a, b) => d > 0 \/ d < 0
    BY <1>1 DEF Straddles
<1>4. Crosses(p, a, b) <=>
        Straddles(p, a, b) /\ (IF d > 0 THEN x * d < run ELSE x * d > run)
    BY DEF Crosses
<1> HIDE DEF d, x, run
<1>5. /\ d > 0 => (x * d < 0 <=> x < 0)
      /\ d < 0 => (x * d > 0 <=> x < 0)
    BY <1>2, SignOfProduct
<1>6. CASE d > 0
    <2>1. (IF d > 0 THEN x * d < run ELSE x * d > run) <=> x < 0
        BY <1>2, <1>5, <1>6
    <2>2. QED
        BY <1>2, <1>4, <2>1
<1>7. CASE d < 0
    <2>1. ~(d > 0)
        BY <1>2, <1>7
    <2>2. (IF d > 0 THEN x * d < run ELSE x * d > run) <=> x < 0
        BY <1>2, <1>5, <1>7, <2>1
    <2>3. QED
        BY <1>2, <1>4, <2>2
<1>8. QED
    BY <1>3, <1>4, <1>6, <1>7

\* Between is what Straddles says of the ends.
LEMMA StraddlesIsBetween ==
    ASSUME NEW p \in Points, NEW a \in Points, NEW b \in Points
    PROVE  Straddles(p, a, b) <=> Between(p.latitude, a.latitude, b.latitude)
<1>1. p.latitude \in Int /\ a.latitude \in Int /\ b.latitude \in Int
    BY DEF Points
<1>2. QED
    BY <1>1 DEF Straddles, Between

\* The edges of a rectangle that a point's ray can cross.
LEMMA BoxEdges ==
    ASSUME point \in Points, region \in Regions, Box
    PROVE  /\ region[1] \in Points /\ region[2] \in Points
           /\ region[3] \in Points /\ region[4] \in Points
           /\ CrossedEdges(point, region) =
                (IF Crosses(point, region[1], region[4]) THEN {<<1, 4>>} ELSE {})
                \cup (IF Crosses(point, region[2], region[3]) THEN {<<2, 3>>} ELSE {})
<1>1. Len(region) = 4 /\ region \in Seq(Points)
    BY RegionIsSeq DEF Box
<1>2. /\ region[1] \in Points /\ region[2] \in Points
      /\ region[3] \in Points /\ region[4] \in Points
    <2>1. \A n \in 1 .. 4 : region[n] \in Points
        BY <1>1
    <2>2. QED
        BY <2>1
<1>3. Examined(region) = {<<1, 4>>, <<2, 3>>, <<3, 4>>}
    <2>1. \A e \in (1 .. 4) \X (1 .. 4) :
             (e = <<1, 4>> \/ (e[1] > 1 /\ e[2] = e[1] + 1)) <=>
             e \in {<<1, 4>>, <<2, 3>>, <<3, 4>>}
        OBVIOUS
    <2>2. {<<1, 4>>, <<2, 3>>, <<3, 4>>} \subseteq (1 .. 4) \X (1 .. 4)
        OBVIOUS
    <2>3. Examined(region) = {e \in (1 .. 4) \X (1 .. 4) :
                                e = <<1, 4>> \/ (e[1] > 1 /\ e[2] = e[1] + 1)}
        BY <1>1 DEF Examined
    <2>4. QED
        BY <2>1, <2>2, <2>3, Zenon
<1>4. ~Crosses(point, region[3], region[4])
    BY DEF Box, Crosses, Straddles
<1>5. \A e : e \in CrossedEdges(point, region) <=>
        \/ e = <<1, 4>> /\ Crosses(point, region[1], region[4])
        \/ e = <<2, 3>> /\ Crosses(point, region[2], region[3])
    <2>1. CrossedEdges(point, region) =
            {e \in {<<1, 4>>, <<2, 3>>, <<3, 4>>} : Crosses(point, region[e[1]], region[e[2]])}
        BY <1>3 DEF CrossedEdges
    <2>2. /\ <<1, 4>>[1] = 1 /\ <<1, 4>>[2] = 4 /\ <<2, 3>>[1] = 2 /\ <<2, 3>>[2] = 3
          /\ <<3, 4>>[1] = 3 /\ <<3, 4>>[2] = 4
        OBVIOUS
    <2>3. QED
        BY <1>4, <2>1, <2>2, Zenon
<1> DEFINE west == Crosses(point, region[1], region[4])
           east == Crosses(point, region[2], region[3])
           crossed == CrossedEdges(point, region)
<1>6. \A e : e \in crossed <=> (e = <<1, 4>> /\ west) \/ (e = <<2, 3>> /\ east)
    BY <1>5, Zenon
<1> HIDE DEF west, east, crossed
<1>7. crossed = (IF west THEN {<<1, 4>>} ELSE {}) \cup (IF east THEN {<<2, 3>>} ELSE {})
    <2>1. CASE west /\ east
        BY <1>6, <2>1, Zenon
    <2>2. CASE west /\ ~east
        BY <1>6, <2>2, Zenon
    <2>3. CASE ~west /\ east
        BY <1>6, <2>3, Zenon
    <2>4. CASE ~west /\ ~east
        BY <1>6, <2>4, Zenon
    <2>5. QED
        BY <2>1, <2>2, <2>3, <2>4, Zenon
<1>8. QED
    BY <1>2, <1>7 DEF west, east, crossed

\* For a rectangle with sides along the axes that starts with a side of constant latitude
\* the answer is right, although one edge is never looked at (Municipality:34-55).
THEOREM BoxesAreDecided == Spec => []BoxIsExact
<1>1. ASSUME IInv, done, Box
      PROVE  liesInside = ( /\ Between(point.latitude, region[2].latitude, region[3].latitude)
                            /\ Between(point.longitude, region[1].longitude, region[2].longitude) )
    <2>1. point \in Points /\ region \in Regions /\ liesInside \in BOOLEAN
        BY <1>1 DEF IInv, TypeOK
    <2>2. liesInside = LiesInside(point, region)
        BY <1>1 DEF IInv, ScanIsParity
    <2> DEFINE west == Crosses(point, region[1], region[4])
               east == Crosses(point, region[2], region[3])
               crossed == CrossedEdges(point, region)
               inside == Between(point.latitude, region[2].latitude, region[3].latitude)
               x == point.longitude
               a == region[1].longitude
               b == region[2].longitude
    <2>3. /\ region[1] \in Points /\ region[2] \in Points
          /\ region[3] \in Points /\ region[4] \in Points
          /\ crossed = (IF west THEN {<<1, 4>>} ELSE {}) \cup (IF east THEN {<<2, 3>>} ELSE {})
        BY <1>1, <2>1, BoxEdges
    <2>4. west <=> inside /\ x < a
        <3>1. west <=> Straddles(point, region[1], region[4]) /\ x < a
            BY <1>1, <2>1, <2>3, UprightSide DEF Box
        <3>2. Straddles(point, region[1], region[4]) <=> inside
            BY <1>1, <2>1, <2>3, StraddlesIsBetween DEF Box, Straddles
        <3>3. QED
            BY <3>1, <3>2
    <2>5. east <=> inside /\ x < b
        BY <1>1, <2>1, <2>3, UprightSide, StraddlesIsBetween DEF Box
    <2>6. x \in Int /\ a \in Int /\ b \in Int
        BY <2>1, <2>3 DEF Points
    <2>7. Between(x, a, b) <=> ~(x < a <=> x < b)
        BY <2>6 DEF Between
    <2> HIDE DEF west, east, crossed, inside
    <2>8. Cardinality(crossed) = IF west /\ east THEN 2 ELSE IF west \/ east THEN 1 ELSE 0
        <3>1. Cardinality({}) = 0 /\ IsFiniteSet({})
            BY FS_EmptySet
        <3>2. \A e : IsFiniteSet({e}) /\ Cardinality({e}) = 1
            BY FS_Singleton
        <3>3. CASE west /\ east
            <4>1. crossed = {<<1, 4>>} \cup {<<2, 3>>} /\ <<2, 3>> \notin {<<1, 4>>}
                BY <2>3, <3>3
            <4>2. IsFiniteSet({<<1, 4>>}) /\ Cardinality({<<1, 4>>}) = 1
                BY <3>2, Zenon
            <4>3. Cardinality({<<1, 4>>} \cup {<<2, 3>>}) = Cardinality({<<1, 4>>}) + 1
                BY <4>1, <4>2, FS_AddElement, Zenon
            <4>4. QED
                BY <3>3, <4>1, <4>2, <4>3
        <3>4. CASE west /\ ~east
            <4>1. crossed = {<<1, 4>>}
                BY <2>3, <3>4
            <4>2. QED
                BY <3>2, <3>4, <4>1
        <3>5. CASE ~west /\ east
            <4>1. crossed = {<<2, 3>>}
                BY <2>3, <3>5
            <4>2. QED
                BY <3>2, <3>5, <4>1
        <3>6. CASE ~west /\ ~east
            <4>1. crossed = {}
                BY <2>3, <3>6
            <4>2. QED
                BY <3>1, <3>6, <4>1
        <3>7. QED
            BY <3>3, <3>4, <3>5, <3>6
    <2>9. LiesInside(point, region) <=> ~(west <=> east)
        <3>1. LiesInside(point, region) <=> Cardinality(crossed) % 2 = 1
            BY DEF LiesInside, crossed
        <3>2. 2 % 2 = 0 /\ 1 % 2 = 1 /\ 0 % 2 = 0
            OBVIOUS
        <3>3. QED
            BY <2>8, <3>1, <3>2
    <2>10. LiesInside(point, region) <=> inside /\ Between(x, a, b)
        BY <2>4, <2>5, <2>7, <2>9
    <2>11. LiesInside(point, region) \in BOOLEAN /\ (inside /\ Between(x, a, b)) \in BOOLEAN
        BY Zenon DEF LiesInside, inside, Between
    <2>12. QED
        BY <2>2, <2>10, <2>11, Zenon DEF inside
<1>2. IInv => BoxIsExact
    BY <1>1 DEF BoxIsExact
<1>3. QED
    BY <1>2, ScanHolds, PTL

----------------------------------------------------------------------------
(* Outlines along the axes: the loop and the even-odd rule differ by the   *)
(* side that the loop never looks at.                                      *)

\* The sides are the edges the loop looks at and the one between the first two vertices.
LEMMA SidesAreExaminedAndFirst ==
    ASSUME Len(region) \in Nat, Len(region) >= 3
    PROVE  /\ Sides = Examined(region) \cup {<<1, 2>>}
           /\ <<1, 2>> \notin Examined(region)
<1> DEFINE n == Len(region)
<1>1. <<1, 2>> \in (1 .. n) \X (1 .. n)
    OBVIOUS
<1>2. ASSUME NEW a \in 1 .. n, NEW b \in 1 .. n
      PROVE  b = a + 1 <=> (a > 1 /\ b = a + 1) \/ (a = 1 /\ b = 2)
    OBVIOUS
<1> DEFINE examined(e) == e = <<1, n>> \/ (e[1] > 1 /\ e[2] = e[1] + 1)
<1>5. ASSUME NEW e \in (1 .. n) \X (1 .. n)
      PROVE  e = <<1, n>> \/ e[2] = e[1] + 1 <=> examined(e) \/ e = <<1, 2>>
    <2>1. e[1] \in 1 .. n /\ e[2] \in 1 .. n
        OBVIOUS
    <2>2. e = <<1, 2>> <=> e[1] = 1 /\ e[2] = 2
        OBVIOUS
    <2>3. QED
        BY <1>2, <2>1, <2>2
<1>3. <<1, 2>> # <<1, n>> /\ ~(<<1, 2>>[1] > 1)
    <2>1. \A k \in Nat : k >= 3 => k # 2
        OBVIOUS
    <2>2. <<1, 2>>[1] = 1 /\ <<1, 2>>[2] = 2 /\ <<1, n>>[2] = n
        OBVIOUS
    <2>3. n # 2
        BY <2>1
    <2>4. ~(1 > 1)
        OBVIOUS
    <2> HIDE DEF n
    <2>5. QED
        BY <2>2, <2>3, <2>4, Zenon
<1>4. Sides = Examined(region) \cup {<<1, 2>>}
    BY <1>1, <1>5 DEF Sides, Examined
<1>6. QED
    BY <1>3, <1>4 DEF Examined

\* A side along an axis is met by the ray if and only if the code says so: it is upright, and
\* its slope is not used, or it is flat, and nothing meets it.
LEMMA AxisSideIsCrossedWhenMet ==
    ASSUME NEW p \in Points, NEW a \in Points, NEW b \in Points,
           a.latitude = b.latitude \/ a.longitude = b.longitude
    PROVE  Meets(p, a, b) <=> Crosses(p, a, b)
<1>1. CASE a.latitude = b.latitude
    BY <1>1 DEF Meets, Crosses, Straddles
<1>2. CASE a.longitude = b.longitude
    <2>1. a.longitude - b.longitude = b.longitude - a.longitude
        BY <1>2
    <2>2. QED
        BY <2>1 DEF Meets, Crosses
<1>3. QED
    BY <1>1, <1>2

\* The sides met are the edges crossed, and the first side if it is met.
LEMMA MetSides ==
    ASSUME point \in Points, region \in Regions, Len(region) >= 3, Rectilinear
    PROVE  /\ {e \in Sides : Meets(point, region[e[1]], region[e[2]])} =
                IF Meets(point, region[1], region[2])
                THEN CrossedEdges(point, region) \cup {<<1, 2>>}
                ELSE CrossedEdges(point, region)
           /\ <<1, 2>> \notin CrossedEdges(point, region)
<1> DEFINE met(e) == Meets(point, region[e[1]], region[e[2]])
           crossed(e) == Crosses(point, region[e[1]], region[e[2]])
<1>1. region \in Seq(Points) /\ Len(region) \in Nat
    BY RegionIsSeq
<1>2. Sides = Examined(region) \cup {<<1, 2>>} /\ <<1, 2>> \notin Examined(region)
    BY <1>1, SidesAreExaminedAndFirst
<1>3. ASSUME NEW e \in Sides PROVE met(e) <=> crossed(e)
    <2>1. region[e[1]] \in Points /\ region[e[2]] \in Points
        BY <1>1 DEF Sides
    <2>2. \/ region[e[1]].latitude = region[e[2]].latitude
          \/ region[e[1]].longitude = region[e[2]].longitude
        BY DEF Rectilinear
    <2>3. QED
        BY <2>1, <2>2, AxisSideIsCrossedWhenMet
<1>4. CrossedEdges(point, region) = {e \in Examined(region) : crossed(e)}
    BY DEF CrossedEdges
<1>5. met(<<1, 2>>) <=> Meets(point, region[1], region[2])
    OBVIOUS
<1> HIDE DEF met, crossed
<1>6. CASE Meets(point, region[1], region[2])
    <2>1. {e \in Sides : met(e)} = {e \in Examined(region) : crossed(e)} \cup {<<1, 2>>}
        BY <1>2, <1>3, <1>5, <1>6, Zenon
    <2>2. QED
        BY <1>2, <1>4, <1>6, <2>1 DEF met
<1>7. CASE ~Meets(point, region[1], region[2])
    <2>1. {e \in Sides : met(e)} = {e \in Examined(region) : crossed(e)}
        BY <1>2, <1>3, <1>5, <1>7, Zenon
    <2>2. QED
        BY <1>2, <1>4, <1>7, <2>1 DEF met
<1>8. QED
    BY <1>6, <1>7

\* On every outline along the axes the answer is that of the even-odd rule, except for the
\* points whose ray meets the side from the first vertex to the second (Municipality:34-55).
THEOREM FirstSideIsNeverLookedAt == Spec => []FirstSideIsMissing
<1>1. ASSUME IInv, done, Len(region) >= 3, Rectilinear
      PROVE  liesInside = (EvenOdd # Meets(point, region[1], region[2]))
    <2> DEFINE crossed == CrossedEdges(point, region)
               all == {e \in Sides : Meets(point, region[e[1]], region[e[2]])}
               first == Meets(point, region[1], region[2])
    <2>1. point \in Points /\ region \in Regions /\ liesInside \in BOOLEAN
        BY <1>1 DEF IInv, TypeOK
    <2>2. liesInside = (Cardinality(crossed) % 2 = 1)
        BY <1>1 DEF IInv, ScanIsParity, LiesInside
    <2>3. /\ all = IF first THEN crossed \cup {<<1, 2>>} ELSE crossed
          /\ <<1, 2>> \notin crossed
        BY <1>1, <2>1, MetSides
    <2>4. IsFiniteSet(crossed)
        BY <2>1, RegionIsSeq, PassedIsFinite
    <2>5. EvenOdd <=> Cardinality(all) % 2 = 1
        BY DEF EvenOdd
    <2>6. first \in BOOLEAN /\ EvenOdd \in BOOLEAN
        BY Zenon DEF Meets, EvenOdd
    <2> HIDE DEF crossed, all, first
    <2>7. Cardinality(crossed) \in Nat
        BY <2>4, FS_CardinalityType
    <2>8. Cardinality(all) = IF first THEN Cardinality(crossed) + 1 ELSE Cardinality(crossed)
        BY <2>3, <2>4, FS_AddElement
    <2>9. \A c \in Nat : (c + 1) % 2 = 1 <=> ~(c % 2 = 1)
        OBVIOUS
    <2>10. liesInside <=> ~(EvenOdd <=> first)
        BY <2>2, <2>5, <2>7, <2>8, <2>9
    <2>11. QED
        BY <2>1, <2>6, <2>10, Zenon DEF first
<1>2. IInv => FirstSideIsMissing
    BY <1>1 DEF FirstSideIsMissing
<1>3. QED
    BY <1>2, ScanHolds, PTL

----------------------------------------------------------------------------
(* The loop gets on: what Terminates needs besides the fairness of a       *)
(* thread.                                                                 *)

\* How many iterations are left at most, and the step out of the loop.
Remaining == (Len(region) - i) + (IF done THEN 0 ELSE 1)

\* No index is used that is not in the list: with a vertex to look at, j is not the -1
\* that it starts with on an empty list (Municipality:40-45).
THEOREM IndexesAreInTheList ==
    Spec => [](i < Len(region) => /\ i + 1 \in DOMAIN region
                                  /\ Safe(j) => j + 1 \in DOMAIN region)
<1>1. ASSUME IInv, i < Len(region)
      PROVE  i + 1 \in DOMAIN region /\ (Safe(j) => j + 1 \in DOMAIN region)
    <2>0. DOMAIN region = 1 .. Len(region)
        BY <1>1, RegionIsSeq, LenProperties DEF IInv, TypeOK
    <2>1. Len(region) \in Nat
        BY <1>1, RegionIsSeq DEF IInv, TypeOK
    <2>2. i \in 0 .. Len(region) /\ j \in -1 .. Len(region) + 1 /\ Paired
        BY <1>1, Zenon DEF IInv, TypeOK
    <2>3. i + 1 \in 1 .. Len(region)
        BY <1>1, <2>1, <2>2
    <2>4. ASSUME Safe(j) PROVE j + 1 \in 1 .. Len(region)
        BY <1>1, <2>1, <2>2, <2>4 DEF Paired, Safe
    <2>5. QED
        BY <2>0, <2>3, <2>4
<1>2. QED
    BY <1>1, ScanHolds, PTL

\* Every step of the loop brings it nearer to its end, on every list of vertices.
THEOREM EveryStepAdvances ==
    Spec => /\ [](Remaining \in Nat)
            /\ [][Remaining' < Remaining]_vars
<1>1. IInv => Remaining \in Nat
    <2> SUFFICES ASSUME IInv PROVE Remaining \in Nat
        OBVIOUS
    <2>1. Len(region) \in Nat /\ i \in 0 .. Len(region)
        BY RegionIsSeq DEF IInv, TypeOK
    <2>2. QED
        BY <2>1 DEF Remaining
<1>2. IInv /\ [Next]_vars => [Remaining' < Remaining]_vars
    <2> SUFFICES ASSUME IInv, Next PROVE Remaining' < Remaining
        OBVIOUS
    <2>1. Len(region) \in Nat /\ i \in Nat
        BY RegionIsSeq DEF IInv, TypeOK
    <2>2. CASE Iterate
        <3>1. region' = region /\ done' = done /\ i' = i + 1
            BY <2>2 DEF Iterate
        <3>2. QED
            BY <2>1, <3>1 DEF Remaining
    <2>3. CASE Break \/ Leave
        <3>1. region' = region /\ i' = i /\ ~done /\ done' = TRUE
            BY <2>3 DEF Break, Leave
        <3>2. QED
            BY <2>1, <3>1 DEF Remaining
    <2>4. QED
        BY <2>2, <2>3 DEF Next
<1>3. QED
    BY <1>1, <1>2, ScanHolds, PTL DEF Spec

----------------------------------------------------------------------------
(* What the answer is far away from the vertices, whatever the slope.      *)

\* A point that is not below any vertex, or below all of them, is outside: its ray meets
\* nothing, whatever edges are looked at.
THEOREM BeyondTheLatitudesIsOutside ==
    ASSUME NEW p \in Coordinates, NEW vertices \in Seq(Coordinates),
           \/ \A n \in 1 .. Len(vertices) : vertices[n].latitude <= p.latitude
           \/ \A n \in 1 .. Len(vertices) : p.latitude < vertices[n].latitude
    PROVE  ~LiesInside(p, vertices)
<1>1. ASSUME NEW e \in Examined(vertices)
      PROVE  ~Crosses(p, vertices[e[1]], vertices[e[2]])
    <2>1. e[1] \in 1 .. Len(vertices) /\ e[2] \in 1 .. Len(vertices)
        BY DEF Examined
    <2>2. vertices[e[1]] \in Coordinates /\ vertices[e[2]] \in Coordinates
        BY <2>1
    <2>3. p.latitude \in Int /\ vertices[e[1]].latitude \in Int /\ vertices[e[2]].latitude \in Int
        BY <2>2 DEF Coordinates
    <2>4. ~Straddles(p, vertices[e[1]], vertices[e[2]])
        BY <2>1, <2>3 DEF Straddles
    <2>5. QED
        BY <2>4, Zenon DEF Crosses
<1>2. CrossedEdges(p, vertices) = {}
    BY <1>1 DEF CrossedEdges
<1>3. Cardinality(CrossedEdges(p, vertices)) = 0
    BY <1>2, FS_EmptySet
<1>4. QED
    BY <1>3 DEF LiesInside
=============================================================================
