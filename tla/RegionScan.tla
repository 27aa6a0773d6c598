----------------------------- MODULE RegionScan -----------------------------
(***************************************************************************)
(* The loop of liesInsideRegion, one iteration a step, on every polygon    *)
(* and point of a grid; Region has what it computes as a definition.       *)
(***************************************************************************)
EXTENDS Region

CONSTANTS
    Grid,         \* the coordinates of points and vertices, latitudes and longitudes alike
    MaxVertices   \* bound on the number of vertices

ASSUME GridAssumption == Grid \subseteq Int /\ MaxVertices \in Nat

Points == [latitude : Grid, longitude : Grid]
Regions == UNION {[1 .. n -> Points] : n \in 0 .. MaxVertices}

VARIABLES
    point, region,   \* self and the argument
    i, j,            \* the code's indexes, from 0
    liesInside,
    done             \* the loop was left

vars == <<point, region, i, j, liesInside, done>>

\* The type invariant.
TypeOK ==
    /\ point \in Points /\ region \in Regions
    /\ i \in 0 .. Len(region) /\ j \in -1 .. Len(region) + 1
    /\ liesInside \in BOOLEAN /\ done \in BOOLEAN

Init ==
    /\ point \in Points /\ region \in Regions
    /\ i = 0 /\ j = Len(region) - 1
    /\ liesInside = FALSE /\ done = FALSE

\* region[safe:], for an index that is not negative.
Safe(k) == k < Len(region)

\* Mutant of Iterate: i is counted up twice.
IterateByTwo ==
    /\ ~done /\ i < Len(region) /\ Safe(i) /\ Safe(j)
    /\ liesInside' = (liesInside # Crosses(point, region[i + 1], region[j + 1]))
    /\ i' = i + 2
    /\ j' = i' + 1
    /\ UNCHANGED <<point, region, done>>

\* Mutant of Iterate: the flag is set, not inverted.
IterateSetting ==
    /\ ~done /\ i < Len(region) /\ Safe(i) /\ Safe(j)
    /\ liesInside' = (liesInside \/ Crosses(point, region[i + 1], region[j + 1]))
    /\ i' = i + 1
    /\ j' = i' + 1
    /\ UNCHANGED <<point, region, done>>

\* Both vertices are there: the edge is examined.
Iterate ==
    /\ ~done /\ i < Len(region) /\ Safe(i) /\ Safe(j)
    /\ liesInside' = (liesInside # Crosses(point, region[i + 1], region[j + 1]))
    /\ i' = i + 1
    /\ j' = i' + 1
    /\ UNCHANGED <<point, region, done>>

\* Mutant of Break: continue.
Continue ==
    /\ ~done /\ i < Len(region) /\ ~Safe(j)
    /\ UNCHANGED vars

\* region[safe:j] is nil: break.
Break ==
    /\ ~done /\ i < Len(region) /\ ~Safe(j)
    /\ done' = TRUE
    /\ UNCHANGED <<point, region, i, j, liesInside>>

\* The condition of the loop is false.
Leave ==
    /\ ~done /\ i >= Len(region)
    /\ done' = TRUE
    /\ UNCHANGED <<point, region, i, j, liesInside>>

Next == Iterate \/ Break \/ Leave

Spec == Init /\ [][Next]_vars /\ WF_vars(Next)

----------------------------------------------------------------------------
(* Properties.                                                             *)

\* At every iteration the flag is the parity of the crossed edges among those passed,
\* so that the loop, with its two indexes and its two ways out, decides LiesInside.
ScanIsParity ==
    LET passed == {e \in CrossedEdges(point, region) : e[1] <= i}
    IN  /\ liesInside = (Cardinality(passed) % 2 = 1)
        /\ done => liesInside = LiesInside(point, region)

\* A rectangle with sides along the axes that is listed from one end of a side of
\* constant latitude: the edge the loop leaves out can never be crossed.
Box ==
    /\ Len(region) = 4
    /\ region[1].latitude = region[2].latitude /\ region[3].latitude = region[4].latitude
    /\ region[2].longitude = region[3].longitude /\ region[4].longitude = region[1].longitude

Between(x, a, b) == (a <= x /\ x < b) \/ (b <= x /\ x < a)

\* For such a rectangle the answer is right, the lower bounds belonging to it and the
\* upper ones not, in whichever direction it is listed (Municipality:34-55).
BoxIsExact ==
    done /\ Box =>
        liesInside = ( /\ Between(point.latitude, region[2].latitude, region[3].latitude)
                       /\ Between(point.longitude, region[1].longitude, region[2].longitude) )

\* The even-odd rule over all sides, with every side's own slope.
Sides ==
    {e \in (1 .. Len(region)) \X (1 .. Len(region)) : e = <<1, Len(region)>> \/ e[2] = e[1] + 1}

Meets(p, a, b) ==
    /\ Straddles(p, a, b)
    /\ LET d == b.latitude - a.latitude
           run == (b.longitude - a.longitude) * (p.latitude - a.latitude)
       IN  IF d > 0 THEN (p.longitude - a.longitude) * d < run
                    ELSE (p.longitude - a.longitude) * d > run

EvenOdd == Cardinality({e \in Sides : Meets(point, region[e[1]], region[e[2]])}) % 2 = 1

Rectilinear ==
    \A e \in Sides :
        \/ region[e[1]].latitude = region[e[2]].latitude
        \/ region[e[1]].longitude = region[e[2]].longitude

\* On an outline with all sides along the axes the sign of the slope does not matter, and
\* the only thing between the loop and the even-odd rule is the side from the first vertex
\* to the second: the answer is wrong for exactly the points whose ray meets that side
\* (Municipality:34-55).
FirstSideIsMissing ==
    done /\ Len(region) >= 3 /\ Rectilinear =>
        liesInside = (EvenOdd # Meets(point, region[1], region[2]))

\* The loop ends on every list of vertices: the empty list, where j starts at -1, and
\* one vertex, where i and j start as the same index, included.
Terminates == <>done
=============================================================================
