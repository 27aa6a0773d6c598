------------------------------- MODULE Region -------------------------------
(***************************************************************************)
(* CLLocationCoordinate2D.liesInsideRegion: is a coordinate inside the     *)
(* polygon with the given vertices?  Coordinates are integers here; the    *)
(* comparison with a quotient is multiplied out, which decides it as the   *)
(* code's doubles do on a small grid.                                      *)
(***************************************************************************)
EXTENDS Integers, Sequences, FiniteSets

Coordinates == [latitude : Int, longitude : Int]

\* Mutant of Straddles: a vertex at p's latitude counts as above it.
StraddlesFromBelow(p, a, b) == (a.latitude >= p.latitude) # (b.latitude >= p.latitude)

\* The edge's ends are on different sides of p's latitude.
Straddles(p, a, b) == (a.latitude > p.latitude) # (b.latitude > p.latitude)

\* The ray from p towards greater longitudes meets the edge from a to b, as the code
\* computes it: the slope has the opposite sign of the edge's.
Crosses(p, a, b) ==
    /\ Straddles(p, a, b)
    /\ LET d == b.latitude - a.latitude
           run == (a.longitude - b.longitude) * (p.latitude - a.latitude)
       IN  IF d > 0 THEN (p.longitude - a.longitude) * d < run
                    ELSE (p.longitude - a.longitude) * d > run

\* The edges the loop looks at, by the (1-based) positions of their ends: the one from
\* the first vertex to the last, and those after the second vertex.  The edge between
\* the first two is not among them.
Examined(region) ==
    LET n == Len(region)
    IN  {e \in (1 .. n) \X (1 .. n) :
            e = <<1, n>> \/ (e[1] > 1 /\ e[2] = e[1] + 1)}

CrossedEdges(p, region) ==
    {e \in Examined(region) : Crosses(p, region[e[1]], region[e[2]])}

LiesInside(p, region) == Cardinality(CrossedEdges(p, region)) % 2 = 1
=============================================================================
