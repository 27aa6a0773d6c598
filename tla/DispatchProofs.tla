--------------------------- MODULE DispatchProofs ---------------------------
(***************************************************************************)
(* No municipality ever receives a report, wherever it was made.           *)
(***************************************************************************)
EXTENDS Dispatch, FiniteSetTheorems, TLAPS

\* A region of one vertex contains no coordinate: its only edge joins the vertex to
\* itself, and both ends are on the same side of every latitude (Municipality:34-55).
THEOREM OneVertexIsNeverInside ==
    ASSUME NEW p, NEW q
    PROVE  ~LiesInside(p, <<q>>)
<1>1. CrossedEdges(p, <<q>>) = {}
    BY DEF CrossedEdges, Examined, Crosses, Straddles
<1>2. Cardinality(CrossedEdges(p, <<q>>)) = 0
    BY <1>1, FS_EmptySet
<1>3. QED
    BY <1>2 DEF LiesInside

\* Every municipality's forms stay nil, for two reasons each of which is enough: no
\* region of one vertex contains the report, and forms?.append appends to nothing.
THEOREM NothingIsReceived ==
    Spec => [](\A m \in Municipalities : received[m] = Missing)
<1> DEFINE AllNil == received = [m \in Municipalities |-> Missing]
<1>1. Init => AllNil
    BY DEF Init
<1>2. AllNil /\ [Next]_vars => AllNil'
    <2> SUFFICES ASSUME AllNil, [Next]_vars PROVE AllNil'
        OBVIOUS
    <2>1. ASSUME NEW m \in waiting, Offer(m)
          PROVE  AllNil'
        BY <2>1, OneVertexIsNeverInside DEF Offer
    <2>2. QED
        BY <2>1 DEF Next, vars
<1>3. AllNil => \A m \in Municipalities : received[m] = Missing
    OBVIOUS
<1>4. QED
    BY <1>1, <1>2, <1>3, PTL DEF Spec
=============================================================================
