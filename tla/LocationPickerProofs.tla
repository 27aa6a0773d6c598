------------------------ MODULE LocationPickerProofs ------------------------
(***************************************************************************)
(* Theorems about LocationPicker, for every set of places, every number of *)
(* visits and moves, and every order of the geocoder's answers.            *)
(***************************************************************************)
EXTENDS LocationPicker, TLAPS

USE PlaceAssumption, BoundAssumption DEF PlaceAssumption, BoundAssumption

----------------------------------------------------------------------------
(* Type correctness.                                                       *)

\* The form with its picker not yet opened.
LEMMA InitTypes == Init => TypeOK
<1> SUFFICES ASSUME Init PROVE TypeOK OBVIOUS
<1>1. FlagTypes BY DEF Init, FlagTypes
<1>2. PickerTypes BY DEF Init, PickerTypes, Texts
<1>3. LookupTypes BY DEF Init, LookupTypes
<1>4. FormTypes BY DEF Init, FormTypes, Texts
<1> QED BY <1>1, <1>2, <1>3, <1>4 DEF TypeOK

\* A count that is replaced by a number stays one of the counts.
LEMMA CountReplaced ==
    ASSUME NEW S, NEW f \in [S -> Nat], NEW x \in S, NEW n \in Nat
    PROVE  [f EXCEPT ![x] = n] \in [S -> Nat]
OBVIOUS

\* An answer takes one request away from a positive count.
LEMMA AnsweredTypes ==
    ASSUME LookupTypes, NEW v \in 1 .. MaxVisits, NEW p \in Places, Answered(v, p)
    PROVE  LookupTypes'
<1> DEFINE l == <<v, p>>
<1>1. l \in Lookups BY DEF Lookups
<1>2. lookups[l] \in Nat /\ lookups[l] > 0 BY <1>1 DEF LookupTypes, Answered
<1>3. lookups[l] - 1 \in Nat BY <1>2
<1>4. lookups' = [lookups EXCEPT ![l] = lookups[l] - 1] BY DEF Answered
<1> HIDE DEF l
<1>5. [lookups EXCEPT ![l] = lookups[l] - 1] \in [Lookups -> Nat]
  BY <1>1, <1>3, CountReplaced DEF LookupTypes
<1> QED BY <1>4, <1>5 DEF LookupTypes

\* A picker that is gone has the types of one that was never there.
LEMMA ReleaseTypes ==
    ASSUME TypeOK, Release, visit' = visit
    PROVE  PickerTypes'
BY DEF TypeOK, PickerTypes, Release, Texts

\* What is not touched keeps its types.
LEMMA StutterTypes ==
    ASSUME TypeOK
    PROVE  /\ UNCHANGED lookups => LookupTypes'
           /\ UNCHANGED <<formLocation, formAddress, label>> => FormTypes'
           /\ UNCHANGED vars => TypeOK'
<1>1. UNCHANGED lookups => LookupTypes' BY DEF TypeOK, LookupTypes
<1>2. UNCHANGED <<formLocation, formAddress, label>> => FormTypes' BY DEF TypeOK, FormTypes
<1>3. ASSUME UNCHANGED vars PROVE TypeOK'
  <2>1. FlagTypes' BY <1>3 DEF TypeOK, FlagTypes, vars, picker, form
  <2>2. PickerTypes' BY <1>3 DEF TypeOK, PickerTypes, vars, picker, form
  <2> QED BY <1>1, <1>2, <1>3, <2>1, <2>2 DEF TypeOK, vars, form
<1> QED BY <1>1, <1>2, <1>3

\* The steps of the user, of Core Location and of the map preserve the types.
LEMMA GestureTypes ==
    ASSUME TypeOK,
           \/ ShowMap \/ SendLocation \/ GoBack \/ BackToCurrent \/ RegionDidChange
           \/ \E p \in Places : Fix(p) \/ Pan(p) \/ DragPin(p)
           \/ \E t \in {NoText, Typed} : EditText(t)
    PROVE  TypeOK'
<1> USE StutterTypes DEF form
<1>1. CASE ShowMap
  <2>1. FlagTypes' BY <1>1 DEF ShowMap, FlagTypes, TypeOK
  <2>2. PickerTypes' BY <1>1 DEF ShowMap, PickerTypes, TypeOK
  <2> QED BY <1>1, <2>1, <2>2 DEF ShowMap, TypeOK
<1>2. CASE SendLocation
  <2>1. FlagTypes' BY <1>2 DEF SendLocation, Release, FlagTypes, TypeOK
  <2>2. PickerTypes' BY <1>2, ReleaseTypes DEF SendLocation
  <2>3. FormTypes' BY <1>2 DEF SendLocation, FormTypes, PickerTypes, TypeOK
  <2> QED BY <1>2, <2>1, <2>2, <2>3 DEF SendLocation, TypeOK
<1>3. CASE GoBack
  <2>1. FlagTypes' BY <1>3 DEF GoBack, Release, FlagTypes, TypeOK
  <2>2. PickerTypes' BY <1>3, ReleaseTypes DEF GoBack
  <2> QED BY <1>3, <2>1, <2>2 DEF GoBack, TypeOK
<1>4. CASE BackToCurrent
  <2>1. FlagTypes' BY <1>4 DEF BackToCurrent, FlagTypes, TypeOK
  <2>2. PickerTypes' BY <1>4 DEF BackToCurrent, PickerTypes, TypeOK
  <2> QED BY <1>4, <2>1, <2>2 DEF BackToCurrent, TypeOK
<1>5. CASE RegionDidChange
  <2>1. FlagTypes' BY <1>5 DEF RegionDidChange, FlagTypes, TypeOK
  <2>2. PickerTypes' BY <1>5 DEF RegionDidChange, PickerTypes, TypeOK
  <2>3. LookupTypes'
    <3> DEFINE l == <<visit, centre>>
    <3>1. lookups' = [lookups EXCEPT ![l] = lookups[l] + 1] BY <1>5 DEF RegionDidChange
    <3>2. lookups \in [Lookups -> Nat] BY DEF TypeOK, LookupTypes
    <3> HIDE DEF l
    <3>3. CASE l \in Lookups
      <4>1. lookups[l] + 1 \in Nat BY <3>2, <3>3
      <4> QED BY <3>1, <3>2, <3>3, <4>1, CountReplaced DEF LookupTypes
    <3>4. CASE l \notin Lookups
      <4>1. lookups' = lookups BY <3>1, <3>2, <3>4
      <4> QED BY <3>2, <4>1 DEF LookupTypes
    <3> QED BY <3>3, <3>4
  <2> QED BY <1>5, <2>1, <2>2, <2>3 DEF RegionDidChange, TypeOK
<1>6. ASSUME NEW p \in Places, Fix(p) PROVE TypeOK'
  <2>1. FlagTypes' BY <1>6 DEF Fix, FlagTypes, TypeOK
  <2>2. PickerTypes' BY <1>6 DEF Fix, PickerTypes, TypeOK
  <2> QED BY <1>6, <2>1, <2>2 DEF Fix, TypeOK
<1>7. ASSUME NEW p \in Places, Pan(p) PROVE TypeOK'
  <2>1. FlagTypes' BY <1>7 DEF Pan, FlagTypes, TypeOK
  <2>2. PickerTypes' BY <1>7 DEF Pan, PickerTypes, TypeOK
  <2> QED BY <1>7, <2>1, <2>2 DEF Pan, TypeOK
<1>8. ASSUME NEW t \in {NoText, Typed}, EditText(t) PROVE TypeOK'
  <2>1. FlagTypes' BY <1>8 DEF EditText, FlagTypes, TypeOK
  <2>2. PickerTypes' BY <1>8 DEF EditText, PickerTypes, TypeOK, Texts
  <2> QED BY <1>8, <2>1, <2>2 DEF EditText, TypeOK
<1>9. ASSUME NEW p \in Places, DragPin(p) PROVE TypeOK'
  <2>1. FlagTypes' BY <1>9 DEF DragPin, FlagTypes, TypeOK
  <2>2. PickerTypes' BY <1>9 DEF DragPin, PickerTypes, TypeOK
  <2> QED BY <1>9, <2>1, <2>2 DEF DragPin, TypeOK
<1> QED BY <1>1, <1>2, <1>3, <1>4, <1>5, <1>6, <1>7, <1>8, <1>9

\* So do the geocoder's answers.
LEMMA ReplyTypes ==
    ASSUME TypeOK, NEW v \in 1 .. MaxVisits, NEW p \in Places,
           ReplyAddress(v, p) \/ ReplyNothing(v, p) \/ ReplyCrash(v, p)
    PROVE  TypeOK'
<1> USE StutterTypes DEF form
<1>1. LookupTypes'
  BY AnsweredTypes DEF ReplyAddress, ReplyNothing, ReplyCrash, TypeOK
<1>2. CASE ReplyAddress(v, p)
  <2>1. FlagTypes' BY <1>2 DEF ReplyAddress, Answered, FlagTypes, TypeOK
  <2>2. PickerTypes' BY <1>2 DEF ReplyAddress, PickerTypes, TypeOK, Texts
  <2> QED BY <1>1, <1>2, <2>1, <2>2 DEF ReplyAddress, TypeOK
<1>3. CASE ReplyNothing(v, p)
  <2>1. FlagTypes' BY <1>3 DEF ReplyNothing, picker, FlagTypes, TypeOK
  <2>2. PickerTypes' BY <1>3 DEF ReplyNothing, picker, PickerTypes, TypeOK
  <2> QED BY <1>1, <1>3, <2>1, <2>2 DEF ReplyNothing, TypeOK
<1>4. CASE ReplyCrash(v, p)
  <2>1. FlagTypes' BY <1>4 DEF ReplyCrash, Release, FlagTypes, TypeOK
  <2>2. PickerTypes' BY <1>4, ReleaseTypes DEF ReplyCrash
  <2> QED BY <1>1, <1>4, <2>1, <2>2 DEF ReplyCrash, TypeOK
<1> QED BY <1>2, <1>3, <1>4
----------------------------------------------------------------------------
(* The inductive invariant.                                                *)

\* Nothing of a picker outlives it, so that the next one starts from nothing.
Released == ~open => pin = NoPin /\ ~due /\ text = NoText /\ stops = {}

\* What Confirm delivers is (0, 0) or a place of this visit.
LocationIsOfThisVisit == userLocation \in stops \cup {Origin}

\* A map at rest that has reported a region stands where the last report was.
LocationAtRest == pin # NoPin /\ ~due => userLocation = centre

PickerInv ==
    /\ Released
    /\ LocationIsOfThisVisit
    /\ LocationAtRest
    /\ AddressIsOfThisVisit

\* A request is of a visit that has begun, and those of the visit in hand are for places
\* of that visit.  This is what keeps late answers apart.
LookupsBelong ==
    \A v \in 1 .. MaxVisits, p \in Places :
        lookups[<<v, p>>] # 0 => v <= visit /\ (open /\ v = visit => p \in stops)

IInv == TypeOK /\ PickerInv /\ LookupsBelong /\ CellShowsAddress

\* The invariant holds before the first visit.
LEMMA InitInv == Init => IInv
<1> SUFFICES ASSUME Init PROVE IInv OBVIOUS
<1>1. TypeOK BY InitTypes
<1>2. PickerInv
  BY DEF Init, PickerInv, Released, LocationIsOfThisVisit, LocationAtRest,
         AddressIsOfThisVisit
<1>3. CellShowsAddress BY DEF Init, CellShowsAddress
<1>4. LookupsBelong BY DEF Init, LookupsBelong, Lookups
<1> QED BY <1>1, <1>2, <1>3, <1>4 DEF IInv

\* A step that leaves the form alone leaves the cell as it is.
LEMMA CellKept ==
    ASSUME CellShowsAddress, UNCHANGED form
    PROVE  CellShowsAddress'
BY DEF CellShowsAddress, form

\* Confirm shows in the cell what it puts into the form.
LEMMA CellAfterConfirm ==
    ASSUME TypeOK, CellShowsAddress, SendLocation
    PROVE  CellShowsAddress'
<1>1. label' = formAddress' BY DEF SendLocation
<1>2. CASE label' = NoText
  <2>1. UNCHANGED <<instruction, moved>> BY <1>2 DEF SendLocation
  <2> QED BY <1>1, <1>2, <2>1 DEF CellShowsAddress
<1>3. CASE label' # NoText
  <2>1. instruction' = FALSE /\ moved' = TRUE BY <1>3 DEF SendLocation
  <2> QED BY <1>1, <2>1 DEF CellShowsAddress
<1> QED BY <1>2, <1>3

\* A picker that goes leaves the invariant behind.
LEMMA ReleaseInv == ASSUME Release PROVE PickerInv'
BY DEF Release, PickerInv, Released, LocationIsOfThisVisit, LocationAtRest,
       AddressIsOfThisVisit

\* A step that makes no request and starts no visit leaves the requests where they belong.
LEMMA LookupsKept ==
    ASSUME LookupsBelong, lookups' = lookups, visit' = visit,
           open' => open, open' => stops' = stops
    PROVE  LookupsBelong'
BY DEF LookupsBelong

\* A new visit has no requests yet.
LEMMA LookupsAtShowMap ==
    ASSUME TypeOK, LookupsBelong, ShowMap
    PROVE  LookupsBelong'
<1>1. visit \in Nat BY DEF TypeOK, PickerTypes
<1>2. lookups' = lookups /\ visit' = visit + 1 BY DEF ShowMap
<1> QED BY <1>1, <1>2 DEF LookupsBelong

\* A request is made for a place that is counted as a stop.
LEMMA LookupsAtRegionDidChange ==
    ASSUME TypeOK, LookupsBelong, RegionDidChange
    PROVE  LookupsBelong'
<1> SUFFICES ASSUME NEW v \in 1 .. MaxVisits, NEW p \in Places, lookups'[<<v, p>>] # 0
             PROVE  v <= visit' /\ (open' /\ v = visit' => p \in stops')
  BY DEF LookupsBelong
<1>1. visit' = visit /\ open' = open /\ stops' = stops \cup {centre} BY DEF RegionDidChange
<1>2. lookups \in [Lookups -> Nat] /\ <<v, p>> \in Lookups
  BY DEF TypeOK, LookupTypes, Lookups
<1>3. visit \in Nat BY DEF TypeOK, PickerTypes
<1>4. CASE v = visit /\ p = centre BY <1>1, <1>3, <1>4
<1>5. CASE ~(v = visit /\ p = centre)
  <2>1. lookups'[<<v, p>>] = lookups[<<v, p>>] BY <1>2, <1>5 DEF RegionDidChange
  <2> QED BY <1>1, <2>1 DEF LookupsBelong
<1> QED BY <1>4, <1>5

\* An answer takes requests away only.
LEMMA LookupsAtAnswer ==
    ASSUME TypeOK, LookupsBelong, NEW v \in 1 .. MaxVisits, NEW p \in Places, Answered(v, p),
           visit' = visit, open' => open, open' => stops' = stops
    PROVE  LookupsBelong'
<1> SUFFICES ASSUME NEW w \in 1 .. MaxVisits, NEW q \in Places, lookups'[<<w, q>>] # 0
             PROVE  w <= visit' /\ (open' /\ w = visit' => q \in stops')
  BY DEF LookupsBelong
<1>1. lookups \in [Lookups -> Nat] /\ <<w, q>> \in Lookups /\ <<v, p>> \in Lookups
  BY DEF TypeOK, LookupTypes, Lookups
<1>2. lookups[<<w, q>>] # 0
  <2>1. CASE <<w, q>> = <<v, p>> BY <1>1, <2>1 DEF Answered
  <2>2. CASE <<w, q>> # <<v, p>> BY <1>1, <2>2 DEF Answered
  <2> QED BY <2>1, <2>2
<1> QED BY <1>2 DEF LookupsBelong

\* The text that an answer puts into the field is the address of a place of this visit.
LEMMA AnswerInv ==
    ASSUME TypeOK, PickerInv, LookupsBelong, NEW v \in 1 .. MaxVisits, NEW p \in Places,
           ReplyAddress(v, p)
    PROVE  PickerInv'
<1>1. open /\ v = visit => p \in stops
  <2>1. lookups[<<v, p>>] > 0 /\ lookups[<<v, p>>] \in Nat
    BY DEF ReplyAddress, Answered, TypeOK, LookupTypes, Lookups
  <2> QED BY <2>1 DEF LookupsBelong
<1>2. AddressIsOfThisVisit' BY <1>1 DEF ReplyAddress, PickerInv, AddressIsOfThisVisit
<1>3. Released'
  <2>1. ~open => text' = text BY DEF ReplyAddress
  <2> QED BY <2>1 DEF ReplyAddress, PickerInv, Released
<1>4. (LocationIsOfThisVisit /\ LocationAtRest)'
  BY DEF ReplyAddress, PickerInv, LocationIsOfThisVisit, LocationAtRest
<1> QED BY <1>2, <1>3, <1>4 DEF PickerInv

\* Every step preserves the invariant.
LEMMA StepInv == IInv /\ [Next]_vars => IInv'
<1> SUFFICES ASSUME IInv, [Next]_vars PROVE IInv' OBVIOUS
<1> USE DEF IInv
<1>1. CASE UNCHANGED vars
  <2>1. TypeOK' BY <1>1, StutterTypes
  <2>2. CellShowsAddress' BY <1>1, CellKept DEF vars
  <2>3. PickerInv'
    BY <1>1 DEF vars, picker, PickerInv, Released, LocationIsOfThisVisit,
                LocationAtRest, AddressIsOfThisVisit
  <2>9. LookupsBelong' BY <1>1, LookupsKept DEF vars
  <2> QED BY <2>1, <2>2, <2>3, <2>9
<1>2. CASE ShowMap
  <2>1. TypeOK' BY <1>2, GestureTypes
  <2>2. CellShowsAddress' BY <1>2, CellKept DEF ShowMap
  <2>3. PickerInv'
    BY <1>2 DEF ShowMap, PickerInv, Released, LocationIsOfThisVisit,
                LocationAtRest, AddressIsOfThisVisit
  <2>9. LookupsBelong' BY <1>2, LookupsAtShowMap
  <2> QED BY <2>1, <2>2, <2>3, <2>9
<1>3. CASE SendLocation
  <2>1. TypeOK' BY <1>3, GestureTypes
  <2>2. CellShowsAddress' BY <1>3, CellAfterConfirm
  <2>3. PickerInv' BY <1>3, ReleaseInv DEF SendLocation
  <2>9. LookupsBelong' BY <1>3, LookupsKept DEF SendLocation, Release
  <2> QED BY <2>1, <2>2, <2>3, <2>9
<1>4. CASE GoBack
  <2>1. TypeOK' BY <1>4, GestureTypes
  <2>2. CellShowsAddress' BY <1>4, CellKept DEF GoBack
  <2>3. PickerInv' BY <1>4, ReleaseInv DEF GoBack
  <2>9. LookupsBelong' BY <1>4, LookupsKept DEF GoBack, Release
  <2> QED BY <2>1, <2>2, <2>3, <2>9
<1>5. CASE BackToCurrent
  <2>1. TypeOK' BY <1>5, GestureTypes
  <2>2. CellShowsAddress' BY <1>5, CellKept DEF BackToCurrent
  <2>3. centre' = centre \/ due' = TRUE
    <3>1. CASE centre = coordinate BY <1>5, <3>1 DEF BackToCurrent
    <3>2. CASE centre # coordinate BY <1>5, <3>2 DEF BackToCurrent
    <3> QED BY <3>1, <3>2
  <2>4. due => due' BY <1>5 DEF BackToCurrent
  <2>5. PickerInv'
    BY <1>5, <2>3, <2>4 DEF BackToCurrent, PickerInv, Released, LocationIsOfThisVisit,
                LocationAtRest, AddressIsOfThisVisit
  <2>9. LookupsBelong' BY <1>5, LookupsKept DEF BackToCurrent
  <2> QED BY <2>1, <2>2, <2>5, <2>9
<1>6. CASE RegionDidChange
  <2>1. TypeOK' BY <1>6, GestureTypes
  <2>2. CellShowsAddress' BY <1>6, CellKept DEF RegionDidChange
  <2>3. PickerInv'
    BY <1>6 DEF RegionDidChange, PickerInv, Released, LocationIsOfThisVisit,
                LocationAtRest, AddressIsOfThisVisit
  <2>9. LookupsBelong' BY <1>6, LookupsAtRegionDidChange
  <2> QED BY <2>1, <2>2, <2>3, <2>9
<1>7. ASSUME NEW p \in Places, Fix(p) PROVE IInv'
  <2>1. TypeOK' BY <1>7, GestureTypes
  <2>2. CellShowsAddress' BY <1>7, CellKept DEF Fix
  <2>3. PickerInv'
    BY <1>7 DEF Fix, PickerInv, Released, LocationIsOfThisVisit,
                LocationAtRest, AddressIsOfThisVisit
  <2>9. LookupsBelong' BY <1>7, LookupsKept DEF Fix
  <2> QED BY <2>1, <2>2, <2>3, <2>9
<1>8. ASSUME NEW p \in Places, Pan(p) PROVE IInv'
  <2>1. TypeOK' BY <1>8, GestureTypes
  <2>2. CellShowsAddress' BY <1>8, CellKept DEF Pan
  <2>3. PickerInv'
    BY <1>8 DEF Pan, PickerInv, Released, LocationIsOfThisVisit,
                LocationAtRest, AddressIsOfThisVisit
  <2>9. LookupsBelong' BY <1>8, LookupsKept DEF Pan
  <2> QED BY <2>1, <2>2, <2>3, <2>9
<1>9. ASSUME NEW t \in {NoText, Typed}, EditText(t) PROVE IInv'
  <2>1. TypeOK' BY <1>9, GestureTypes
  <2>2. CellShowsAddress' BY <1>9, CellKept DEF EditText
  <2>3. PickerInv'
    BY <1>9 DEF EditText, PickerInv, Released, LocationIsOfThisVisit,
                LocationAtRest, AddressIsOfThisVisit
  <2>9. LookupsBelong' BY <1>9, LookupsKept DEF EditText
  <2> QED BY <2>1, <2>2, <2>3, <2>9
<1>10. ASSUME NEW v \in 1 .. MaxVisits, NEW p \in Places,
              ReplyAddress(v, p) \/ ReplyNothing(v, p) \/ ReplyCrash(v, p)
       PROVE  IInv'
  <2>1. TypeOK' BY <1>10, ReplyTypes
  <2>2. CellShowsAddress' BY <1>10, CellKept DEF ReplyAddress, ReplyNothing, ReplyCrash
  <2>3. PickerInv'
    <3>1. CASE ReplyAddress(v, p) BY <3>1, AnswerInv
    <3>2. CASE ReplyNothing(v, p)
      BY <3>2 DEF ReplyNothing, picker, PickerInv, Released, LocationIsOfThisVisit,
                  LocationAtRest, AddressIsOfThisVisit
    <3>3. CASE ReplyCrash(v, p) BY <3>3, ReleaseInv DEF ReplyCrash
    <3> QED BY <1>10, <3>1, <3>2, <3>3
  <2>9. LookupsBelong' BY <1>10, LookupsAtAnswer DEF ReplyAddress, ReplyNothing, ReplyCrash, Release
  <2> QED BY <2>1, <2>2, <2>3, <2>9
<1>11. ASSUME NEW p \in Places, DragPin(p) PROVE IInv'
  <2>1. TypeOK' BY <1>11, GestureTypes
  <2>2. CellShowsAddress' BY <1>11, CellKept DEF DragPin
  <2>3. PickerInv'
    BY <1>11 DEF DragPin, PickerInv, Released, LocationIsOfThisVisit, LocationAtRest,
                 AddressIsOfThisVisit
  <2>9. LookupsBelong' BY <1>11, LookupsKept DEF DragPin
  <2> QED BY <2>1, <2>2, <2>3, <2>9
<1> QED
  BY <1>1, <1>2, <1>3, <1>4, <1>5, <1>6, <1>7, <1>8, <1>9, <1>10, <1>11 DEF Next
----------------------------------------------------------------------------
(* The theorems.                                                           *)

\* The invariant holds in every reachable state.
LEMMA Invariance == Spec => []IInv
BY InitInv, StepInv, PTL DEF Spec

\* Type correctness, for any set of places.
THEOREM Types == Spec => []TypeOK
<1>1. IInv => TypeOK BY DEF IInv
<1> QED BY <1>1, Invariance, PTL

\* What would be delivered is where the map rests, in whatever order fixes, pans,
\* backToCurrent, drags of the pin and region callbacks come
\* (LocationViewController:89-90).
THEOREM CentreIsDelivered == Spec => []LocationIsCentre
<1>1. IInv => LocationIsCentre BY DEF IInv, PickerInv, LocationIsCentre, LocationAtRest
<1> QED BY <1>1, Invariance, PTL

\* No answer crosses from one visit to another, however many visits and requests there
\* are and in whatever order the geocoder answers (LocationViewController:93-105).
THEOREM AnswersStayInTheirVisit == Spec => []AddressIsOfThisVisit
<1>1. IInv => AddressIsOfThisVisit BY DEF IInv, PickerInv
<1> QED BY <1>1, Invariance, PTL

\* The cell never hides an address that the form holds (LocationCell:33-46).
THEOREM AddressIsShown == Spec => []CellShowsAddress
<1>1. IInv => CellShowsAddress BY DEF IInv
<1> QED BY <1>1, Invariance, PTL

\* The form receives its address and its location from one and the same visit, and only
\* by Confirm (LocationViewController:120-126).
THEOREM OneVisitDelivers == Spec => DeliveredTogether
<1>1. IInv /\ [Next]_vars =>
        [formLocation' # formLocation \/ formAddress' # formAddress =>
            /\ open /\ ~open'
            /\ formAddress' \in stops \cup {NoText, Typed}
            /\ formLocation' \in stops \cup {Origin}]_vars
  <2> SUFFICES ASSUME IInv, [Next]_vars,
                      formLocation' # formLocation \/ formAddress' # formAddress
               PROVE  /\ open /\ ~open'
                      /\ formAddress' \in stops \cup {NoText, Typed}
                      /\ formLocation' \in stops \cup {Origin}
    OBVIOUS
  <2>1. SendLocation
    BY DEF Next, vars, form, ShowMap, GoBack, BackToCurrent, RegionDidChange, Fix, Pan,
           DragPin, EditText, ReplyAddress, ReplyNothing, ReplyCrash
  <2>2. formAddress' = text /\ formLocation' = userLocation /\ open /\ ~open'
    BY <2>1 DEF SendLocation, Release
  <2> QED
    BY <2>2 DEF IInv, PickerInv, AddressIsOfThisVisit, LocationIsOfThisVisit
<1> QED BY <1>1, Invariance, PTL DEF Spec, DeliveredTogether
=============================================================================
