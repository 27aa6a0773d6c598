-------------------------- MODULE ReportFormProofs --------------------------
(***************************************************************************)
(* Theorems about ReportForm, for every number of form instances.          *)
(***************************************************************************)
EXTENDS ReportForm, TLAPS

----------------------------------------------------------------------------
(* The navigation stacks that occur.                                       *)

\* Something appended to a sequence of one makes a pair.
LEMMA PairByAppend ==
    ASSUME NEW S, NEW q \in Seq(S), NEW e \in S, Len(q) = 1
    PROVE  Append(q, e) = <<q[1], e>>
<1> DEFINE r == Append(q, e)
<1>1. /\ Len(q) \in Nat /\ Len(r) = Len(q) + 1 /\ r[Len(q) + 1] = e
      /\ \A k \in 1 .. Len(q) : r[k] = q[k]
  OBVIOUS
<1>2. r \in Seq(S) OBVIOUS
<1> HIDE DEF r
<1>3. Len(r) = 2 /\ r[1] = q[1] /\ r[2] = e BY <1>1
<1>4. r = <<r[1], r[2]>> BY <1>2, <1>3
<1> QED BY <1>3, <1>4 DEF r

\* A sequence of one.
LEMMA SingleInSeq == ASSUME NEW S, NEW x \in S PROVE <<x>> \in Seq(S)
OBVIOUS

\* Instances are numbered.
LEMMA FormNumber == ASSUME NEW n \in Forms PROVE n \in Nat /\ n <= n
BY DEF Forms

\* The last member of the stacks that occur, and what is left without it.
LEMMA Stacks ==
    ASSUME NEW n \in Forms
    PROVE  /\ Last(<<n>>) = n /\ Last(<<n, Map>>) = Map /\ Last(<<Login>>) = Login
           /\ Front(<<n, Map>>) = <<n>> /\ Front(<<n>>) = <<>>
           /\ Append(<<n>>, Map) = <<n, Map>> /\ Head(<<n>>) = n
           /\ <<n>> # <<n, Map>>
<1>1. /\ Len(<<n>>) = 1 /\ Len(<<n, Map>>) = 2 /\ Len(<<Login>>) = 1
      /\ <<n>>[1] = n /\ <<n, Map>>[1] = n /\ <<n, Map>>[2] = Map /\ <<Login>>[1] = Login
  OBVIOUS
<1>2. <<n>> # <<n, Map>>
  <2>1. <<n>> = <<n, Map>> => Len(<<n>>) = Len(<<n, Map>>) OBVIOUS
  <2> QED BY <1>1, <2>1
<1>3. Append(<<n>>, Map) = <<n, Map>>
  <2>1. <<n>> \in Seq(Forms \cup {Map}) /\ Map \in Forms \cup {Map} OBVIOUS
  <2> QED BY <1>1, <2>1, PairByAppend
<1>4. Head(<<n>>) = n OBVIOUS
<1>5. SubSeq(<<n>>, 1, 0) = <<>> OBVIOUS
<1>6. SubSeq(<<n, Map>>, 1, 1) = <<n>>
  <2> DEFINE q == <<n, Map>>
             S == Forms \cup {Map}
             r == SubSeq(q, 1, 1)
  <2>1. q \in Seq(S) /\ Len(q) = 2 /\ q[1] = n OBVIOUS
  <2> HIDE DEF q
  <2>2. r \in Seq(S) /\ Len(r) = 1 /\ r[1] = n BY <2>1
  <2> HIDE DEF r
  <2>3. r = <<n>> BY <2>2
  <2> QED BY <2>3 DEF r, q
<1> QED BY <1>1, <1>2, <1>3, <1>4, <1>5, <1>6 DEF Last, Front

\* viewDidLoad leaves the new form alone on its stack.
LEMMA ViewDidLoadAlone ==
    ASSUME NEW S, NEW stack \in Seq(S), NEW n \in S
    PROVE  AfterViewDidLoad(Append(stack, n), n) = <<n>>
<1> DEFINE r == Append(stack, n)
<1>1. Len(r) \in DOMAIN r /\ r[Len(r)] = n OBVIOUS
<1>2. n \in ToSet(r) BY <1>1 DEF ToSet
<1> QED BY <1>2 DEF AfterViewDidLoad

----------------------------------------------------------------------------
(* The inductive invariant.                                                *)

\* How the form is shown fixes the stack, the instance and what can be over it.
Shape ==
    /\ host = "none" => form = 0 /\ nav = <<Login>> /\ modal = "none"
    /\ host = "bare" =>
          form = 1 /\ nav = <<Login>> /\ modal \in {"none", "sheet", "picker", "leaving", "map"}
    /\ host = "stack" =>
          /\ form \in Forms
          /\ nav = <<form>> \/ (nav = <<form, Map>> /\ modal = "none" /\ delegate = form)
    /\ modal \in {"alert", "popup"} => host = "stack"

\* No instance is touched before it is the current one.
FutureFormsFresh == \A n \in Forms : n > form => forms[n] = Fresh

\* What is visible is set; while no picker is going away, what is set is visible.
PhotoShown ==
    /\ \A n \in Forms : forms[n].shown => forms[n].photo
    /\ form # 0 /\ modal # "leaving" /\ forms[form].photo => forms[form].shown

\* Every report is of a form up to the current one, which has one only behind its popup.
FiledBefore ==
    \A i \in 1 .. Len(filed) :
        filed[i].form <= form /\ (filed[i].form = form => modal = "popup")

\* The text view and the description of one form; the prompt is orange only until it is
\* first touched, so that clearing it never parts the two.
TextAgrees(f) ==
    /\ IF f.description = Missing
       THEN f.text \in {"", "prompt"} /\ ~(f.text = "" /\ ~f.editing)
       ELSE f.text = f.description
    /\ f.colour = "orange" => f.description = Missing /\ ~f.editing

TextsAgree == \A n \in Forms : TextAgrees(forms[n])

IInv ==
    /\ TypeOK /\ Shape /\ CameraTargetsCurrentForm /\ FutureFormsFresh /\ TextsAgree
    /\ PhotoShown /\ FiledBefore /\ OneReportPerForm

\* What the variables of the navigation are when the user looks at a form.
LEMMA Looking ==
    ASSUME IInv
    PROVE  /\ AtForm => form \in Forms /\ modal = "none" /\ host \in {"stack", "bare"}
           /\ AtBar => form \in Forms /\ host = "stack" /\ nav = <<form>> /\ modal = "none"
           /\ Last(nav) = Map =>
                 /\ form \in Forms /\ host = "stack" /\ nav = <<form, Map>> /\ modal = "none"
                 /\ delegate = form
<1>1. host \in {"none", "bare", "stack"} BY DEF IInv, TypeOK
<1>2. 1 \in Forms BY BoundAssumption DEF Forms
<1>3. CASE host # "stack"
  <2>1. nav = <<Login>> BY <1>1, <1>3 DEF IInv, Shape
  <2>2. Last(nav) # Map BY <1>2, <2>1, Stacks, SentinelAssumption
  <2> QED BY <1>1, <1>2, <1>3, <2>2 DEF AtForm, AtBar, IInv, Shape
<1>4. CASE host = "stack"
  <2>1. /\ form \in Forms
        /\ nav = <<form>> \/ (nav = <<form, Map>> /\ modal = "none" /\ delegate = form)
    BY <1>4 DEF IInv, Shape
  <2>2. CASE nav = <<form>>
    <3>1. Last(nav) # Map BY <2>1, <2>2, Stacks, SentinelAssumption
    <3> QED BY <1>4, <2>1, <2>2, <3>1 DEF AtForm, AtBar
  <2>3. CASE nav = <<form, Map>> /\ modal = "none" /\ delegate = form
    <3>1. Last(nav) = Map /\ Map # form BY <2>1, <2>3, Stacks, SentinelAssumption
    <3> QED BY <1>4, <2>1, <2>3, <3>1 DEF AtForm, AtBar
  <2> QED BY <2>1, <2>2, <2>3
<1> QED BY <1>3, <1>4

\* The login view and one fresh form satisfy the invariant.
LEMMA InitHolds == Init => IInv
<1> SUFFICES ASSUME Init PROVE IInv OBVIOUS
<1>1. Fresh \in FormStates
  BY DEF Fresh, FormStates, Texts, Colours
<1>2. TypeOK
  <2>1. nav \in Seq(Forms \cup {Login, Map}) /\ filed \in Seq(Documents) BY DEF Init
  <2>2. forms \in [Forms -> FormStates] BY <1>1 DEF Init
  <2>3. 0 \in 0 .. MaxForms BY BoundAssumption
  <2> QED BY <2>1, <2>2, <2>3 DEF Init, TypeOK
<1>3. Shape BY DEF Init, Shape
<1>4. CameraTargetsCurrentForm BY DEF Init, CameraTargetsCurrentForm
<1>5. FutureFormsFresh BY DEF Init, FutureFormsFresh
<1>6. TextsAgree BY DEF Init, TextsAgree, TextAgrees, Fresh
<1>7. PhotoShown BY DEF Init, PhotoShown, Fresh
<1>8. FiledBefore /\ OneReportPerForm BY DEF Init, FiledBefore, OneReportPerForm
<1> QED BY <1>2, <1>3, <1>4, <1>5, <1>6, <1>7, <1>8 DEF IInv

----------------------------------------------------------------------------
(* Steps that leave the forms alone.                                       *)

\* What only depends on the forms stays as it is with them.
LEMMA FormsStay ==
    ASSUME IInv, UNCHANGED <<form, forms>>
    PROVE  FutureFormsFresh' /\ TextsAgree' /\ (modal # "leaving" => PhotoShown')
BY DEF IInv, FutureFormsFresh, TextsAgree, PhotoShown

\* What only depends on the reports stays as it is while a popup stays up.
LEMMA DocumentsStay ==
    ASSUME IInv, UNCHANGED <<form, filed>>, modal = "popup" => modal' = "popup"
    PROVE  FiledBefore' /\ OneReportPerForm'
BY DEF IInv, FiledBefore, OneReportPerForm

\* The sheet, the alert, the popup and the map over a bare form come and go.
LEMMA ModalStep ==
    ASSUME IInv,
           ShowCamera \/ CancelSheet \/ PickNothing \/ ShowMapBare \/ SubmitIncomplete
             \/ CloseAlert \/ SubmitUnsaved \/ \E available \in BOOLEAN : ChooseSource(available)
    PROVE  IInv'
<1>1. UNCHANGED <<running, host, nav, form, forms, handed, filed>>
      /\ modal # "leaving" /\ modal # "popup"
  BY Looking DEF ShowCamera, CancelSheet, PickNothing, ShowMapBare, SubmitIncomplete, CloseAlert,
                 SubmitUnsaved, ChooseSource, AtBar
<1>2. FutureFormsFresh' /\ TextsAgree' /\ PhotoShown' /\ FiledBefore' /\ OneReportPerForm'
  BY <1>1, FormsStay, DocumentsStay
<1>3. TypeOK' /\ Shape' /\ CameraTargetsCurrentForm'
  <2>1. CASE ShowCamera
    <3>1. AtForm /\ modal' = "sheet" /\ currentVC' = form /\ pickedBlock' = form
          /\ delegate' = delegate
      BY <2>1 DEF ShowCamera
    <3>2. host = "stack" => nav = <<form>>
      BY <3>1, Looking DEF AtBar
    <3> QED BY <1>1, <3>1, <3>2, Looking
            DEF IInv, TypeOK, Shape, CameraTargetsCurrentForm, Forms
  <2>2. CASE CancelSheet
    BY <1>1, <2>2 DEF CancelSheet, camera, IInv, TypeOK, Shape, CameraTargetsCurrentForm
  <2>3. CASE PickNothing
    BY <1>1, <2>3 DEF PickNothing, camera, IInv, TypeOK, Shape, CameraTargetsCurrentForm
  <2>4. ASSUME NEW available \in BOOLEAN, ChooseSource(available)
        PROVE  TypeOK' /\ Shape' /\ CameraTargetsCurrentForm'
    BY <1>1, <2>4 DEF ChooseSource, camera, IInv, TypeOK, Shape, CameraTargetsCurrentForm
  <2>5. CASE ShowMapBare
    BY <1>1, <2>5, Looking DEF ShowMapBare, camera, IInv, TypeOK, Shape, CameraTargetsCurrentForm,
                               Forms
  <2>6. CASE SubmitIncomplete \/ SubmitUnsaved
    BY <1>1, <2>6, Looking DEF SubmitIncomplete, SubmitUnsaved, camera, IInv, TypeOK, Shape,
                               CameraTargetsCurrentForm
  <2>7. CASE CloseAlert
    BY <1>1, <2>7 DEF CloseAlert, camera, IInv, TypeOK, Shape, CameraTargetsCurrentForm
  <2> QED BY <2>1, <2>2, <2>3, <2>4, <2>5, <2>6, <2>7
<1> QED BY <1>2, <1>3 DEF IInv

\* The map is pushed over the form that it will deliver to.
LEMMA ShowMapStep ==
    ASSUME IInv, ShowMap
    PROVE  IInv'
<1>1. /\ form \in Forms /\ host = "stack" /\ nav = <<form>> /\ modal = "none"
      /\ nav' = <<form, Map>> /\ delegate' = form
      /\ UNCHANGED <<running, host, form, forms, modal, camera, handed, filed>>
  BY Looking, Stacks DEF ShowMap
<1>2. TypeOK'
  <2>1. nav' \in Seq(Forms \cup {Login, Map}) BY <1>1
  <2> QED BY <1>1, <2>1 DEF IInv, TypeOK, camera, Forms
<1>3. Shape' /\ CameraTargetsCurrentForm' BY <1>1 DEF IInv, Shape, CameraTargetsCurrentForm
<1> QED BY <1>1, <1>2, <1>3, FormsStay, DocumentsStay DEF IInv

\* A submission ends the process, or files the current form and brings up its popup.
LEMMA SubmitStep ==
    ASSUME IInv, Submit \/ \E signedIn \in BOOLEAN : SubmitCrash(signedIn)
    PROVE  IInv'
<1>1. CASE \E signedIn \in BOOLEAN : SubmitCrash(signedIn)
  <2>1. /\ running' = FALSE /\ modal # "leaving"
        /\ UNCHANGED <<host, nav, form, forms, modal, delegate, camera, handed, filed>>
    BY <1>1, Looking DEF SubmitCrash
  <2>2. TypeOK' /\ Shape' /\ CameraTargetsCurrentForm'
    BY <2>1 DEF IInv, TypeOK, Shape, CameraTargetsCurrentForm, camera
  <2> QED BY <2>1, <2>2, FormsStay, DocumentsStay DEF IInv
<1>2. CASE Submit
  <2> DEFINE r == [form |-> form, address |-> forms[form].address,
                   description |-> forms[form].description]
             h == [photo |-> forms[form].photo, address |-> forms[form].address,
                   description |-> forms[form].description]
  <2>1. /\ form \in Forms /\ host = "stack" /\ nav = <<form>> /\ modal = "none"
        /\ handed' = h /\ filed' = Append(filed, r) /\ modal' = "popup"
        /\ UNCHANGED <<running, host, nav, form, forms, delegate, camera>>
    BY <1>2, Looking DEF Submit
  <2>2. r \in Documents /\ r.form = form /\ h \in FormData
    <3>1. forms[form] \in FormStates BY <2>1 DEF IInv, TypeOK
    <3>2. forms[form].address # Missing /\ forms[form].description # Missing
      BY <1>2 DEF Submit, Complete
    <3> QED BY <2>1, <3>1, <3>2 DEF FormStates, Documents, FormData
  <2>3. filed \in Seq(Documents) BY DEF IInv, TypeOK
  <2> HIDE DEF r, h
  <2>4. /\ Len(filed) \in Nat /\ Len(filed') = Len(filed) + 1 /\ filed'[Len(filed) + 1] = r
        /\ \A k \in 1 .. Len(filed) : filed'[k] = filed[k]
    BY <2>1, <2>2, <2>3
  <2>5. \A k \in 1 .. Len(filed') : k \in 1 .. Len(filed) \/ k = Len(filed) + 1 BY <2>4
  <2>6. \A k \in 1 .. Len(filed) : filed[k].form <= form /\ filed[k].form # form
    BY <2>1 DEF IInv, FiledBefore
  <2>7. FiledBefore'
    <3>1. form <= form BY <2>1 DEF Forms
    <3> QED BY <2>1, <2>2, <2>4, <2>5, <2>6, <3>1 DEF FiledBefore
  <2>8. OneReportPerForm'
    <3>1. ASSUME NEW i \in 1 .. Len(filed'), NEW j \in 1 .. Len(filed'),
                 filed'[i].form = filed'[j].form
          PROVE  i = j
      <4>1. CASE i \in 1 .. Len(filed) /\ j \in 1 .. Len(filed)
        BY <2>4, <3>1, <4>1 DEF IInv, OneReportPerForm
      <4>2. CASE i = Len(filed) + 1 /\ j = Len(filed) + 1 BY <4>2
      <4>3. CASE i = Len(filed) + 1 /\ j \in 1 .. Len(filed) BY <2>2, <2>4, <2>6, <3>1, <4>3
      <4>4. CASE i \in 1 .. Len(filed) /\ j = Len(filed) + 1 BY <2>2, <2>4, <2>6, <3>1, <4>4
      <4> QED BY <2>5, <3>1, <4>1, <4>2, <4>3, <4>4
    <3> QED BY <3>1 DEF OneReportPerForm
  <2>9. TypeOK'
    <3>1. filed' \in Seq(Documents) BY <2>1, <2>2, <2>3
    <3> QED BY <2>1, <2>2, <3>1 DEF IInv, TypeOK, camera
  <2>10. Shape' /\ CameraTargetsCurrentForm' BY <2>1 DEF IInv, Shape, CameraTargetsCurrentForm
  <2> QED BY <2>1, <2>7, <2>8, <2>9, <2>10, FormsStay DEF IInv
<1> QED BY <1>1, <1>2

----------------------------------------------------------------------------
(* Steps that write to a form.                                             *)

\* A current or former instance that is well-typed, agrees and hides no more than it
\* holds takes the place of its old self.
LEMMA FormUpdate ==
    ASSUME IInv, NEW n \in Forms, n <= form, NEW f \in FormStates, TextAgrees(f),
           f.shown => f.photo, form' = form, forms' = [forms EXCEPT ![n] = f]
    PROVE  /\ forms' \in [Forms -> FormStates] /\ forms'[n] = f
           /\ FutureFormsFresh' /\ TextsAgree'
           /\ \A m \in Forms : forms'[m].shown => forms'[m].photo
<1>1. /\ forms \in [Forms -> FormStates]
      /\ forms'[n] = f /\ \A m \in Forms : m # n => forms'[m] = forms[m]
  BY DEF IInv, TypeOK
<1>2. forms' \in [Forms -> FormStates] BY <1>1
<1>3. FutureFormsFresh'
  <2>1. \A m \in Forms : m > form => m # n
    <3>1. form \in Nat BY BoundAssumption DEF IInv, TypeOK
    <3> QED BY <3>1 DEF Forms
  <2> QED BY <1>1, <2>1 DEF IInv, FutureFormsFresh
<1>4. TextsAgree'
  <2>1. ASSUME NEW m \in Forms PROVE TextAgrees(forms'[m])
    BY <1>1 DEF IInv, TextsAgree
  <2> QED BY <2>1 DEF TextsAgree
<1>5. \A m \in Forms : forms'[m].shown => forms'[m].photo BY <1>1 DEF IInv, PhotoShown
<1> QED BY <1>1, <1>2, <1>3, <1>4, <1>5

\* What every instance satisfies.
LEMMA FormFacts ==
    ASSUME IInv, NEW n \in Forms
    PROVE  /\ forms[n] \in FormStates /\ TextAgrees(forms[n])
           /\ forms[n].shown => forms[n].photo
           /\ forms[n].editing => n <= form
<1>1. forms[n].editing => n <= form
  <2>1. form \in Nat /\ n \in Nat BY BoundAssumption DEF IInv, TypeOK, Forms
  <2>2. n > form => ~forms[n].editing BY DEF IInv, FutureFormsFresh, Fresh
  <2> QED BY <2>1, <2>2
<1> QED BY <1>1 DEF IInv, TypeOK, TextsAgree, PhotoShown

\* A step that only writes to the current form, with its photo visible if it was.
LEMMA CurrentFormStep ==
    ASSUME IInv, form \in Forms, NEW f \in FormStates, TextAgrees(f),
           f.photo = forms[form].photo, f.shown = forms[form].shown,
           forms' = [forms EXCEPT ![form] = f],
           UNCHANGED <<running, host, nav, form, modal, delegate, camera, handed, filed>>
    PROVE  IInv'
<1>1. form <= form BY DEF Forms
<1>2. /\ forms' \in [Forms -> FormStates] /\ forms'[form] = f
      /\ FutureFormsFresh' /\ TextsAgree'
      /\ \A m \in Forms : forms'[m].shown => forms'[m].photo
  BY <1>1, FormUpdate, FormFacts
<1>3. PhotoShown' BY <1>2 DEF PhotoShown, IInv
<1>4. TypeOK' /\ Shape' /\ CameraTargetsCurrentForm'
  BY <1>2 DEF IInv, TypeOK, Shape, CameraTargetsCurrentForm, camera
<1> QED BY <1>2, <1>3, <1>4, DocumentsStay DEF IInv

\* Editing the description and choosing a category.
LEMMA EditStep ==
    ASSUME IInv, BeginEditing \/ SelectCategory \/ \E t \in Texts : Type(t)
    PROVE  IInv'
<1>1. form \in Forms BY Looking DEF BeginEditing, SelectCategory, Type
<1>2. forms[form] \in FormStates /\ TextAgrees(forms[form]) BY <1>1, FormFacts
<1>3. CASE BeginEditing
  <2> DEFINE f == IF forms[form].colour = "orange"
                  THEN [forms[form] EXCEPT !.editing = TRUE, !.text = "", !.colour = "black"]
                  ELSE [forms[form] EXCEPT !.editing = TRUE]
  <2>1. forms' = [forms EXCEPT ![form] = f] BY <1>3 DEF BeginEditing
  <2>2. f \in FormStates /\ f.photo = forms[form].photo /\ f.shown = forms[form].shown
    BY <1>2 DEF FormStates, Texts, Colours
  <2>3. TextAgrees(f)
    <3>1. CASE forms[form].colour = "orange"
      <4>1. f.editing = TRUE /\ f.text = "" /\ f.colour = "black" /\ f.description = Missing
        BY <1>2, <3>1 DEF FormStates, TextAgrees
      <4> QED BY <4>1 DEF TextAgrees
    <3>2. CASE forms[form].colour # "orange"
      <4>1. /\ f.editing = TRUE /\ f.text = forms[form].text /\ f.colour = forms[form].colour
            /\ f.description = forms[form].description
        BY <1>2, <3>2 DEF FormStates
      <4> QED BY <1>2, <3>2, <4>1 DEF TextAgrees
    <3> QED BY <3>1, <3>2
  <2> QED BY <1>1, <1>3, <2>1, <2>2, <2>3, CurrentFormStep DEF BeginEditing
<1>4. CASE SelectCategory
  <2> DEFINE f == [forms[form] EXCEPT !.category = TRUE]
  <2>1. forms' = [forms EXCEPT ![form] = f] BY <1>2, <1>4 DEF SelectCategory, IInv, TypeOK
  <2>2. /\ f \in FormStates /\ f.photo = forms[form].photo /\ f.shown = forms[form].shown
        /\ TextAgrees(f)
    BY <1>2 DEF FormStates, TextAgrees
  <2> QED BY <1>1, <1>4, <2>1, <2>2, CurrentFormStep DEF SelectCategory
<1>5. ASSUME NEW t \in Texts, Type(t) PROVE IInv'
  <2> DEFINE f == [forms[form] EXCEPT !.text = t, !.description = t]
  <2>1. forms' = [forms EXCEPT ![form] = f] /\ forms[form].editing
    BY <1>1, <1>2, <1>5 DEF Type, IInv, TypeOK
  <2>2. /\ f \in FormStates /\ f.photo = forms[form].photo /\ f.shown = forms[form].shown
        /\ f.text = t /\ f.description = t /\ f.colour = forms[form].colour
    BY <1>2 DEF FormStates
  <2> HIDE DEF f
  <2>3. t # Missing BY SentinelAssumption DEF Texts
  <2>4. forms[form].colour # "orange" BY <1>2, <2>1 DEF TextAgrees
  <2>5. TextAgrees(f) BY <2>2, <2>3, <2>4 DEF TextAgrees
  <2>6. form \in Forms /\ f \in FormStates /\ TextAgrees(f) BY <1>1, <2>2, <2>5
  <2> QED BY <1>5, <2>1, <2>2, <2>6, CurrentFormStep DEF Type
<1> QED BY <1>3, <1>4, <1>5

\* The end of editing, of the current form or of a replaced one.
LEMMA EndEditingStep ==
    ASSUME IInv, NEW n \in Forms, EndEditing(n)
    PROVE  IInv'
<1> DEFINE e == [forms[n] EXCEPT !.editing = FALSE]
           g == IF e.text = "" THEN [e EXCEPT !.text = "prompt", !.colour = "lightGray"] ELSE e
           f == [g EXCEPT !.description = g.text]
<1>1. forms' = [forms EXCEPT ![n] = f] /\ forms[n].editing
      /\ UNCHANGED <<running, host, nav, form, modal, delegate, camera, handed, filed>>
  BY DEF EndEditing
<1>2. /\ forms[n] \in FormStates /\ TextAgrees(forms[n]) /\ n <= form
      /\ forms[n].shown => forms[n].photo
  BY <1>1, FormFacts
<1>3. /\ g \in FormStates /\ g.photo = forms[n].photo /\ g.shown = forms[n].shown
      /\ g.colour # "orange"
  <2>1. forms[n].colour # "orange" BY <1>1, <1>2 DEF TextAgrees
  <2> QED BY <2>1, <1>2 DEF FormStates, Texts, Colours
<1> HIDE DEF g
<1>4. /\ f \in FormStates /\ f.photo = forms[n].photo /\ f.shown = forms[n].shown
      /\ f.text = f.description /\ f.colour # "orange"
  BY <1>3 DEF FormStates, Texts
<1>5. TextAgrees(f)
  <2>1. f.description # Missing BY <1>4 , SentinelAssumption DEF FormStates, Texts
  <2> QED BY <1>4, <2>1 DEF TextAgrees
<1> HIDE DEF f
<1>6. /\ forms' \in [Forms -> FormStates] /\ forms'[n] = f
      /\ FutureFormsFresh' /\ TextsAgree'
      /\ \A m \in Forms : forms'[m].shown => forms'[m].photo
  BY <1>1, <1>2, <1>4, <1>5, FormUpdate
<1>7. PhotoShown'
  <2>1. form = n => forms'[form].photo = forms[form].photo /\ forms'[form].shown = forms[form].shown
    BY <1>4, <1>6
  <2>2. form # n => forms'[form] = forms[form] BY <1>1 DEF IInv, TypeOK
  <2> QED BY <1>1, <1>6, <2>1, <2>2 DEF PhotoShown, IInv
<1>8. TypeOK' /\ Shape' /\ CameraTargetsCurrentForm'
  BY <1>1, <1>6 DEF IInv, TypeOK, Shape, CameraTargetsCurrentForm, camera
<1> QED BY <1>1, <1>6, <1>7, <1>8, DocumentsStay DEF IInv

\* With anything presented over it there is a current form.
LEMMA PresentedOverForm ==
    ASSUME IInv, modal # "none"
    PROVE  form \in Forms /\ form <= form
BY BoundAssumption DEF IInv, TypeOK, Shape, Forms

\* viewDidAppear shows what is set and changes nothing else.
LEMMA AppearedFacts ==
    ASSUME NEW f \in FormStates, TextAgrees(f), f.shown => f.photo
    PROVE  /\ Appeared(f) \in FormStates /\ TextAgrees(Appeared(f))
           /\ Appeared(f).photo = f.photo /\ Appeared(f).shown = f.photo
<1>1. CASE f.photo
  <2>1. Appeared(f) = [f EXCEPT !.shown = TRUE] /\ f.photo = TRUE
    BY <1>1 DEF Appeared, FormStates
  <2> QED BY <2>1 DEF FormStates, TextAgrees
<1>2. CASE ~f.photo
  <2>1. f.photo = FALSE /\ f.shown = FALSE BY <1>2 DEF FormStates
  <2>2. Appeared(f) = [f EXCEPT !.shown = FALSE] BY <2>1 DEF Appeared, FormStates
  <2> QED BY <2>1, <2>2 DEF FormStates, TextAgrees
<1> QED BY <1>1, <1>2

\* An image goes to the current form; when the picker has gone the form shows it.
LEMMA PickerStep ==
    ASSUME IInv, PickImage \/ PickerGone
    PROVE  IInv'
<1>1. CASE PickImage
  <2>1. /\ modal = "picker" /\ modal' = "leaving" /\ pickedBlock = form
        /\ forms' = [forms EXCEPT ![pickedBlock].photo = TRUE]
        /\ UNCHANGED <<running, host, nav, form, delegate, camera, handed, filed>>
    BY <1>1 DEF PickImage, IInv, CameraTargetsCurrentForm
  <2>2. form \in Forms /\ form <= form BY <2>1, PresentedOverForm
  <2> DEFINE f == [forms[form] EXCEPT !.photo = TRUE]
  <2>3. forms' = [forms EXCEPT ![form] = f] BY <2>1, <2>2 DEF IInv, TypeOK
  <2>4. f \in FormStates /\ TextAgrees(f) /\ f.photo = TRUE
    <3>1. forms[form] \in FormStates /\ TextAgrees(forms[form]) BY <2>2, FormFacts
    <3> QED BY <3>1 DEF FormStates, TextAgrees
  <2> HIDE DEF f
  <2>5. /\ forms' \in [Forms -> FormStates] /\ FutureFormsFresh' /\ TextsAgree'
        /\ \A m \in Forms : forms'[m].shown => forms'[m].photo
    BY <2>1, <2>2, <2>3, <2>4, FormUpdate
  <2>6. PhotoShown' BY <2>1, <2>5 DEF PhotoShown
  <2>7. TypeOK' /\ Shape' /\ CameraTargetsCurrentForm'
    BY <2>1, <2>5 DEF IInv, TypeOK, Shape, CameraTargetsCurrentForm, camera
  <2> QED BY <2>1, <2>5, <2>6, <2>7, DocumentsStay DEF IInv
<1>2. CASE PickerGone
  <2>1. /\ modal = "leaving" /\ modal' = "none"
        /\ forms' = [forms EXCEPT ![form] = Appeared(forms[form])]
        /\ UNCHANGED <<running, host, nav, form, delegate, camera, handed, filed>>
    BY <1>2 DEF PickerGone
  <2>2. form \in Forms /\ form <= form BY <2>1, PresentedOverForm
  <2> DEFINE f == Appeared(forms[form])
  <2>3. f \in FormStates /\ TextAgrees(f) /\ f.shown = f.photo
    BY <2>2, FormFacts, AppearedFacts
  <2>4. forms' = [forms EXCEPT ![form] = f] BY <2>1
  <2> HIDE DEF f
  <2>5. /\ forms' \in [Forms -> FormStates] /\ forms'[form] = f
        /\ FutureFormsFresh' /\ TextsAgree'
        /\ \A m \in Forms : forms'[m].shown => forms'[m].photo
    BY <2>1, <2>2, <2>3, <2>4, FormUpdate
  <2>6. PhotoShown' BY <2>1, <2>3, <2>5 DEF PhotoShown
  <2>7. TypeOK' /\ Shape' /\ CameraTargetsCurrentForm'
    BY <2>1, <2>5 DEF IInv, TypeOK, Shape, CameraTargetsCurrentForm, camera
  <2> QED BY <2>1, <2>5, <2>6, <2>7, DocumentsStay DEF IInv
<1> QED BY <1>1, <1>2

\* The map is popped off the form under it, which has its location or not.
LEMMA LeaveMapStep ==
    ASSUME IInv, GoBack \/ \E a \in {"", "street"} : SendLocation(a)
    PROVE  IInv'
<1>1. /\ form \in Forms /\ form <= form /\ host = "stack" /\ nav = <<form, Map>>
      /\ modal = "none" /\ delegate = form /\ nav' = <<form>>
      /\ UNCHANGED <<running, host, form, modal, delegate, camera, handed, filed>>
  <2>1. Last(nav) = Map /\ nav' = Front(nav)
        /\ UNCHANGED <<running, host, form, modal, delegate, camera, handed, filed>>
    BY DEF GoBack, SendLocation
  <2>2. form \in Forms /\ host = "stack" /\ nav = <<form, Map>> /\ modal = "none" /\ delegate = form
    BY <2>1, Looking
  <2>3. nav' = <<form>> BY <2>1, <2>2, Stacks
  <2>4. form <= form BY <2>2, FormNumber
  <2> QED BY <2>1, <2>2, <2>3, <2>4
<1>2. /\ forms \in [Forms -> FormStates] /\ forms[form] \in FormStates
      /\ TextAgrees(forms[form]) /\ (forms[form].shown => forms[form].photo)
  BY <1>1, FormFacts DEF IInv, TypeOK
<1>3. \E f \in FormStates :
         /\ forms' = [forms EXCEPT ![form] = f] /\ TextAgrees(f) /\ f.shown = f.photo
  <2>1. CASE GoBack
    <3> DEFINE f == Appeared(forms[form])
    <3>1. forms' = [forms EXCEPT ![form] = f] BY <2>1 DEF GoBack
    <3>2. f \in FormStates /\ TextAgrees(f) /\ f.shown = f.photo
      BY <1>2, AppearedFacts
    <3> QED BY <3>1, <3>2
  <2>2. ASSUME NEW a \in {"", "street"}, SendLocation(a)
        PROVE  \E f \in FormStates :
                  /\ forms' = [forms EXCEPT ![form] = f] /\ TextAgrees(f) /\ f.shown = f.photo
    <3> DEFINE e == [forms[form] EXCEPT !.address = a]
               f == Appeared(e)
    <3>1. forms' = [forms EXCEPT ![form] = f]
      <4>1. forms' = [[forms EXCEPT ![form].address = a] EXCEPT ![form] = Appeared(@)]
        BY <1>1, <2>2 DEF SendLocation
      <4> QED BY <1>1, <1>2, <4>1
    <3>2. e \in FormStates /\ TextAgrees(e) /\ (e.shown => e.photo)
      BY <1>2 DEF FormStates, TextAgrees
    <3> HIDE DEF e
    <3>3. f \in FormStates /\ TextAgrees(f) /\ f.shown = f.photo
      BY <3>2, AppearedFacts
    <3> QED BY <3>1, <3>3
  <2> QED BY <2>1, <2>2
<1>4. PICK f \in FormStates :
         forms' = [forms EXCEPT ![form] = f] /\ TextAgrees(f) /\ f.shown = f.photo
  BY <1>3
<1>5. /\ forms' \in [Forms -> FormStates] /\ forms'[form] = f
      /\ FutureFormsFresh' /\ TextsAgree'
      /\ \A m \in Forms : forms'[m].shown => forms'[m].photo
  BY <1>1, <1>4, FormUpdate
<1>6. PhotoShown' BY <1>1, <1>4, <1>5 DEF PhotoShown
<1>7. TypeOK'
  <2>1. form \in Forms \cup {Login, Map} BY <1>1
  <2>2. <<form>> \in Seq(Forms \cup {Login, Map}) BY <2>1, SingleInSeq
  <2>3. nav' \in Seq(Forms \cup {Login, Map}) BY <1>1, <2>2
  <2> QED BY <1>1, <1>5, <2>3 DEF IInv, TypeOK, camera
<1>8. Shape' /\ CameraTargetsCurrentForm'
  BY <1>1 DEF IInv, Shape, CameraTargetsCurrentForm, camera
<1> QED BY <1>1, <1>5, <1>6, <1>7, <1>8, DocumentsStay DEF IInv

----------------------------------------------------------------------------
(* Steps that bring up another instance.                                   *)

\* A later instance alone on its stack, or the first one over SignIn.
LEMMA NewInstance ==
    ASSUME IInv, form' \in Forms, form' > form, modal' = "none",
           \/ host' = "stack" /\ nav' = <<form'>>
           \/ host' = "bare" /\ nav' = <<Login>> /\ form' = 1,
           handed' \in FormData \cup {Missing},
           UNCHANGED <<running, forms, delegate, camera, filed>>
    PROVE  IInv'
<1>1. form \in Nat /\ form' \in Nat BY BoundAssumption DEF IInv, TypeOK, Forms
<1>2. TypeOK'
  <2>1. nav' \in Seq(Forms \cup {Login, Map})
    BY SingleInSeq
  <2>2. form' \in 0 .. MaxForms /\ host' \in {"none", "stack", "bare"} BY DEF Forms
  <2>3. currentVC' = currentVC /\ pickedBlock' = pickedBlock BY DEF camera
  <2> QED BY <2>1, <2>2, <2>3 DEF IInv, TypeOK
<1>3. Shape' BY DEF IInv, TypeOK, Shape
<1>4. CameraTargetsCurrentForm' BY DEF CameraTargetsCurrentForm
<1>5. FutureFormsFresh'
  <2>1. \A n \in Forms : n > form' => n > form BY <1>1 DEF Forms
  <2> QED BY <2>1 DEF IInv, FutureFormsFresh
<1>6. TextsAgree' BY DEF IInv, TextsAgree
<1>7. PhotoShown'
  <2>1. forms[form'] = Fresh BY DEF IInv, FutureFormsFresh
  <2> QED BY <2>1 DEF IInv, PhotoShown, Fresh
<1>8. FiledBefore'
  <2>1. \A i \in 1 .. Len(filed) : filed[i].form \in Nat
    <3>1. filed \in Seq(Documents) BY DEF IInv, TypeOK
    <3>2. \A i \in 1 .. Len(filed) : filed[i] \in Documents BY <3>1
    <3>3. \A r \in Documents : r.form \in Forms BY DEF Documents
    <3> QED BY <3>2, <3>3, FormNumber
  <2>2. \A i \in 1 .. Len(filed) : filed[i].form <= form' /\ filed[i].form # form'
    BY <1>1, <2>1 DEF IInv, FiledBefore
  <2> QED BY <2>2 DEF FiledBefore
<1>9. OneReportPerForm' BY DEF IInv, OneReportPerForm
<1> QED BY <1>2, <1>3, <1>4, <1>5, <1>6, <1>7, <1>8, <1>9 DEF IInv

\* The steps that bring one up.
Replaces == ArriveOnStack \/ ArriveBare \/ NewForm \/ ClosePopup

\* Every way to another form ends with the invariant and a later form.
LEMMA ReplaceStep ==
    ASSUME IInv, Replaces
    PROVE  IInv' /\ forms' = forms /\ form' \in Forms /\ form' > form
<1>1. 1 \in Forms BY BoundAssumption DEF Forms
<1>2. CASE ArriveOnStack
  <2>1. /\ form = 0 /\ nav = <<Login>> /\ modal = "none" /\ form' = 1 /\ host' = "stack"
        /\ nav' = AfterViewDidLoad(Append(nav, form'), form')
        /\ UNCHANGED <<running, forms, modal, delegate, camera, handed, filed>>
    BY <1>2 DEF ArriveOnStack, IInv, Shape
  <2>2. nav \in Seq(Forms \cup {Login, Map}) /\ form' \in Forms \cup {Login, Map}
    BY <1>1, <2>1 DEF IInv, TypeOK
  <2>3. nav' = <<form'>> BY <2>1, <2>2, ViewDidLoadAlone
  <2>4. form' \in Forms /\ form' > form /\ modal' = "none" BY <1>1, <2>1
  <2>5. handed' \in FormData \cup {Missing} BY <2>1 DEF IInv, TypeOK
  <2> QED BY <2>1, <2>3, <2>4, <2>5, NewInstance
<1>3. CASE ArriveBare
  <2>1. /\ form = 0 /\ nav' = <<Login>> /\ modal' = "none" /\ form' = 1 /\ host' = "bare"
        /\ UNCHANGED <<running, forms, modal, delegate, camera, handed, filed>>
    BY <1>3 DEF ArriveBare, IInv, Shape
  <2>2. form' \in Forms /\ form' > form BY <1>1, <2>1
  <2>3. handed' \in FormData \cup {Missing} BY <2>1 DEF IInv, TypeOK
  <2> QED BY <2>1, <2>2, <2>3, NewInstance
<1>4. CASE NewForm \/ ClosePopup
  <2>1. /\ ReplaceForm /\ modal' = "none" /\ host = "stack" /\ nav = <<form>> /\ form \in Forms
        /\ handed' \in FormData \cup {Missing}
    <3>1. CASE NewForm BY <3>1, Looking DEF NewForm, IInv, TypeOK
    <3>2. CASE ClosePopup BY <3>2 DEF ClosePopup, IInv, Shape
    <3> QED BY <1>4, <3>1, <3>2
  <2>2. /\ form < MaxForms /\ form' = form + 1
        /\ nav' = AfterViewDidLoad(Append(Front(nav), form'), form')
        /\ UNCHANGED <<running, host, forms, delegate, camera, filed>>
    BY <2>1 DEF ReplaceForm
  <2>3. form' \in Forms /\ form' > form BY <2>1, <2>2, BoundAssumption DEF Forms
  <2>4. Front(nav) \in Seq(Forms)
    <3>1. Front(nav) = <<>> BY <2>1, Stacks
    <3>2. <<>> \in Seq(Forms) OBVIOUS
    <3> QED BY <3>1, <3>2
  <2>5. nav' = <<form'>> BY <2>2, <2>3, <2>4, ViewDidLoadAlone
  <2> QED BY <2>1, <2>2, <2>3, <2>5, NewInstance
<1> QED BY <1>2, <1>3, <1>4 DEF Replaces

----------------------------------------------------------------------------
(* The theorems.                                                           *)

\* Every step keeps the invariant; another instance only comes up by four steps, which
\* write to no form.
LEMMA StepHolds ==
    ASSUME IInv, [Next]_vars
    PROVE  IInv' /\ (form' # form => forms'[form'] = Fresh)
<1>1. CASE Replaces
  <2>1. IInv' /\ forms' = forms /\ form' \in Forms /\ form' > form BY <1>1, ReplaceStep
  <2> QED BY <2>1 DEF IInv, FutureFormsFresh
<1>2. CASE UNCHANGED vars
  <2>1. UNCHANGED <<running, host, nav, form, forms, modal, delegate, camera, handed, filed>>
    BY <1>2 DEF vars
  <2> QED BY <2>1 DEF camera, IInv, TypeOK, Shape, CameraTargetsCurrentForm, FutureFormsFresh,
                      TextsAgree, PhotoShown, FiledBefore, OneReportPerForm
<1>3. CASE Next /\ ~Replaces
  <2>1. IInv'
    BY <1>3, ModalStep, ShowMapStep, SubmitStep, EditStep, EndEditingStep, PickerStep,
       LeaveMapStep DEF Next, Replaces
  <2>2. form' = form
    BY <1>3 DEF Next, Replaces, ShowCamera, CancelSheet, PickImage, PickNothing, PickerGone,
                ChooseSource, BeginEditing, SelectCategory, Type, EndEditing, ShowMap, ShowMapBare,
                GoBack, SendLocation, SubmitIncomplete, CloseAlert, SubmitUnsaved, Submit,
                SubmitCrash
  <2> QED BY <2>1, <2>2
<1> QED BY <1>1, <1>2, <1>3

\* The invariant holds in every reachable state.
LEMMA InvHolds == Spec => []IInv
BY InitHolds, StepHolds, PTL DEF Spec

\* The variables keep their types: in particular nothing is filed whose address or
\* description is nil (FormTableController:120).
THEOREM FormTypes == Spec => []TypeOK
<1>1. IInv => TypeOK BY DEF IInv
<1> QED BY <1>1, InvHolds, PTL

\* The forced cast of the popup finds the form that was submitted, alone on its stack.
THEOREM PopupCastIsSafe == Spec => []ResetCastSafe
<1>1. IInv => ResetCastSafe BY DEF IInv, Shape, ResetCastSafe
<1> QED BY <1>1, InvHolds, PTL

\* The shared camera handler works for the form on the screen while it is up.
THEOREM CameraWorksForCurrentForm == Spec => []CameraTargetsCurrentForm
<1>1. IInv => CameraTargetsCurrentForm BY DEF IInv
<1> QED BY <1>1, InvHolds, PTL

\* A map on the stack delivers to the form under it.
THEOREM MapDeliversBelow == Spec => []MapDelegateIsBelow
<1>1. IInv => MapDelegateIsBelow BY Looking DEF MapDelegateIsBelow
<1> QED BY <1>1, InvHolds, PTL

\* The description of every form, replaced ones included, is what its text view shows.
THEOREM DescriptionsAreShown == Spec => []DescriptionIsText
<1>1. IInv => DescriptionIsText BY DEF IInv, TextsAgree, TextAgrees, DescriptionIsText
<1> QED BY <1>1, InvHolds, PTL

\* At the form, what is seen is what is set.
LEMMA PhotosSeen ==
    ASSUME IInv, AtForm
    PROVE  forms[form].shown = forms[form].photo
<1>1. form \in Forms /\ modal = "none" BY Looking
<1>2. forms[form] \in FormStates BY <1>1, FormFacts
<1>3. form # 0 BY <1>1 DEF Forms
<1>4. forms[form].shown <=> forms[form].photo BY <1>1, <1>3 DEF IInv, PhotoShown
<1>5. forms[form].shown \in BOOLEAN /\ forms[form].photo \in BOOLEAN BY <1>2 DEF FormStates
<1>6. CASE forms[form].photo BY <1>4, <1>5, <1>6, Zenon
<1>7. CASE ~forms[form].photo BY <1>4, <1>5, <1>7, Zenon
<1> QED BY <1>6, <1>7

\* A photo that is set can be seen, and one that is seen is set.
THEOREM PhotosAreVisible == Spec => []PhotoIsVisible
<1>1. IInv => PhotoIsVisible BY PhotosSeen DEF PhotoIsVisible
<1> QED BY <1>1, InvHolds, PTL

\* No form is filed twice.
THEOREM FormsAreFiledOnce == Spec => []OneReportPerForm
<1>1. IInv => OneReportPerForm BY DEF IInv
<1> QED BY <1>1, InvHolds, PTL

\* An instance that takes the place of another is empty.
THEOREM NewFormsAreEmpty == Spec => NewFormIsEmpty
<1>1. IInv /\ [Next]_vars => [form' # form => forms'[form'] = Fresh]_vars BY StepHolds
<1> QED BY <1>1, InvHolds, PTL DEF Spec, NewFormIsEmpty

=============================================================================
