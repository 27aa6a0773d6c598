----------------------------- MODULE ReportForm -----------------------------
(***************************************************************************)
(* Filling in and submitting a report: FormTableController and its         *)
(* DescriptionCell, the shared CameraHandler, the push of the location     *)
(* picker, and the popup (DataController) that replaces the form by a new  *)
(* one.                                                                    *)
(*                                                                         *)
(* Form instances are numbered.  What makes this hard is that the callbacks*)
(* - the camera's block, the map's delegate, the text view's - belong to   *)
(* the instance that set them up, and instances are replaced.              *)
(***************************************************************************)
EXTENDS Naturals, Sequences, SequencesExt

CONSTANTS
    Login,       \* LoginController, at the bottom of the navigation stack
    Map,         \* a LocationViewController on the stack (LocationPicker has its inside)
    Missing,     \* nil
    MaxForms     \* bound on the form instances of one run of the app

ASSUME BoundAssumption == MaxForms \in Nat \ {0}

Forms == 1 .. MaxForms

ASSUME SentinelAssumption ==
    /\ Login # Map /\ Login \notin Forms /\ Map \notin Forms
    /\ Missing \notin {"", "prompt", "words", "both", "street"}

\* "prompt" is "Please, describe the issue...", "both" the prompt with words added.
Texts == {"", "prompt", "words", "both"}
Colours == {"orange", "black", "lightGray"}

FormStates ==
    [photo : BOOLEAN, shown : BOOLEAN,          \* cameraImage.image set, and its alpha 1
     address : {Missing, "", "street"},         \* set together with formLocation
     category : BOOLEAN,                        \* selectedCategory is set
     text : Texts, colour : Colours, editing : BOOLEAN,       \* the text view
     description : Texts \cup {Missing}]

Fresh == [photo |-> FALSE, shown |-> FALSE, address |-> Missing, category |-> FALSE,
          text |-> "prompt", colour |-> "orange", editing |-> FALSE, description |-> Missing]

\* What Firestore is given, of the instance "form"; it has no field for the photo and the
\* location.  The user's name is the keychain's, and the category is left out.
Documents == [form : Forms, address : {"", "street"}, description : Texts]

\* What the popup is given: a FormData, which the document is the stored part of.
FormData == [photo : BOOLEAN, address : {"", "street"}, description : Texts]

VARIABLES
    running,      \* the process is alive
    host,         \* how the form is shown: not yet, on the navigation stack, or bare
    nav,          \* the navigation stack
    form,         \* the current form instance, 0 before the first
    forms,        \* what every instance holds
    modal,        \* what is presented over the form
    delegate,     \* the form the map on the stack delivers to
    currentVC,    \* CameraHandler.shared.currentVC, 0 for none
    pickedBlock,  \* the form that imagePickedBlock writes to, 0 for none
    handed,       \* the popup's form: nil if there was no identity in the keychain
    filed         \* the documents given to Firestore

camera == <<currentVC, pickedBlock>>
vars == <<running, host, nav, form, forms, modal, delegate, camera, handed, filed>>

\* The type invariant.
TypeOK ==
    /\ running \in BOOLEAN
    /\ host \in {"none", "stack", "bare"}
    /\ nav \in Seq(Forms \cup {Login, Map})
    /\ form \in 0 .. MaxForms
    /\ forms \in [Forms -> FormStates]
    /\ modal \in {"none", "sheet", "picker", "leaving", "alert", "popup", "map"}
    /\ delegate \in 0 .. MaxForms
    /\ currentVC \in 0 .. MaxForms /\ pickedBlock \in 0 .. MaxForms
    /\ handed \in FormData \cup {Missing}
    /\ filed \in Seq(Documents)

Init ==
    /\ running = TRUE /\ host = "none" /\ nav = <<Login>> /\ form = 0
    /\ forms = [n \in Forms |-> Fresh]
    /\ modal = "none" /\ delegate = 0 /\ currentVC = 0 /\ pickedBlock = 0
    /\ handed = Missing /\ filed = <<>>

----------------------------------------------------------------------------
(* Arriving at a form.                                                     *)

\* Mutant of AfterViewDidLoad: the stack is left alone.
StackKept(stack, n) == stack

\* viewDidLoad of instance n throws everything else off the stack it is on.
AfterViewDidLoad(stack, n) == IF n \in ToSet(stack) THEN <<n>> ELSE stack

\* From LoginController: a show segue, or the push after a Facebook login.
ArriveOnStack ==
    /\ running /\ host = "none"
    /\ host' = "stack" /\ form' = 1
    /\ nav' = AfterViewDidLoad(Append(nav, form'), form')
    /\ UNCHANGED <<running, forms, modal, delegate, camera, handed, filed>>

\* From SignInController the form is presented alone.  It has no navigation bar, hence
\* neither Submit nor New Form.
ArriveBare ==
    /\ running /\ host = "none"
    /\ host' = "bare" /\ form' = 1
    /\ UNCHANGED <<running, nav, forms, modal, delegate, camera, handed, filed>>

AtForm == running /\ host # "none" /\ modal = "none" /\ (host = "stack" => Last(nav) = form)
AtBar == AtForm /\ host = "stack"

----------------------------------------------------------------------------
(* The photo.                                                              *)

\* viewDidAppear: a photo that is set becomes visible.
Appeared(f) == [f EXCEPT !.shown = f.shown \/ f.photo]

\* Mutant of ShowCamera: the block is only set when there is none.
ShowCameraFirstBlock ==
    /\ AtForm
    /\ modal' = "sheet"
    /\ currentVC' = form
    /\ pickedBlock' = IF pickedBlock = 0 THEN form ELSE pickedBlock
    /\ UNCHANGED <<running, host, nav, form, forms, delegate, handed, filed>>

\* showCamera: the action sheet, and who gets the photo.
ShowCamera ==
    /\ AtForm
    /\ modal' = "sheet"
    /\ currentVC' = form /\ pickedBlock' = form
    /\ UNCHANGED <<running, host, nav, form, forms, delegate, handed, filed>>

\* Camera or Gallery: a picker over currentVC if the device has the source.
ChooseSource(available) ==
    /\ running /\ modal = "sheet"
    /\ modal' = IF available THEN "picker" ELSE "none"
    /\ UNCHANGED <<running, host, nav, form, forms, delegate, camera, handed, filed>>

CancelSheet ==
    /\ running /\ modal = "sheet"
    /\ modal' = "none"
    /\ UNCHANGED <<running, host, nav, form, forms, delegate, camera, handed, filed>>

\* didFinishPickingMediaWithInfo: the block gets the image, and currentVC dismisses.
PickImage ==
    /\ running /\ modal = "picker"
    /\ forms' = [forms EXCEPT ![pickedBlock].photo = TRUE]
    /\ modal' = "leaving"
    /\ UNCHANGED <<running, host, nav, form, delegate, camera, handed, filed>>

\* Cancelled, or the info holds no image.
PickNothing ==
    /\ running /\ modal = "picker"
    /\ modal' = "leaving"
    /\ UNCHANGED <<running, host, nav, form, forms, delegate, camera, handed, filed>>

\* Mutant of PickerGone: the picker is a sheet, and the form under it does not appear anew.
PickerGoneUnnoticed ==
    /\ running /\ modal = "leaving"
    /\ modal' = "none"
    /\ UNCHANGED <<running, host, nav, form, forms, delegate, camera, handed, filed>>

\* The picker has gone and the form appears.
PickerGone ==
    /\ running /\ modal = "leaving"
    /\ modal' = "none"
    /\ forms' = [forms EXCEPT ![form] = Appeared(@)]
    /\ UNCHANGED <<running, host, nav, form, delegate, camera, handed, filed>>

----------------------------------------------------------------------------
(* The description and the category.                                       *)

\* textViewDidBeginEditing clears the orange prompt, and only that one; the model is
\* not told.
BeginEditing ==
    /\ AtForm /\ ~forms[form].editing
    /\ forms' = [forms EXCEPT ![form] =
          IF @.colour = "orange" THEN [@ EXCEPT !.editing = TRUE, !.text = "", !.colour = "black"]
                                 ELSE [@ EXCEPT !.editing = TRUE]]
    /\ UNCHANGED <<running, host, nav, form, modal, delegate, camera, handed, filed>>

\* textViewDidChange.
Type(t) ==
    /\ AtForm /\ forms[form].editing
    /\ t # "prompt"
    /\ t = "both" => forms[form].text \in {"prompt", "both"}
    /\ forms' = [forms EXCEPT ![form].text = t, ![form].description = t]
    /\ UNCHANGED <<running, host, nav, form, modal, delegate, camera, handed, filed>>

\* Mutant of EndEditing: the text is reported before the prompt is put back.
EndEditingReportingFirst(n) ==
    /\ running /\ forms[n].editing
    /\ LET f == [forms[n] EXCEPT !.editing = FALSE, !.description = forms[n].text]
       IN  forms' = [forms EXCEPT ![n] =
              IF f.text = "" THEN [f EXCEPT !.text = "prompt", !.colour = "lightGray"] ELSE f]
    /\ UNCHANGED <<running, host, nav, form, modal, delegate, camera, handed, filed>>

\* textViewDidEndEditing, of a form that was replaced too.
EndEditing(n) ==
    /\ running /\ forms[n].editing
    /\ LET f == [forms[n] EXCEPT !.editing = FALSE]
           g == IF f.text = "" THEN [f EXCEPT !.text = "prompt", !.colour = "lightGray"] ELSE f
       IN  forms' = [forms EXCEPT ![n] = [g EXCEPT !.description = g.text]]
    /\ UNCHANGED <<running, host, nav, form, modal, delegate, camera, handed, filed>>

\* pickerView(_:didSelectRow:): the row that is shown first is not selected by itself.
SelectCategory ==
    /\ AtForm
    /\ forms' = [forms EXCEPT ![form].category = TRUE]
    /\ UNCHANGED <<running, host, nav, form, modal, delegate, camera, handed, filed>>

----------------------------------------------------------------------------
(* The map.                                                                *)

\* Mutant of ShowMap: the delegate is only set when there is none.
ShowMapFirstDelegate ==
    /\ AtBar
    /\ nav' = Append(nav, Map)
    /\ delegate' = IF delegate = 0 THEN form ELSE delegate
    /\ UNCHANGED <<running, host, form, forms, modal, camera, handed, filed>>

\* showMap, and prepare(for:).
ShowMap ==
    /\ AtBar
    /\ nav' = Append(nav, Map) /\ delegate' = form
    /\ UNCHANGED <<running, host, form, forms, modal, camera, handed, filed>>

\* On the bare form the show segue presents the map, and the map has no bar to leave by.
ShowMapBare ==
    /\ AtForm /\ host = "bare"
    /\ modal' = "map" /\ delegate' = form
    /\ UNCHANGED <<running, host, nav, form, forms, camera, handed, filed>>

\* Confirm, with the address that is in the field; the form appears again.
SendLocation(a) ==
    /\ running /\ Last(nav) = Map
    /\ nav' = Front(nav)
    /\ LET told == [forms EXCEPT ![delegate].address = a]
       IN  forms' = [told EXCEPT ![form] = Appeared(@)]
    /\ UNCHANGED <<running, host, form, modal, delegate, camera, handed, filed>>

GoBack ==
    /\ running /\ Last(nav) = Map
    /\ nav' = Front(nav)
    /\ forms' = [forms EXCEPT ![form] = Appeared(@)]
    /\ UNCHANGED <<running, host, form, modal, delegate, camera, handed, filed>>

----------------------------------------------------------------------------
(* Submit, the popup and the next form.                                    *)

\* Mutant of Complete: the address is not asked for.
CompleteWithoutAddress == forms[form].description # Missing

\* formImage is never nil: without a photo it is an empty image.
Complete == forms[form].address # Missing /\ forms[form].description # Missing

\* The alert is presented, and the popup's presentation on top of it is refused.
SubmitIncomplete ==
    /\ AtBar /\ ~Complete
    /\ modal' = "alert"
    /\ UNCHANGED <<running, host, nav, form, forms, delegate, camera, handed, filed>>

CloseAlert ==
    /\ running /\ modal = "alert"
    /\ modal' = "none"
    /\ UNCHANGED <<running, host, nav, form, forms, delegate, camera, handed, filed>>

\* No identity in the keychain (Session says when): the popup comes up all the same.
SubmitUnsaved ==
    /\ AtBar /\ Complete
    /\ modal' = "popup"
    /\ UNCHANGED <<running, host, nav, form, forms, delegate, camera, handed, filed>>

\* selectedCategory! or uid! traps.
SubmitCrash(signedIn) ==
    /\ AtBar /\ Complete
    /\ ~forms[form].category \/ ~signedIn
    /\ running' = FALSE
    /\ UNCHANGED <<host, nav, form, forms, modal, delegate, camera, handed, filed>>

Submit ==
    /\ AtBar /\ Complete
    /\ forms[form].category
    /\ LET f == forms[form]
       IN  /\ handed' = [photo |-> f.photo, address |-> f.address, description |-> f.description]
           /\ filed' = Append(filed,
                 [form |-> form, address |-> f.address, description |-> f.description])
    /\ modal' = "popup"
    /\ UNCHANGED <<running, host, nav, form, forms, delegate, camera>>

\* Mutant of ReplaceForm: the new instance starts as a copy.
ReplaceFormByCopy ==
    /\ form < MaxForms
    /\ form' = form + 1
    /\ nav' = AfterViewDidLoad(Append(Front(nav), form'), form')
    /\ forms' = [forms EXCEPT ![form'] = forms[form]]
    /\ UNCHANGED <<running, host, delegate, camera, filed>>

\* resetForm of the form: a new instance in the place of the top of the stack.
ReplaceForm ==
    /\ form < MaxForms
    /\ form' = form + 1
    /\ nav' = AfterViewDidLoad(Append(Front(nav), form'), form')
    /\ UNCHANGED <<running, host, forms, delegate, camera, filed>>

NewForm ==
    /\ AtBar
    /\ ReplaceForm
    /\ UNCHANGED <<modal, handed>>

\* Mutant of ClosePopup: the popup only dismisses itself.
ClosePopupOnly ==
    /\ running /\ modal = "popup"
    /\ modal' = "none" /\ handed' = Missing
    /\ UNCHANGED <<running, host, nav, form, forms, delegate, camera, filed>>

\* resetForm of the popup: the bottom of the presenting stack is cast to a form (the cast
\* would trap on anything else, which ResetCastSafe rules out).
ClosePopup ==
    /\ running /\ modal = "popup"
    /\ Head(nav) \in Forms
    /\ ReplaceForm
    /\ modal' = "none" /\ handed' = Missing

----------------------------------------------------------------------------
Next ==
    \/ ArriveOnStack \/ ArriveBare
    \/ ShowCamera \/ CancelSheet \/ PickImage \/ PickNothing \/ PickerGone
    \/ \E available \in BOOLEAN : ChooseSource(available)
    \/ BeginEditing \/ SelectCategory
    \/ \E t \in Texts : Type(t)
    \/ \E n \in Forms : EndEditing(n)
    \/ ShowMap \/ ShowMapBare \/ GoBack
    \/ \E a \in {"", "street"} : SendLocation(a)
    \/ SubmitIncomplete \/ CloseAlert \/ SubmitUnsaved \/ Submit
    \/ \E signedIn \in BOOLEAN : SubmitCrash(signedIn)
    \/ NewForm \/ ClosePopup

Spec == Init /\ [][Next]_vars

----------------------------------------------------------------------------
(* Properties.                                                             *)

\* The popup's forced cast (DataController:39) cannot trap, and what it resets is the
\* form that was submitted: whenever the popup is up the stack is that form alone,
\* although forms arrive over LoginController and maps are pushed over forms.
ResetCastSafe == modal = "popup" => nav = <<form>>

\* A photo goes to the form on the screen and is dismissed from it: while the sheet or
\* the picker is up, the shared CameraHandler speaks of the current instance, never of
\* one that was replaced since (CameraController:13-18, FormTableController:100-108).
CameraTargetsCurrentForm ==
    modal \in {"sheet", "picker", "leaving"} => currentVC = form /\ pickedBlock = form

\* What the map delivers goes to the form under it (FormTableController:115-118).
MapDelegateIsBelow == Last(nav) = Map => nav = <<form, Map>> /\ delegate = form

\* What would be submitted as description is what the text view shows, the prompt
\* included, through every order of begin, change and end (DescriptionCell:32-48).
DescriptionIsText ==
    \A n \in Forms :
        IF forms[n].description = Missing
        THEN forms[n].text \in {"", "prompt"} /\ ~(forms[n].text = "" /\ ~forms[n].editing)
        ELSE forms[n].text = forms[n].description

\* A photo that is set is visible whenever the user looks at the form
\* (FormTableController:36-41, 182-192).
PhotoIsVisible == AtForm => forms[form].shown = forms[form].photo

\* No form is submitted twice: the popup stands between a report and the next one, and
\* only leaves with its form (DataController:38-44).
OneReportPerForm ==
    \A i, j \in 1 .. Len(filed) : filed[i].form = filed[j].form => i = j

\* A form that takes the place of another starts empty, whatever callbacks of the old
\* one are still to come (FormTableController:168-175).
NewFormIsEmpty == [][form' # form => forms'[form'] = Fresh]_vars

----------------------------------------------------------------------------
(* What a text of the program says, and the code does not do.              *)

\* "Make sure you have added a photo, address and description"
\* (FormTableController:154): a submission that is accepted, which hands the popup its
\* FormData and files the document, has all three.
AcceptedReportsAreComplete ==
    handed # Missing =>
        /\ handed.photo
        /\ handed.address # ""
        /\ handed.description \in {"words", "both"}
=============================================================================
