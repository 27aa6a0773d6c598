--------------------------- MODULE LocationPicker ---------------------------
(***************************************************************************)
(* Choosing the place of a report: LocationViewController, opened from the *)
(* form any number of times, and what it hands to the form and its         *)
(* LocationCell.                                                           *)
(*                                                                         *)
(* Concurrent here: the user's gestures, Core Location's fixes, the map's  *)
(* region callbacks, and the geocoder, which answers the requests in any   *)
(* order, after the picker is gone too.                                    *)
(***************************************************************************)
EXTENDS Naturals

CONSTANTS
    Places,      \* where the map can stand
    Origin,      \* (0, 0): CLLocation() and CLLocationCoordinate2D()
    NoPin,       \* no annotation on the map
    NoText,      \* an empty text field; it shows its placeholder, "Loading address.."
    Typed,       \* an address the user typed over what was there
    Missing,     \* nil, in the form
    MaxMoves,    \* bound on the moves of the map and of its pin in one visit
    MaxVisits    \* bound on the visits to the picker

ASSUME PlaceAssumption ==
    /\ Origin \in Places
    /\ NoPin \notin Places
    /\ NoText # Typed /\ NoText # Missing /\ Typed # Missing
    /\ {NoText, Typed, Missing} \cap Places = {}

ASSUME BoundAssumption == MaxMoves \in Nat /\ MaxVisits \in Nat

\* What the field can hold.  The address of a place is written as the place.
Texts == Places \cup {NoText, Typed}

\* A reverse-geocoding request: the visit it was made in, and for which place.
Lookups == (1 .. MaxVisits) \X Places

VARIABLES
    running,       \* the process is alive
    open,          \* the picker is on top of the form
    visit,         \* which picker it is: each showMap makes a new one
    centre,        \* mapView.centerCoordinate
    due,           \* the map moved and has not called regionDidChange yet
    pin,           \* the annotation: where the user sees the pin
    userLocation,  \* the location the picker will deliver
    coordinate,    \* the device's place, from the first fix on
    anotationSet,  \* the first fix has come
    text,          \* addressField.text
    lookups,       \* how many requests of each kind the geocoder has not answered
    formLocation, formAddress,   \* the form
    label,         \* LocationCell.addressLabel.text
    instruction,   \* LocationCell's instruction is visible
    moved,         \* LocationCell.animationHappened: the button made room for the label
    \* history and counter
    stops,         \* the places looked up in this visit
    moves

picker == <<centre, due, pin, userLocation, coordinate, anotationSet, text>>
form == <<formLocation, formAddress, label, instruction, moved>>
vars == <<running, open, visit, picker, lookups, form, stops, moves>>

FlagTypes ==
    /\ running \in BOOLEAN /\ open \in BOOLEAN
    /\ due \in BOOLEAN /\ anotationSet \in BOOLEAN
    /\ instruction \in BOOLEAN /\ moved \in BOOLEAN
PickerTypes ==
    /\ visit \in 0 .. MaxVisits /\ moves \in 0 .. MaxMoves
    /\ centre \in Places /\ userLocation \in Places /\ coordinate \in Places
    /\ pin \in Places \cup {NoPin}
    /\ text \in Texts
    /\ stops \subseteq Places
LookupTypes == lookups \in [Lookups -> Nat]
FormTypes ==
    /\ formLocation \in Places \cup {Missing}
    /\ formAddress \in Texts \cup {Missing}
    /\ label \in Texts

\* The type invariant.
TypeOK == FlagTypes /\ PickerTypes /\ LookupTypes /\ FormTypes

Init ==
    /\ running = TRUE /\ open = FALSE /\ visit = 0
    /\ centre = Origin /\ due = FALSE /\ pin = NoPin
    /\ userLocation = Origin /\ coordinate = Origin /\ anotationSet = FALSE
    /\ text = NoText /\ lookups = [l \in Lookups |-> 0]
    /\ formLocation = Missing /\ formAddress = Missing
    /\ label = NoText /\ instruction = TRUE /\ moved = FALSE
    /\ stops = {} /\ moves = 0

----------------------------------------------------------------------------
\* The picker is gone; only the requests it made live on.
Release ==
    /\ open' = FALSE
    /\ centre' = Origin /\ due' = FALSE /\ pin' = NoPin
    /\ userLocation' = Origin /\ coordinate' = Origin /\ anotationSet' = FALSE
    /\ text' = NoText /\ stops' = {} /\ moves' = 0

\* showMap: a new picker.  The map opens where MapKit puts it, and may or may not
\* report that as a change of region.
ShowMap ==
    /\ running /\ ~open /\ visit < MaxVisits   \* nothing left of an earlier picker: Release
    /\ open' = TRUE /\ visit' = visit + 1
    /\ centre' \in Places /\ due' \in BOOLEAN
    /\ UNCHANGED <<running, pin, userLocation, coordinate, anotationSet, text, lookups, form,
                   stops, moves>>

\* A fix from Core Location.  Only the first moves the map.
Fix(p) ==
    /\ running /\ open
    /\ ~anotationSet
    /\ coordinate' = p /\ anotationSet' = TRUE
    /\ centre' = p /\ due' = TRUE
    /\ UNCHANGED <<running, open, visit, pin, userLocation, text, lookups, form, stops,
                   moves>>

\* The user drags the map.
Pan(p) ==
    /\ running /\ open /\ moves < MaxMoves /\ p # centre
    /\ moves' = moves + 1
    /\ centre' = p /\ due' = TRUE
    /\ UNCHANGED <<running, open, visit, pin, userLocation, coordinate, anotationSet, text,
                   lookups, form, stops>>

\* backToCurrent: also before the first fix, when coordinate is still (0, 0).
BackToCurrent ==
    /\ running /\ open /\ moves < MaxMoves
    /\ moves' = moves + 1
    /\ centre' = coordinate
    /\ due' = (due \/ centre # coordinate)
    /\ UNCHANGED <<running, open, visit, pin, userLocation, coordinate, anotationSet, text,
                   lookups, form, stops>>

\* The user drags the pin, which mapView(_:viewFor:) makes draggable: the annotation goes
\* along and nothing else does.  No callback of the picker hears of it.
DragPin(p) ==
    /\ running /\ open /\ moves < MaxMoves /\ pin # NoPin /\ p # pin
    /\ moves' = moves + 1
    /\ pin' = p
    /\ UNCHANGED <<running, open, visit, centre, due, userLocation, coordinate, anotationSet,
                   text, lookups, form, stops>>

\* Mutant of RegionDidChange: the location is only set with the first pin.
RegionDidChangeOnce ==
    /\ running /\ open /\ due
    /\ due' = FALSE
    /\ pin' = centre
    /\ userLocation' = IF pin = NoPin THEN centre ELSE userLocation
    /\ lookups' = [lookups EXCEPT ![<<visit, centre>>] = @ + 1]
    /\ stops' = stops \cup {centre}
    /\ UNCHANGED <<running, open, visit, centre, coordinate, anotationSet, text, form, moves>>

\* mapView(_:regionDidChangeAnimated:).  A new request; those under way stay so.
RegionDidChange ==
    /\ running /\ open /\ due
    /\ due' = FALSE
    /\ pin' = centre /\ userLocation' = centre
    /\ lookups' = [lookups EXCEPT ![<<visit, centre>>] = @ + 1]
    /\ stops' = stops \cup {centre}
    /\ UNCHANGED <<running, open, visit, centre, coordinate, anotationSet, text, form, moves>>

\* A request leaves the geocoder's hands.
Answered(v, p) ==
    /\ running /\ lookups[<<v, p>>] > 0
    /\ lookups' = [lookups EXCEPT ![<<v, p>>] = @ - 1]

\* Mutant of ReplyAddress: the field of whatever picker is there gets the text.
ReplyAddressToAny(v, p) ==
    /\ Answered(v, p)
    /\ text' = IF open THEN p ELSE text
    /\ UNCHANGED <<running, open, visit, centre, due, pin, userLocation, coordinate,
                   anotationSet, form, stops, moves>>

\* Mutant of ReplyAddress: the answer goes straight to the form.
ReplyAddressToForm(v, p) ==
    /\ Answered(v, p)
    /\ formAddress' = p /\ label' = p /\ instruction' = FALSE /\ moved' = TRUE
    /\ UNCHANGED <<running, open, visit, picker, formLocation, stops, moves>>

\* The geocoder answers with a placemark that has a number: the field of the picker
\* that asked gets the text, whatever is in it.
ReplyAddress(v, p) ==
    /\ Answered(v, p)
    /\ text' = IF open /\ v = visit THEN p ELSE text
    /\ UNCHANGED <<running, open, visit, centre, due, pin, userLocation, coordinate,
                   anotationSet, form, stops, moves>>

\* It answers with an error, or with a placemark without a number.
ReplyNothing(v, p) ==
    /\ Answered(v, p)
    /\ UNCHANGED <<running, open, visit, picker, form, stops, moves>>

\* It answers with a number but no street or no country: the forced unwrapping traps.
ReplyCrash(v, p) ==
    /\ Answered(v, p)
    /\ running' = FALSE
    /\ Release
    /\ UNCHANGED <<visit, form>>

\* The user edits the address field.
EditText(t) ==
    /\ running /\ open /\ t # text
    /\ text' = t
    /\ UNCHANGED <<running, open, visit, centre, due, pin, userLocation, coordinate,
                   anotationSet, lookups, form, stops, moves>>

\* Mutant of SendLocation: locationChanged before setLocation.
SendLocationAnimatingFirst ==
    /\ running /\ open
    /\ formLocation' = userLocation
    /\ formAddress' = text
    /\ label' = text
    /\ IF label = NoText
       THEN UNCHANGED <<instruction, moved>>
       ELSE instruction' = FALSE /\ moved' = TRUE
    /\ Release
    /\ UNCHANGED <<running, visit, lookups>>

\* Mutant of SendLocation: what is delivered is read off the map's annotation.
SendLocationOfPin ==
    /\ running /\ open
    /\ formLocation' = pin
    /\ formAddress' = text
    /\ label' = text
    /\ IF label' = NoText
       THEN UNCHANGED <<instruction, moved>>
       ELSE instruction' = FALSE /\ moved' = TRUE
    /\ Release
    /\ UNCHANGED <<running, visit, lookups>>

\* sendLocation: setLocation, locationChanged (performButtonAnimation) and the pop.
\* The guard compares the text with the placeholder, which is never the text.
SendLocation ==
    /\ running /\ open
    /\ formLocation' = userLocation
    /\ formAddress' = text
    /\ label' = text
    /\ IF label' = NoText
       THEN UNCHANGED <<instruction, moved>>
       ELSE instruction' = FALSE /\ moved' = TRUE
    /\ Release
    /\ UNCHANGED <<running, visit, lookups>>

GoBack ==
    /\ running /\ open
    /\ Release
    /\ UNCHANGED <<running, visit, lookups, form>>

Next ==
    \/ ShowMap \/ SendLocation \/ GoBack
    \/ BackToCurrent \/ RegionDidChange
    \/ \E p \in Places : Fix(p) \/ Pan(p) \/ DragPin(p)
    \/ \E t \in {NoText, Typed} : EditText(t)
    \/ \E v \in 1 .. MaxVisits, p \in Places :
          ReplyAddress(v, p) \/ ReplyNothing(v, p) \/ ReplyCrash(v, p)

Spec == Init /\ [][Next]_vars

----------------------------------------------------------------------------
(* Properties.                                                             *)

\* Whenever the map is at rest on a region it has reported, what Confirm would deliver
\* is the map's centre ("SETTING THE USER LOCATION EVERY TIME THE REGION UPDATES",
\* LocationViewController:89), although pans, fixes and backToCurrent all move the map,
\* with a callback still due or not, and only the callback moves the location.  It need
\* not be where the pin is seen: a pin that was dragged stands elsewhere.
LocationIsCentre == open /\ ~due /\ pin # NoPin => userLocation = centre

\* The field never shows the address of a place the map of this visit has not stood at:
\* an answer that comes after its picker was left must not reach the next one
\* (LocationViewController:93-105).
AddressIsOfThisVisit == open => text \in stops \cup {NoText, Typed}

\* What the form is given is one of: no address, the user's own, the address of a place
\* this very visit looked up; together with a place this visit looked up, or (0, 0).
\* The answers still under way to earlier visits never decide it.
DeliveredTogether ==
    [][formLocation' # formLocation \/ formAddress' # formAddress =>
         /\ open /\ ~open'
         /\ formAddress' \in stops \cup {NoText, Typed}
         /\ formLocation' \in stops \cup {Origin}]_vars

\* The cell never covers an address: once the form holds one, the instruction is gone
\* and the button has made room for the label, which shows what the form holds, over
\* any sequence of visits that deliver empty and non-empty addresses
\* (LocationCell:33-46, FormTableController:59-64).
CellShowsAddress ==
    /\ formAddress # Missing => label = formAddress
    /\ formAddress \notin {Missing, NoText} => ~instruction /\ moved
    /\ instruction = ~moved

----------------------------------------------------------------------------
(* What a text of the program says, and the code does not do.              *)

\* While the field reads "Loading address.." (Main.storyboard:26) Confirm delivers
\* nothing (the guard of LocationViewController:121).
NothingSentWhileLoading ==
    [][formLocation' # formLocation => text # NoText]_vars
=============================================================================
