---------------------------- MODULE ProductForm ----------------------------
(***************************************************************************)
(* The forms of the web client with which a seller offers a product        *)
(* (components/Newgonggu.js) and changes one (components/Editgonggu.js).   *)
(*                                                                         *)
(* Both keep all fields in one state, newform.  A field that is typed into *)
(* is set in the newform of the last render; a photo is set, when it has   *)
(* been read, in the newform of the render in which its file was chosen;   *)
(* and the product to be changed replaces them all when it arrives.        *)
(***************************************************************************)
EXTENDS Integers, FiniteSets

CONSTANTS TypedFields,  \* the fields typed into or selected: title, price, dates ...
          MaxVersions,  \* bound: changes of one field
          MaxSubmits    \* bound: calls of POST or PUT /sell under way

Photos == {"mainPhoto", "sizePhoto"}
Fields == TypedFields \cup Photos \cup {"managerId"}

ASSUME FieldsAssumption == TypedFields \cap (Photos \cup {"managerId"}) = {}
ASSUME VersionsAssumption == MaxVersions \in Nat \ {0} /\ MaxSubmits \in Nat

VARIABLES
  pfForm,     \* the form that is mounted: none, "Newgonggu" or "Editgonggu"
  pfNewform,  \* its state newform
  pfReads,    \* files being read, each with the newform of its render
  pfFetch,    \* is the product to be changed still asked for
  pfPosts,    \* calls of POST or PUT /sell under way
  pfMeant,    \* history: what the user last put into each field
  pfRaced     \* history: was a field changed or sent while a file or the product was awaited

pfVars == <<pfForm, pfNewform, pfReads, pfFetch, pfPosts, pfMeant, pfRaced>>

(* A value is a version: 0 is empty or null, Fetched what the product had. *)
Fetched == MaxVersions + 1
Values == 0..Fetched
Blank == [f \in Fields |-> 0]

ProductFormInit ==
  /\ pfForm = "none" /\ pfNewform = Blank /\ pfReads = {} /\ pfFetch = FALSE
  /\ pfPosts = 0 /\ pfMeant = Blank /\ pfRaced = FALSE

(* A file is read or the product awaited: the form may change under the user. *)
Awaiting == pfReads # {} \/ pfFetch

(* The routes show a form when anything is stored in the session.  The effect of  *)
(* Newgonggu sets the manager.                                                    *)
Newgonggu ==
  /\ pfForm = "none"
  /\ pfForm' = "Newgonggu"
  /\ pfNewform' = [Blank EXCEPT !.managerId = 1]
  /\ pfMeant' = pfNewform'
  /\ pfRaced' = FALSE
  /\ UNCHANGED <<pfReads, pfFetch, pfPosts>>

(* The effect of Editgonggu asks for the product. *)
Editgonggu ==
  /\ pfForm = "none"
  /\ pfForm' = "Editgonggu"
  /\ pfNewform' = Blank /\ pfMeant' = Blank
  /\ pfFetch' = TRUE
  /\ pfRaced' = FALSE
  /\ UNCHANGED <<pfReads, pfPosts>>

Close == pfForm' = "none" /\ pfNewform' = Blank /\ pfReads' = {} /\ pfFetch' = FALSE

LeaveForm ==
  /\ pfForm # "none"
  /\ Close
  /\ UNCHANGED <<pfPosts, pfMeant, pfRaced>>

(* fetchData: the whole of newform, or an alert and the start page. *)
FetchData ==
  /\ pfFetch
  /\ \/ /\ pfNewform' = [f \in Fields |-> Fetched]
        /\ pfMeant' = IF pfRaced THEN pfMeant ELSE pfNewform'
        /\ pfFetch' = FALSE
        /\ UNCHANGED <<pfForm, pfReads>>
     \/ Close /\ UNCHANGED pfMeant
  /\ UNCHANGED <<pfPosts, pfRaced>>

NextVersion(f) == IF pfMeant[f] = Fetched THEN 1 ELSE pfMeant[f] + 1

OnChangeAlone(f) ==   \* the other fields not copied, for mutation
  /\ pfForm # "none" /\ NextVersion(f) <= MaxVersions
  /\ pfNewform' = [Blank EXCEPT ![f] = NextVersion(f)]
  /\ pfMeant' = [pfMeant EXCEPT ![f] = NextVersion(f)]
  /\ pfRaced' = (pfRaced \/ Awaiting)
  /\ UNCHANGED <<pfForm, pfReads, pfFetch, pfPosts>>

(* onChange *)
OnChange(f) ==
  /\ pfForm # "none" /\ NextVersion(f) <= MaxVersions
  /\ pfNewform' = [pfNewform EXCEPT ![f] = NextVersion(f)]
  /\ pfMeant' = [pfMeant EXCEPT ![f] = NextVersion(f)]
  /\ pfRaced' = (pfRaced \/ Awaiting)
  /\ UNCHANGED <<pfForm, pfReads, pfFetch, pfPosts>>

(* encodeFileToBase64 and encodeInfoToBase64: reading begins.  No file, no change. *)
(* Bound: one file of each photo is read at a time.                                *)
ChooseFile(f) ==
  /\ pfForm # "none" /\ NextVersion(f) <= MaxVersions
  /\ \A read \in pfReads : read.field # f
  /\ pfReads' = pfReads \cup {[field |-> f, value |-> NextVersion(f), newform |-> pfNewform]}
  /\ pfMeant' = [pfMeant EXCEPT ![f] = NextVersion(f)]
  /\ pfRaced' = (pfRaced \/ Awaiting)
  /\ UNCHANGED <<pfForm, pfNewform, pfFetch, pfPosts>>

(* onloadend of the main photo, which also ends a failure, with null. *)
EncodeFileToBase64 ==
  \E read \in pfReads, ok \in BOOLEAN :
    /\ read.field = "mainPhoto"
    /\ pfNewform' = [read.newform EXCEPT !.mainPhoto = IF ok THEN read.value ELSE 0]
    /\ pfReads' = pfReads \ {read}
    /\ pfRaced' = (pfRaced \/ ~ok)
    /\ UNCHANGED <<pfForm, pfFetch, pfPosts, pfMeant>>

(* onload of the size photo: a failure changes nothing. *)
EncodeInfoToBase64 ==
  \E read \in pfReads, ok \in BOOLEAN :
    /\ read.field = "sizePhoto"
    /\ pfNewform' = IF ok THEN [read.newform EXCEPT !.sizePhoto = read.value] ELSE pfNewform
    /\ pfReads' = pfReads \ {read}
    /\ pfRaced' = (pfRaced \/ ~ok)
    /\ UNCHANGED <<pfForm, pfFetch, pfPosts, pfMeant>>

(* The reset button of Newgonggu empties the fields on the screen, not newform. *)
ResetFields ==
  /\ pfForm = "Newgonggu"
  /\ pfMeant' = [Blank EXCEPT !.managerId = pfMeant.managerId]
  /\ pfRaced' = (pfRaced \/ Awaiting \/ pfMeant' # pfMeant)
  /\ UNCHANGED <<pfForm, pfNewform, pfReads, pfFetch, pfPosts>>

(* handleSubmit; the button stays enabled. *)
HandleSubmit ==
  /\ pfForm # "none"
  /\ pfPosts < MaxSubmits
  /\ pfPosts' = pfPosts + 1
  /\ pfRaced' = (pfRaced \/ Awaiting)
  /\ UNCHANGED <<pfForm, pfNewform, pfReads, pfFetch, pfMeant>>

(* Its answer: the start page, whatever page is open by then, or for a refusal *)
(* nothing or an alert.                                                        *)
SubmitAnswered ==
  \E ok \in BOOLEAN :
    /\ pfPosts > 0
    /\ pfPosts' = pfPosts - 1
    /\ IF ok THEN Close ELSE UNCHANGED <<pfForm, pfNewform, pfReads, pfFetch>>
    /\ UNCHANGED <<pfMeant, pfRaced>>

(* What the fields and buttons of a form call. *)
FormFields ==
  \/ \E f \in TypedFields : OnChange(f)
  \/ \E f \in Photos : ChooseFile(f)
  \/ HandleSubmit

(* Newgonggu's buttons beside its fields, and Editgonggu's. *)
NewgongguForm == pfForm = "Newgonggu" /\ (FormFields \/ ResetFields)
EditgongguForm == pfForm = "Editgonggu" /\ (FormFields \/ LeaveForm)

ProductFormNext ==
  \/ Newgonggu \/ Editgonggu \/ LeaveForm
  \/ NewgongguForm \/ EditgongguForm
  \/ FetchData \/ EncodeFileToBase64 \/ EncodeInfoToBase64
  \/ SubmitAnswered

ProductFormSpec == ProductFormInit /\ [][ProductFormNext]_pfVars

-----------------------------------------------------------------------------
(* Properties *)

ProductFormTypeOK ==
  /\ pfForm \in {"none", "Newgonggu", "Editgonggu"}
  /\ pfNewform \in [Fields -> Values]
  /\ pfReads \subseteq [field : Photos, value : 1..MaxVersions, newform : [Fields -> Values]]
  /\ pfFetch \in BOOLEAN
  /\ pfPosts \in 0..MaxSubmits
  /\ pfMeant \in [Fields -> Values]
  /\ pfRaced \in BOOLEAN

(* A form holds, and sends, what the user last put into each of its fields, a file  *)
(* being read excepted, as long as the user waits for every file and for the        *)
(* product before going on, does not reset the form, and no file is unreadable      *)
(* (Newgonggu.js and Editgonggu.js onChange, encodeFileToBase64, fetchData).        *)
FormKeepsWhatWasMeant ==
  pfForm # "none" /\ ~pfRaced =>
    \A f \in Fields : pfNewform[f] = pfMeant[f] \/ \E read \in pfReads : read.field = f
=============================================================================
