-------------------------------- MODULE Lists --------------------------------
(* The page of the web client that lists the resources of one kind, and    *)
(* its dialog (security-view.js).  The kind is one field of the state that *)
(* the table, the dialog and every request read when they get to it; the   *)
(* platform knows a resource by its kind and its number, and the numbers   *)
(* of all kinds come from one sequence.                                    *)
EXTENDS Integers, FiniteSets

CONSTANTS
  Kind,
  Later,       \* the kinds whose dialog asks for more before it is filled in
  Res,         \* the customer's resources
  KindOf,      \* the kind of each
  Req,         \* requests that are not answered at one time
  None

VARIABLES
  kind,      \* state.resourceKind
  rows,      \* the kind of the resources in the table
  dialog,    \* the dialog: open or not, the kind and the number it is about,
             \* whose name it holds, and whose other values
  asked,     \* what is asked and not answered
  saved      \* the last save that the platform has taken (history)

vars == <<kind, rows, dialog, asked, saved>>

Some == Res \cup {None}
Call == {"list", "one", "more", "save"}
Request == [call : Call, kind : Kind, id : Some]
Dialog == [open : BOOLEAN, kind : Kind, id : Some, base : Some, detail : Some]

Init ==
  /\ kind \in Kind /\ rows = None /\ asked = [r \in Req |-> None] /\ saved = None
  /\ dialog = [open |-> FALSE, kind |-> kind, id |-> None, base |-> None, detail |-> None]

-----------------------------------------------------------------------------
AnyKindBug(k, x) == TRUE

(* tenant_resources is searched by kind and number; None is yet to be made. *)
Found(k, x) == IF x = None THEN TRUE ELSE KindOf[x] = k

Free(r) == asked[r] = None
Asked(r, c) == IF asked[r] = None THEN FALSE ELSE asked[r].call = c
Ask(r, c, k, x) == asked' = [asked EXCEPT ![r] = [call |-> c, kind |-> k, id |-> x]]
Answered(r) == asked' = [asked EXCEPT ![r] = None]

(* The navigation or a tab: another kind is listed.                         *)
Choose(r, k) ==
  /\ ~dialog.open /\ Free(r)
  /\ kind' = k /\ Ask(r, "list", k, None)
  /\ UNCHANGED <<rows, dialog, saved>>

(* loadResources: the rows drawn are those asked for, whatever the kind is. *)
Listed(r) ==
  /\ Asked(r, "list") /\ rows' = asked[r].kind /\ Answered(r)
  /\ UNCHANGED <<kind, dialog, saved>>

(* resourceTable: a row's button reads the resource anew, as one of the     *)
(* kind that is chosen.                                                     *)
Edit(r, x) ==
  /\ ~dialog.open /\ KindOf[x] = rows /\ Free(r)
  /\ Ask(r, "one", kind, x)
  /\ UNCHANGED <<kind, rows, dialog, saved>>

(* openResourceDialog: the form is emptied, and the name, the number and    *)
(* state.editingResource are set at once.  What a kind's own fields need is *)
(* asked for first, and only then are they filled in and the dialog shown.  *)
Opened(k, x) ==
  [open |-> dialog.open \/ k \notin Later, kind |-> k, id |-> x, base |-> x,
   detail |-> IF k \in Later THEN None ELSE x]

Read(r) ==
  LET x == asked[r].id IN
  /\ Asked(r, "one") /\ Found(asked[r].kind, x)
  /\ dialog' = Opened(kind, x)
  /\ IF kind \in Later THEN Ask(r, "more", kind, x) ELSE Answered(r)
  /\ UNCHANGED <<kind, rows, saved>>

New(r) ==
  /\ ~dialog.open /\ Free(r)
  /\ dialog' = Opened(kind, None)
  /\ IF kind \in Later THEN Ask(r, "more", kind, None) ELSE UNCHANGED asked
  /\ UNCHANGED <<kind, rows, saved>>

(* The rest of openResourceDialog, after its own requests.                  *)
Filled(r) ==
  /\ Asked(r, "more") /\ Answered(r)
  /\ dialog' = [dialog EXCEPT !.open = TRUE, !.detail = IF dialog.kind = asked[r].kind THEN asked[r].id ELSE @]
  /\ UNCHANGED <<kind, rows, saved>>

(* resourceForm: the form is sent to the number it holds, once at a time.   *)
Save(r) ==
  LET d == dialog IN
  /\ d.open /\ Free(r) /\ \A q \in Req : ~Asked(q, "save")
  /\ Ask(r, "save", d.kind, d.id)
  /\ saved' = IF Found(d.kind, d.id)
                THEN [kind |-> d.kind, to |-> d.id, base |-> d.base, detail |-> d.detail]
                ELSE saved
  /\ UNCHANGED <<kind, rows, dialog>>

(* The dialog is closed and the list is loaded again.                       *)
Saved(r) ==
  /\ Asked(r, "save") /\ Found(asked[r].kind, asked[r].id)
  /\ dialog' = [dialog EXCEPT !.open = FALSE] /\ Ask(r, "list", kind, None)
  /\ UNCHANGED <<kind, rows, saved>>

Fail(r) == asked[r] # None /\ Answered(r) /\ UNCHANGED <<kind, rows, dialog, saved>>

Close == dialog.open /\ dialog' = [dialog EXCEPT !.open = FALSE] /\ UNCHANGED <<kind, rows, asked, saved>>

Next ==
  \/ Close
  \/ \E r \in Req :
       \/ \E k \in Kind : Choose(r, k)
       \/ \E x \in Res : Edit(r, x)
       \/ New(r) \/ Listed(r) \/ Read(r) \/ Filled(r) \/ Save(r) \/ Saved(r) \/ Fail(r)

Spec == Init /\ [][Next]_vars

-----------------------------------------------------------------------------
TypeOK ==
  /\ kind \in Kind /\ rows \in Kind \cup {None} /\ dialog \in Dialog
  /\ \A r \in Req : asked[r] = None \/ asked[r] \in Request
  /\ saved \in [kind : Kind, to : Some, base : Some, detail : Some] \cup {None}

(* What the dialog saves and the platform takes is of one resource of the   *)
(* kind it is saved as; of the kinds whose dialog is filled in later, that  *)
(* is so of the name.                                                       *)
WholeSaved ==
  saved # None =>
    /\ saved.to # None => KindOf[saved.to] = saved.kind
    /\ saved.base = saved.to /\ (saved.kind \notin Later => saved.detail = saved.to)
=============================================================================
