---------------------------- MODULE AdminConsole ----------------------------
(***************************************************************************)
(* The admin web console: one React component whose state is changed by    *)
(* what the admin clicks and by answers of the admin API, which arrive in  *)
(* any order.                                                              *)
(*                                                                         *)
(* A handler that awaits the API is a call in a slot.  What it does before *)
(* an await is one step and so is what it does after the answer; with a    *)
(* step go the render it causes and the effects of that render.  A handler *)
(* keeps the state of the render it was created in (held, open), unless it *)
(* uses the functional form of a setter.  The tenant chosen above a page   *)
(* counts as a filter of it.  Left out: the pages that hold no selection   *)
(* (home, wallets), the performance of a promoter, the status line.        *)
(***************************************************************************)
EXTENDS Sequences, SequencesExt, FiniteSets

CONSTANTS
    Rows,     \* ids of the rows a page may list
    Answers,  \* what a load may answer, per page: sequences of rows
    Slots,    \* bound: calls in flight at once
    Tours,    \* bound: sets of pages one session of the console visits
    None      \* no row, '' or null

\* Pages whose selection is kept by a functional update.
Updated == {"fraud", "promoters", "settlements", "webhooks"}
Pages == Updated \cup {"users", "tenants"}

VARIABLES
    tour,     \* the pages this behaviour visits
    token,    \* whether a token is in the state and in localStorage
    auth,     \* isAuthenticated
    view,     \* the page shown
    loading,  \* the one flag that disables the buttons
    list,     \* the rows of each page
    sel,      \* the selected row of each page
    detail,   \* whose detail is loaded; of tenants, whose config the drafts show
    pane,     \* whether the page shows a detail instead of its list
    call,     \* the calls in flight
    patient   \* history: no click and no 401 came while a call that sets loading
              \* was out

data == <<list, sel, detail, pane>>
session == <<token, auth>>
vars == <<tour, session, view, loading, data, call, patient>>

Ids(rows) == {rows[i] : i \in DOMAIN rows}
First(rows) == IF rows = <<>> THEN None ELSE rows[1]

NoCall == [op |-> "idle", page |-> "users", row |-> None, held |-> None, open |-> FALSE]
Flagged(c) ==
    /\ c.op # "idle"
    /\ c.op = "list" /\ c.page \in Updated => c.row # None

\* The fallback of selectedUser and selectedTenant to the first row.
Selected(p) == IF sel[p] \in Ids(list[p]) THEN sel[p] ELSE First(list[p])

\* Every piece of the state has its type, and what is selected is on the list:
\* of webhooks alone, a replay may select a row that has left it.
TypeOK ==
    /\ tour \in Tours
    /\ {token, auth, loading, patient} \subseteq BOOLEAN
    /\ view \in tour \cup {"home"}
    /\ \A p \in Pages :
          /\ list[p] \in Answers[p] \cup {<<>>}
          /\ sel[p] \in (IF p = "webhooks" THEN Rows ELSE Ids(list[p])) \cup {None}
          /\ detail[p] \in Rows \cup {None}
          /\ pane[p] \in BOOLEAN
    /\ \A s \in Slots :
          /\ call[s].op \in
                {"idle", "login", "list", "detail", "context", "submit", "create"}
          /\ call[s].op \in {"detail", "context", "submit", "create"} => call[s].row # None

Init ==
    /\ tour \in Tours
    /\ token = FALSE
    /\ auth = FALSE
    /\ view = "home"
    /\ loading = FALSE
    /\ list = [p \in Pages |-> <<>>]
    /\ sel = [p \in Pages |-> None]
    /\ detail = [p \in Pages |-> None]
    /\ pane = [p \in Pages |-> FALSE]
    /\ call = [s \in Slots |-> NoCall]
    /\ patient = TRUE

-----------------------------------------------------------------------------
(* Calls.                                                                  *)

Idle(s) == call[s].op = "idle"

\* An event the admin causes.
Click == patient' = (patient /\ \A s \in Slots : ~Flagged(call[s]))

Request(op, p, row) ==
    [op |-> op, page |-> p, row |-> row, held |-> sel[p], open |-> pane[p]]

Begin(s, op, p, row) ==
    /\ Idle(s)
    /\ call' = [call EXCEPT ![s] = Request(op, p, row)]
    /\ loading' = (loading \/ Flagged(Request(op, p, row)))

Continue(s, op, row) == call' = [call EXCEPT ![s].op = op, ![s].row = row]

\* The end of the handler, with its finally.
Finish(s) ==
    /\ call' = [call EXCEPT ![s] = NoCall]
    /\ loading' = (loading /\ ~Flagged(call[s]))

\* The load that an effect starts for the page shown; tenants has none.
Reload(calls, t, p) ==
    IF p \in {"home", "tenants"} THEN calls
    ELSE [calls EXCEPT ![t] = Request("list", p, None)]

-----------------------------------------------------------------------------
(* Signing in and out.  The login page is shown exactly when auth is       *)
(* false: an effect corrects the path.                                     *)

Login(s) ==
    /\ ~auth
    /\ ~loading
    /\ Begin(s, "login", "tenants", None)
    /\ Click
    /\ UNCHANGED <<tour, session, view, data>>

\* Two effects follow: the tenants are loaded and so is the page shown.
LoggedIn(s) ==
    \E t \in Slots :
        /\ call[s].op = "login"
        /\ t # s
        /\ Idle(t)
        /\ token' = TRUE
        /\ auth' = TRUE
        /\ call' = Reload([call EXCEPT ![s] = Request("list", "tenants", None)], t, view)
        /\ loading' = TRUE
        /\ UNCHANGED <<tour, view, data, patient>>

LoginRefused(s) ==
    /\ call[s].op = "login"
    /\ auth' = FALSE
    /\ Finish(s)
    /\ UNCHANGED <<tour, token, view, data, patient>>

\* What logout clears: the lists of the other pages stay.
Cleared(f, empty) == [f EXCEPT !["tenants"] = empty, !["users"] = empty]

SignOut ==
    /\ token' = FALSE
    /\ auth' = FALSE
    /\ list' = Cleared(list, <<>>)
    /\ sel' = Cleared(sel, None)
    /\ detail' = [detail EXCEPT !["users"] = None]
    /\ UNCHANGED pane

Logout ==
    /\ auth
    /\ SignOut
    /\ Click
    /\ UNCHANGED <<tour, view, loading, call>>

\* The browser loads the page again: only the token is kept.
Refresh(s) ==
    /\ token
    /\ auth' = TRUE
    /\ view' = "home"
    /\ list' = [p \in Pages |-> <<>>]
    /\ sel' = [p \in Pages |-> None]
    /\ detail' = [p \in Pages |-> None]
    /\ pane' = [p \in Pages |-> FALSE]
    /\ call' = [t \in Slots |->
                  IF t # s THEN NoCall
                  ELSE [NoCall EXCEPT !.op = "list", !.page = "tenants"]]
    /\ loading' = TRUE
    /\ patient' = TRUE
    /\ UNCHANGED <<tour, token>>

-----------------------------------------------------------------------------
(* Loading lists.                                                          *)

Visit(s, p) ==
    /\ auth
    /\ p \in tour \ {view}
    /\ view' = p
    /\ Click
    /\ IF token /\ p # "tenants" THEN Begin(s, "list", p, None)
       ELSE UNCHANGED <<call, loading>>
    /\ UNCHANGED <<tour, session, data>>

\* A filter of the page, its search or its refresh button.
LoadAgain(s) ==
    /\ auth /\ token
    /\ view # "home"
    /\ view \in {"tenants"} => ~loading
    /\ Begin(s, "list", view, None)
    /\ Click
    /\ UNCHANGED <<tour, session, view, data>>

Show(p, rows, chosen) ==
    /\ list' = [list EXCEPT ![p] = rows]
    /\ sel' = [sel EXCEPT ![p] = chosen]

Listing(s, p) == call[s].op = "list" /\ call[s].page = p

\* loadUsers goes by the selection and the pane it started with.
UsersListed(s) ==
    \E rows \in Answers["users"] :
        LET chosen == IF call[s].held \in Ids(rows) THEN call[s].held ELSE First(rows)
        IN  /\ Listing(s, "users")
            /\ Show("users", rows, chosen)
            /\ IF call[s].open /\ chosen # None
               THEN Continue(s, "context", chosen) /\ UNCHANGED <<detail, loading>>
               ELSE Finish(s) /\ detail' = [detail EXCEPT !["users"] = None]
            /\ UNCHANGED <<tour, session, view, pane, patient>>

\* Also when the context of the chosen user cannot be loaded.
UsersFailed(s) ==
    /\ Listing(s, "users") \/ call[s].op = "context"
    /\ Show("users", <<>>, None)
    /\ detail' = [detail EXCEPT !["users"] = None]
    /\ Finish(s)
    /\ UNCHANGED <<tour, session, view, pane, patient>>

\* Mutants of Kept: one goes by the selection the load started with, one does
\* not look whether the selection is still listed.
KeptStale(s, p, rows) == {IF call[s].held \in Ids(rows) THEN call[s].held ELSE First(rows)}
KeptUnlisted(s, p, rows) == {IF sel[p] # None THEN sel[p] ELSE First(rows)}

\* The functional update: the selection as it is when the answer arrives.
Kept(s, p, rows) ==
    IF sel[p] \in Ids(rows) THEN {sel[p]}
    ELSE IF p = "settlements" /\ rows # <<>> THEN Ids(rows)  \* the open cycle first
    ELSE {First(rows)}

\* The lists of the other pages.  A replay opens its row again if it was open
\* and selected when the replay was asked for.
RowsListed(s) ==
    \E p \in Updated : \E rows \in Answers[p] : \E chosen \in Kept(s, p, rows) :
        LET empty == rows = <<>> /\ p \in {"fraud", "webhooks"}
            again == /\ p = "webhooks"
                     /\ call[s].row # None
                     /\ call[s].open
                     /\ call[s].held = call[s].row
        IN  /\ Listing(s, p)
            /\ Show(p, rows, IF again THEN call[s].row ELSE chosen)
            /\ detail' = IF empty THEN [detail EXCEPT ![p] = None] ELSE detail
            /\ pane' = IF empty THEN [pane EXCEPT ![p] = FALSE] ELSE pane
            /\ IF again THEN Continue(s, "detail", call[s].row) /\ UNCHANGED loading
               ELSE Finish(s)
            /\ UNCHANGED <<tour, session, view, patient>>

RowsFailed(s) ==
    \E p \in Updated :
        /\ Listing(s, p)
        /\ IF p \in {"promoters", "settlements"} THEN Show(p, <<>>, None)
           ELSE UNCHANGED <<list, sel>>
        /\ Finish(s)
        /\ UNCHANGED <<tour, session, view, detail, pane, patient>>

\* loadTenants signs in whoever it answers, drops a selection that is gone and
\* lets an effect load the page shown again; another effect resets the drafts.
TenantsListed(s) ==
    \E rows \in Answers["tenants"] :
        LET chosen == IF sel["tenants"] \in Ids(rows) THEN sel["tenants"] ELSE None
            again == token /\ view \in Updated
        IN  /\ Listing(s, "tenants")
            /\ Show("tenants", rows, chosen)
            /\ detail' = IF rows = <<>> THEN detail
                         ELSE [detail EXCEPT !["tenants"] =
                                  IF chosen = None THEN First(rows) ELSE chosen]
            /\ auth' = TRUE
            /\ loading' = FALSE
            /\ call' = [call EXCEPT ![s] =
                  IF again THEN Request("list", view, None) ELSE NoCall]
            /\ UNCHANGED <<tour, token, view, pane, patient>>

\* An answer that says 401 signs out.
TenantsFailed(s) ==
    /\ Listing(s, "tenants")
    /\ \/ /\ SignOut
          /\ patient' = (patient /\ \A t \in Slots \ {s} : ~Flagged(call[t]))
       \/ /\ Show("tenants", <<>>, None)
          /\ UNCHANGED <<session, detail, pane, patient>>
    /\ Finish(s)
    /\ UNCHANGED <<tour, view>>

-----------------------------------------------------------------------------
(* Rows and their details.                                                 *)

\* What the page shows instead of its list.
PaneShown(p) ==
    /\ auth
    /\ view = p
    /\ pane[p]
    /\ p \in {"users", "fraud", "webhooks"} => detail[p] # None
    /\ p \in {"users", "tenants", "promoters"} => list[p] # <<>>

\* A click on a row.  Only the details of users, cases and webhooks are loaded.
OpenRow(s, row) ==
    /\ auth
    /\ view # "home"
    /\ ~PaneShown(view)
    /\ row \in Ids(list[view])
    /\ Click
    /\ \/ /\ view \in {"users", "fraud", "webhooks"}
          /\ token
          /\ Begin(s, "detail", view, row)
       \/ /\ view \in {"tenants", "promoters", "settlements"}
          /\ UNCHANGED <<call, loading>>
    /\ sel' = [sel EXCEPT ![view] = row]
    /\ detail' = IF view = "tenants" THEN [detail EXCEPT ![view] = row] ELSE detail
    /\ pane' = IF view \in {"users", "tenants", "promoters"}
               THEN [pane EXCEPT ![view] = TRUE] ELSE pane
    /\ UNCHANGED <<tour, session, view, list>>

DetailAnswered(s) ==
    /\ call[s].op \in {"detail", "context"}
    /\ detail' = [detail EXCEPT ![call[s].page] = call[s].row]
    /\ pane' = IF call[s].page = "users" THEN pane ELSE [pane EXCEPT ![call[s].page] = TRUE]
    /\ Finish(s)
    /\ UNCHANGED <<tour, session, view, list, sel, patient>>

DetailFailed(s) ==
    /\ call[s].op = "detail"
    /\ Finish(s)
    /\ UNCHANGED <<tour, session, view, data, patient>>

\* Mutant of ClosePane: leaves the detail, which the next row opened then shows.
CloseKeepsDetail ==
    /\ view # "home"
    /\ PaneShown(view)
    /\ pane' = [pane EXCEPT ![view] = FALSE]
    /\ Click
    /\ UNCHANGED <<tour, session, view, loading, list, sel, detail, call>>

ClosePane ==
    /\ view # "home"
    /\ PaneShown(view)
    /\ pane' = [pane EXCEPT ![view] = FALSE]
    /\ detail' = IF view \in {"users", "fraud", "webhooks"}
                 THEN [detail EXCEPT ![view] = None]
                 ELSE IF view = "tenants" THEN [detail EXCEPT ![view] = First(list[view])]
                 ELSE detail
    /\ sel' = IF view = "tenants" THEN [sel EXCEPT ![view] = None] ELSE sel
    /\ Click
    /\ UNCHANGED <<tour, session, view, loading, list, call>>

-----------------------------------------------------------------------------
(* Submitting: an adjustment, a fraud decision, a replay, a review, a      *)
(* settlement or a tenant's config.                                        *)

\* The row a submit goes to.
Target(p) ==
    CASE p = "fraud" -> sel[p]
      [] p = "webhooks" -> detail[p]
      [] OTHER -> Selected(p)

MaySubmit(p) ==
    /\ ~loading
    /\ IF p = "settlements" THEN auth /\ view = p ELSE PaneShown(p)
    /\ Target(p) # None

Submit(s) ==
    /\ token
    /\ view # "home"
    /\ MaySubmit(view)
    /\ Begin(s, "submit", view, Target(view))
    /\ Click
    /\ UNCHANGED <<tour, session, view, data>>

\* A promoter added by hand, a settlement cycle opened.
Create(s) ==
    \E row \in Rows :
        /\ auth /\ token /\ ~loading
        /\ view \in {"promoters", "settlements"}
        /\ ~PaneShown(view)
        /\ Begin(s, "create", view, row)
        /\ Click
        /\ UNCHANGED <<tour, session, view, data>>

Submits(s) == call[s].op \in {"submit", "create"}

\* A promoter just added is selected, and an effect falls back to the first row
\* unless a list that names it has come before.
Added(row) ==
    IF row \in Ids(list["promoters"]) THEN row ELSE First(list["promoters"])

\* A fraud decision answers with the case.  An adjustment loads the user's
\* context; everything else loads its list, still for the row submitted.
Submitted(s) ==
    LET added == call[s].op = "create" /\ call[s].page = "promoters"
    IN  /\ Submits(s)
        /\ detail' = IF call[s].page = "fraud"
                     THEN [detail EXCEPT !["fraud"] = call[s].row] ELSE detail
        /\ pane' = IF call[s].page = "fraud" \/ added
                   THEN [pane EXCEPT ![call[s].page] = TRUE] ELSE pane
        /\ sel' = IF added THEN [sel EXCEPT !["promoters"] = Added(call[s].row)] ELSE sel
        /\ Continue(s, IF call[s].page = "users" THEN "detail" ELSE "list", call[s].row)
        /\ UNCHANGED <<tour, session, view, loading, list, patient>>

SubmitFailed(s) ==
    /\ Submits(s)
    /\ Finish(s)
    /\ UNCHANGED <<tour, session, view, data, patient>>

-----------------------------------------------------------------------------
Answered(s) ==
    \/ LoggedIn(s) \/ LoginRefused(s)
    \/ UsersListed(s) \/ UsersFailed(s)
    \/ RowsListed(s) \/ RowsFailed(s)
    \/ TenantsListed(s) \/ TenantsFailed(s)
    \/ DetailAnswered(s) \/ DetailFailed(s)
    \/ Submitted(s) \/ SubmitFailed(s)

Next ==
    \/ Logout \/ ClosePane
    \/ \E s \in Slots :
          \/ Login(s) \/ Refresh(s) \/ LoadAgain(s) \/ Submit(s) \/ Create(s)
          \/ \E p \in Pages : Visit(s, p)
          \/ \E row \in Rows : OpenRow(s, row)
          \/ Answered(s)

Spec == Init /\ [][Next]_vars

-----------------------------------------------------------------------------
(* Properties.                                                             *)

\* An adjustment that may be submitted goes to the user whose name and balance
\* are on the screen, for an admin who clicks, and is signed out, only while
\* nothing that sets loading is out.  The flag itself does not ensure that: it
\* is cleared by whichever call ends first.
AdjustsShownUser ==
    patient /\ MaySubmit("users") => detail["users"] = Target("users")

\* Answers that arrive in any order never take a selection away from the admin:
\* what is selected and still listed when a list arrives stays selected.
KeepsSelection ==
    \A p \in Updated \ {"webhooks"} :
        list'[p] # list[p] /\ sel[p] \in Ids(list'[p]) => sel'[p] = sel[p]
SelectionKept == [][KeepsSelection]_vars
=============================================================================
