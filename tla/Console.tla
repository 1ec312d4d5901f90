------------------------------ MODULE Console ------------------------------
(***************************************************************************)
(* The dashboard's pages over the server's API (apps/web/src: App, pages,  *)
(* hooks/useAsync, api/client; apps/server/src/api.ts), next to another    *)
(* process that edits the same watches, the CLI or the MCP server          *)
(* (apps/cli, apps/mcp; services/watches.ts).                              *)
(*                                                                         *)
(* A request is sent, handled by the server in one step, and answered, in  *)
(* any order; it may fail before it is handled, or its answer be lost, or, *)
(* where a handler is asynchronous and rejects, never be answered.  Each   *)
(* process changes a watch in two statements, and the other may come in    *)
(* between.  The form of a watch is module WatchForm: here it saves.       *)
(***************************************************************************)
EXTENDS Integers, FiniteSets

CONSTANTS
  Ids,              \* ids of watches; generateId gives one that was never used
  Labels,           \* what a watch holds beside enabled
  Types,            \* the filters of the activity page, beside none
  ProviderNames,
  None, Keep,       \* no value; a field that a patch leaves out
  MaxCalls,         \* bound: requests in flight at once
  MaxMoves          \* bound: what is done by the operator, by the other
                    \* process and by mishap; the server and the page
                    \* follow without a bound

Row   == [label : Labels, enabled : BOOLEAN]
Patch == [label : Labels \union {Keep}, enabled : BOOLEAN \union {Keep}]
Table == [Ids -> Row \union {None}]
Tabs  == {"watches", "activity", "credentials", "health"}

Half      == [row : Row, mixed : BOOLEAN]                          \* of an update
OtherHalf == [id : Ids, patch : Patch, row : Row, mixed : BOOLEAN]
Data      == [asked : Tabs \union {"providers", None} \union Types, rows : Table \union {None}]

(* None can stand for what is not there: it is nothing that may be.        *)
ASSUME ConsoleConstants ==
  /\ MaxCalls \in Nat \ {0} /\ MaxMoves \in Nat
  /\ None \notin Ids \union ProviderNames \union Row \union Half \union OtherHalf \union Data

VARIABLES
  table,     \* the watches: id -> row, or None
  used,      \* the ids given so far
  session,   \* whether the browser holds a login the server accepts
  busy,      \* the update the server has half done, or None
  other,     \* that of the other process, or None
  auth,      \* App: "checking", "authenticated" or "anonymous"
  tab, type, \* the page shown, and the activity page's filter
  hook,      \* useAsync of each loader of the page: [data, error, loading]
  editing,   \* the watch whose form is open, "new", or None
  dialog,    \* the provider whose hand-over form is open, or None
  calls,     \* requests in flight
  behind,    \* history: since the list was asked for last, the table was
             \* written without the page being told
  moves      \* those made so far

server  == <<table, used, session, busy>>
page    == <<tab, type, hook, editing, dialog>>
vars == <<server, other, auth, page, calls, behind, moves>>

NoPatch == [label |-> Keep, enabled |-> Keep]
Loaders(t) == IF t = "health" THEN {"health", "providers"} ELSE {t}

TypeOK ==
  /\ table \in Table /\ used \subseteq Ids /\ session \in BOOLEAN
  /\ {id \in Ids : table[id] # None} \subseteq used
  /\ auth \in {"checking", "authenticated", "anonymous"}
  /\ tab \in Tabs /\ type \in Types \union {None}
  /\ auth = "authenticated" <=> DOMAIN hook = Loaders(tab)
  /\ \A l \in DOMAIN hook : hook[l].error \in BOOLEAN /\ hook[l].loading \in BOOLEAN
  /\ editing \in Ids \union {"new", None} /\ dialog \in ProviderNames \union {None}

-----------------------------------------------------------------------------
(* A request, as the client sends it.  Its body is read by the server if   *)
(* its Content-Type says JSON: headers of a call of its own replace it.    *)
Call(op) ==
  [op |-> op, loader |-> None, id |-> None, patch |-> NoPatch, good |-> TRUE,
   typed |-> op # "ingest", asked |-> None, status |-> 0, rows |-> None, gone |-> FALSE]

(* The calls of loaders, and what each asks for.                           *)
Asked(l, filter) == IF l = "activity" THEN filter ELSE l
Loads(ls, filter) == {[Call("load") EXCEPT !.loader = l, !.asked = Asked(l, filter)] : l \in ls}

(* The calls that are still to be answered to the page that made them.     *)
Pending == {c \in calls : ~c.gone}

(* Mutant of Cancelled: what was asked for before is heard, too.           *)
AllHeard(ls) == calls
Cancelled(ls) == {c \in calls : ~(c.op = "load" /\ c.loader \in ls)}

(* The effect of [generation, ...deps]: the loaders ls run again.          *)
Loading(h, ls) ==
  [l \in DOMAIN h |-> IF l \in ls THEN [h[l] EXCEPT !.loading = TRUE, !.error = FALSE] ELSE h[l]]

(* A page mounts, and its loaders begin; or it unmounts, and what it asked *)
(* for is answered to nobody, while what it set off goes on.               *)
Mounted(t) == [l \in Loaders(t) |-> [data |-> None, error |-> FALSE, loading |-> TRUE]]
Unmounted(cs) == {[c EXCEPT !.gone = c.op \in {"put", "save", "delete", "ingest"}] :
                    c \in {d \in cs : d.op # "load"}}
Shown(t) == hook' = Mounted(t) /\ type' = None /\ editing' = None /\ dialog' = None

Send(c) == Cardinality(calls) < MaxCalls /\ calls' = calls \union {c}

Init ==
  /\ table \in [Ids -> {None}] \union {[i \in Ids |-> IF i = id THEN r ELSE None] : id \in Ids, r \in {[label |-> l, enabled |-> TRUE] : l \in Labels}}
  /\ used = {id \in Ids : table[id] # None}
  /\ session \in BOOLEAN
  /\ busy = None /\ other = None
  /\ auth = "checking" /\ tab = "watches" /\ type = None /\ hook = <<>>
  /\ editing = None /\ dialog = None
  /\ calls = {Call("probe")}
  /\ behind = FALSE /\ moves = 0

-----------------------------------------------------------------------------
(* The operator.                                                           *)
Login(good) ==
  /\ auth = "anonymous" /\ ~\E c \in Pending : c.op = "login"
  /\ Send([Call("login") EXCEPT !.good = good])
  /\ UNCHANGED <<server, other, auth, page, behind>>

handleLogout ==
  /\ auth = "authenticated"
  /\ Send(Call("logout"))
  /\ UNCHANGED <<server, other, auth, page, behind>>

SelectTab(t) ==
  /\ auth = "authenticated" /\ t # tab
  /\ tab' = t /\ Shown(t) /\ calls' = Unmounted(calls) \union Loads(Loaders(t), None)
  /\ Cardinality(calls') <= MaxCalls
  /\ behind' = FALSE
  /\ UNCHANGED <<server, other, auth>>

(* Loaders of the page run again, once "answered" has been.                *)
Rerun(ls, filter, answered) ==
  /\ hook' = Loading(hook, ls)
  /\ calls' = (Cancelled(ls) \ answered) \union Loads(ls, filter)

SetType(filter) ==
  /\ auth = "authenticated" /\ tab = "activity" /\ filter # type
  /\ type' = filter
  /\ Rerun({"activity"}, filter, {})
  /\ Cardinality(calls') <= MaxCalls
  /\ UNCHANGED <<server, other, auth, tab, editing, dialog, behind>>

Refresh ==
  /\ auth = "authenticated" /\ tab \in {"activity", "health"}
  /\ Rerun(Loaders(tab), type, {})
  /\ Cardinality(calls') <= MaxCalls
  /\ UNCHANGED <<server, other, auth, tab, type, editing, dialog, behind>>

(* The rows of the list that is shown; a reload leaves them on the page.   *)
Listed ==
  IF auth = "authenticated" /\ tab = "watches" /\ editing = None /\ hook["watches"].data # None
  THEN {id \in Ids : hook["watches"].data.rows[id] # None} ELSE {}

(* Mutant of TogglePatch: the watch is sent as it is listed.               *)
ListedPatch(id) == LET row == hook["watches"].data.rows[id] IN [row EXCEPT !.enabled = ~@]
TogglePatch(id) == [NoPatch EXCEPT !.enabled = ~hook["watches"].data.rows[id].enabled]

handleToggle(id) ==
  /\ id \in Listed
  /\ Send([Call("put") EXCEPT !.id = id, !.patch = TogglePatch(id)])
  /\ UNCHANGED <<server, other, auth, page, behind>>

handleDelete(id) ==
  /\ id \in Listed
  /\ Send([Call("delete") EXCEPT !.id = id])
  /\ UNCHANGED <<server, other, auth, page, behind>>

OpenForm(which) ==
  /\ auth = "authenticated" /\ tab = "watches" /\ editing = None
  /\ which \in Listed \union {"new"}
  /\ editing' = which
  /\ UNCHANGED <<server, other, auth, tab, type, hook, dialog, calls, behind>>

CloseForm ==
  /\ editing # None /\ ~\E c \in Pending : c.op = "save"
  /\ editing' = None
  /\ UNCHANGED <<server, other, auth, tab, type, hook, dialog, calls, behind>>

(* The form sends every field, as the operator left it.                    *)
SubmitForm(row) ==
  /\ editing # None /\ ~\E c \in Pending : c.op = "save"
  /\ Send([Call("save") EXCEPT !.id = IF editing = "new" THEN None ELSE editing, !.patch = row])
  /\ UNCHANGED <<server, other, auth, page, behind>>

OpenHandover(provider) ==
  /\ auth = "authenticated" /\ tab = "credentials" /\ hook["credentials"].data # None
  /\ dialog' = provider
  /\ UNCHANGED <<server, other, auth, tab, type, hook, editing, calls, behind>>

closeHandover ==
  /\ dialog # None /\ dialog' = None
  /\ UNCHANGED <<server, other, auth, tab, type, hook, editing, calls, behind>>

SubmitHandover(good) ==
  /\ dialog # None
  /\ Send([Call("ingest") EXCEPT !.good = good])
  /\ UNCHANGED <<server, other, auth, page, behind>>

-----------------------------------------------------------------------------
(* The server.                                                             *)
Turns(c, status) == calls' = (calls \ {c}) \union {[c EXCEPT !.status = status]}
Guarded(status) == IF session THEN status ELSE 401
Blind(c) == behind' = (behind \/ c.gone)

HandleRead(c) ==
  /\ c.op \in {"load", "probe"} /\ c.status = 0
  /\ calls' = (calls \ {c}) \union
       {[c EXCEPT !.status = IF c.loader = "health" THEN 200 ELSE Guarded(200),
                  !.rows = IF c.loader = "watches" THEN table ELSE None]}
  /\ UNCHANGED <<server, other, auth, page, behind>>

(* The fifth attempt in a while is the last that is heard.                 *)
HandleLogin(c, limited) ==
  /\ c.op = "login" /\ c.status = 0
  /\ session' = (session \/ (c.good /\ ~limited))
  /\ Turns(c, IF limited THEN 429 ELSE IF c.good THEN 200 ELSE 401)
  /\ UNCHANGED <<table, used, busy, other, auth, page, behind>>

HandleLogout(c) ==
  /\ c.op = "logout" /\ c.status = 0
  /\ session' = FALSE
  /\ Turns(c, 200)
  /\ UNCHANGED <<table, used, busy, other, auth, page, behind>>

(* The bearer token first, then the body.                                  *)
HandleIngest(c) ==
  /\ c.op = "ingest" /\ c.status = 0
  /\ Turns(c, IF ~c.good THEN 401 ELSE IF ~c.typed THEN 400 ELSE 200)
  /\ UNCHANGED <<server, other, auth, page, behind>>

(* Changes of a watch by one process that the other is about to update.    *)
Mix(half, changes) == IF half # None /\ changes THEN [half EXCEPT !.mixed = TRUE] ELSE half

Create(row) ==
  \E id \in Ids \ used : used' = used \union {id} /\ table' = [table EXCEPT ![id] = row]

(* Mutant of Updated: a row that is gone is put back.                      *)
Upserted(id, patch, row) ==
  [label   |-> IF patch.label = Keep THEN row.label ELSE patch.label,
   enabled |-> IF patch.enabled = Keep THEN row.enabled ELSE patch.enabled]

(* Mutant of Updated: the patch is written as it came.                     *)
PatchAlone(id, patch, row) == IF table[id] = None THEN None ELSE patch

(* The second statement of an update: what the first one read, with the    *)
(* patch over it, where the row still is.                                  *)
Updated(id, patch, row) == IF table[id] = None THEN None ELSE Upserted(id, patch, row)

HandleCreate(c) ==
  /\ c.op = "save" /\ c.id = None /\ c.status = 0
  /\ Turns(c, Guarded(200))
  /\ IF session THEN Create(c.patch) /\ Blind(c) ELSE UNCHANGED <<table, used, behind>>
  /\ UNCHANGED <<session, busy, other, auth, page>>

HandleDelete(c) ==
  /\ c.op = "delete" /\ c.status = 0
  /\ IF session /\ table[c.id] # None
     THEN table' = [table EXCEPT ![c.id] = None] /\ Turns(c, 200) /\ Blind(c)
          /\ other' = Mix(other, other # None /\ other.id = c.id)
     ELSE Turns(c, Guarded(404)) /\ UNCHANGED <<table, other, behind>>
  /\ UNCHANGED <<used, session, busy, auth, page>>

BeginUpdate(c) ==
  /\ c.op \in {"put", "save"} /\ c.id # None /\ c.status = 0
  /\ IF session /\ table[c.id] # None
     THEN Turns(c, 1) /\ busy' = [row |-> table[c.id], mixed |-> FALSE]
     ELSE Turns(c, Guarded(404)) /\ UNCHANGED busy
  /\ UNCHANGED <<table, used, session, other, auth, page, behind>>

EndUpdate(c) ==
  /\ c.status = 1
  /\ table' = [table EXCEPT ![c.id] = Updated(c.id, c.patch, busy.row)]
  /\ other' = Mix(other, other # None /\ other.id = c.id)
  /\ busy' = None
  /\ Turns(c, 200) /\ Blind(c)
  /\ UNCHANGED <<used, session, auth, page>>

(* While an update is half done the server does nothing else.              *)
Handle(c) ==
  \/ EndUpdate(c)
  \/ /\ busy = None
     /\ \/ HandleRead(c) \/ HandleLogout(c) \/ HandleIngest(c)
        \/ \E limited \in BOOLEAN : HandleLogin(c, limited)
        \/ HandleCreate(c) \/ HandleDelete(c) \/ BeginUpdate(c)

(* A request fails on its way, in its handler, or with the server, or its  *)
(* answer is lost.                                                         *)
Fails(c) ==
  /\ c.status \in {0, 1, 200}
  /\ Turns(c, 500)
  /\ busy' = IF c.status = 1 THEN None ELSE busy
  /\ behind' = (behind \/ (c.status = 200 /\ c.op \in {"put", "save", "delete"}))
  /\ UNCHANGED <<table, used, session, other, auth, page>>

(* The handler awaits what rejects: nothing is answered, ever.             *)
Hangs(c) ==
  /\ c.status = 0 /\ (c.op = "ingest" \/ c.loader \in {"credentials", "providers"})
  /\ Turns(c, -1)
  /\ UNCHANGED <<server, other, auth, page, behind>>

(* The login lapses, in the browser or in the store.                       *)
Expire ==
  /\ session /\ session' = FALSE
  /\ UNCHANGED <<table, used, busy, other, auth, page, calls, behind>>

-----------------------------------------------------------------------------
(* Answers.                                                                *)
LoadAnswers(c) ==
  /\ c.op = "load"
  /\ hook' = [hook EXCEPT ![c.loader] =
       [data |-> IF c.status = 200 THEN [asked |-> c.asked, rows |-> c.rows] ELSE @.data,
        error |-> c.status # 200, loading |-> FALSE]]
  /\ calls' = calls \ {c}
  /\ UNCHANGED <<auth, tab, type, editing, dialog, behind>>

(* App: the pages show with the login, and go with it.                     *)
setAuth(state, others) ==
  /\ auth' = state
  /\ IF state = auth
     THEN calls' = others /\ UNCHANGED <<type, hook, editing, dialog, behind>>
     ELSE IF state = "authenticated"
     THEN Shown(tab) /\ calls' = others \union Loads(Loaders(tab), None) /\ behind' = FALSE
     ELSE /\ hook' = <<>> /\ type' = None /\ editing' = None /\ dialog' = None
          /\ calls' = Unmounted(others) /\ UNCHANGED behind
  /\ UNCHANGED tab

(* Only a refusal shows the login form; any other failure opens the pages. *)
ProbeAnswers(c) ==
  c.op = "probe" /\ setAuth(IF c.status = 401 THEN "anonymous" ELSE "authenticated", calls \ {c})

LoginAnswers(c) ==
  /\ c.op = "login"
  /\ IF c.status = 200 THEN setAuth("checking", (calls \ {c}) \union {Call("probe")})
     ELSE setAuth(auth, calls \ {c})

LogoutAnswers(c) ==
  c.op = "logout" /\ setAuth(IF c.status = 200 THEN "anonymous" ELSE auth, calls \ {c})

(* Mutant of Reloads: a deletion only closes its dialog.                   *)
ReloadsButDelete == {"put", "save", "ingest"}
Reloads == {"put", "save", "delete", "ingest"}

(* What was done is told to the page, which closes its form and reloads.   *)
ActionAnswers(c) ==
  /\ c.op \in {"put", "save", "delete", "ingest"}
  /\ IF c.status = 200 /\ ~c.gone /\ c.op \in Reloads
     THEN Rerun({tab}, type, {c}) /\ behind' = FALSE
     ELSE calls' = calls \ {c} /\ UNCHANGED <<hook, behind>>
  /\ editing' = IF c.status = 200 /\ ~c.gone /\ c.op = "save" THEN None ELSE editing
  /\ dialog' = IF c.status = 200 /\ ~c.gone /\ c.op = "ingest" THEN None ELSE dialog
  /\ UNCHANGED <<auth, tab, type>>

Answer(c) ==
  /\ c.status > 1
  /\ LoadAnswers(c) \/ ProbeAnswers(c) \/ LoginAnswers(c) \/ LogoutAnswers(c) \/ ActionAnswers(c)
  /\ UNCHANGED <<server, other>>

-----------------------------------------------------------------------------
(* The other process.                                                      *)
OtherWrites ==
  behind' = TRUE /\ UNCHANGED <<session, auth, page, calls>>

Working(id) == busy # None /\ \E c \in calls : c.status = 1 /\ c.id = id

OtherAdds ==
  /\ other = None
  /\ \E row \in Row : Create(row)
  /\ OtherWrites /\ UNCHANGED <<busy, other>>

OtherRemoves(id) ==
  /\ other = None /\ table[id] # None
  /\ table' = [table EXCEPT ![id] = None]
  /\ busy' = Mix(busy, Working(id))
  /\ OtherWrites /\ UNCHANGED <<used, other>>

OtherBegins(id, patch) ==
  /\ other = None /\ table[id] # None
  /\ other' = [id |-> id, patch |-> patch, row |-> table[id], mixed |-> FALSE]
  /\ UNCHANGED <<server, auth, page, calls, behind>>

OtherEnds ==
  /\ other # None /\ other' = None
  /\ table' = [table EXCEPT ![other.id] = Updated(other.id, other.patch, other.row)]
  /\ busy' = Mix(busy, Working(other.id))
  /\ OtherWrites /\ UNCHANGED used

OtherDies ==
  /\ other # None /\ other' = None
  /\ UNCHANGED <<server, auth, page, calls, behind>>

-----------------------------------------------------------------------------
User ==
  \/ \E good \in BOOLEAN : Login(good) \/ SubmitHandover(good)
  \/ handleLogout \/ Refresh \/ CloseForm \/ closeHandover
  \/ \E t \in Tabs : SelectTab(t)
  \/ \E filter \in Types : SetType(filter)
  \/ \E id \in Ids : handleToggle(id) \/ handleDelete(id)
  \/ \E which \in Ids \union {"new"} : OpenForm(which)
  \/ \E row \in Row : SubmitForm(row)
  \/ \E provider \in ProviderNames : OpenHandover(provider)

Other ==
  \/ OtherAdds \/ OtherEnds \/ OtherDies
  \/ \E id \in Ids : OtherRemoves(id)
  \/ \E id \in Ids, l \in Labels : OtherBegins(id, [NoPatch EXCEPT !.label = l])

Move == moves < MaxMoves /\ moves' = moves + 1

Next ==
  \/ /\ Move
     /\ User \/ Other \/ Expire \/ \E c \in calls : Fails(c) \/ Hangs(c)
  \/ UNCHANGED moves /\ \E c \in calls : Handle(c) \/ Answer(c)

Spec == Init /\ [][Next]_vars

-----------------------------------------------------------------------------
(* What a page shows is what it was asked for last, once it has loaded:    *)
(* an answer to an earlier filter, or to a page that was left, never shows.*)
ShownIsAsked ==
  \A l \in DOMAIN hook :
    ~hook[l].loading /\ ~hook[l].error => hook[l].data # None /\ hook[l].data.asked = Asked(l, type)

(* A page that loads waits for one request, the last it made: it cannot    *)
(* wait for ever unless the server never answers.                          *)
LoadingHasACall ==
  \A l \in DOMAIN hook :
    Cardinality({c \in calls : c.op = "load" /\ c.loader = l}) = IF hook[l].loading THEN 1 ELSE 0

(* useAsync: a page shows what was asked for last, or waits for it.        *)
PagesFollowTheLastAsked == ShownIsAsked /\ LoadingHasACall

(* "refreshes the list afterward": when nothing is under way the list is   *)
(* the table, unless a write that was not reported to the page came after  *)
(* the list was asked for: another process's, one whose answer was lost,   *)
(* one of a page that was left.                                            *)
ListCatchesUp ==
  calls = {} /\ auth = "authenticated" /\ tab = "watches" /\ ~hook["watches"].error /\ ~behind =>
    hook["watches"].data.rows = table

(* A watch that was deleted stays deleted, though an update of it by the   *)
(* other process be half done.                                             *)
NoResurrection == [][\A id \in used : table[id] = None => table'[id] = None]_vars

(* "omitted fields are left as-is": a toggle on a list that is behind      *)
(* leaves what was edited elsewhere, unless it was edited between the two  *)
(* statements of the toggle itself.                                        *)
TogglesKeepLabel ==
  [][\A c \in calls : c.op = "put" /\ c.status = 1 /\ busy' = None /\ ~busy.mixed
        /\ table[c.id] # None /\ table'[c.id] # None => table'[c.id].label = table[c.id].label]_vars

=============================================================================
