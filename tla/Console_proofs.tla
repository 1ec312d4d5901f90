--------------------------- MODULE Console_proofs ---------------------------
(***************************************************************************)
(* Proofs about the dashboard's pages and the server behind them, for any  *)
(* watches, filters and providers, any number of requests in flight, and   *)
(* any edits by the other process.                                         *)
(***************************************************************************)
EXTENDS Console, FiniteSetTheorems, TLAPS

(* A request: what the page sets off is about a watch that has an id, and  *)
(* the answer to the list is a table.                                      *)
Actions == {"put", "save", "delete", "ingest"}
Asks    == Tabs \union {"providers", None} \union Types
Request ==
  [op : Actions \union {"load", "probe", "login", "logout"},
   loader : Tabs \union {"providers", None}, id : Ids \union {None}, patch : Patch,
   good : BOOLEAN, typed : BOOLEAN, asked : Asks,
   status : Int, rows : Table \union {None}, gone : BOOLEAN]

Formed(c) ==
  /\ c \in Request
  /\ c.op \in {"put", "delete"} => c.id \in Ids
  /\ c.op = "put" => c.patch.label = Keep
  /\ c.op = "save" => c.patch \in Row
  /\ c.op = "load" /\ c.loader = "watches" /\ c.status = 200 => c.rows \in Table
  /\ c.status = 1 => c.op \in {"put", "save"} /\ c.id \in Ids

ServerTypes ==
  /\ table \in Table /\ used \subseteq Ids /\ session \in BOOLEAN
  /\ \A id \in Ids : table[id] # None => id \in used
  /\ busy \in Half \union {None} /\ other \in OtherHalf \union {None}

CallTypes == \A c \in calls : Formed(c)

PageTypes ==
  /\ auth \in {"checking", "authenticated", "anonymous"}
  /\ tab \in Tabs /\ type \in Types \union {None}
  /\ DOMAIN hook = IF auth = "authenticated" THEN Loaders(tab) ELSE {}
  /\ hook \in [DOMAIN hook -> [data : Data \union {None}, error : BOOLEAN, loading : BOOLEAN]]
  /\ "watches" \in DOMAIN hook /\ hook["watches"].data # None => hook["watches"].data.rows \in Table
  /\ editing \in Ids \union {"new", None} /\ dialog \in ProviderNames \union {None}
  /\ editing # None \/ dialog # None => auth = "authenticated"

TypeInv == ServerTypes /\ CallTypes /\ PageTypes

-----------------------------------------------------------------------------
(* Requests.                                                               *)

LEMMA CallIs ==
  ASSUME NEW op \in Actions \union {"load", "probe", "login", "logout"}
  PROVE  /\ Call(op) \in Request
         /\ Call(op).op = op /\ Call(op).status = 0 /\ ~Call(op).gone /\ Call(op).patch = NoPatch
  BY DEF Call, Request, NoPatch, Patch, Asks, Actions

(* The calls of loaders, one for each.                                     *)
LEMMA LoadsAre ==
  ASSUME NEW ls, NEW filter
  PROVE  /\ \A d \in Loads(ls, filter) :
              /\ d.op = "load" /\ d.loader \in ls /\ d.asked = Asked(d.loader, filter)
              /\ d.status = 0 /\ ~d.gone /\ d.id = None /\ d.patch = NoPatch
         /\ \A l \in ls : \E d \in Loads(ls, filter) : d.loader = l
         /\ \A d, e \in Loads(ls, filter) : d.loader = e.loader => d = e
<1> DEFINE L(l) == [Call("load") EXCEPT !.loader = l, !.asked = Asked(l, filter)]
<1>1. ASSUME NEW l
      PROVE  /\ L(l).op = "load" /\ L(l).loader = l /\ L(l).asked = Asked(l, filter)
             /\ L(l).status = 0 /\ L(l).gone = FALSE /\ L(l).id = None /\ L(l).patch = NoPatch
  BY DEF Call
<1>2. \A d : d \in Loads(ls, filter) <=> \E l \in ls : d = L(l)
  BY DEF Loads
<1> HIDE DEF L
<1>3. ASSUME NEW d \in Loads(ls, filter)
      PROVE  /\ d.op = "load" /\ d.loader \in ls /\ d.asked = Asked(d.loader, filter)
             /\ d.status = 0 /\ ~d.gone /\ d.id = None /\ d.patch = NoPatch
             /\ d = L(d.loader)
  <2>1. PICK l \in ls : d = L(l)
    BY <1>2
  <2>2. /\ d.op = "load" /\ d.loader = l /\ d.asked = Asked(l, filter)
        /\ d.status = 0 /\ d.gone = FALSE /\ d.id = None /\ d.patch = NoPatch
    BY <1>1, <2>1
  <2> QED BY <2>1, <2>2
<1>4. \A l \in ls : L(l) \in Loads(ls, filter) /\ L(l).loader = l
  BY <1>1, <1>2
<1> QED BY <1>3, <1>4

LEMMA LoadsFormed ==
  ASSUME NEW ls \in SUBSET (Tabs \union {"providers"}), NEW filter \in Types \union {None},
         NEW d \in Loads(ls, filter)
  PROVE  Formed(d)
<1>1. PICK l \in ls : d = [Call("load") EXCEPT !.loader = l, !.asked = Asked(l, filter)]
  BY DEF Loads
<1>2. Call("load") \in Request
  BY CallIs
<1>3. Asked(l, filter) \in Asks
  BY DEF Asked, Asks
<1>4. d \in Request
  BY <1>1, <1>2, <1>3 DEF Request
<1> QED BY <1>4, LoadsAre DEF Formed

(* What a request becomes in a turn of the server.                         *)
Same(c, d) ==
  /\ d.op = c.op /\ d.loader = c.loader /\ d.id = c.id /\ d.patch = c.patch
  /\ d.asked = c.asked /\ d.gone = c.gone

LEMMA TurnIs ==
  ASSUME NEW c \in Request, NEW s \in Int
  PROVE  LET d == [c EXCEPT !.status = s]
         IN  d \in Request /\ Same(c, d) /\ d.status = s /\ d.rows = c.rows
  BY DEF Request, Same

LEMMA UnmountedIs ==
  ASSUME NEW cs, \A c \in cs : Formed(c), NEW d \in Unmounted(cs)
  PROVE  /\ Formed(d) /\ d.op # "load" /\ (d.op \in Actions => d.gone)
         /\ \E c \in cs : c.op = d.op /\ c.id = d.id /\ c.patch = d.patch /\ c.status = d.status
                          /\ d = [c EXCEPT !.gone = c.op \in Actions]
<1>1. PICK c \in cs : c.op # "load" /\ d = [c EXCEPT !.gone = c.op \in Actions]
  BY DEF Unmounted, Actions
<1>2. c \in Request
  BY DEF Formed
<1>3. /\ d \in Request /\ d.op = c.op /\ d.id = c.id /\ d.patch = c.patch /\ d.status = c.status
      /\ d.gone <=> c.op \in Actions
  <2> DEFINE g == c.op \in Actions
  <2>1. g \in BOOLEAN
    OBVIOUS
  <2> HIDE DEF g
  <2>2. d = [c EXCEPT !.gone = g]
    BY <1>1 DEF g
  <2>3. /\ d \in Request /\ d.op = c.op /\ d.id = c.id /\ d.patch = c.patch /\ d.status = c.status
        /\ d.gone = g
    BY <1>2, <2>1, <2>2 DEF Request
  <2> QED BY <2>3 DEF g
<1> QED BY <1>1, <1>3 DEF Formed

-----------------------------------------------------------------------------
(* What the operator does: a request is sent, a form opens or closes, the  *)
(* loaders run again, or another page is shown.                            *)
Sends(d) ==
  /\ Formed(d) /\ d.op # "load" /\ d.status = 0 /\ ~d.gone
  /\ d.op \in Actions => auth = "authenticated"
  /\ calls' = calls \union {d}
  /\ UNCHANGED <<server, other, auth, page, behind>>

Forms ==
  /\ editing' \in Ids \union {"new", None} /\ dialog' \in ProviderNames \union {None}
  /\ editing' # None \/ dialog' # None => auth = "authenticated"
  /\ UNCHANGED <<server, other, auth, tab, type, hook, calls, behind>>

Reruns(ls) ==
  /\ auth = "authenticated" /\ ls = Loaders(tab) /\ tab # "watches"
  /\ type' \in Types \union {None}
  /\ Rerun(ls, type', {})
  /\ UNCHANGED <<server, other, auth, tab, editing, dialog, behind>>

LEMMA SendsAre ==
  ASSUME TypeInv
  PROVE  /\ \A good \in BOOLEAN : Login(good) \/ SubmitHandover(good) => \E d : Sends(d)
         /\ handleLogout => \E d : Sends(d)
         /\ \A id \in Ids : handleToggle(id) \/ handleDelete(id) => \E d : Sends(d)
         /\ \A row \in Row : SubmitForm(row) => \E d : Sends(d)
<1> USE DEF Sends, Send
<1>1. ASSUME NEW good \in BOOLEAN, Login(good)
      PROVE  \E d : Sends(d)
  <2> DEFINE d == [Call("login") EXCEPT !.good = good]
  <2>1. d \in Request /\ d.op = "login" /\ d.status = 0 /\ ~d.gone
    BY CallIs DEF Request, Actions
  <2> HIDE DEF d
  <2>2. Formed(d)
    BY <2>1 DEF Formed
  <2> QED BY <1>1, <2>1, <2>2 DEF Login, d, Actions
<1>2. ASSUME NEW good \in BOOLEAN, SubmitHandover(good)
      PROVE  \E d : Sends(d)
  <2> DEFINE d == [Call("ingest") EXCEPT !.good = good]
  <2>1. d \in Request /\ d.op = "ingest" /\ d.status = 0 /\ ~d.gone
    BY CallIs DEF Request, Actions
  <2> HIDE DEF d
  <2>2. Formed(d)
    BY <2>1 DEF Formed
  <2> QED BY <1>2, <2>1, <2>2 DEF SubmitHandover, d, TypeInv, PageTypes
<1>3. ASSUME handleLogout
      PROVE  \E d : Sends(d)
  <2> DEFINE d == Call("logout")
  <2>1. d \in Request /\ d.op = "logout" /\ d.status = 0 /\ ~d.gone
    BY CallIs DEF Actions
  <2> HIDE DEF d
  <2>2. Formed(d)
    BY <2>1 DEF Formed
  <2> QED BY <1>3, <2>1, <2>2 DEF handleLogout, d, Actions
<1>4. ASSUME NEW id \in Ids, handleToggle(id)
      PROVE  \E d : Sends(d)
  <2> DEFINE d == [Call("put") EXCEPT !.id = id, !.patch = TogglePatch(id)]
  <2>1. auth = "authenticated"
    BY <1>4 DEF handleToggle, Listed
  <2>2. TogglePatch(id) \in Patch /\ TogglePatch(id).label = Keep
    BY DEF TogglePatch, NoPatch, Patch
  <2>3. d \in Request /\ d.op = "put" /\ d.status = 0 /\ ~d.gone /\ d.id = id /\ d.patch = TogglePatch(id)
    <3>1. Call("put") \in Request /\ Call("put").op = "put" /\ Call("put").status = 0 /\ ~Call("put").gone
      BY CallIs DEF Actions
    <3> HIDE <2>1
    <3> QED BY <2>2, <3>1 DEF Request
  <2> HIDE DEF d
  <2>4. Formed(d)
    BY <2>2, <2>3 DEF Formed
  <2> QED BY <1>4, <2>1, <2>3, <2>4 DEF handleToggle, d
<1>5. ASSUME NEW id \in Ids, handleDelete(id)
      PROVE  \E d : Sends(d)
  <2> DEFINE d == [Call("delete") EXCEPT !.id = id]
  <2>1. auth = "authenticated"
    BY <1>5 DEF handleDelete, Listed
  <2>2. d \in Request /\ d.op = "delete" /\ d.status = 0 /\ ~d.gone /\ d.id = id
    BY CallIs DEF Request, Actions
  <2> HIDE DEF d
  <2>3. Formed(d)
    BY <2>2 DEF Formed
  <2> QED BY <1>5, <2>1, <2>2, <2>3 DEF handleDelete, d
<1>6. ASSUME NEW row \in Row, SubmitForm(row)
      PROVE  \E d : Sends(d)
  <2> DEFINE id == IF editing = "new" THEN None ELSE editing
             d == [Call("save") EXCEPT !.id = id, !.patch = row]
  <2>1. auth = "authenticated" /\ id \in Ids \union {None}
    BY <1>6 DEF SubmitForm, TypeInv, PageTypes
  <2>2. row \in Patch
    BY DEF Row, Patch
  <2> HIDE DEF id
  <2>3. d \in Request /\ d.op = "save" /\ d.status = 0 /\ ~d.gone /\ d.patch = row
    <3>1. Call("save") \in Request /\ Call("save").op = "save" /\ Call("save").status = 0 /\ ~Call("save").gone
      BY CallIs DEF Actions
    <3> QED BY <2>1, <2>2, <3>1 DEF Request
  <2> HIDE DEF d
  <2>4. Formed(d)
    BY <2>3 DEF Formed
  <2> QED BY <1>6, <2>1, <2>3, <2>4 DEF SubmitForm, d, id
<1> QED BY <1>1, <1>2, <1>3, <1>4, <1>5, <1>6

(* The operator's step, by its kind.                                       *)
LEMMA UserDoes ==
  ASSUME TypeInv, User
  PROVE  (\E d : Sends(d)) \/ Forms \/ (\E ls : Reruns(ls)) \/ (\E t \in Tabs : SelectTab(t))
<1>1. CASE \/ \E good \in BOOLEAN : Login(good) \/ SubmitHandover(good)
           \/ handleLogout
           \/ \E id \in Ids : handleToggle(id) \/ handleDelete(id)
           \/ \E row \in Row : SubmitForm(row)
  BY <1>1, SendsAre
<1>2. ASSUME NEW filter \in Types, SetType(filter)
      PROVE  Reruns({"activity"})
  BY <1>2 DEF SetType, Reruns, Loaders
<1>3. CASE Refresh
  <2>1. Reruns(Loaders(tab))
    BY <1>3 DEF Refresh, Reruns, TypeInv, PageTypes
  <2> QED BY <2>1
<1>4. CASE CloseForm \/ closeHandover
  BY <1>4 DEF CloseForm, closeHandover, Forms, TypeInv, PageTypes
<1>5. ASSUME NEW which \in Ids \union {"new"}, OpenForm(which)
      PROVE  Forms
  BY <1>5 DEF OpenForm, Forms, TypeInv, PageTypes
<1>6. ASSUME NEW provider \in ProviderNames, OpenHandover(provider)
      PROVE  Forms
  BY <1>6 DEF OpenHandover, Forms, TypeInv, PageTypes
<1> QED BY <1>1, <1>2, <1>3, <1>4, <1>5, <1>6 DEF User

-----------------------------------------------------------------------------
(* A page and its calls: each loader that loads has its one call, for what *)
(* the page shows now, and what is set off by a page that is still there   *)
(* is told to it.                                                          *)
PageInv ==
  /\ \A c \in calls : c.op = "load" =>
       c.loader \in DOMAIN hook /\ hook[c.loader].loading /\ c.asked = Asked(c.loader, type)
  /\ \A l \in DOMAIN hook : hook[l].loading => \E c \in calls : c.op = "load" /\ c.loader = l
  /\ \A c, d \in calls : c.op = "load" /\ d.op = "load" /\ c.loader = d.loader => c = d
  /\ \A c \in calls : c.op \in Actions /\ ~c.gone => auth = "authenticated"
  /\ ShownIsAsked

(* What an answer does: it is passed over, told to the page, or takes the  *)
(* page away, or one shows; or it is that of a loader.                     *)
Quiet(cs) == \A d \in cs : Formed(d) /\ d.op # "load" /\ (d.op \in Actions => d.gone)

Rest(cs) == \E ds \in SUBSET (calls \union {Call("probe")}) : cs = ds \/ cs = Unmounted(ds)

Stays(c) ==
  /\ c.op # "load" /\ ~(c.op \in Actions /\ c.status = 200 /\ ~c.gone)
  /\ calls' = calls \ {c} \/ calls' = (calls \ {c}) \union {Call("probe")}
  /\ UNCHANGED <<server, other, auth, page, behind>>

Tells(c) ==
  /\ c.op \in Actions /\ auth = "authenticated"
  /\ Rerun({tab}, type, {c}) /\ behind' = FALSE
  /\ editing' \in {editing, None} /\ dialog' \in {dialog, None}
  /\ UNCHANGED <<server, other, auth, tab, type>>

Leaves ==
  /\ auth' \in {"checking", "anonymous"} /\ hook' = <<>>
  /\ type' = None /\ editing' = None /\ dialog' = None
  /\ Quiet(calls') /\ Rest(calls')
  /\ UNCHANGED <<server, other, tab, behind>>

Mounts(t, rest) ==
  /\ t \in Tabs /\ tab' = t /\ Shown(t) /\ auth' = "authenticated"
  /\ Quiet(rest) /\ Rest(rest) /\ calls' = rest \union Loads(Loaders(t), None)
  /\ behind' = FALSE
  /\ UNCHANGED <<server, other>>

LEMMA TabMounts ==
  ASSUME TypeInv, NEW t \in Tabs, SelectTab(t)
  PROVE  Mounts(t, Unmounted(calls))
<1>1. Quiet(Unmounted(calls))
  BY UnmountedIs DEF Quiet, TypeInv, CallTypes
<1>2. Rest(Unmounted(calls))
  BY DEF Rest
<1> QED BY <1>1, <1>2 DEF SelectTab, Mounts

LEMMA AuthDoes ==
  ASSUME TypeInv, PageInv, NEW c \in calls, c.op \notin Actions \union {"load"},
         NEW state \in {"checking", "authenticated", "anonymous"}, NEW others,
         others = calls \ {c} \/ others = (calls \ {c}) \union {Call("probe")},
         setAuth(state, others), UNCHANGED <<server, other>>
  PROVE  Stays(c) \/ Leaves \/ \E rest : Mounts(tab, rest)
<1>1. /\ others \in SUBSET (calls \union {Call("probe")})
      /\ \A d \in others : Formed(d)
  <2>1. Formed(Call("probe"))
    BY CallIs DEF Formed, Actions
  <2> QED BY <2>1 DEF TypeInv, CallTypes
<1>2. CASE state = auth
  BY <1>2 DEF setAuth, Stays, page
<1>3. CASE state # auth /\ state = "authenticated"
  <2>1. \A d \in calls : d.op # "load"
    BY <1>3 DEF TypeInv, PageTypes, PageInv
  <2>2. \A d \in calls : d.op \in Actions => d.gone
    BY <1>3 DEF PageInv
  <2>3. Quiet(others)
    BY <1>1, <2>1, <2>2, CallIs DEF Quiet, Actions
  <2>4. Rest(others)
    BY <1>1 DEF Rest
  <2> QED BY <1>3, <2>3, <2>4 DEF setAuth, Mounts, TypeInv, PageTypes
<1>4. CASE state # auth /\ state # "authenticated"
  <2>1. calls' = Unmounted(others)
    BY <1>4 DEF setAuth
  <2>2. Quiet(calls')
    BY <1>1, <2>1, UnmountedIs DEF Quiet
  <2>3. Rest(calls')
    BY <1>1, <2>1 DEF Rest
  <2> QED BY <1>4, <2>2, <2>3 DEF setAuth, Leaves
<1> QED BY <1>2, <1>3, <1>4

LEMMA AnswerDoes ==
  ASSUME TypeInv, PageInv, NEW c \in calls, Answer(c)
  PROVE  \/ LoadAnswers(c) /\ UNCHANGED <<server, other>>
         \/ Stays(c) \/ Tells(c) \/ Leaves \/ \E rest : Mounts(tab, rest)
<1>1. CASE LoadAnswers(c)
  BY <1>1 DEF Answer
<1>2. CASE ProbeAnswers(c) \/ LoginAnswers(c) \/ LogoutAnswers(c)
  <2>1. c.op \notin Actions \union {"load"}
    BY <1>2 DEF ProbeAnswers, LoginAnswers, LogoutAnswers, Actions
  <2>2. PICK state \in {"checking", "authenticated", "anonymous"} :
          setAuth(state, calls \ {c}) \/ setAuth(state, (calls \ {c}) \union {Call("probe")})
    BY <1>2 DEF ProbeAnswers, LoginAnswers, LogoutAnswers, TypeInv, PageTypes
  <2> QED BY <2>1, <2>2, AuthDoes DEF Answer
<1>3. CASE ActionAnswers(c)
  <2>1. CASE c.status = 200 /\ ~c.gone
    BY <1>3, <2>1 DEF ActionAnswers, Answer, Tells, Reloads, Actions, PageInv
  <2>2. CASE ~(c.status = 200 /\ ~c.gone)
    BY <1>3, <2>2 DEF ActionAnswers, Answer, Stays, page
  <2> QED BY <2>1, <2>2
<1> QED BY <1>1, <1>2, <1>3 DEF Answer

-----------------------------------------------------------------------------
(* Types.                                                                  *)

(* Loaders run again: what they have shown stays until they are answered.  *)
LEMMA RerunHook ==
  ASSUME PageTypes, NEW ls, ls \subseteq DOMAIN hook, hook' = Loading(hook, ls)
  PROVE  /\ DOMAIN hook' = DOMAIN hook
         /\ hook' \in [DOMAIN hook' -> [data : Data \union {None}, error : BOOLEAN, loading : BOOLEAN]]
         /\ \A l \in DOMAIN hook : hook'[l].data = hook[l].data
         /\ \A l \in ls : hook'[l].loading
         /\ \A l \in DOMAIN hook \ ls : hook'[l] = hook[l]
<1> DEFINE R == [data : Data \union {None}, error : BOOLEAN, loading : BOOLEAN]
           again(l) == [hook[l] EXCEPT !.loading = TRUE, !.error = FALSE]
<1>1. \A l \in DOMAIN hook : hook[l] \in R
  BY DEF PageTypes
<1>2. \A l \in DOMAIN hook : again(l) \in R /\ again(l).data = hook[l].data /\ again(l).loading = TRUE
  BY <1>1
<1>3. hook' = [l \in DOMAIN hook |-> IF l \in ls THEN again(l) ELSE hook[l]]
  BY DEF Loading
<1> HIDE DEF again, R
<1>4. /\ DOMAIN hook' = DOMAIN hook
      /\ hook' \in [DOMAIN hook' -> R]
      /\ \A l \in DOMAIN hook : hook'[l] = IF l \in ls THEN again(l) ELSE hook[l]
  BY <1>1, <1>2, <1>3
<1>5. \A l \in DOMAIN hook : hook'[l].data = hook[l].data
  BY <1>2, <1>4
<1>6. \A l \in ls : hook'[l].loading
  BY <1>2, <1>4
<1> QED BY <1>4, <1>5, <1>6 DEF R

LEMMA LoadersAre == \A t \in Tabs : t \in Loaders(t) /\ Loaders(t) \subseteq Tabs \union {"providers"}
  BY DEF Loaders, Tabs

LEMMA RerunTypes ==
  ASSUME TypeInv, NEW ls, ls \subseteq DOMAIN hook, auth = "authenticated",
         NEW answered, type' \in Types \union {None}, Rerun(ls, type', answered)
  PROVE  CallTypes'
<1>1. ls \in SUBSET (Tabs \union {"providers"})
  BY LoadersAre DEF TypeInv, PageTypes
<1>2. \A d \in Loads(ls, type') : Formed(d)
  BY <1>1, LoadsFormed
<1> QED BY <1>2 DEF Rerun, Cancelled, TypeInv, CallTypes

LEMMA PageTypesKept ==
  ASSUME PageTypes, DOMAIN hook' = DOMAIN hook,
         hook' \in [DOMAIN hook' -> [data : Data \union {None}, error : BOOLEAN, loading : BOOLEAN]],
         "watches" \in DOMAIN hook' /\ hook'["watches"].data # None => hook'["watches"].data.rows \in Table,
         UNCHANGED <<auth, tab>>, type' \in Types \union {None},
         editing' \in {editing, None}, dialog' \in {dialog, None}
  PROVE  PageTypes'
  BY DEF PageTypes

LEMMA UserTypes ==
  ASSUME TypeInv, User
  PROVE  TypeInv' \/ \E rest, t : Mounts(t, rest)
<1> USE DEF TypeInv
<1>1. ASSUME NEW d, Sends(d)
      PROVE  TypeInv'
  BY <1>1 DEF Sends, server, page, ServerTypes, CallTypes, PageTypes
<1>2. CASE Forms
  BY <1>2 DEF Forms, server, ServerTypes, CallTypes, PageTypes
<1>3. ASSUME NEW ls, Reruns(ls)
      PROVE  TypeInv'
  <2>1. ls = DOMAIN hook /\ hook' = Loading(hook, ls)
    BY <1>3 DEF Reruns, Rerun, PageTypes
  <2>2. CallTypes'
    BY <1>3, <2>1, RerunTypes DEF Reruns
  <2>3. PageTypes'
    <3>1. /\ DOMAIN hook' = DOMAIN hook
          /\ hook' \in [DOMAIN hook' -> [data : Data \union {None}, error : BOOLEAN, loading : BOOLEAN]]
          /\ \A l \in DOMAIN hook : hook'[l].data = hook[l].data
      BY <2>1, RerunHook
    <3> QED BY <1>3, <3>1, PageTypesKept DEF Reruns, PageTypes
  <2> QED BY <1>3, <2>2, <2>3 DEF Reruns, server, ServerTypes
<1> QED BY <1>1, <1>2, <1>3, UserDoes, TabMounts

LEMMA MountTypes ==
  ASSUME TypeInv, NEW t, NEW rest, Mounts(t, rest)
  PROVE  TypeInv'
<1>1. t \in Tabs /\ Loaders(t) \in SUBSET (Tabs \union {"providers"})
  BY LoadersAre DEF Mounts
<1>2. CallTypes'
  BY <1>1, LoadsFormed DEF Mounts, Quiet, CallTypes
<1>3. PageTypes'
  <2>1. hook' = Mounted(t) /\ type' = None /\ editing' = None /\ dialog' = None
    BY DEF Mounts, Shown
  <2>2. \A l \in DOMAIN hook' : hook'[l] = [data |-> None, error |-> FALSE, loading |-> TRUE]
    BY <2>1 DEF Mounted
  <2> QED BY <1>1, <2>1, <2>2 DEF Mounts, Mounted, PageTypes
<1> QED BY <1>2, <1>3 DEF Mounts, server, TypeInv, ServerTypes

LEMMA AnswerTypes ==
  ASSUME TypeInv, PageInv, NEW c \in calls, Answer(c)
  PROVE  TypeInv'
<1> USE DEF TypeInv
<1>1. CASE LoadAnswers(c) /\ UNCHANGED <<server, other>>
  <2>1. Formed(c) /\ c.loader \in DOMAIN hook /\ c.op = "load"
    BY <1>1 DEF LoadAnswers, CallTypes, PageInv
  <2> DEFINE D == Data \union {None}
             new == [data |-> IF c.status = 200 THEN [asked |-> c.asked, rows |-> c.rows] ELSE hook[c.loader].data,
                     error |-> c.status # 200, loading |-> FALSE]
  <2>2. hook' = [hook EXCEPT ![c.loader] = new]
    BY <1>1 DEF LoadAnswers
  <2>3. [asked |-> c.asked, rows |-> c.rows] \in D
    BY <2>1 DEF Formed, Request, Data, Asks
  <2>4. new \in [data : D, error : BOOLEAN, loading : BOOLEAN]
    <3>1. hook[c.loader].data \in D
      BY <2>1 DEF PageTypes
    <3> HIDE DEF D
    <3> QED BY <2>3, <3>1
  <2>5. c.loader = "watches" /\ new.data # None => new.data.rows \in Table
    BY <2>1 DEF Formed, PageTypes
  <2> HIDE DEF new, D
  <2>6. DOMAIN hook' = DOMAIN hook /\ hook' \in [DOMAIN hook' -> [data : D, error : BOOLEAN, loading : BOOLEAN]]
    BY <2>1, <2>2, <2>4 DEF PageTypes, D
  <2>7. "watches" \in DOMAIN hook' /\ hook'["watches"].data # None => hook'["watches"].data.rows \in Table
    BY <2>1, <2>2, <2>5, <2>6 DEF PageTypes
  <2>8. PageTypes'
    BY <1>1, <2>6, <2>7, PageTypesKept DEF LoadAnswers, PageTypes, D
  <2> QED BY <1>1, <2>8 DEF LoadAnswers, server, ServerTypes, CallTypes
<1>2. CASE Stays(c)
  <2>1. Formed(Call("probe"))
    BY CallIs DEF Formed, Actions
  <2> QED BY <1>2, <2>1 DEF Stays, server, page, ServerTypes, CallTypes, PageTypes
<1>3. CASE Tells(c)
  <2>1. {tab} \subseteq DOMAIN hook
    BY <1>3, LoadersAre DEF Tells, PageTypes
  <2>2. CallTypes'
    BY <1>3, <2>1, RerunTypes DEF Tells, PageTypes
  <2>3. PageTypes'
    <3>1. hook' = Loading(hook, {tab})
      BY <1>3 DEF Tells, Rerun
    <3>2. /\ DOMAIN hook' = DOMAIN hook
          /\ hook' \in [DOMAIN hook' -> [data : Data \union {None}, error : BOOLEAN, loading : BOOLEAN]]
          /\ \A l \in DOMAIN hook : hook'[l].data = hook[l].data
      BY <2>1, <3>1, RerunHook
    <3> QED BY <1>3, <3>2, PageTypesKept DEF Tells, PageTypes
  <2> QED BY <1>3, <2>2, <2>3 DEF Tells, server, ServerTypes
<1>4. CASE Leaves
  BY <1>4 DEF Leaves, Quiet, server, ServerTypes, CallTypes, PageTypes
<1> QED BY <1>1, <1>2, <1>3, <1>4, AnswerDoes, MountTypes

(* A turn of the server takes one request one step further, on its way to  *)
(* the page; the other process and the operator's machine send nothing.    *)
Turned(c, d) ==
  /\ c \in calls /\ Same(c, d) /\ Formed(d)
  /\ calls' = (calls \ {c}) \union {d}
  /\ UNCHANGED <<auth, page>>

LEMMA TurnsTurn ==
  ASSUME CallTypes, NEW c \in calls, NEW s \in Int, Turns(c, s), c.op = "load" => s # 200,
         s = 1 => c.op \in {"put", "save"} /\ c.id \in Ids, UNCHANGED <<auth, page>>
  PROVE  \E d : Turned(c, d) /\ d.status = s
<1> DEFINE d == [c EXCEPT !.status = s]
<1>1. Formed(c)
  BY DEF CallTypes
<1>2. d \in Request /\ Same(c, d) /\ d.status = s
  BY <1>1, TurnIs DEF Formed
<1>3. calls' = (calls \ {c}) \union {d}
  BY DEF Turns
<1> HIDE DEF d
<1>4. Formed(d)
  BY <1>1, <1>2 DEF Formed, Same
<1> QED BY <1>2, <1>3, <1>4 DEF Turned

ServerStep(c) == Handle(c) \/ Fails(c) \/ Hangs(c)

LEMMA ReadTurns ==
  ASSUME TypeInv, NEW c \in calls, HandleRead(c)
  PROVE  \E d : /\ Turned(c, d)
                /\ d.status = 200 /\ c.loader = "watches" => d.rows = table
                /\ d.status \in {200, 401}
<1> DEFINE s == IF c.loader = "health" THEN 200 ELSE Guarded(200)
           r == IF c.loader = "watches" THEN table ELSE None
           d == [c EXCEPT !.status = s, !.rows = r]
<1>1. Formed(c)
  BY DEF TypeInv, CallTypes
<1>2. s \in {200, 401} /\ r \in Table \union {None}
  BY DEF Guarded, TypeInv, ServerTypes
<1>3. calls' = (calls \ {c}) \union {d} /\ UNCHANGED <<auth, page>>
  BY DEF HandleRead
<1> HIDE DEF s, r
<1>0. d = [c EXCEPT !.status = s, !.rows = r]
  OBVIOUS
<1> HIDE DEF d
<1>4. d \in Request /\ Same(c, d) /\ d.status = s /\ d.rows = r
  <2>1. c \in Request /\ s \in Int
    BY <1>1, <1>2 DEF Formed
  <2> QED BY <1>0, <1>2, <2>1 DEF Request, Same
<1>5. c.loader = "watches" => r \in Table
  BY DEF r, TypeInv, ServerTypes
<1>6. Formed(d)
  BY <1>1, <1>2, <1>4, <1>5 DEF Formed, Same
<1>7. c.loader = "watches" => r = table
  BY DEF r
<1> QED BY <1>2, <1>3, <1>4, <1>6, <1>7 DEF Turned

(* The steps of the server by their kind; d is what the request becomes.   *)
Reads(c, d) ==
  /\ Turned(c, d) /\ d.status \in {200, 401}
  /\ c.op \in {"load", "probe"} /\ c.status = 0
  /\ d.status = 200 /\ c.loader = "watches" => d.rows = table
  /\ UNCHANGED <<server, other, behind>>

Replies(c, d) ==
  /\ Turned(c, d) /\ c.status = 0 /\ d.status # 1
  /\ d.status = 200 => c.op \in {"login", "logout", "ingest"}
  /\ session' \in BOOLEAN
  /\ UNCHANGED <<table, used, busy, other, behind>>

Creates(c, d) ==
  /\ Turned(c, d) /\ c.op = "save" /\ c.status = 0 /\ d.status = 200
  /\ Create(c.patch) /\ Blind(c)
  /\ UNCHANGED <<session, busy, other>>

Deletes(c, d) ==
  /\ Turned(c, d) /\ c.op = "delete" /\ c.status = 0 /\ d.status = 200
  /\ table' = [table EXCEPT ![c.id] = None] /\ Blind(c)
  /\ other' = Mix(other, other # None /\ other.id = c.id)
  /\ busy = None
  /\ UNCHANGED <<used, session, busy>>

Begins(c, d) ==
  /\ Turned(c, d) /\ c.op \in {"put", "save"} /\ c.status = 0 /\ d.status = 1
  /\ c.id \in Ids /\ table[c.id] # None
  /\ busy = None /\ busy' = [row |-> table[c.id], mixed |-> FALSE]
  /\ UNCHANGED <<table, used, session, other, behind>>

Ends(c, d) == Turned(c, d) /\ d.status = 200 /\ EndUpdate(c)

Breaks(c, d) == Turned(c, d) /\ d.status = 500 /\ Fails(c)

LEMMA ServerDoes ==
  ASSUME TypeInv, NEW c \in calls, ServerStep(c)
  PROVE  \E d : \/ Reads(c, d) \/ Replies(c, d) \/ Creates(c, d) \/ Deletes(c, d)
                \/ Begins(c, d) \/ Ends(c, d) \/ Breaks(c, d)
<1>1. Formed(c) /\ CallTypes
  BY DEF TypeInv, CallTypes
<1>2. CASE HandleRead(c)
  BY <1>2, ReadTurns DEF HandleRead, Reads
<1>3. ASSUME NEW limited \in BOOLEAN, HandleLogin(c, limited)
      PROVE  \E d : Replies(c, d)
  <2>1. PICK s \in {429, 200, 401} : Turns(c, s)
    BY <1>3 DEF HandleLogin
  <2>2. session' \in BOOLEAN
    <3>1. session \in BOOLEAN
      BY DEF TypeInv, ServerTypes
    <3>2. session' = (session \/ (c.good /\ ~limited))
      BY <1>3 DEF HandleLogin
    <3> QED BY <3>1, <3>2
  <2>3. \E d : Turned(c, d) /\ d.status = s
    BY <1>1, <1>3, <2>1, TurnsTurn DEF HandleLogin
  <2> QED BY <1>3, <2>2, <2>3 DEF HandleLogin, Replies
<1>4. CASE HandleLogout(c)
  <2>1. \E d : Turned(c, d) /\ d.status = 200
    BY <1>1, <1>4, TurnsTurn DEF HandleLogout
  <2>2. session' \in BOOLEAN
    BY <1>4 DEF HandleLogout
  <2> QED BY <1>4, <2>1, <2>2 DEF HandleLogout, Replies
<1>5. CASE HandleIngest(c) \/ Hangs(c)
  <2>1. PICK s \in {401, 400, 200, -1} : Turns(c, s) /\ (s = 200 => c.op = "ingest")
    BY <1>5 DEF HandleIngest, Hangs
  <2>2. \E d : Turned(c, d) /\ d.status = s
    BY <1>1, <1>5, <2>1, TurnsTurn DEF HandleIngest, Hangs
  <2>3. session' \in BOOLEAN
    BY <1>5 DEF HandleIngest, Hangs, server, TypeInv, ServerTypes
  <2> QED BY <1>5, <2>1, <2>2, <2>3 DEF HandleIngest, Hangs, Replies, server
<1>6. ASSUME NEW s \in {401, 404}, Turns(c, s), c.status = 0,
             UNCHANGED <<table, used, session, busy, other, behind, auth, page>>
      PROVE  \E d : Replies(c, d)
  <2>1. \E d : Turned(c, d) /\ d.status = s
    BY <1>1, <1>6, TurnsTurn
  <2> QED BY <1>6, <2>1 DEF Replies, TypeInv, ServerTypes
<1>7. CASE HandleCreate(c)
  <2>1. CASE session
    <3>1. \E d : Turned(c, d) /\ d.status = 200
      BY <1>1, <1>7, <2>1, TurnsTurn DEF HandleCreate, Guarded
    <3> QED BY <1>7, <2>1, <3>1 DEF HandleCreate, Creates
  <2>2. CASE ~session
    BY <1>6, <1>7, <2>2 DEF HandleCreate, Guarded
  <2> QED BY <2>1, <2>2
<1>8. CASE busy = None /\ HandleDelete(c)
  <2>1. CASE session /\ table[c.id] # None
    <3>1. \E d : Turned(c, d) /\ d.status = 200
      BY <1>1, <1>8, <2>1, TurnsTurn DEF HandleDelete
    <3> QED BY <1>8, <2>1, <3>1 DEF HandleDelete, Deletes
  <2>2. CASE ~(session /\ table[c.id] # None)
    <3>1. Guarded(404) \in {401, 404}
      BY DEF Guarded
    <3> QED BY <1>6, <1>8, <2>2, <3>1 DEF HandleDelete
  <2> QED BY <2>1, <2>2
<1>9. CASE busy = None /\ BeginUpdate(c)
  <2>1. CASE session /\ table[c.id] # None
    <3>2. c.id \in Ids
      BY <1>1, <1>9 DEF BeginUpdate, Formed, Request
    <3>1. \E d : Turned(c, d) /\ d.status = 1
      BY <1>1, <1>9, <2>1, <3>2, TurnsTurn DEF BeginUpdate
    <3> QED BY <1>9, <2>1, <3>1, <3>2 DEF BeginUpdate, Begins
  <2>2. CASE ~(session /\ table[c.id] # None)
    <3>1. Guarded(404) \in {401, 404}
      BY DEF Guarded
    <3> QED BY <1>6, <1>9, <2>2, <3>1 DEF BeginUpdate
  <2> QED BY <2>1, <2>2
<1>10. CASE EndUpdate(c)
  <2>1. c.op # "load"
    BY <1>1, <1>10 DEF EndUpdate, Formed
  <2>2. \E d : Turned(c, d) /\ d.status = 200
    BY <1>1, <1>10, <2>1, TurnsTurn DEF EndUpdate
  <2> QED BY <1>10, <2>2 DEF Ends
<1>11. CASE Fails(c)
  <2>1. \E d : Turned(c, d) /\ d.status = 500
    BY <1>1, <1>11, TurnsTurn DEF Fails
  <2> QED BY <1>11, <2>1 DEF Breaks
<1> QED BY <1>2, <1>3, <1>4, <1>5, <1>7, <1>8, <1>9, <1>10, <1>11 DEF ServerStep, Handle

(* The statements on the table keep its types, and an id once given.       *)
LEMMA TableTypes ==
  ASSUME ServerTypes, NEW id \in Ids, NEW row \in Row \union {None},
         row # None => id \in used', used \subseteq used', used' \subseteq Ids,
         table' = [table EXCEPT ![id] = row]
  PROVE  /\ table' \in Table
         /\ \A i \in Ids : table'[i] # None => i \in used'
  BY DEF ServerTypes, Table

LEMMA UpdatedTypes ==
  ASSUME ServerTypes, NEW id \in Ids, NEW patch \in Patch, NEW row \in Row
  PROVE  /\ Updated(id, patch, row) \in Row \union {None}
         /\ table[id] = None <=> Updated(id, patch, row) = None
<1>1. Upserted(id, patch, row) \in Row
  BY DEF Upserted, Patch, Row
<1>2. None \notin Row
  BY ConsoleConstants
<1> QED BY <1>1, <1>2 DEF Updated

LEMMA MixTypes ==
  ASSUME NEW changes
  PROVE  /\ \A half \in Half \union {None} :
              /\ Mix(half, changes) \in Half \union {None}
              /\ half # None <=> Mix(half, changes) # None
              /\ half # None => Mix(half, changes).row = half.row
              /\ half # None /\ ~Mix(half, changes).mixed => ~half.mixed /\ ~changes
         /\ \A half \in OtherHalf \union {None} : Mix(half, changes) \in OtherHalf \union {None}
<1>1. None \notin Half /\ None \notin OtherHalf
  BY ConsoleConstants
<1>2. ASSUME NEW half \in Half
      PROVE  /\ [half EXCEPT !.mixed = TRUE] \in Half
             /\ [half EXCEPT !.mixed = TRUE].row = half.row
             /\ [half EXCEPT !.mixed = TRUE].mixed = TRUE
  BY DEF Half
<1>3. \A half \in OtherHalf : [half EXCEPT !.mixed = TRUE] \in OtherHalf
  BY DEF OtherHalf
<1>4. ASSUME NEW half \in Half \union {None}
      PROVE  /\ Mix(half, changes) \in Half \union {None}
             /\ half # None <=> Mix(half, changes) # None
             /\ half # None => Mix(half, changes).row = half.row
             /\ half # None /\ ~Mix(half, changes).mixed => ~half.mixed /\ ~changes
  <2>1. CASE half # None /\ changes
    <3>1. Mix(half, changes) = [half EXCEPT !.mixed = TRUE]
      BY <2>1 DEF Mix
    <3> QED BY <1>1, <1>2, <2>1, <3>1
  <2>2. CASE ~(half # None /\ changes)
    <3>1. Mix(half, changes) = half
      BY <2>2 DEF Mix
    <3> QED BY <2>2, <3>1
  <2> QED BY <2>1, <2>2
<1> QED BY <1>3, <1>4 DEF Mix

LEMMA CreateTypes ==
  ASSUME ServerTypes, NEW row \in Row, Create(row)
  PROVE  /\ table' \in Table /\ used \subseteq used' /\ used' \subseteq Ids
         /\ \A id \in Ids : table'[id] # None => id \in used'
         /\ \A id \in used : table'[id] = table[id]
<1>1. PICK id \in Ids \ used : used' = used \union {id} /\ table' = [table EXCEPT ![id] = row]
  BY DEF Create
<1>2. used \subseteq used' /\ used' \subseteq Ids /\ id \in used'
  BY <1>1 DEF ServerTypes
<1>3. /\ table' \in Table /\ \A i \in Ids : table'[i] # None => i \in used'
  BY <1>1, <1>2, TableTypes
<1>4. \A i \in used : table'[i] = table[i]
  BY <1>1 DEF ServerTypes, Table
<1> QED BY <1>2, <1>3, <1>4

-----------------------------------------------------------------------------
(* An update that is half done is that of one call, and holds the row as   *)
(* it is, unless the other process has been there in between.              *)
WorkInv ==
  /\ \A c, d \in calls : c.status = 1 /\ d.status = 1 => c = d
  /\ \A c \in calls : c.status = 1 =>
       /\ c.id \in used /\ busy # None
       /\ ~busy.mixed /\ table[c.id] # None => busy.row = table[c.id]

LEMMA TurnedCalls ==
  ASSUME TypeInv, NEW c, NEW d, Turned(c, d)
  PROVE  CallTypes' /\ PageTypes'
  BY DEF Turned, TypeInv, CallTypes, PageTypes, page

LEMMA ServerKeepsTypes ==
  ASSUME TypeInv, WorkInv, NEW c \in calls, ServerStep(c)
  PROVE  TypeInv'
<1> USE DEF TypeInv
<1>1. PICK d : \/ Reads(c, d) \/ Replies(c, d) \/ Creates(c, d) \/ Deletes(c, d)
               \/ Begins(c, d) \/ Ends(c, d) \/ Breaks(c, d)
  BY ServerDoes
<1>2. CallTypes' /\ PageTypes'
  <2>1. Turned(c, d)
    BY <1>1 DEF Reads, Replies, Creates, Deletes, Begins, Ends, Breaks
  <2> QED BY <2>1, TurnedCalls
<1>3. Formed(c) /\ c \in Request
  BY DEF CallTypes, Formed
<1>4. ASSUME Reads(c, d)
      PROVE  ServerTypes'
  BY <1>4 DEF Reads, server, ServerTypes
<1>5. ASSUME Replies(c, d)
      PROVE  ServerTypes'
  BY <1>5 DEF Replies, ServerTypes
<1>6. ASSUME Creates(c, d)
      PROVE  ServerTypes'
  <2>1. c.patch \in Row
    BY <1>3, <1>6 DEF Creates, Formed
  <2> QED BY <1>6, <2>1, CreateTypes DEF Creates, ServerTypes
<1>7. ASSUME Deletes(c, d)
      PROVE  ServerTypes'
  <2>1. c.id \in Ids
    BY <1>3, <1>7 DEF Deletes, Formed
  <2>2. table' \in Table /\ \A i \in Ids : table'[i] # None => i \in used'
    BY <1>7, <2>1, TableTypes DEF Deletes, ServerTypes
  <2>3. other' \in OtherHalf \union {None}
    BY <1>7, MixTypes DEF Deletes, ServerTypes
  <2> QED BY <1>7, <2>2, <2>3 DEF Deletes, ServerTypes
<1>8. ASSUME Begins(c, d)
      PROVE  ServerTypes'
  <2>1. busy' \in Half
    BY <1>8 DEF Begins, ServerTypes, Table, Half
  <2> QED BY <1>8, <2>1 DEF Begins, ServerTypes
<1>9. ASSUME Ends(c, d)
      PROVE  ServerTypes'
  <2>1. c.id \in Ids /\ c.patch \in Patch /\ table[c.id] \in Row \union {None}
    BY <1>3, <1>9 DEF Ends, EndUpdate, Formed, Request, ServerTypes, Table
  <2>2. busy \in Half
    BY <1>9 DEF Ends, EndUpdate, WorkInv, ServerTypes
  <2> DEFINE row == Updated(c.id, c.patch, busy.row)
  <2>3. row \in Row \union {None} /\ (table[c.id] = None <=> row = None)
    BY <2>1, <2>2, UpdatedTypes DEF Half
  <2> HIDE DEF row
  <2>4. table' = [table EXCEPT ![c.id] = row] /\ used' = used /\ session' = session /\ busy' = None
    BY <1>9 DEF Ends, EndUpdate, row
  <2>5. table' \in Table /\ \A i \in Ids : table'[i] # None => i \in used'
    BY <2>1, <2>3, <2>4, TableTypes DEF ServerTypes
  <2>6. other' \in OtherHalf \union {None}
    BY <1>9, MixTypes DEF Ends, EndUpdate, ServerTypes
  <2> QED BY <2>4, <2>5, <2>6 DEF ServerTypes
<1>10. ASSUME Breaks(c, d)
      PROVE  ServerTypes'
  BY <1>10 DEF Breaks, Fails, ServerTypes
<1> QED BY <1>1, <1>2, <1>4, <1>5, <1>6, <1>7, <1>8, <1>9, <1>10

LEMMA OtherKeepsTypes ==
  ASSUME TypeInv, Other \/ Expire
  PROVE  TypeInv' /\ UNCHANGED <<auth, page, calls>>
<1> USE DEF TypeInv
<1>1. UNCHANGED <<auth, page, calls>>
  BY DEF Other, Expire, OtherAdds, OtherEnds, OtherDies, OtherRemoves, OtherBegins, OtherWrites
<1>2. CallTypes' /\ PageTypes'
  BY <1>1 DEF CallTypes, PageTypes, page
<1>3. ASSUME OtherAdds
      PROVE  ServerTypes'
  <2>1. PICK row \in Row : Create(row)
    BY <1>3 DEF OtherAdds
  <2> QED BY <1>3, <2>1, CreateTypes DEF OtherAdds, OtherWrites, ServerTypes
<1>4. ASSUME NEW id \in Ids, OtherRemoves(id)
      PROVE  ServerTypes'
  <2>1. table' \in Table /\ \A i \in Ids : table'[i] # None => i \in used'
    BY <1>4, TableTypes DEF OtherRemoves, ServerTypes
  <2>2. busy' \in Half \union {None}
    BY <1>4, MixTypes DEF OtherRemoves, ServerTypes
  <2> QED BY <1>4, <2>1, <2>2 DEF OtherRemoves, OtherWrites, ServerTypes
<1>5. ASSUME NEW id \in Ids, NEW l \in Labels, OtherBegins(id, [NoPatch EXCEPT !.label = l])
      PROVE  ServerTypes'
  <2>1. [NoPatch EXCEPT !.label = l] \in Patch
    BY DEF NoPatch, Patch
  <2>2. table[id] \in Row
    BY <1>5 DEF OtherBegins, ServerTypes, Table
  <2>3. other' \in OtherHalf
    BY <1>5, <2>1, <2>2 DEF OtherBegins, OtherHalf
  <2> QED BY <1>5, <2>3 DEF OtherBegins, server, ServerTypes
<1>6. ASSUME OtherEnds
      PROVE  ServerTypes'
  <2>1. other \in OtherHalf
    BY <1>6 DEF OtherEnds, ServerTypes
  <2> DEFINE row == Updated(other.id, other.patch, other.row)
  <2>2. other.id \in Ids /\ row \in Row \union {None} /\ (table[other.id] = None <=> row = None)
    BY <2>1, UpdatedTypes DEF OtherHalf
  <2> HIDE DEF row
  <2>3. table' = [table EXCEPT ![other.id] = row] /\ used' = used /\ session' = session /\ other' = None
    BY <1>6 DEF OtherEnds, OtherWrites, row
  <2>4. table' \in Table /\ \A i \in Ids : table'[i] # None => i \in used'
    BY <2>2, <2>3, TableTypes DEF ServerTypes
  <2>5. busy' \in Half \union {None}
    BY <1>6, MixTypes DEF OtherEnds, ServerTypes
  <2> QED BY <2>3, <2>4, <2>5 DEF ServerTypes
<1>7. ASSUME OtherDies \/ Expire
      PROVE  ServerTypes'
  BY <1>7 DEF OtherDies, Expire, server, ServerTypes
<1> QED BY <1>1, <1>2, <1>3, <1>4, <1>5, <1>6, <1>7 DEF Other

(* The kinds of step there are.                                            *)
LEMMA NextDoes ==
  ASSUME Next
  PROVE  User \/ Other \/ Expire \/ \E c \in calls : ServerStep(c) \/ Answer(c)
  BY DEF Next, ServerStep

LEMMA TypeInit == Init => TypeInv /\ PageInv /\ WorkInv
<1> SUFFICES ASSUME Init PROVE TypeInv /\ PageInv /\ WorkInv
  OBVIOUS
<1>1. ServerTypes
  <2>1. \A l \in Labels : [label |-> l, enabled |-> TRUE] \in Row
    BY DEF Row
  <2>2. table \in Table
    BY <2>1 DEF Init, Table
  <2> QED BY <2>2 DEF Init, ServerTypes
<1>2. CallTypes
  BY CallIs DEF Init, CallTypes, Formed, Actions
<1>3. PageTypes
  BY DEF Init, PageTypes, Tabs
<1>4. PageInv
  BY CallIs DEF Init, PageInv, ShownIsAsked, Actions
<1>5. WorkInv
  BY CallIs DEF Init, WorkInv, Actions
<1> QED BY <1>1, <1>2, <1>3, <1>4, <1>5 DEF TypeInv

-----------------------------------------------------------------------------
(* What is shown, and what is waited for.                                  *)

LEMMA PageStays ==
  ASSUME PageInv, UNCHANGED <<auth, page>>,
         \A d \in calls' : d \in calls \/ (d.op # "load" /\ (d.op \in Actions /\ ~d.gone => auth = "authenticated")),
         \A c \in calls \ calls' : c.op # "load"
  PROVE  PageInv'
  BY DEF PageInv, ShownIsAsked, page

LEMMA PageTurns ==
  ASSUME TypeInv, PageInv, NEW c, NEW d, Turned(c, d)
  PROVE  PageInv'
<1>1. /\ calls' = (calls \ {c}) \union {d} /\ c \in calls
      /\ d.op = c.op /\ d.loader = c.loader /\ d.asked = c.asked /\ d.gone = c.gone
      /\ UNCHANGED <<auth, tab, type, hook>>
  BY DEF Turned, Same, page
<1>2. ShownIsAsked'
  BY <1>1 DEF PageInv, ShownIsAsked
<1> QED BY <1>1, <1>2 DEF PageInv

LEMMA PageReruns ==
  ASSUME TypeInv, PageInv, auth = "authenticated", UNCHANGED auth,
         NEW ls, ls \subseteq DOMAIN hook, NEW answered, \A c \in answered : c.op # "load",
         type' = type \/ ls = DOMAIN hook, Rerun(ls, type', answered)
  PROVE  PageInv'
<1>1. /\ DOMAIN hook' = DOMAIN hook
      /\ \A l \in ls : hook'[l].loading
      /\ \A l \in DOMAIN hook \ ls : hook'[l] = hook[l]
  BY RerunHook DEF TypeInv, Rerun
<1>2. calls' = ({c \in calls : ~(c.op = "load" /\ c.loader \in ls)} \ answered) \union Loads(ls, type')
  BY DEF Rerun, Cancelled
<1>3. ASSUME NEW c \in calls', c.op = "load"
      PROVE  /\ c.loader \in DOMAIN hook' /\ hook'[c.loader].loading /\ c.asked = Asked(c.loader, type')
             /\ c.loader \in ls <=> c \in Loads(ls, type')
  BY <1>1, <1>2, <1>3, LoadsAre DEF PageInv
<1>4. ASSUME NEW l \in DOMAIN hook', hook'[l].loading
      PROVE  \E c \in calls' : c.op = "load" /\ c.loader = l
  BY <1>1, <1>2, <1>4, LoadsAre DEF PageInv
<1>5. ASSUME NEW c \in calls', NEW d \in calls', c.op = "load", d.op = "load", c.loader = d.loader
      PROVE  c = d
  BY <1>2, <1>3, <1>5, LoadsAre DEF PageInv
<1>6. \A c \in calls' : c.op \in Actions /\ ~c.gone => auth' = "authenticated"
  OBVIOUS
<1>7. ShownIsAsked'
  BY <1>1 DEF PageInv, ShownIsAsked
<1> QED BY <1>3, <1>4, <1>5, <1>6, <1>7 DEF PageInv

LEMMA PageMounts ==
  ASSUME TypeInv, NEW t, NEW rest, Mounts(t, rest)
  PROVE  PageInv'
<1>1. /\ calls' = rest \union Loads(Loaders(t), None) /\ Quiet(rest)
      /\ auth' = "authenticated" /\ type' = None
      /\ hook' = [l \in Loaders(t) |-> [data |-> None, error |-> FALSE, loading |-> TRUE]]
  BY DEF Mounts, Shown, Mounted
<1>2. \A c \in rest : c.op # "load"
  BY <1>1 DEF Quiet
<1>3. DOMAIN hook' = Loaders(t) /\ \A l \in Loaders(t) : hook'[l].loading
  BY <1>1
<1>4. ShownIsAsked'
  BY <1>3 DEF ShownIsAsked
<1> QED BY <1>1, <1>2, <1>3, <1>4, LoadsAre DEF PageInv

LEMMA PageAnswers ==
  ASSUME TypeInv, PageInv, NEW c \in calls, LoadAnswers(c)
  PROVE  PageInv'
<1>1. /\ c.op = "load" /\ c.loader \in DOMAIN hook /\ c.asked = Asked(c.loader, type)
      /\ calls' = calls \ {c} /\ UNCHANGED <<auth, type>>
  BY DEF LoadAnswers, PageInv
<1> DEFINE data == IF c.status = 200 THEN [asked |-> c.asked, rows |-> c.rows] ELSE hook[c.loader].data
           new == [data |-> data, error |-> c.status # 200, loading |-> FALSE]
<1>2. hook' = [hook EXCEPT ![c.loader] = new]
  BY DEF LoadAnswers
<1>3. new.loading = FALSE /\ (~new.error => new.data = [asked |-> c.asked, rows |-> c.rows])
  OBVIOUS
<1>4. [asked |-> c.asked, rows |-> c.rows] # None
  <2>1. c \in Request
    BY DEF TypeInv, CallTypes, Formed
  <2>2. [asked |-> c.asked, rows |-> c.rows] \in Data
    BY <2>1 DEF Request, Data, Asks
  <2> QED BY <2>2, ConsoleConstants
<1> HIDE DEF new
<1>5. /\ DOMAIN hook' = DOMAIN hook /\ hook'[c.loader] = new
      /\ \A l \in DOMAIN hook : l # c.loader => hook'[l] = hook[l]
  BY <1>1, <1>2
<1>6. ShownIsAsked'
  <2>1. ~new.error => new.data # None /\ new.data.asked = Asked(c.loader, type)
    BY <1>1, <1>3, <1>4
  <2> QED BY <1>1, <1>5, <2>1 DEF PageInv, ShownIsAsked
<1>7. \A d \in calls' : d.op = "load" => d.loader # c.loader
  BY <1>1 DEF PageInv
<1>8. \A l \in DOMAIN hook' : hook'[l].loading => l # c.loader
  BY <1>3, <1>5
<1> QED BY <1>1, <1>5, <1>6, <1>7, <1>8 DEF PageInv

(* A page and its calls stay together through every step.                  *)
LEMMA PageKeeps ==
  ASSUME TypeInv, PageInv, Next
  PROVE  PageInv'
<1> USE DEF TypeInv
<1>1. CASE Other \/ Expire
  BY <1>1, OtherKeepsTypes, PageStays
<1>2. ASSUME NEW c \in calls, ServerStep(c)
      PROVE  PageInv'
  <2>1. PICK d : Turned(c, d)
    BY <1>2, ServerDoes DEF Reads, Replies, Creates, Deletes, Begins, Ends, Breaks
  <2> QED BY <2>1, PageTurns
<1>3. ASSUME NEW d, Sends(d)
      PROVE  PageInv'
  BY <1>3, PageStays DEF Sends
<1>4. CASE Forms
  BY <1>4 DEF Forms, PageInv, ShownIsAsked
<1>5. ASSUME NEW ls, Reruns(ls)
      PROVE  PageInv'
  <2>1. ls = DOMAIN hook
    BY <1>5 DEF Reruns, PageTypes
  <2> QED BY <1>5, <2>1, PageReruns DEF Reruns
<1>6. ASSUME NEW t, NEW rest, Mounts(t, rest)
      PROVE  PageInv'
  BY <1>6, PageMounts
<1>7. CASE User
  <2>1. ASSUME NEW t \in Tabs, SelectTab(t)
        PROVE  PageInv'
    BY <2>1, <1>6, TabMounts
  <2> QED BY <1>3, <1>4, <1>5, <1>7, <2>1, UserDoes
<1>8. ASSUME NEW c \in calls, Answer(c)
      PROVE  PageInv'
  <2>1. CASE LoadAnswers(c)
    BY <2>1, PageAnswers
  <2>2. CASE Stays(c)
    <3>1. \A d \in calls' : d \in calls \/ (d.op # "load" /\ d.op \notin Actions)
      BY <2>2, CallIs DEF Stays, Actions
    <3> QED BY <2>2, <3>1, PageStays DEF Stays
  <2>3. CASE Tells(c)
    <3>1. {tab} \subseteq DOMAIN hook /\ c.op # "load"
      BY <2>3, LoadersAre DEF Tells, PageTypes, Actions
    <3>2. Rerun({tab}, type', {c}) /\ auth = "authenticated" /\ type' = type /\ auth' = auth
      BY <2>3 DEF Tells
    <3> QED BY <3>1, <3>2, PageReruns
  <2>4. CASE Leaves
    <3>1. DOMAIN hook' = {} /\ Quiet(calls')
      BY <2>4 DEF Leaves
    <3> QED BY <3>1 DEF Quiet, PageInv, ShownIsAsked
  <2> QED BY <1>6, <1>8, <2>1, <2>2, <2>3, <2>4, AnswerDoes
<1> QED BY <1>1, <1>2, <1>7, <1>8, NextDoes

-----------------------------------------------------------------------------
(* The half-done update.                                                   *)

(* No request is half done but one that was.                               *)
LEMMA WorkStays ==
  ASSUME WorkInv, UNCHANGED server,
         \A e \in calls' : e.status = 1 => e \in calls
  PROVE  WorkInv'
  BY DEF WorkInv, server

(* What goes on when a page is left is half done as it was.                *)
LEMMA RestWork ==
  ASSUME TypeInv, WorkInv, NEW cs, Rest(cs)
  PROVE  /\ \A e \in cs : e.status = 1 => \E c \in calls : c.status = 1 /\ c.id = e.id
         /\ \A e, f \in cs : e.status = 1 /\ f.status = 1 => e = f
<1>1. PICK ds \in SUBSET (calls \union {Call("probe")}) : cs = ds \/ cs = Unmounted(ds)
  BY DEF Rest
<1>2. \A c \in ds : c.status = 1 => c \in calls
  BY CallIs
<1>3. CASE cs = ds
  BY <1>2, <1>3 DEF WorkInv
<1>4. CASE cs = Unmounted(ds)
  <2>1. \A c \in ds : Formed(c)
    <3>1. Formed(Call("probe"))
      BY CallIs DEF Formed, Actions
    <3> QED BY <3>1 DEF TypeInv, CallTypes
  <2>2. \A e \in cs : \E c \in ds :
          c.id = e.id /\ c.status = e.status /\ e = [c EXCEPT !.gone = c.op \in Actions]
    BY <1>4, <2>1, UnmountedIs
  <2>3. ASSUME NEW e \in cs, NEW f \in cs, e.status = 1, f.status = 1
        PROVE  e = f
    <3>1. PICK c \in ds : c.status = 1 /\ e = [c EXCEPT !.gone = c.op \in Actions]
      BY <2>2, <2>3
    <3>2. PICK d \in ds : d.status = 1 /\ f = [d EXCEPT !.gone = d.op \in Actions]
      BY <2>2, <2>3
    <3>3. c = d
      BY <1>2, <3>1, <3>2 DEF WorkInv
    <3> QED BY <3>1, <3>2, <3>3
  <2> QED BY <1>2, <2>2, <2>3
<1> QED BY <1>1, <1>3, <1>4

LEMMA PageKeepsWork ==
  ASSUME TypeInv, PageInv, WorkInv, User \/ \E c \in calls : Answer(c)
  PROVE  WorkInv'
<1>1. CASE UNCHANGED server /\ \A e \in calls' : e \in calls \/ e.status = 0
  <2>1. \A e \in calls' : e.status = 1 => e \in calls
    BY <1>1
  <2> QED BY <1>1, <2>1, WorkStays
<1>2. ASSUME NEW ls, NEW filter, NEW answered, Rerun(ls, filter, answered), UNCHANGED server
      PROVE  WorkInv'
  <2>1. calls' = (Cancelled(ls) \ answered) \union Loads(ls, filter) /\ Cancelled(ls) \subseteq calls
    BY <1>2 DEF Rerun, Cancelled
  <2> QED BY <1>1, <1>2, <2>1, LoadsAre
<1>3. ASSUME NEW d, Sends(d)
      PROVE  WorkInv'
  BY <1>1, <1>3 DEF Sends
<1>4. CASE Forms
  BY <1>1, <1>4 DEF Forms
<1>5. ASSUME NEW ls, Reruns(ls)
      PROVE  WorkInv'
  BY <1>2, <1>5 DEF Reruns
<1>6. ASSUME NEW t, NEW rest, Mounts(t, rest)
      PROVE  WorkInv'
  <2>1. Rest(rest) /\ calls' = rest \union Loads(Loaders(t), None) /\ UNCHANGED server
    BY <1>6 DEF Mounts
  <2>2. \A e \in calls' : e.status = 1 => e \in rest
    BY <2>1, LoadsAre
  <2> QED BY <2>1, <2>2, RestWork DEF WorkInv, server
<1>7. CASE User
  <2>1. ASSUME NEW t \in Tabs, SelectTab(t)
        PROVE  WorkInv'
    BY <2>1, <1>6, TabMounts
  <2> QED BY <1>3, <1>4, <1>5, <1>7, <2>1, UserDoes
<1>8. ASSUME NEW c \in calls, Answer(c)
      PROVE  WorkInv'
  <2>1. CASE LoadAnswers(c) /\ UNCHANGED <<server, other>>
    BY <1>1, <2>1 DEF LoadAnswers
  <2>2. CASE Stays(c)
    BY <1>1, <2>2, CallIs DEF Stays
  <2>3. CASE Tells(c)
    BY <1>2, <2>3 DEF Tells
  <2>4. CASE Leaves
    BY <2>4, RestWork DEF Leaves, WorkInv, server
  <2> QED BY <1>6, <1>8, <2>1, <2>2, <2>3, <2>4, AnswerDoes
<1> QED BY <1>7, <1>8

LEMMA ServerKeepsWork ==
  ASSUME TypeInv, WorkInv, NEW c \in calls, ServerStep(c)
  PROVE  WorkInv'
<1>1. PICK d : \/ Reads(c, d) \/ Replies(c, d) \/ Creates(c, d) \/ Deletes(c, d)
               \/ Begins(c, d) \/ Ends(c, d) \/ Breaks(c, d)
  BY ServerDoes
<1>2. calls' = (calls \ {c}) \union {d} /\ c \in calls /\ d.id = c.id /\ Formed(c)
  BY <1>1 DEF Reads, Replies, Creates, Deletes, Begins, Ends, Breaks, Turned, Same, TypeInv, CallTypes
<1>3. CASE Reads(c, d) \/ Replies(c, d)
  BY <1>2, <1>3 DEF Reads, Replies, server, WorkInv
<1>4. CASE Creates(c, d)
  <2>1. \A e \in calls' : e.status = 1 => e \in calls
    BY <1>2, <1>4 DEF Creates
  <2>2. c.patch \in Row
    BY <1>2, <1>4 DEF Creates, Formed
  <2>3. used \subseteq used' /\ \A id \in used : table'[id] = table[id]
    BY <1>4, <2>2, CreateTypes DEF Creates, TypeInv
  <2> QED BY <1>4, <2>1, <2>3 DEF Creates, WorkInv
<1>5. CASE Deletes(c, d)
  BY <1>2, <1>5 DEF Deletes, WorkInv
<1>6. CASE Begins(c, d)
  <2>1. \A e \in calls' : e.status = 1 => e = d
    BY <1>2, <1>6 DEF Begins, WorkInv
  <2>2. busy' = [row |-> table[c.id], mixed |-> FALSE] /\ c.id \in used /\ table' = table /\ used' = used
    BY <1>6 DEF Begins, TypeInv, ServerTypes
  <2>3. busy' \in Half
    BY <1>6, <2>2 DEF Begins, Half, TypeInv, ServerTypes, Table
  <2>4. busy' # None
    BY <2>3, ConsoleConstants
  <2> QED BY <1>2, <2>1, <2>2, <2>4 DEF WorkInv
<1>7. CASE (Ends(c, d) \/ Breaks(c, d)) /\ c.status = 1
  <2>1. d.status # 1
    BY <1>7 DEF Ends, Breaks
  <2>2. \A e \in calls' : e.status # 1
    BY <1>2, <1>7, <2>1 DEF WorkInv
  <2> QED BY <2>2 DEF WorkInv
<1>8. CASE Breaks(c, d) /\ c.status # 1
  BY <1>2, <1>8 DEF Breaks, Fails, WorkInv
<1> QED BY <1>1, <1>3, <1>4, <1>5, <1>6, <1>7, <1>8 DEF Ends, EndUpdate

(* Another row is written while an update is half done: that update is not *)
(* of it, or is marked.                                                    *)
LEMMA MixedWork ==
  ASSUME TypeInv, WorkInv, NEW id \in Ids, NEW row,
         table' = [table EXCEPT ![id] = row], busy' = Mix(busy, Working(id)),
         UNCHANGED <<used, calls>>
  PROVE  WorkInv'
<1>1. /\ busy # None <=> busy' # None
      /\ busy # None => busy'.row = busy.row
      /\ busy # None /\ ~busy'.mixed => ~busy.mixed /\ ~Working(id)
  <2> DEFINE changes == Working(id)
  <2>1. busy \in Half \union {None} /\ busy' = Mix(busy, changes)
    BY DEF TypeInv, ServerTypes
  <2> HIDE DEF changes
  <2>2. /\ busy # None <=> busy' # None
        /\ busy # None => busy'.row = busy.row
        /\ busy # None /\ ~busy'.mixed => ~busy.mixed /\ ~changes
    BY <2>1, MixTypes
  <2> QED BY <2>2 DEF changes
<1>2. ASSUME NEW c \in calls, c.status = 1, ~busy'.mixed
      PROVE  table'[c.id] = table[c.id]
  <2>1. c.id \in Ids /\ c.id # id
    BY <1>1, <1>2 DEF WorkInv, Working, TypeInv, ServerTypes
  <2> QED BY <2>1 DEF TypeInv, ServerTypes, Table
<1> QED BY <1>1, <1>2 DEF WorkInv

LEMMA OtherKeepsWork ==
  ASSUME TypeInv, WorkInv, Other \/ Expire
  PROVE  WorkInv'
<1>1. CASE OtherAdds
  <2>1. PICK row \in Row : Create(row)
    BY <1>1 DEF OtherAdds
  <2>2. used \subseteq used' /\ \A id \in used : table'[id] = table[id]
    BY <2>1, CreateTypes DEF TypeInv
  <2> QED BY <1>1, <2>2 DEF OtherAdds, OtherWrites, WorkInv
<1>2. ASSUME NEW id \in Ids, OtherRemoves(id)
      PROVE  WorkInv'
  BY <1>2, MixedWork DEF OtherRemoves, OtherWrites
<1>3. CASE OtherEnds
  <2>1. other.id \in Ids
    BY <1>3 DEF OtherEnds, TypeInv, ServerTypes, OtherHalf
  <2> QED BY <1>3, <2>1, MixedWork DEF OtherEnds, OtherWrites
<1>4. CASE OtherDies \/ Expire \/ \E id \in Ids, l \in Labels : OtherBegins(id, [NoPatch EXCEPT !.label = l])
  BY <1>4 DEF OtherDies, Expire, OtherBegins, server, WorkInv
<1> QED BY <1>1, <1>2, <1>3, <1>4 DEF Other

(* The invariants together.                                                *)
LEMMA Keeps ==
  ASSUME TypeInv, PageInv, WorkInv, [Next]_vars
  PROVE  TypeInv' /\ PageInv' /\ WorkInv'
<1>1. CASE UNCHANGED vars
  BY <1>1 DEF vars, server, page, TypeInv, ServerTypes, CallTypes, PageTypes, PageInv, ShownIsAsked, WorkInv
<1>2. CASE Next
  <2>1. TypeInv'
    BY <1>2, NextDoes, UserTypes, MountTypes, AnswerTypes, ServerKeepsTypes, OtherKeepsTypes
  <2>2. PageInv'
    BY <1>2, PageKeeps
  <2>3. WorkInv'
    BY <1>2, NextDoes, PageKeepsWork, ServerKeepsWork, OtherKeepsWork
  <2> QED BY <2>1, <2>2, <2>3
<1> QED BY <1>1, <1>2

-----------------------------------------------------------------------------
(* The list and the table.                                                 *)

(* A write that the page has not been told of yet.                         *)
Reported(c) == c.op \in {"put", "save", "delete"} /\ c.status = 200 /\ ~c.gone

(* While the page has been told of every write, what its loader has read,  *)
(* and what it shows, is the table.                                        *)
Current ==
  /\ \A c \in calls : c.op = "load" /\ c.status = 200 => c.rows = table
  /\ ~hook["watches"].loading /\ ~hook["watches"].error => hook["watches"].data.rows = table

FreshInv ==
  auth = "authenticated" /\ tab = "watches" /\ ~behind /\ (\A c \in calls : ~Reported(c)) => Current

LEMMA FreshStays ==
  ASSUME FreshInv, UNCHANGED <<table, auth, page>>, behind => behind',
         \A c \in calls : Reported(c) => c \in calls',
         tab = "watches" => \A d \in calls' : d.op = "load" /\ d.status = 200 => d \in calls \/ d.rows = table
  PROVE  FreshInv'
<1> SUFFICES ASSUME auth = "authenticated", tab = "watches", ~behind', \A c \in calls' : ~Reported(c)
             PROVE  Current'
  BY DEF FreshInv, Reported, page
<1>1. \A c \in calls : ~Reported(c)
  OBVIOUS
<1>2. Current
  BY <1>1 DEF FreshInv
<1> QED BY <1>2 DEF Current, page

(* A page whose loaders all run again has nothing yet that could be old.   *)
LEMMA FreshReruns ==
  ASSUME TypeInv, PageInv, NEW c, c.op # "load", auth = "authenticated", UNCHANGED tab,
         Rerun({tab}, type', {c})
  PROVE  FreshInv'
<1> SUFFICES ASSUME tab = "watches" PROVE Current'
  BY DEF FreshInv
<1>1. DOMAIN hook = {"watches"}
  BY DEF TypeInv, PageTypes, Loaders
<1>2. hook'["watches"].loading
  BY <1>1, RerunHook DEF Rerun, TypeInv
<1>3. \A d \in calls' : d.op = "load" => d \in Loads({tab}, type')
  BY <1>1 DEF Rerun, Cancelled, PageInv
<1> QED BY <1>2, <1>3, LoadsAre DEF Current

LEMMA FreshMounts ==
  ASSUME NEW t, NEW rest, Mounts(t, rest)
  PROVE  FreshInv'
<1> SUFFICES ASSUME tab' = "watches" PROVE Current'
  BY DEF FreshInv
<1>1. t = "watches" /\ Quiet(rest) /\ calls' = rest \union Loads(Loaders(t), None)
  BY DEF Mounts
<1>2. \A d \in calls' : d.op = "load" => d.status = 0
  BY <1>1, LoadsAre DEF Quiet
<1>3. hook' = Mounted("watches")
  BY <1>1 DEF Mounts, Shown
<1>4. hook'["watches"].loading
  BY <1>3 DEF Mounted, Loaders
<1> QED BY <1>2, <1>4 DEF Current

LEMMA FreshAnswers ==
  ASSUME TypeInv, PageInv, FreshInv, NEW c \in calls, LoadAnswers(c), UNCHANGED <<server, other>>
  PROVE  FreshInv'
<1>1. /\ c.op = "load" /\ c.loader \in DOMAIN hook /\ calls' = calls \ {c}
      /\ UNCHANGED <<auth, tab, behind, table>>
  BY DEF LoadAnswers, PageInv, server
<1> SUFFICES ASSUME auth = "authenticated", tab = "watches", ~behind, \A e \in calls' : ~Reported(e)
             PROVE  Current'
  BY <1>1 DEF FreshInv, Reported
<1>2. Current
  BY <1>1 DEF FreshInv, Reported
<1>3. c.loader = "watches"
  BY <1>1 DEF TypeInv, PageTypes, Loaders
<1> DEFINE data == IF c.status = 200 THEN [asked |-> c.asked, rows |-> c.rows] ELSE hook["watches"].data
<1>4. hook'["watches"] = [data |-> data, error |-> c.status # 200, loading |-> FALSE]
  BY <1>1, <1>3 DEF LoadAnswers
<1>5. c.status = 200 => hook'["watches"].data.rows = table
  BY <1>1, <1>2, <1>4 DEF Current
<1>6. c.status # 200 => hook'["watches"].error
  <2> SUFFICES ASSUME c.status # 200 PROVE hook'["watches"].error
    OBVIOUS
  <2>1. hook'["watches"] = [data |-> data, error |-> TRUE, loading |-> FALSE]
    BY <1>4
  <2> QED BY <2>1
<1> QED BY <1>1, <1>2, <1>5, <1>6 DEF Current

LEMMA ServerKeepsFresh ==
  ASSUME TypeInv, PageInv, FreshInv, NEW c \in calls, ServerStep(c)
  PROVE  FreshInv'
<1>1. PICK d : \/ Reads(c, d) \/ Replies(c, d) \/ Creates(c, d) \/ Deletes(c, d)
               \/ Begins(c, d) \/ Ends(c, d) \/ Breaks(c, d)
  BY ServerDoes
<1>2. /\ calls' = (calls \ {c}) \union {d} /\ UNCHANGED <<auth, page>> /\ Formed(c)
      /\ d.op = c.op /\ d.loader = c.loader /\ d.gone = c.gone
  BY <1>1 DEF Reads, Replies, Creates, Deletes, Begins, Ends, Breaks, Turned, Same, TypeInv, CallTypes
<1>3. CASE Reads(c, d)
  <2>1. tab = "watches" /\ c.op = "load" => c.loader = "watches"
    BY DEF PageInv, TypeInv, PageTypes, Loaders
  <2> QED BY <1>2, <1>3, <2>1, FreshStays DEF Reads, Reported, server
<1>4. CASE Replies(c, d) \/ Begins(c, d)
  BY <1>2, <1>4, FreshStays DEF Replies, Begins, Reported
<1>5. CASE Creates(c, d) \/ Deletes(c, d) \/ Ends(c, d)
  <2>1. d.op \in {"put", "save", "delete"} /\ d.status = 200 /\ Blind(c)
    BY <1>2, <1>5 DEF Creates, Deletes, Ends, EndUpdate, Formed
  <2>2. Reported(d) \/ behind'
    BY <1>2, <2>1 DEF Blind, Reported
  <2> QED BY <1>2, <2>2 DEF FreshInv
<1>6. CASE Breaks(c, d)
  <2>1. CASE Reported(c)
    BY <1>6, <2>1 DEF Breaks, Fails, Reported, FreshInv
  <2>2. CASE ~Reported(c)
    <3>1. behind => behind'
      BY <1>6 DEF Breaks, Fails
    <3>2. d.status = 500 /\ table' = table
      BY <1>6 DEF Breaks, Fails
    <3> QED BY <1>2, <2>2, <3>1, <3>2, FreshStays
  <2> QED BY <2>1, <2>2
<1> QED BY <1>1, <1>3, <1>4, <1>5, <1>6

LEMMA FreshKeeps ==
  ASSUME TypeInv, PageInv, FreshInv, [Next]_vars
  PROVE  FreshInv'
<1>1. CASE UNCHANGED vars
  BY <1>1, FreshStays DEF vars, server
<1>2. CASE Other \/ Expire
  <2>1. CASE behind'
    BY <2>1 DEF FreshInv
  <2>2. CASE ~behind'
    BY <1>2, <2>2, FreshStays
      DEF Other, Expire, OtherAdds, OtherRemoves, OtherBegins, OtherEnds, OtherDies, OtherWrites, server
  <2> QED BY <2>1, <2>2
<1>3. CASE User
  <2>1. ASSUME NEW d, Sends(d)
        PROVE  FreshInv'
    BY <2>1, FreshStays DEF Sends, server
  <2>2. CASE Forms
    BY <2>2 DEF Forms, FreshInv, Current, server, Reported
  <2>3. ASSUME NEW ls, Reruns(ls)
        PROVE  FreshInv'
    BY <2>3 DEF Reruns, FreshInv
  <2> QED BY <1>3, <2>1, <2>2, <2>3, UserDoes, TabMounts, FreshMounts
<1>4. ASSUME NEW c \in calls, Answer(c)
      PROVE  FreshInv'
  <2>1. CASE LoadAnswers(c) /\ UNCHANGED <<server, other>>
    BY <2>1, FreshAnswers
  <2>2. CASE Stays(c)
    <3>1. ~Reported(c) /\ \A d \in calls' : d.op = "load" => d \in calls
      BY <2>2, CallIs DEF Stays, Reported, Actions
    <3> QED BY <2>2, <3>1, FreshStays DEF Stays, server
  <2>3. CASE Tells(c)
    <3>1. c.op # "load" /\ auth = "authenticated" /\ tab' = tab /\ Rerun({tab}, type', {c})
      BY <2>3 DEF Tells, Actions
    <3> QED BY <3>1, FreshReruns
  <2>4. CASE Leaves
    BY <2>4 DEF Leaves, FreshInv
  <2> QED BY <1>4, <2>1, <2>2, <2>3, <2>4, AnswerDoes, FreshMounts
<1> QED BY <1>1, <1>2, <1>3, <1>4, NextDoes, ServerKeepsFresh

-----------------------------------------------------------------------------
(* The theorems.                                                           *)

LEMMA ConsoleInv == Spec => [](TypeInv /\ PageInv /\ WorkInv /\ FreshInv)
<1>1. Init => FreshInv
  BY DEF Init, FreshInv
<1>2. TypeInv /\ PageInv /\ WorkInv /\ FreshInv /\ [Next]_vars
        => (TypeInv /\ PageInv /\ WorkInv /\ FreshInv)'
  BY Keeps, FreshKeeps
<1> QED BY <1>1, <1>2, TypeInit, PTL DEF Spec

(* The pages' state is well formed: the loaders are those of the page that *)
(* is shown, and there are pages only behind the login; an id of the table *)
(* was given (apps/web/src/App.tsx, hooks/useAsync.ts).                    *)
THEOREM ConsoleTypes == Spec => []TypeOK
<1>1. TypeInv => TypeOK
  <2> SUFFICES ASSUME TypeInv PROVE TypeOK
    OBVIOUS
  <2>1. auth = "authenticated" <=> DOMAIN hook = Loaders(tab)
    BY LoadersAre DEF TypeInv, PageTypes
  <2>2. \A l \in DOMAIN hook : hook[l].error \in BOOLEAN /\ hook[l].loading \in BOOLEAN
    BY DEF TypeInv, PageTypes
  <2> QED BY <2>1, <2>2 DEF TypeOK, TypeInv, ServerTypes, PageTypes
<1> QED BY <1>1, ConsoleInv, PTL

(* A page shows what it was asked for last, or waits for the one request   *)
(* it made for that: no answer to an earlier filter, or to a page that was *)
(* left, and no second request of a loader (hooks/useAsync.ts).            *)
THEOREM PagesFollow == Spec => []PagesFollowTheLastAsked
<1>1. PageInv => PagesFollowTheLastAsked
  <2> SUFFICES ASSUME PageInv PROVE LoadingHasACall
    BY DEF PagesFollowTheLastAsked, PageInv
  <2> SUFFICES ASSUME NEW l \in DOMAIN hook
               PROVE  Cardinality({c \in calls : c.op = "load" /\ c.loader = l}) = IF hook[l].loading THEN 1 ELSE 0
    BY DEF LoadingHasACall
  <2> DEFINE its == {c \in calls : c.op = "load" /\ c.loader = l}
  <2>1. CASE hook[l].loading
    <3>1. PICK c \in calls : c.op = "load" /\ c.loader = l
      BY <2>1 DEF PageInv
    <3>2. its = {c}
      BY <3>1 DEF PageInv
    <3> QED BY <2>1, <3>2, FS_Singleton
  <2>2. CASE ~hook[l].loading
    <3>1. its = {}
      BY <2>2 DEF PageInv
    <3> QED BY <2>2, <3>1, FS_EmptySet
  <2> QED BY <2>1, <2>2
<1> QED BY <1>1, ConsoleInv, PTL

(* When nothing is under way the list of watches is the table, unless a    *)
(* write was made that the page is not told of (pages/WatchesPage.tsx).    *)
THEOREM ListFollows == Spec => []ListCatchesUp
<1>1. PageInv /\ FreshInv /\ TypeInv => ListCatchesUp
  <2> SUFFICES ASSUME PageInv, FreshInv, TypeInv, calls = {}, auth = "authenticated", tab = "watches",
                      ~hook["watches"].error, ~behind
               PROVE  hook["watches"].data.rows = table
    BY DEF ListCatchesUp
  <2>1. "watches" \in DOMAIN hook
    BY LoadersAre DEF TypeInv, PageTypes
  <2>2. ~hook["watches"].loading
    BY <2>1 DEF PageInv
  <2> QED BY <2>2 DEF FreshInv, Current
<1> QED BY <1>1, ConsoleInv, PTL

(* A watch that was deleted stays deleted: the second statement of an      *)
(* update, the server's or the other process's, writes only a row that is  *)
(* still there (services/watches.ts, db/repositories).                     *)
THEOREM NothingComesBack == Spec => NoResurrection
<1>1. ASSUME TypeInv, WorkInv, [Next]_vars
      PROVE  [\A id \in used : table[id] = None => table'[id] = None]_vars
  <2> DEFINE Gone == \A id \in used : table[id] = None => table'[id] = None
  <2>0. ServerTypes /\ used \subseteq Ids /\ table \in Table
    BY <1>1 DEF TypeInv, ServerTypes
  <2>1. ASSUME UNCHANGED table PROVE Gone
    BY <2>1
  <2>2. ASSUME NEW row \in Row, Create(row) PROVE Gone
    BY <2>0, <2>2, CreateTypes
  <2>3. ASSUME NEW i, NEW row, table' = [table EXCEPT ![i] = row], table[i] = None => row = None PROVE Gone
    BY <2>0, <2>3 DEF Table
  <2>4. ASSUME NEW i, NEW patch, NEW row, table' = [table EXCEPT ![i] = Updated(i, patch, row)] PROVE Gone
    BY <2>3, <2>4 DEF Updated
  <2> HIDE DEF Gone
  <2>5. ASSUME NEW c \in calls, ServerStep(c) PROVE Gone
    <3>1. PICK d : \/ Reads(c, d) \/ Replies(c, d) \/ Creates(c, d) \/ Deletes(c, d)
                   \/ Begins(c, d) \/ Ends(c, d) \/ Breaks(c, d)
      BY <1>1, <2>5, ServerDoes
    <3>2. CASE Creates(c, d)
      <4>1. c.patch \in Row
        BY <1>1, <3>2 DEF Creates, TypeInv, CallTypes, Formed
      <4> QED BY <2>2, <3>2, <4>1 DEF Creates
    <3> QED BY <2>1, <2>3, <2>4, <3>1, <3>2 DEF Reads, Replies, Deletes, Begins, Ends, Breaks, EndUpdate, Fails, server
  <2>6. ASSUME Other \/ Expire PROVE Gone
    BY <2>1, <2>2, <2>3, <2>4, <2>6
      DEF Other, Expire, OtherAdds, OtherRemoves, OtherBegins, OtherEnds, OtherDies, server
  <2>7. ASSUME User \/ \E c \in calls : Answer(c) PROVE Gone
    <3>1. UNCHANGED server
      BY <1>1, <2>7, UserDoes DEF Sends, Forms, Reruns, SelectTab, Answer
    <3> QED BY <2>1, <3>1 DEF server
  <2>8. ASSUME UNCHANGED vars PROVE Gone
    BY <2>1, <2>8 DEF vars, server
  <2> QED BY <1>1, <2>5, <2>6, <2>7, <2>8, NextDoes DEF Gone
<1> QED BY <1>1, ConsoleInv, PTL DEF Spec, NoResurrection

(* A toggle on a list that is behind keeps what was edited elsewhere: its  *)
(* patch names no label, and the row it is put over is the row as it is,   *)
(* unless it was written between the two statements (WatchesPage.tsx,      *)
(* services/watches.ts).                                                   *)
THEOREM TogglesKeep == Spec => TogglesKeepLabel
<1>1. ASSUME TypeInv, WorkInv, [Next]_vars, NEW c \in calls, c.op = "put", c.status = 1,
             busy' = None, ~busy.mixed, table[c.id] # None, table'[c.id] # None
      PROVE  table'[c.id].label = table[c.id].label
  <2>1. /\ c.patch.label = Keep /\ c.id \in Ids /\ table \in Table
        /\ busy # None /\ busy.row = table[c.id] /\ busy \in Half \union {None}
    BY <1>1 DEF TypeInv, CallTypes, Formed, ServerTypes, WorkInv
  <2>2. CASE UNCHANGED table
    BY <2>2
  <2>3. CASE UNCHANGED busy
    BY <1>1, <2>1, <2>3
  <2>4. ASSUME NEW e \in calls, EndUpdate(e)
        PROVE  table'[c.id].label = table[c.id].label
    <3>1. e = c
      BY <1>1, <2>4 DEF EndUpdate, WorkInv
    <3>2. table'[c.id] = Upserted(c.id, c.patch, table[c.id])
      BY <1>1, <2>1, <2>4, <3>1 DEF EndUpdate, Updated, Table
    <3> QED BY <2>1, <3>2 DEF Upserted
  <2>5. ASSUME NEW changes, busy' = Mix(busy, changes)
        PROVE  FALSE
    <3>1. \A half \in Half \union {None} : half # None <=> Mix(half, changes) # None
      BY MixTypes
    <3> QED BY <1>1, <2>1, <2>5, <3>1
  <2>6. ASSUME NEW e \in calls, ServerStep(e)
        PROVE  table'[c.id].label = table[c.id].label
    <3>1. PICK d : \/ Reads(e, d) \/ Replies(e, d) \/ Creates(e, d) \/ Deletes(e, d)
                   \/ Begins(e, d) \/ Ends(e, d) \/ Breaks(e, d)
      BY <1>1, <2>6, ServerDoes
    <3>2. CASE Reads(e, d) \/ Replies(e, d) \/ Begins(e, d) \/ Breaks(e, d)
      BY <2>2, <3>2 DEF Reads, Replies, Begins, Breaks, Fails, server
    <3>3. CASE Creates(e, d) \/ Deletes(e, d)
      BY <2>3, <3>3 DEF Creates, Deletes
    <3> QED BY <2>4, <3>1, <3>2, <3>3 DEF Ends
  <2>7. CASE Other \/ Expire
    <3>1. ASSUME NEW id, OtherRemoves(id) PROVE FALSE
      <4> DEFINE changes == Working(id)
      <4>1. busy' = Mix(busy, changes)
        BY <3>1 DEF OtherRemoves
      <4> HIDE DEF changes
      <4> QED BY <2>5, <4>1
    <3>2. ASSUME OtherEnds PROVE FALSE
      <4> DEFINE changes == Working(other.id)
      <4>1. busy' = Mix(busy, changes)
        BY <3>2 DEF OtherEnds
      <4> HIDE DEF changes
      <4> QED BY <2>5, <4>1
    <3> QED BY <2>3, <2>7, <3>1, <3>2 DEF Other, Expire, OtherAdds, OtherDies, OtherBegins, server
  <2>8. CASE User \/ \E e \in calls : Answer(e)
    <3>1. UNCHANGED server
      BY <1>1, <2>8, UserDoes DEF Sends, Forms, Reruns, SelectTab, Answer
    <3> QED BY <2>2, <3>1 DEF server
  <2>9. CASE UNCHANGED vars
    BY <2>2, <2>9 DEF vars, server
  <2> QED BY <1>1, <2>6, <2>7, <2>8, <2>9, NextDoes
<1>2. TypeInv /\ WorkInv /\ [Next]_vars =>
        [\A c \in calls : c.op = "put" /\ c.status = 1 /\ busy' = None /\ ~busy.mixed
            /\ table[c.id] # None /\ table'[c.id] # None => table'[c.id].label = table[c.id].label]_vars
  BY <1>1
<1> QED BY <1>2, ConsoleInv, PTL DEF Spec, TogglesKeepLabel

=============================================================================
