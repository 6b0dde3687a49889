------------------------------- MODULE Fetch -------------------------------
(***************************************************************************)
(* Fetch objects and their drivers: Source/AWebAPL/fetch.c and             *)
(* fetchdriver.h.                                                          *)
(*                                                                         *)
(* A fetch (AOTP_FETCH) runs a driver function in a subtask.  The driver   *)
(* sends updates, Updatefetch forwards them to the URL that owns the       *)
(* fetch, and the last one, with AOURL_Terminate, ends the fetch.  Network *)
(* and disk drivers need a slot; fetches without one wait in a queue.      *)
(*                                                                         *)
(* Main is single threaded.  What it has still to do in the handler it is  *)
(* in is the sequence todo, the next call first: a C function that calls   *)
(* another one puts that call, and then its own remainder, in front.  The  *)
(* drivers run meanwhile.  Module Url models the calls "srcupdate", "load" *)
(* and "newfetch", the user, and the next-state relation of both modules.  *)
(*                                                                         *)
(* The subtask framework is the module Task; of its promises used here:    *)
(* a sync update is answered when its handler is done, and a task that is  *)
(* disposed of has ended.  Channel fetches are not modelled.               *)
(***************************************************************************)
EXTENDS Integers, Sequences, FiniteSets, Functions

CONSTANTS
    Fetch,         \* the fetch objects that can be allocated
    NoFetch,       \* a NULL fetch pointer
    Url,           \* the URLs
    NoUrl,         \* a NULL URL pointer
    Scheme,        \* the scheme of each URL
    Images,        \* the URLs that are loaded for images
    Posted,        \* the URLs that are fetched with a POST
    Pushed,        \* the URLs whose server pushes one document after the other
    PrefsChoices,  \* the settings the user can choose from
    MaxUpdates     \* bound: updates a driver sends before the last one

Slots == {"net", "local"}

ASSUME FetchConstants ==
    /\ Fetch \subseteq Nat /\ IsFiniteSet(Fetch) /\ NoFetch \notin Fetch
    /\ NoUrl \notin Url
    /\ Scheme \in [Url -> {"http", "gemini", "file", "data"}]
    /\ Images \subseteq Url /\ Posted \subseteq Url /\ Pushed \subseteq Url
    /\ PrefsChoices \subseteq [net: Nat, local: Nat, fast: BOOLEAN]
    /\ MaxUpdates \in Nat

VARIABLES
    fetch,    \* the Fetch structures
    driver,   \* their subtasks
    lists,    \* running, netqueue and localqueue
    slots,    \* nrnet and nrlocal
    prefs,    \* maxconnect, maxdiskread and fastresponse
    waits,    \* waitrequests: the URLs waited for, NoUrl for any transfer
    todo      \* what main has still to do

Lists == {"running"} \cup Slots
Flags == {"RUNNING", "CANCELLED", "NOTMODIFIED", "DISPOSED", "INCOMPLETE",
          "QUEUED", "USESLOT", "POSTNOGOOD"}
Roles == {"fetch", "rfetch", "vfetch"}
LoadFlags == {"plain", "reload", "history", "ifinmem", "download"}
FetchRecord ==
    [obj: {"none", "live", "freed"},
     url: Url \cup {NoUrl},
     role: Roles,            \* a normal fetch, a cache load or a verification
     flags: SUBSET Flags,
     more: BOOLEAN,          \* sofar < total
     post: BOOLEAN,          \* postmsg is set
     loadflags: LoadFlags]
NewRecord(u, role, flags) ==
    [obj |-> "live", url |-> u, role |-> role, flags |-> {}, more |-> FALSE,
     post |-> (role = "fetch" /\ u \in Posted), loadflags |-> flags]
NoRecord == [NewRecord(NoUrl, "fetch", "plain") EXCEPT !.obj = "none"]

\* What an update says.  "length": AOURL_Contentlength; "push":
\* AOURL_Serverpush; "error": AOURL_Error, with or without data; "fail":
\* AOURL_Error and AOURL_Terminate in one message.
LastTags == {"terminate", "fail"}
Tags == LastTags \cup {"none", "length", "data", "push", "moved", "error",
                       "notmodified", "postnogood", "reload"}

\* A driver runs, waits for the answer to an update that is in taskport
\* ("update") or in main's hands ("served"), or has returned, with its last
\* message in taskport ("last") or not ("ended").  tag is the message that is
\* in taskport, or "error" when the driver has reported one.
DriverRecord ==
    [at: {"none", "run", "update", "served", "last", "ended"},
     tag: Tags, ctrlC: BOOLEAN, sent: 0 .. MaxUpdates]
NoDriver == [at |-> "none", tag |-> "none", ctrlC |-> FALSE, sent |-> 0]
NewDriver == [NoDriver EXCEPT !.at = "run"]

Ops == {"updatefetch", "checkqueues", "forward", "retryget", "finish", "reply",
        "cancel", "cancellocal", "stop", "dispose", "incompleteend", "cancelfrom",
        "srcupdate", "load", "newfetch", "cancelfetch", "overflow"}
CallRecord == [op: Ops, fetch: Fetch \cup {NoFetch}, url: Url \cup {NoUrl},
               arg: Tags \cup Roles \cup Lists \cup {"kept", "done"},
               loadflags: LoadFlags]
Call(op, f, arg) ==
    [op |-> op, fetch |-> f, url |-> NoUrl, arg |-> arg, loadflags |-> "plain"]
CallUrl(op, u, arg, flags) ==
    [op |-> op, fetch |-> NoFetch, url |-> u, arg |-> arg, loadflags |-> flags]

Idle == todo = <<>>
Calls(op) == ~ Idle /\ Head(todo).op = op
This == Head(todo).fetch
Arg == Head(todo).arg
\* The call is done; the calls it makes come in its place.
Becomes(calls) == todo' = calls \o Tail(todo)
If(cond, call) == IF cond THEN <<call>> ELSE <<>>

Has(f, flag) == flag \in fetch[f].flags
Listed == UNION {Range(lists[l]) : l \in Lists}
Position(seq, f) == CHOOSE i \in DOMAIN seq : seq[i] = f
Without(seq, f) ==
    IF f \notin Range(seq) THEN seq
    ELSE [i \in 1 .. Len(seq) - 1 |-> IF i < Position(seq, f) THEN seq[i] ELSE seq[i + 1]]

FetchInit ==
    /\ fetch = [f \in Fetch |-> NoRecord]
    /\ driver = [f \in Fetch |-> NoDriver]
    /\ lists = [l \in Lists |-> <<>>]
    /\ slots = [s \in Slots |-> 0]
    /\ prefs \in PrefsChoices
    /\ waits = {}
    /\ todo = <<>>

-----------------------------------------------------------------------------
(* The drivers *)

\* What a driver sends before its last message: only an HTTP server redirects,
\* refuses a POST or pushes documents, and only a verification learns that
\* nothing was modified.
DriverTags(f) ==
    LET u == fetch[f].url
        http == Scheme[u] = "http" /\ fetch[f].role # "rfetch"
    IN  {"length", "data", "error"}
          \cup (IF http THEN {"moved"} ELSE {})
          \cup (IF http /\ fetch[f].post THEN {"postnogood"} ELSE {})
          \cup (IF http /\ u \in Pushed THEN {"push"} ELSE {})
          \cup (IF fetch[f].role = "vfetch" THEN {"notmodified"} ELSE {})

Sends(f, tag) ==
    /\ driver[f].at = "run" /\ driver[f].sent < MaxUpdates /\ tag \in DriverTags(f)
    /\ driver' = [driver EXCEPT ![f].at = "update", ![f].tag = tag, ![f].sent = @ + 1]
    /\ UNCHANGED <<fetch, lists, slots, prefs, waits, todo>>

\* gemini.c says nothing after a break, ciddataurls.c after an error.
EndsSilently(f) ==
    CASE fetch[f].role = "rfetch" -> FALSE
      [] Scheme[fetch[f].url] = "gemini" -> driver[f].ctrlC
      [] Scheme[fetch[f].url] = "data" -> driver[f].tag = "error"
      [] OTHER -> FALSE

\* The driver function returns; its last message is asynchronous.  Only gemini.c
\* puts the error in it.
Ends(f, tag) ==
    /\ driver[f].at = "run" /\ tag \in LastTags
    /\ tag = "fail" => Scheme[fetch[f].url] = "gemini" /\ fetch[f].role # "rfetch"
    /\ driver' = [driver EXCEPT
          ![f].at = IF EndsSilently(f) THEN "ended" ELSE "last",
          ![f].tag = IF EndsSilently(f) THEN @ ELSE tag]
    /\ UNCHANGED <<fetch, lists, slots, prefs, waits, todo>>

\* Main takes the driver's message from taskport (Processtask).
Takes(f) ==
    /\ Idle /\ driver[f].at \in {"update", "last"}
    /\ driver' = [driver EXCEPT ![f].at = IF @ = "last" THEN "ended" ELSE "served",
                                ![f].tag = IF @ = "error" THEN @ ELSE "none"]
    /\ todo' = <<Call("updatefetch", f, driver[f].tag)>>
                 \o If(driver[f].at = "update", Call("reply", f, "none"))
    /\ UNCHANGED <<fetch, lists, slots, prefs, waits>>

Replies ==
    /\ Calls("reply")
    /\ driver' = [driver EXCEPT ![This].at = IF @ = "served" THEN "run" ELSE @]
    /\ Becomes(<<>>)
    /\ UNCHANGED <<fetch, lists, slots, prefs, waits>>

-----------------------------------------------------------------------------
(* Slots and queues *)

SlotOf(u, role) ==
    IF role = "rfetch" \/ Scheme[u] = "file" THEN "local"
    ELSE IF Scheme[u] = "data" THEN "none" ELSE "net"
Slot(f) == SlotOf(fetch[f].url, fetch[f].role)

Full(s) == s # "none" /\ slots[s] >= prefs[s]

\* Non-image fetches are put before the first image.
Addtoqueue(queue, f, image) ==
    LET n == Cardinality({i \in DOMAIN queue : fetch[queue[i]].url \notin Images})
        place == IF image THEN Len(queue) ELSE n
    IN  [i \in 1 .. Len(queue) + 1 |->
            IF i <= place THEN queue[i] ELSE IF i = place + 1 THEN f ELSE queue[i - 1]]

SlotTaken(s) == IF s = "none" THEN slots ELSE [slots EXCEPT ![s] = @ + 1]
SlotKept(f) == slots
SlotFreed(f) ==
    IF Slot(f) = "none" \/ ~ Has(f, "USESLOT") THEN slots
    ELSE [slots EXCEPT ![Slot(f)] = @ - 1]

\* Dostartdriver: f, with the record r, gets its subtask and a slot.
Dostartdriver(f, r) ==
    /\ fetch' = [fetch EXCEPT ![f] = [r EXCEPT !.flags = @ \cup {"RUNNING", "USESLOT"}]]
    /\ driver' = [driver EXCEPT ![f] = NewDriver]
    /\ slots' = SlotTaken(SlotOf(r.url, r.role))

\* Startdriver succeeds for f, with the record r: it is queued or started.
\* ls are the lists it is in now.
Starts(f, r, ls) ==
    LET s == SlotOf(r.url, r.role)
        fresh == [r EXCEPT !.more = FALSE]
    IN  IF Full(s)
        THEN /\ fetch' = [fetch EXCEPT ![f] = [fresh EXCEPT !.flags = @ \cup {"QUEUED"}]]
             /\ lists' = [ls EXCEPT !["running"] = Without(@, f),
                                    ![s] = Addtoqueue(@, f, r.url \in Images)]
             /\ UNCHANGED <<driver, slots>>
        ELSE Dostartdriver(f, fresh) /\ lists' = ls
CanFail(r) == ~ Full(SlotOf(r.url, r.role))

\* One step of the loops of Checkqueues.  The net loop comes first.
WaitingForTwo(s) == lists[s] # <<>> /\ slots[s] + 1 < prefs[s]
Waiting(s) == lists[s] # <<>> /\ slots[s] < prefs[s]
Checkqueues ==
    /\ Calls("checkqueues")
    /\ UNCHANGED <<prefs, waits>>
    /\ \/ /\ \A s \in Slots : ~ Waiting(s)
          /\ Becomes(<<>>)
          /\ UNCHANGED <<fetch, driver, lists, slots>>
       \/ \E s \in Slots :
            LET f == Head(lists[s])
                r == [fetch[f] EXCEPT !.flags = @ \ {"QUEUED"}]
            IN  /\ Waiting(s) /\ (s = "local" => ~ Waiting("net"))
                /\ lists' = [lists EXCEPT ![s] = Tail(@), !["running"] = Append(@, f)]
                /\ \/ Dostartdriver(f, r) /\ UNCHANGED todo
                   \/ /\ fetch' = [fetch EXCEPT ![f] = r]
                      /\ todo' = <<Call("srcupdate", f, "terminate"),
                                   Call("dispose", f, "none")>> \o todo
                      /\ UNCHANGED <<driver, slots>>

-----------------------------------------------------------------------------
(* Updatefetch *)

Stopped(f) == [driver EXCEPT ![f].ctrlC = @ \/ driver[f].at # "none"]
Mute == {"DISPOSED", "POSTNOGOOD"}
Silenced(flags) == flags \cap Mute # {}

\* An update that is not the last one: what it does to the record.
Updated(f, tag) ==
    CASE tag = "length" -> [fetch[f] EXCEPT !.more = TRUE]
      [] tag = "moved" -> [fetch[f] EXCEPT !.more = FALSE]
      [] tag = "notmodified" -> [fetch[f] EXCEPT !.flags = @ \cup {"NOTMODIFIED"}]
      [] tag = "postnogood" -> [fetch[f] EXCEPT !.flags = @ \cup {"POSTNOGOOD"}]
      [] OTHER -> fetch[f]
StopsDriver(f, tag) ==
    tag = "postnogood" \/ (tag = "data" /\ Has(f, "NOTMODIFIED"))
Forwards(f, tag) ==
    /\ tag # "notmodified" /\ ~ StopsDriver(f, tag)
    /\ ~ Silenced(fetch[f].flags)

Updatefetch ==
    LET f == This IN
    /\ Calls("updatefetch") /\ Arg \notin LastTags
    /\ \E whole \in IF Arg = "data" THEN BOOLEAN ELSE {FALSE} :
          fetch' = [fetch EXCEPT ![f] = [Updated(f, Arg) EXCEPT !.more = @ /\ ~ whole]]
    /\ driver' = IF StopsDriver(f, Arg) THEN Stopped(f) ELSE driver
    /\ Becomes(If(Forwards(f, Arg), Call("srcupdate", f, Arg)))
    /\ UNCHANGED <<lists, slots, prefs, waits>>

\* The driver's last message.  The task is disposed of and the slot freed
\* before anything is forwarded.
AsksAnyway(f) == fetch[f].more
AsksUser(f) ==
    /\ fetch[f].more
    /\ fetch[f].flags \cap {"CANCELLED", "NOTMODIFIED", "DISPOSED", "POSTNOGOOD"} = {}
UpdatefetchLast ==
    LET f == This
        rest(calls) == Becomes(<<Call("checkqueues", NoFetch, "none")>> \o calls)
        now(flags) == fetch' = [fetch EXCEPT ![f].flags = flags \ {"USESLOT"}]
    IN
    /\ Calls("updatefetch") /\ Arg \in LastTags
    /\ driver' = [driver EXCEPT ![f] = NoDriver]
    /\ slots' = SlotFreed(f)
    /\ \/ /\ AsksUser(f)                       \* Incompleterequest opens
          /\ now((fetch[f].flags \ {"RUNNING"}) \cup {"INCOMPLETE"})
          /\ rest(<<>>)
       \/ /\ now(fetch[f].flags)
          /\ rest(IF Has(f, "POSTNOGOOD") THEN <<Call("retryget", f, "none")>>
                  ELSE <<Call("forward", f, Arg), Call("finish", f, "none")>>)
    /\ UNCHANGED <<lists, prefs, waits>>

Forward ==
    /\ Calls("forward")
    /\ Becomes(If(~ Silenced(fetch[This].flags), Call("srcupdate", This, Arg)))
    /\ UNCHANGED <<fetch, driver, lists, slots, prefs, waits>>

\* Try again with no post message.
RetriedForever(f) == [fetch[f] EXCEPT !.flags = @ \ {"RUNNING"}, !.post = FALSE]
Retried(f) ==
    [fetch[f] EXCEPT !.flags = @ \ {"RUNNING", "POSTNOGOOD"}, !.post = FALSE]
Retryget ==
    LET f == This IN
    /\ Calls("retryget")
    /\ UNCHANGED <<prefs, waits>>
    /\ \/ Starts(f, Retried(f), lists) /\ Becomes(<<>>)
       \/ /\ CanFail(Retried(f))
          /\ fetch' = [fetch EXCEPT ![f] = Retried(f)]
          /\ Becomes(<<Call("srcupdate", f, "terminate"),
                       Call("checkqueues", NoFetch, "none"), Call("dispose", f, "none")>>)
          /\ UNCHANGED <<driver, lists, slots>>

Finish ==
    /\ Calls("finish")
    /\ fetch' = [fetch EXCEPT ![This].flags = @ \ {"RUNNING"}]
    /\ Becomes(<<Call("dispose", This, "none")>>)
    /\ UNCHANGED <<driver, lists, slots, prefs, waits>>

-----------------------------------------------------------------------------
(* Cancel and dispose *)

\* Setfetch with AOFCH_Cancel ("cancel") or AOFCH_Cancellocal ("cancellocal").
Cancels(f, op) == op = "cancel" \/ Slot(f) = "local"
AfterCancelDisposed(f, op) ==
    IF Has(f, "RUNNING")
    THEN If(op = "cancel", Call("srcupdate", f, "error")) \o <<Call("stop", f, "none")>>
    ELSE <<Call("dispose", f, "none"), Call("srcupdate", f, "terminate")>>
AfterCancel(f, op) ==
    IF Has(f, "RUNNING")
    THEN If(op = "cancel", Call("srcupdate", f, "error")) \o <<Call("stop", f, "none")>>
    ELSE IF Has(f, "QUEUED")
         THEN <<Call("srcupdate", f, "terminate"), Call("dispose", f, "none")>>
         ELSE <<>>
Cancel(op) ==
    LET f == This IN
    /\ Calls(op) /\ op \in {"cancel", "cancellocal"}
    /\ IF Cancels(f, op)
       THEN /\ fetch' = [fetch EXCEPT ![f].flags = @ \cup {"CANCELLED"}]
            /\ Becomes(AfterCancel(f, op))
       ELSE Becomes(<<>>) /\ UNCHANGED fetch
    /\ UNCHANGED <<driver, lists, slots, prefs, waits>>

Stop ==
    /\ Calls("stop")
    /\ driver' = Stopped(This)
    /\ Becomes(<<>>)
    /\ UNCHANGED <<fetch, lists, slots, prefs, waits>>

\* Cancelwindowfetches walks the three lists.  The successor of a fetch is read
\* before the fetch is cancelled; Arg is the list that is walked.
ListOf(f) == CHOOSE l \in Lists : f \in Range(lists[l])
Successor(f) ==
    LET seq == lists[ListOf(f)]
        i == Position(seq, f)
    IN  IF i < Len(seq) THEN seq[i + 1] ELSE NoFetch
CancelList(l) ==
    Call("cancelfrom", IF lists[l] = <<>> THEN NoFetch ELSE Head(lists[l]), l)
Cancelwindowfetches ==
    LET f == This IN
    /\ Calls("cancelfrom")
    /\ Becomes(IF f = NoFetch
               THEN CASE Arg = "running" -> <<CancelList("net")>>
                      [] Arg = "net" -> <<CancelList("local")>>
                      [] OTHER -> <<>>
               ELSE If(~ Has(f, "CANCELLED"), Call("cancel", f, "none"))
                      \o <<Call("cancelfrom", Successor(f), Arg)>>)
    /\ UNCHANGED <<fetch, driver, lists, slots, prefs, waits>>

\* Checkwaitrequests keeps the requests that some fetch in the lists matches.
MatchingRunning(w, fs) == \E f \in fs : w \in {NoUrl, fetch[f].url} /\ ~ Has(f, "QUEUED")
Matching(w, fs) == \E f \in fs : w \in {NoUrl, fetch[f].url}
NeverReplied(ws, fs) == ws
Checkwaitrequests(ws, fs) == {w \in ws : Matching(w, fs)}

StaysWhileAsked(f) == Has(f, "INCOMPLETE")
StaysUntilItEnds(f) == fetch[f].flags \cap {"RUNNING", "INCOMPLETE"} # {}
Disposefetch ==
    LET f == This IN
    /\ Calls("dispose")
    /\ Becomes(<<>>)
    /\ driver' = IF Has(f, "RUNNING") THEN Stopped(f) ELSE driver
    /\ IF StaysUntilItEnds(f)
       THEN /\ fetch' = [fetch EXCEPT ![f].flags = @ \cup {"DISPOSED"}]
            /\ UNCHANGED <<lists, waits>>
       ELSE /\ lists' = [l \in Lists |-> Without(lists[l], f)]
            /\ waits' = Checkwaitrequests(waits, Listed \ {f})
            /\ fetch' = [fetch EXCEPT ![f] = [NoRecord EXCEPT !.obj = "freed"]]
    /\ UNCHANGED <<slots, prefs>>

-----------------------------------------------------------------------------
(* The requester for an incomplete transfer *)

\* The user answers: Incompletereturn up to its last lines.
Incompletereturn(f, answer) ==
    LET end(tag, arg) == todo' = <<Call("srcupdate", f, tag), Call("incompleteend", f, arg)>>
    IN
    /\ Idle /\ Has(f, "INCOMPLETE")
    /\ UNCHANGED <<prefs, waits>>
    /\ \/ /\ answer = "cancel" /\ end("fail", "done")
          /\ UNCHANGED <<fetch, driver, lists, slots>>
       \/ /\ answer = "ok" /\ end("terminate", "done")
          /\ UNCHANGED <<fetch, driver, lists, slots>>
       \/ answer = "retry" /\ Starts(f, fetch[f], lists) /\ end("reload", "kept")
       \/ /\ answer = "retry" /\ CanFail(fetch[f]) /\ end("terminate", "done")
          /\ UNCHANGED <<fetch, driver, lists, slots>>

IncompleteEnd ==
    LET f == This
        flags == (fetch[f].flags \ {"INCOMPLETE"})
                   \cup (IF Arg = "done" THEN {"DISPOSED"} ELSE {})
    IN
    /\ Calls("incompleteend")
    /\ fetch' = [fetch EXCEPT ![f].flags = flags]
    /\ Becomes(If("DISPOSED" \in flags, Call("dispose", f, "none")))
    /\ UNCHANGED <<driver, lists, slots, prefs, waits>>

-----------------------------------------------------------------------------

\* An ARexx command waits for the URL u, or for any transfer (NoUrl).
Addwaitrequest(u) ==
    /\ Idle
    /\ waits' = Checkwaitrequests(waits \cup {u}, Listed)
    /\ UNCHANGED <<fetch, driver, lists, slots, prefs, todo>>

\* The settings change; nothing checks the queues.
Setprefs(choice) ==
    /\ Idle /\ prefs' = choice
    /\ UNCHANGED <<fetch, driver, lists, slots, waits, todo>>

\* Newfetch for the URL u succeeds with f.
Newfetch(f, u, role, flags) ==
    /\ fetch[f].obj = "none"
    /\ Starts(f, NewRecord(u, role, flags),
              [lists EXCEPT !["running"] = Append(@, f)])
    /\ UNCHANGED <<prefs, waits>>

DriverNext(f) == (\E tag \in Tags : Sends(f, tag) \/ Ends(f, tag)) \/ Takes(f)
MainFetch ==
    \/ Replies \/ Checkqueues \/ Updatefetch \/ UpdatefetchLast \/ Forward
    \/ Retryget \/ Finish \/ Cancel("cancel") \/ Cancel("cancellocal") \/ Stop
    \/ Cancelwindowfetches \/ Disposefetch \/ IncompleteEnd
=============================================================================
