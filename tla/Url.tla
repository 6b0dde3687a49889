-------------------------------- MODULE Url --------------------------------
(***************************************************************************)
(* URLs and what they fetch: Source/AWebAPL/url.c, composed with Fetch.    *)
(*                                                                         *)
(* A URL has at most one fetch of each kind: fetch reads the document from *)
(* the net or disk, rfetch reloads the copy in the cache, vfetch verifies  *)
(* that copy.  Loadurl decides which are started, Srcupdateurl receives    *)
(* what they send, and may promote vfetch to fetch, redirect to another    *)
(* URL, or load again.                                                     *)
(*                                                                         *)
(* What the cache and the sources say (is there a copy, is it expired, is  *)
(* the URL visited, must it be verified) is any answer.  Redirects that    *)
(* Finalurl follows before a load, and the cache and source objects, are   *)
(* not modelled, but for the server push a source may cancel.              *)
(***************************************************************************)
EXTENDS Fetch

CONSTANTS
    UserCalls,     \* what the user does, a subset of UserCallKinds
    UserLoads,     \* the flags of the loads that come from the user
    Answers        \* what the user answers to the 'incomplete' requester

UserCallKinds == {"load", "cancelurl", "cancelfetch", "cancelwindow", "wait", "prefs", "show"}

ASSUME UrlConstants ==
    /\ UserCalls \subseteq UserCallKinds /\ UserLoads \subseteq LoadFlags
    /\ Answers \subseteq {"cancel", "ok", "retry"}

VARIABLE url     \* the Url structures
vars == <<fetch, driver, lists, slots, prefs, waits, todo, url>>
fetchvars == <<fetch, driver, lists, slots, prefs, waits>>

\* push is source->serverpush, shown whether source->dispcount is positive.
UrlRecord == [fetch: Fetch \cup {NoFetch}, rfetch: Fetch \cup {NoFetch},
              vfetch: Fetch \cup {NoFetch}, push: Fetch \cup {NoFetch}, shown: BOOLEAN]
NoPointers == [fetch |-> NoFetch, rfetch |-> NoFetch, vfetch |-> NoFetch,
               push |-> NoFetch, shown |-> FALSE]
Init == FetchInit /\ url = [u \in Url |-> NoPointers]

With(u, r) == url' = [url EXCEPT ![u] = r]
CallIf(p, op) == If(p # NoFetch, Call(op, p, "none"))

-----------------------------------------------------------------------------
(* Loadurl *)

\* The decision table: which fetches a load that is no reload starts, in order,
\* and whether it makes a new source.  csrc: there is a source with a driver;
\* ccac: there is a cached copy; cval: verify it.
Decide(flags, csrc, ccac, cval) ==
    LET plain == IF ccac THEN <<"rfetch">> ELSE <<"fetch">>
    IN  CASE flags = "download" -> [start |-> plain, new |-> FALSE]
          [] flags = "history" -> [start |-> IF csrc THEN <<>> ELSE plain, new |-> ~ csrc]
          [] flags = "ifinmem" -> [start |-> <<>>, new |-> FALSE]
          [] flags = "plain" /\ ~ csrc /\ ~ ccac -> [start |-> <<"fetch">>, new |-> TRUE]
          [] OTHER ->
               [start |-> (IF csrc \/ (cval /\ ~ prefs.fast) THEN <<>> ELSE <<"rfetch">>)
                            \o (IF cval THEN <<"vfetch">> ELSE <<>>),
                new |-> ~ csrc]

\* POST responses are neither verified nor, once visited, fetched again.
Repost(start) == If("rfetch" \in Range(start), "rfetch")

\* The calls of Startfetch for these roles.
Starting(u, seq, flags) == [i \in DOMAIN seq |-> CallUrl("newfetch", u, seq[i], flags)]

BusyLoading(r) == r.fetch # NoFetch \/ r.rfetch # NoFetch
Busy(r) == r.fetch # NoFetch \/ r.rfetch # NoFetch \/ r.vfetch # NoFetch

Loadurl ==
    LET u == Head(todo).url
        flags == Head(todo).loadflags
        r == url[u]
    IN
    /\ Calls("load")
    /\ UNCHANGED fetchvars
    /\ IF flags = "reload"
       THEN \E visited \in IF u \in Posted THEN BOOLEAN ELSE {FALSE} :
            /\ With(u, [NoPointers EXCEPT !.shown = r.shown])
            /\ Becomes(CallIf(r.fetch, "dispose") \o CallIf(r.rfetch, "dispose")
                         \o CallIf(r.vfetch, "dispose")
                         \o Starting(u, IF visited THEN <<>> ELSE <<"fetch">>, flags))
       ELSE IF Busy(r) THEN Becomes(<<>>) /\ UNCHANGED url
       ELSE \E csrc, ccac, cval \in BOOLEAN,
               visited \in IF u \in Posted THEN BOOLEAN ELSE {FALSE} :
            LET d == Decide(flags, csrc, ccac, cval)
            IN  /\ With(u, IF d.new THEN [r EXCEPT !.push = NoFetch] ELSE r)
                /\ Becomes(Starting(u, IF visited THEN Repost(d.start) ELSE d.start, flags))

\* Anewobject(AOTP_FETCH): there may be no memory or no process for it.
Startfetch ==
    LET u == Head(todo).url
        flags == IF Arg = "rfetch" THEN "plain" ELSE Head(todo).loadflags
    IN
    /\ Calls("newfetch")
    /\ Becomes(<<>>)
    /\ \/ \E f \in Fetch :
            /\ \A g \in Fetch : g < f => fetch[g].obj # "none"
            /\ Newfetch(f, u, Arg, flags)
            /\ With(u, [url[u] EXCEPT ![Arg] = f])
       \/ /\ \/ CanFail(NewRecord(u, Arg, flags))
             \/ \A f \in Fetch : fetch[f].obj # "none"
          /\ With(u, [url[u] EXCEPT ![Arg] = NoFetch])
          /\ UNCHANGED fetchvars

-----------------------------------------------------------------------------
(* Srcupdateurl *)

\* Srcupdatevfetch: the copy is outdated (use vfetch as the fetch), or it is
\* not, or that is unknown (drop vfetch; a slow verification loads the copy).
Promoted(r, f) == [r EXCEPT !.fetch = f, !.rfetch = NoFetch, !.vfetch = NoFetch, !.push = NoFetch]
ReloadCopy(u) == If(~ prefs.fast, CallUrl("load", u, "none", "history"))
Srcupdatevfetch(u, f, tag) ==
    LET r == url[u] IN
    \/ /\ tag \in {"data", "moved"}
       /\ With(u, Promoted(r, f))
       /\ todo' = CallIf(r.rfetch, "dispose") \o todo    \* then as fetch
    \/ /\ tag \in {"error", "fail"}
       /\ With(u, [r EXCEPT !.vfetch = NoFetch])
       /\ Becomes(<<Call("dispose", f, "none")>> \o ReloadCopy(u))
    \/ /\ tag = "terminate"
       /\ With(u, [r EXCEPT !.vfetch = NoFetch])
       /\ Becomes(ReloadCopy(u))
    \/ /\ tag \notin {"data", "moved", "error", "fail", "terminate"}
       /\ Becomes(<<>>) /\ UNCHANGED url

\* The source cancels a server push that nobody sees.  When it is the update of
\* that cancellation that makes it do so, main is in an endless recursion, which
\* the call "overflow" stands for.
Cancelling(p) == \E i \in DOMAIN todo : todo[i] = Call("stop", p, "none")
CancelPush(p, shown) ==
    If(p # NoFetch /\ ~ shown,
       Call(IF Cancelling(p) THEN "overflow" ELSE "cancel", p, "none"))

\* The last update of fetch or rfetch.
EndedButPush(r) == [r EXCEPT !.fetch = NoFetch, !.rfetch = NoFetch]
Ended(r) == [r EXCEPT !.fetch = NoFetch, !.rfetch = NoFetch, !.push = NoFetch]

\* Srcupdatefetch: f is fetch or rfetch.  A redirection loads another URL, or
\* none when it goes in a circle; the source goes along.
Srcupdatefetch(u, f, tag) ==
    LET r == url[u] IN
    \/ /\ tag = "moved"
       /\ \/ \E v \in Url \ {u} :
               /\ With(u, [r EXCEPT !.push = NoFetch])
               /\ Becomes(<<CallUrl("load", v, "none", fetch[f].loadflags)>>)
          \/ Becomes(CancelPush(r.push, r.shown)) /\ UNCHANGED url
    \/ /\ tag = "push"
       /\ With(u, [r EXCEPT !.push = f])
       /\ Becomes(CancelPush(f, r.shown))
    \/ /\ tag \in LastTags
       /\ With(u, Ended(r))
       /\ Becomes(<<>>)
    \/ /\ tag = "reload"                    \* Replacesource
       /\ With(u, [r EXCEPT !.push = NoFetch])
       /\ Becomes(<<>>)
    \/ /\ tag \notin {"moved", "push", "reload"} \cup LastTags
       /\ \E here \in IF tag = "data" /\ u \in Images THEN BOOLEAN ELSE {FALSE} :
            \* an image source that finds its file on disk needs no data
            Becomes(If(here, Call("cancellocal", f, "none"))
                      \o CancelPush(r.push, r.shown))
       /\ UNCHANGED url

Srcupdateurl ==
    LET f == This
        u == fetch[f].url
    IN
    /\ Calls("srcupdate")
    /\ IF url[u].vfetch = f THEN Srcupdatevfetch(u, f, Arg)
       ELSE IF f \in {url[u].fetch, url[u].rfetch} THEN Srcupdatefetch(u, f, Arg)
       ELSE Becomes(<<>>) /\ UNCHANGED url
    /\ UNCHANGED fetchvars

\* AUMST_CANCELFETCH: the pointers are read one after the other.
Cancelpointer ==
    /\ Calls("cancelfetch")
    /\ Becomes(CallIf(url[Head(todo).url][Arg], "cancel"))
    /\ UNCHANGED <<fetchvars, url>>

-----------------------------------------------------------------------------
(* The user, and scripts that run from the main loop *)

Starts1(call) == todo' = call /\ UNCHANGED <<fetchvars, url>>
User ==
    \/ /\ Idle
       /\ \/ \E u \in Url, flags \in UserLoads :
               "load" \in UserCalls /\ Starts1(<<CallUrl("load", u, "none", flags)>>)
          \/ \E u \in Url :
               /\ "cancelurl" \in UserCalls /\ Busy(url[u])
               /\ Starts1([i \in 1 .. 3 |->
                     CallUrl("cancelfetch", u, <<"fetch", "rfetch", "vfetch">>[i], "plain")])
          \/ \E f \in Listed :            \* from the network status window
               "cancelfetch" \in UserCalls /\ Starts1(<<Call("cancel", f, "none")>>)
          \/ "cancelwindow" \in UserCalls /\ Starts1(<<CancelList("running")>>)
          \/ \E u \in Pushed, shown \in BOOLEAN :
               /\ "show" \in UserCalls /\ url[u].shown # shown
               /\ With(u, [url[u] EXCEPT !.shown = shown])
               /\ todo' = CancelPush(url[u].push, shown)
               /\ UNCHANGED fetchvars
    \/ "wait" \in UserCalls /\ (\E u \in Url \cup {NoUrl} : Addwaitrequest(u)) /\ UNCHANGED url
    \/ "prefs" \in UserCalls /\ (\E choice \in PrefsChoices \ {prefs} : Setprefs(choice)) /\ UNCHANGED url
Answer(f) == (\E answer \in Answers : Incompletereturn(f, answer)) /\ UNCHANGED url

Main == (MainFetch /\ UNCHANGED url) \/ Loadurl \/ Startfetch \/ Srcupdateurl \/ Cancelpointer
Next == Main \/ User \/ \E f \in Fetch : Answer(f) \/ (DriverNext(f) /\ UNCHANGED url)

Spec == Init /\ [][Next]_vars

\* Exec runs main and the drivers.  The main loop empties taskport whenever it
\* is idle.  A driver that is told to stop returns: its loops test
\* Checktaskbreak and its network calls are broken by CTRL-C.
StoppedEnds(f) == driver[f].ctrlC /\ (\E tag \in LastTags : Ends(f, tag)) /\ UNCHANGED url
FairSpec ==
    /\ Spec /\ WF_vars(Main)
    /\ \A f \in Fetch : SF_vars(Takes(f) /\ UNCHANGED url) /\ WF_vars(StoppedEnds(f))

\* Moreover every transfer ends, and the user answers every requester.
Returns(f) == (\E tag \in LastTags : Ends(f, tag)) /\ UNCHANGED url
LiveSpec ==
    /\ FairSpec
    /\ \A f \in Fetch : WF_vars(Returns(f)) /\ SF_vars(Answer(f))

-----------------------------------------------------------------------------
(* Properties *)

TypeOK ==
    /\ fetch \in [Fetch -> FetchRecord]
    /\ driver \in [Fetch -> DriverRecord]
    /\ lists \in [Lists -> Seq(Fetch)]
    /\ slots \in [Slots -> Nat]
    /\ prefs \in PrefsChoices
    /\ waits \subseteq Url \cup {NoUrl}
    /\ todo \in Seq(CallRecord)
    /\ url \in [Url -> UrlRecord]

Live(f) == fetch[f].obj = "live"

\* Every slot that is counted as taken is held by a fetch that will give it
\* back, and nobody holds one that is not counted: nrnet and nrlocal neither
\* leak nor go below zero, whatever is cancelled, retried or reloaded.
SlotsAccounted ==
    \A s \in Slots :
        slots[s] = Cardinality({f \in Fetch : Live(f) /\ Has(f, "USESLOT") /\ Slot(f) = s})

\* The driver of f still runs or its last message is still to be read.
WillTerminate(f) == driver[f].at \notin {"none", "ended"}

\* Checkqueues runs only when a fetch terminates.  So between two events, a
\* queue that is not empty has a fetch in front of it whose end is to come.
QueueWillMove ==
    Idle => \A s \in Slots : lists[s] # <<>> =>
        \E f \in Fetch : Has(f, "USESLOT") /\ Slot(f) = s /\ WillTerminate(f)

\* Nothing that main has still to do is about a fetch that was freed under it:
\* neither the rest of a handler whose source, URL or user cancelled the fetch
\* meanwhile, nor the successor saved by the walks of Cancelwindowfetches.
CallsNameLiveFetches ==
    \A i \in DOMAIN todo : todo[i].fetch # NoFetch => Live(todo[i].fetch)

\* A URL's pointers are to its own fetches, and never to one that is disposed
\* of or was freed, as Cancelfetch, a reload or the next update would use it.
UrlPointersLive ==
    \A u \in Url, role \in Roles \cup {"push"} :
        LET f == url[u][role]
        IN  f # NoFetch => /\ Live(f) /\ fetch[f].url = u
                           /\ Idle => ~ Has(f, "DISPOSED")

\* A transfer that nobody disposed of belongs to its URL, that can cancel it and
\* that receives what it sends; and the URL has one loader at a time, so the
\* source never receives two copies of the document in turns.
FetchesAreOwned ==
    /\ Idle => \A f \in Fetch : Live(f) /\ ~ Has(f, "DISPOSED") =>
                  \E role \in Roles : url[fetch[f].url][role] = f
    /\ \A u \in Url : url[u].fetch = NoFetch \/ url[u].rfetch = NoFetch

\* A driver reads its Fetchdriver and its Fetch until it returns: neither is
\* freed while it may.
DriverHasItsFetch ==
    \A f \in Fetch : driver[f].at # "none" => Live(f) /\ Has(f, "RUNNING")

\* An ARexx WAIT is outstanding only while there is a transfer it waits for ...
Awaits(w, f) == Live(f) /\ w \in {NoUrl, fetch[f].url}
WaitsForTransfer == \A w \in waits : \E f \in Fetch : Awaits(w, f)

\* ... and is replied to only when there is none, queued or running.
WaitIsForAll == [][\A w \in waits \ waits' : \A f \in Fetch : ~ Awaits(w, f)']_vars

\* "Will be disposed when task returns" (fetch.c:1163): the driver of a fetch
\* that was cancelled while it ran has been told to return.
CancelledIsStopping ==
    Idle => \A f \in Fetch : {"CANCELLED", "RUNNING"} \subseteq fetch[f].flags => driver[f].ctrlC

\* A source that cancels a server push nobody sees (source.c:58) does so once:
\* the cancellation is not entered again before the driver was told to stop.
CancelIsNotReentered == ~ Calls("overflow")

\* "Will be disposed when task returns": a fetch whose driver was told to stop,
\* as it is for a cancelled and for a disposed one, is freed or, when a POST was
\* refused, started or queued again.
StartedAgain(f) == (driver[f].at = "run" /\ ~ driver[f].ctrlC) \/ Has(f, "QUEUED")
StoppedIsFreed ==
    \A f \in Fetch : driver[f].ctrlC ~> (~ Live(f) \/ StartedAgain(f) \/ Calls("overflow"))


\* A load ends: the URL can be loaded again.
LoadEnds == \A u \in Url : Busy(url[u]) ~> ~ Busy(url[u])
=============================================================================
