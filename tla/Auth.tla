-------------------------------- MODULE Auth --------------------------------
(***************************************************************************)
(* The passwords AWeb remembers (author.c), the window that edits them     *)
(* (authorlib.c), and what an HTTP transfer does when it is refused        *)
(* (http.c).  The list auths is shared by main, by the subtask of the      *)
(* window and by all transfers, under authsema.  The window works on a     *)
(* copy with pointers into the list; main searches the list for such a     *)
(* pointer before it follows it, because a transfer may have freed the     *)
(* entry meanwhile.                                                        *)
(*                                                                         *)
(* All realms are on one server.  The address of a freed entry is used     *)
(* again.  A proxy's password goes the way of a server's and is left out,  *)
(* and so are memory failures.                                             *)
(***************************************************************************)
EXTENDS Naturals, Sequences, FiniteSets, SequencesExt

CONSTANTS
    Transfer,     \* HTTP subtasks
    Realm,        \* realms of the server
    Secret,       \* name and password, encoded (struct Authorize's cookie)
    Node,         \* addresses of struct Authnode
    Calls,        \* what the user and ARexx call
    MaxCalls,     \* bound: how many of them
    MaxInputs     \* bound: how often the user acts on the window

ASSUME RoomForAll == /\ IsFiniteSet(Node) /\ IsFiniteSet(Realm)
                     /\ Cardinality(Node) >= Cardinality(Realm)
ASSUME Bounds == MaxCalls \in Nat /\ MaxInputs \in Nat

None == "none"
Dummyrealm == "dummyrealm"

ASSUME Names == /\ None \notin Realm /\ None \notin Transfer /\ "main" \notin Transfer
                /\ Calls \subseteq {"open", "close", "save", "screen", "quit"}

VARIABLES
    auths,      \* the list: addresses of its entries, newest first
    entry,      \* what is at an address: an entry, or Freed
    authsema,   \* who holds authsema across a step
    saved,      \* changed, and what is in the file
    transfer,   \* each HTTP subtask: where it is, hi.auth, HTTPIF_AUTH
    todo,       \* main: the steps left, innermost activation first
    aew,        \* authedit, its object and task, AOAPP_Screenvalid
    port,       \* taskport: the updates of the window's task
    inbox,      \* AOAEW_Modified messages in the port of the window's task
    window,     \* the window's task: where it is, and what it shows
    missed,     \* history: a change the window has not been told of
    left        \* bounds: calls and inputs left, and whether AWeb quits

vars == <<auths, entry, authsema, saved, transfer, todo, aew, port, inbox, window, missed, left>>
listvars == <<auths, entry, authsema, saved>>
winvars == <<port, inbox, window, missed>>

---------------------------------------------------------------------------
(* The list. *)

Freed == [realm |-> None, cookie |-> None]
Live == ToSet(auths)

\* The entry of a realm; that there is one at most is OneEntryForRealm.
Findauth(r) == {n \in Live : entry[n].realm = r}
Contents == [i \in DOMAIN auths |-> entry[auths[i]]]

\* What Allocnodes puts into the window.
Allocnodes == [i \in DOMAIN auths |-> [an |-> auths[i], auth |-> entry[auths[i]]]]

\* Unlinks and frees the entry that was found, if there is one.
Frees(found) ==
    \/ found = {} /\ UNCHANGED <<auths, entry>>
    \/ \E i \in DOMAIN auths :
          /\ auths[i] \in found
          /\ auths' = RemoveAt(auths, i)
          /\ entry' = [entry EXCEPT ![auths[i]] = Freed]

Free == authsema = None

\* Mutant of Held: the semaphore is not kept from the search to the insertion.
NotHeld(t) == None
Held(t) == t

\* Modifiedlist: tells the window's task, if main has made it known.
Alive == window.at \notin {None, "dead"}
Modifiedlist ==
    LET told == aew.known /\ aew.task /\ Alive IN
    /\ inbox' = IF told THEN inbox + 1 ELSE inbox
    /\ missed' = (missed \/ (Alive /\ ~told))

Idle == [at |-> "idle", auth |-> Freed, tried |-> FALSE, found |-> {}, then |-> None]
Done == [Idle EXCEPT !.at = "done"]

\* Loadauthor adds an entry for each one of the file, here for none or one.
Init ==
    /\ \/ /\ auths = <<>> /\ entry = [n \in Node |-> Freed]
          /\ saved = [changed |-> FALSE, file |-> <<>>]
       \/ \E r \in Realm, s \in Secret, n \in Node :
          /\ auths = <<n>>
          /\ entry = [m \in Node |-> IF m = n THEN [realm |-> r, cookie |-> s] ELSE Freed]
          /\ saved = [changed |-> FALSE, file |-> Contents]
    /\ authsema = None
    /\ transfer = [t \in Transfer |-> Idle]
    /\ todo = <<>> /\ port = <<>> /\ inbox = 0 /\ missed = FALSE
    /\ aew = [exists |-> FALSE, known |-> FALSE, task |-> FALSE,
              breaking |-> FALSE, wasopen |-> FALSE, screen |-> TRUE]
    /\ window = [at |-> None, back |-> "top", break |-> FALSE, shown |-> <<>>]
    /\ left = [calls |-> MaxCalls, inputs |-> MaxInputs, quit |-> FALSE]

---------------------------------------------------------------------------
(* A transfer: Httptask with Readresponse, Readheaders and Authorize.      *)

Goes(t, r) == transfer' = [transfer EXCEPT ![t] = r]
Quiet == UNCHANGED <<todo, aew, port, window, left>>

\* Guessauthorize takes the newest entry of the server; a URL may also name
\* its user, and then a refusal counts as the second one.
Start(t) ==
    /\ transfer[t].at = "idle" /\ Free
    /\ \/ Goes(t, [transfer[t] EXCEPT !.at = "send",
                   !.auth = IF auths = <<>> THEN Freed ELSE entry[Head(auths)]])
       \/ Goes(t, [transfer[t] EXCEPT !.at = "send", !.tried = TRUE,
                   !.auth = [realm |-> Dummyrealm, cookie |-> Dummyrealm]])
    /\ UNCHANGED <<listvars, inbox, missed>> /\ Quiet

\* The server answers with anything but 401, or the transfer is broken.
Responds(t) ==
    /\ transfer[t].at = "send"
    /\ Goes(t, Done)
    /\ UNCHANGED <<listvars, inbox, missed>> /\ Quiet

\* 401 with a realm: Newauthorize fetches the password that is known for it.
\* 401 that Parseauth does not understand: what was guessed is tried again.
Refused(t) ==
    LET tr == transfer[t] IN
    /\ tr.at = "send" /\ ~tr.tried
    /\ \E auth \in {tr.auth} \cup {[realm |-> r, cookie |-> None] : r \in Realm} :
          LET known == Findauth(auth.realm)
              cookie == IF auth = tr.auth THEN auth.cookie
                        ELSE IF known = {} THEN None ELSE entry[CHOOSE n \in known : TRUE].cookie
          IN /\ auth # tr.auth => Free
             /\ Goes(t, IF auth = Freed THEN Done
                        ELSE [tr EXCEPT !.at = IF cookie = None THEN "ask" ELSE "send",
                                        !.tried = TRUE,
                                        !.auth = [realm |-> auth.realm, cookie |-> cookie]])
    /\ UNCHANGED <<listvars, inbox, missed>> /\ Quiet

\* Second attempt: Forgetauthorize.
RefusedAgain(t) ==
    LET tr == transfer[t] IN
    /\ tr.at = "send" /\ tr.tried /\ Free
    /\ Frees(Findauth(tr.auth.realm))
    /\ saved' = [saved EXCEPT !.changed = TRUE]
    /\ Goes(t, [tr EXCEPT !.at = "notify", !.then = "done"])
    /\ UNCHANGED <<authsema, inbox, missed>> /\ Quiet

\* Authorreq: the user cancels, or the transfer is broken.
Cancels(t) ==
    /\ transfer[t].at = "ask"
    /\ Goes(t, Done)
    /\ UNCHANGED <<listvars, inbox, missed>> /\ Quiet

\* OK: Bakecookie, and Rememberauth as far as the search.
Answers(t) ==
    /\ transfer[t].at = "ask" /\ Free
    /\ authsema' = Held(t)
    /\ \E s \in Secret :
          Goes(t, [transfer[t] EXCEPT !.at = "remember", !.auth.cookie = s,
                                      !.found = Findauth(transfer[t].auth.realm)])
    /\ UNCHANGED <<auths, entry, saved, inbox, missed>> /\ Quiet

\* The rest of Rememberauth but for Modifiedlist.
Rememberauth(t) ==
    LET tr == transfer[t] IN
    /\ tr.at = "remember"
    /\ \/ /\ tr.found = {}
          /\ \E n \in Node \ Live : /\ auths' = <<n>> \o auths
                                    /\ entry' = [entry EXCEPT ![n] = tr.auth]
       \/ /\ tr.found # {}
          /\ \E n \in tr.found : entry' = [entry EXCEPT ![n].cookie = tr.auth.cookie]
          /\ UNCHANGED auths
    /\ saved' = [saved EXCEPT !.changed = TRUE]
    /\ authsema' = None
    /\ Goes(t, [tr EXCEPT !.at = "notify", !.then = "send", !.found = {}])
    /\ UNCHANGED <<inbox, missed>> /\ Quiet

Notifies(t) ==
    /\ transfer[t].at = "notify"
    /\ Modifiedlist
    /\ Goes(t, IF transfer[t].then = "done" THEN Done
               ELSE [transfer[t] EXCEPT !.at = transfer[t].then, !.then = None])
    /\ UNCHANGED listvars /\ Quiet

TransferStep(t) ==
    \/ Start(t) \/ Responds(t) \/ Refused(t) \/ RefusedAgain(t) \/ Cancels(t) \/ Answers(t)
    \/ Rememberauth(t) \/ Notifies(t)

---------------------------------------------------------------------------
(* Main.  A step has an operand: the address and password of an update.    *)

Step(do) == [do |-> do, an |-> None, s |-> None]

Freeauthor == <<Step("ifsave"), Step("flush"), Step("modified")>>

Stepsof(c) ==
    CASE c = "open" -> <<Step("open")>>
      [] c = "close" -> <<Step("dispose"), Step("forget")>>
      [] c = "screen" -> <<Step("screen")>>
      [] c = "save" -> <<Step("save")>>
      [] c = "quit" -> Freeauthor \o <<Step("screenoff"), Step("deinstall"), Step("dispose")>>

Call ==
    /\ todo = <<>> /\ left.calls > 0 /\ ~left.quit
    /\ \E c \in Calls :
          /\ todo' = Stepsof(c)
          /\ left' = [left EXCEPT !.calls = @ - 1, !.quit = c = "quit"]
    /\ UNCHANGED <<listvars, transfer, aew, winvars>>

Doing(do) == todo # <<>> /\ Head(todo).do = do
Then(steps) == todo' = steps \o Tail(todo)

\* An update of the window's task; the answer of a sync one comes after it.
Updateauthedit(u) ==
    CASE u.do \in {"delete", "change"} -> <<u, Step("answer")>>
      [] u.do = "dim" -> <<Step("answer")>>
      [] u.do = "closed" -> <<u>>

Processtask ==
    /\ todo = <<>> /\ port # <<>>
    /\ todo' = Updateauthedit(Head(port))
    /\ port' = Tail(port)
    /\ UNCHANGED <<listvars, transfer, aew, inbox, window, missed, left>>

\* Mutant of Findnode: the pointer the window has sent is followed.
FindnodeTrusted(an) == {an}

\* The loop of Finddeletenode and Findchangenode.
Findnode(an) == {n \in Live : n = an}

Finddeletenode ==
    /\ Doing("delete") /\ Free
    /\ Frees(Findnode(Head(todo).an))
    /\ saved' = [saved EXCEPT !.changed = @ \/ Findnode(Head(todo).an) # {}]
    /\ Then(<<>>)
    /\ UNCHANGED <<authsema, transfer, aew, winvars, left>>

Findchangenode ==
    /\ Doing("change") /\ Free
    /\ entry' = [n \in Node |-> IF n \in Findnode(Head(todo).an)
                                THEN [entry[n] EXCEPT !.cookie = Head(todo).s] ELSE entry[n]]
    /\ saved' = [saved EXCEPT !.changed = @ \/ Findnode(Head(todo).an) # {}]
    /\ Then(<<>>)
    /\ UNCHANGED <<auths, authsema, transfer, aew, winvars, left>>

Answer ==
    /\ Doing("answer")
    /\ window' = [window EXCEPT !.at = IF @ = "sync" THEN "redraw" ELSE "free"]
    /\ Then(<<>>)
    /\ UNCHANGED <<listvars, transfer, aew, port, inbox, missed, left>>

\* Saveauthor, in two steps: the list is written, then changed is cleared.
Writes ==
    /\ Doing("save") /\ Free
    /\ authsema' = Held("main")
    /\ saved' = [saved EXCEPT !.file = Contents]
    /\ Then(<<Step("saved")>>)
    /\ UNCHANGED <<auths, entry, transfer, aew, winvars, left>>

Written ==
    /\ Doing("saved")
    /\ authsema' = None
    /\ saved' = [saved EXCEPT !.changed = FALSE]
    /\ Then(<<>>)
    /\ UNCHANGED <<auths, entry, transfer, aew, winvars, left>>

IfSave ==
    /\ Doing("ifsave")
    /\ Then(IF saved.changed THEN <<Step("save")>> ELSE <<>>)
    /\ UNCHANGED <<listvars, transfer, aew, winvars, left>>

Flushauthor ==
    /\ Doing("flush") /\ Free
    /\ auths' = <<>> /\ entry' = [n \in Node |-> Freed]
    /\ Then(<<>>)
    /\ UNCHANGED <<authsema, saved, transfer, aew, winvars, left>>

MainModified ==
    /\ Doing("modified")
    /\ Modifiedlist
    /\ Then(<<>>)
    /\ UNCHANGED <<listvars, transfer, aew, port, window, left>>

---------------------------------------------------------------------------
(* Main and the window: Openauthedit, Closeauthedit, Stoptask and quitting. *)

Starttask == window' = [window EXCEPT !.at = "build"]

\* Newauthedit starts the task; only then does Openauthedit set authedit.
Openauthedit ==
    /\ Doing("open")
    /\ IF aew.known /\ aew.task THEN Then(<<>>) /\ UNCHANGED <<aew, window>>
       ELSE /\ aew' = [aew EXCEPT !.exists = TRUE, !.known = FALSE, !.task = aew.screen,
                                  !.wasopen = FALSE]
            /\ IF aew.screen THEN Starttask ELSE UNCHANGED window
            /\ Then(<<Step("opened")>>)
    /\ UNCHANGED <<listvars, transfer, port, inbox, missed, left>>

Opened ==
    /\ Doing("opened")
    /\ aew' = [aew EXCEPT !.known = TRUE]
    /\ Then(<<>>)
    /\ UNCHANGED <<listvars, transfer, winvars, left>>

\* Disposeauthedit; authedit keeps its value until Closeauthedit clears it.
Disposeauthedit ==
    /\ Doing("dispose")
    /\ aew' = [aew EXCEPT !.breaking = aew.exists /\ aew.task]
    /\ Then(IF aew.exists /\ aew.task THEN <<Step("stop"), Step("stopped"), Step("gone")>>
            ELSE <<Step("gone")>>)
    /\ UNCHANGED <<listvars, transfer, winvars, left>>

Disposed ==
    /\ Doing("gone")
    /\ aew' = [aew EXCEPT !.exists = FALSE, !.wasopen = FALSE]
    /\ Then(<<>>)
    /\ UNCHANGED <<listvars, transfer, winvars, left>>

Closeauthedit ==
    /\ Doing("forget")
    /\ aew' = [aew EXCEPT !.known = FALSE]
    /\ Then(<<>>)
    /\ UNCHANGED <<listvars, transfer, winvars, left>>

Stoptask ==
    /\ Doing("stop")
    /\ window' = [window EXCEPT !.break = Alive]
    /\ Then(<<Step("ended")>>)
    /\ UNCHANGED <<listvars, transfer, aew, port, inbox, missed, left>>

\* Dodisposetask serves the updates of the task until it has ended.
Dodisposetask ==
    /\ Doing("ended")
    /\ \/ /\ port # <<>>
          /\ todo' = Updateauthedit(Head(port)) \o todo
          /\ port' = Tail(port)
          /\ UNCHANGED window
       \/ /\ port = <<>> /\ window.at = "dead"
          /\ window' = [window EXCEPT !.at = None]
          /\ Then(<<>>)
          /\ UNCHANGED port
    /\ UNCHANGED <<listvars, transfer, aew, inbox, missed, left>>

Stopped ==
    /\ Doing("stopped")
    /\ aew' = [aew EXCEPT !.task = FALSE, !.breaking = FALSE]
    /\ Then(<<>>)
    /\ UNCHANGED <<listvars, transfer, winvars, left>>

\* AOAEW_Close: task is cleared, and disposed of unless that is under way.
CloseUpdate ==
    /\ Doing("closed")
    /\ IF aew.breaking \/ ~aew.task
       THEN Then(<<>>) /\ UNCHANGED aew
       ELSE /\ aew' = [aew EXCEPT !.task = FALSE]
            /\ Then(IF Step("ended") \in ToSet(todo) THEN <<>> ELSE <<Step("stop")>>)
    /\ UNCHANGED <<listvars, transfer, winvars, left>>

\* The screen closes or opens, or closes for good when AWeb quits.
Screen ==
    /\ Doing("screen") \/ Doing("screenoff")
    /\ aew' = [aew EXCEPT !.screen = Doing("screen") /\ ~@]
    /\ Then(IF aew'.screen # aew.screen THEN <<Step("screenvalid")>> ELSE <<>>)
    /\ UNCHANGED <<listvars, transfer, winvars, left>>

Setauthedit ==
    /\ Doing("screenvalid")
    /\ \/ /\ aew.exists /\ ~aew.screen /\ aew.task
          /\ aew' = [aew EXCEPT !.breaking = TRUE, !.wasopen = TRUE]
          /\ Then(<<Step("stop"), Step("stopped")>>)
          /\ UNCHANGED window
       \/ /\ aew.exists /\ aew.screen /\ aew.wasopen /\ ~aew.task
          /\ aew' = [aew EXCEPT !.task = TRUE]
          /\ Starttask
          /\ Then(<<>>)
       \/ /\ ~aew.exists \/ (IF aew.screen THEN aew.wasopen => aew.task ELSE ~aew.task)
          /\ Then(<<>>)
          /\ UNCHANGED <<aew, window>>
    /\ UNCHANGED <<listvars, transfer, port, inbox, missed, left>>

\* Deinstalltask: the transfers are stopped; the window's task ended with the
\* screen.
Deinstalltask ==
    /\ Doing("deinstall") /\ \A t \in Transfer : transfer[t].at \in {"idle", "done"}
    /\ transfer' = [t \in Transfer |-> Done]
    /\ Then(<<>>)
    /\ UNCHANGED <<listvars, aew, winvars, left>>

MainStep ==
    \/ Processtask \/ Finddeletenode \/ Findchangenode \/ Answer \/ Writes \/ Written
    \/ IfSave \/ Flushauthor \/ MainModified \/ Openauthedit \/ Opened \/ Disposeauthedit
    \/ Disposed \/ Closeauthedit \/ Stoptask \/ Dodisposetask \/ Stopped \/ CloseUpdate
    \/ Screen \/ Setauthedit \/ Deinstalltask

---------------------------------------------------------------------------
(* The task of the window, Authedittask.  at: "build" opens the window,    *)
(* "top" waits, "done" was told to close, "sync" waits for main, "redraw"  *)
(* comes back from an update, "place" tells main where the window was,     *)
(* "free" frees its nodes, "end" is the epilogue of Subtask.               *)

Allocates == window' = [window EXCEPT !.at = IF @ = "redraw" THEN window.back ELSE "top",
                                      !.back = "top", !.shown = Allocnodes]
Updates(u) == port' = Append(port, u)

Buildautheditwindow ==
    /\ window.at = "build" /\ Free
    /\ \/ Allocates /\ missed' = FALSE /\ UNCHANGED port
       \/ /\ window' = [window EXCEPT !.at = "end"]
          /\ Updates(Step("closed"))
          /\ UNCHANGED missed
    /\ UNCHANGED <<listvars, transfer, todo, aew, inbox, left>>

\* Gettaskmsg makes a stop message of a CTRL-C.
Stops ==
    /\ window.at = "top" /\ window.break
    /\ window' = [window EXCEPT !.at = "done", !.break = FALSE]
    /\ UNCHANGED <<listvars, transfer, todo, aew, port, inbox, missed, left>>

Modified ==
    /\ window.at = "top" /\ ~window.break /\ inbox > 0 /\ Free
    /\ inbox' = inbox - 1
    /\ Allocates /\ missed' = FALSE
    /\ UNCHANGED <<listvars, transfer, todo, aew, port, left>>

\* Mutant of Answered: the entry is not looked at again.
AnsweredOnly == window.at = "redraw" /\ window' = [window EXCEPT !.at = window.back] /\ missed' = missed

\* Delentry and Changeentry rebuild the list when main has answered.
Answered == window.at = "redraw" /\ Free /\ Allocates /\ missed' = FALSE

Redraws ==
    /\ Answered
    /\ UNCHANGED <<listvars, transfer, todo, aew, port, inbox, left>>

Closeautheditwindow ==
    /\ window.at = "done"
    /\ window' = [window EXCEPT !.at = "place"]
    /\ Updates(Step("dim"))
    /\ UNCHANGED <<listvars, transfer, todo, aew, inbox, missed, left>>

Freelbnodes ==
    /\ window.at = "free"
    /\ window' = [window EXCEPT !.at = "end", !.shown = <<>>]
    /\ Updates(Step("closed"))
    /\ UNCHANGED <<listvars, transfer, todo, aew, inbox, missed, left>>

Ends ==
    /\ window.at = "end"
    /\ window' = [window EXCEPT !.at = "dead", !.break = FALSE, !.back = "top"]
    /\ inbox' = 0
    /\ UNCHANGED <<listvars, transfer, todo, aew, port, missed, left>>

WindowStep ==
    \/ Buildautheditwindow \/ Stops \/ Modified \/ Redraws \/ Closeautheditwindow
    \/ Freelbnodes \/ Ends

\* Inputs are handled until there is no more, also after the close gadget.
Input ==
    /\ window.at \in {"top", "done"} /\ left.inputs > 0
    /\ left' = [left EXCEPT !.inputs = @ - 1]
    /\ UNCHANGED <<auths, entry, saved, transfer, todo, aew, inbox, missed>>

Closes ==
    /\ Input
    /\ window' = [window EXCEPT !.at = "done"]
    /\ UNCHANGED <<authsema, port>>

SemaForUpdate == authsema' = authsema

Entry(do, an, s) ==
    /\ Input /\ SemaForUpdate
    /\ window' = [window EXCEPT !.at = "sync", !.back = window.at]
    /\ Updates([do |-> do, an |-> an, s |-> s])

Delentry == \E i \in DOMAIN window.shown : Entry("delete", window.shown[i].an, None)
Changeentry == \E i \in DOMAIN window.shown, s \in Secret : Entry("change", window.shown[i].an, s)

User == Closes \/ Delentry \/ Changeentry

Next == Call \/ MainStep \/ WindowStep \/ User \/ \E t \in Transfer : TransferStep(t)

Spec == Init /\ [][Next]_vars

---------------------------------------------------------------------------
(* Properties. *)

Ats == {None, "build", "top", "done", "sync", "redraw", "place", "free", "end", "dead"}
Dos == {"open", "opened", "dispose", "gone", "forget", "stop", "ended", "stopped", "screen",
    "screenoff", "screenvalid", "deinstall", "ifsave", "save", "saved", "flush", "modified",
    "delete", "change", "dim", "closed", "answer"}
Operands(D) == [do : D, an : Node \cup {None}, s : Secret \cup {None}]
AuthRecord == [realm : Realm \cup {Dummyrealm, None}, cookie : Secret \cup {Dummyrealm, None}]

\* Types: an address holds an entry exactly while it is in the list, and the
\* semaphore is kept across steps only by one that has still to give it back.
TypeOK ==
    /\ auths \in Seq(Node) /\ entry \in [Node -> AuthRecord]
    /\ \A n \in Node : n \in Live <=> entry[n] # Freed
    /\ saved \in [changed : BOOLEAN, file : Seq(AuthRecord)]
    /\ transfer \in [Transfer -> [at : {"idle", "send", "ask", "remember", "notify", "done"},
          auth : AuthRecord, tried : BOOLEAN, found : SUBSET Node, then : {None, "done", "send"}]]
    /\ todo \in Seq(Operands(Dos))
    /\ aew \in [exists : BOOLEAN, known : BOOLEAN, task : BOOLEAN,
                breaking : BOOLEAN, wasopen : BOOLEAN, screen : BOOLEAN]
    /\ port \in Seq(Operands({"delete", "change", "dim", "closed"}))
    /\ inbox \in Nat /\ missed \in BOOLEAN
    /\ window \in [at : Ats, back : {"top", "done"}, break : BOOLEAN,
                   shown : Seq([an : Node, auth : AuthRecord])]
    /\ left \in [calls : Nat, inputs : Nat, quit : BOOLEAN]
    /\ \/ authsema = None
       \/ authsema = "main" /\ Doing("saved")
       \/ authsema \in Transfer /\ transfer[authsema].at = "remember"

\* There is one entry for a realm, however many transfers are refused and
\* asked for the same realm at once (author.c:69): else a password that is
\* forgotten or edited would be found again in another entry.
OneEntryForRealm == \A n, m \in Live : entry[n].realm = entry[m].realm => n = m

\* An address is written only while its entry is in the list, or when it gets
\* there, whatever the window still shows (author.c:183, 200).
WritesOnlyEntries ==
    [][\A n \in Node : entry'[n] # entry[n] => n \in Live \cup ToSet(auths')]_vars

\* As long as changed is not set the file has the passwords of the list, also
\* when transfers remember and forget some while the list is written.
UnchangedIsSaved ==
    ~saved.changed /\ authsema # "main" /\ ~left.quit =>
        ToSet(Contents) = ToSet(saved.file)

\* A window with nothing left to hear and nobody about to tell it shows the
\* list, unless the change came while it was being opened (author.c:349).
QuietWindowIsCurrent ==
    /\ window.at = "top" /\ inbox = 0 /\ ~missed
    /\ ~Doing("modified") /\ (\A t \in Transfer : transfer[t].at # "notify")
    => window.shown = Allocnodes
=============================================================================
