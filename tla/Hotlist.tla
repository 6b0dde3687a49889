------------------------------ MODULE Hotlist ------------------------------
(***************************************************************************)
(* The hotlist (hotlist.c) and its two windows, the viewer (hotviewer.c)   *)
(* and the manager (hotmanager.c), each a subtask of the kind of module    *)
(* Task.  The three share the list under hotsema.  The windows send        *)
(* updates to main, sync ones too, and main sends them messages.  Main     *)
(* waits for semaphores, for replies and for the end of a process, and     *)
(* while it waits for a task it serves the updates of that task.           *)
(*                                                                         *)
(* What main has still to do is the sequence todo of steps: a call puts    *)
(* its steps in front, so todo is main's stack of nested activations.      *)
(* How messages travel is proved and checked in module Task; here a port   *)
(* is a sequence and an answer is one step.                                *)
(***************************************************************************)
EXTENDS Naturals, Sequences, FiniteSets, SequencesExt

CONSTANTS
    Calls,        \* what the user, ARexx and the application call
    MaxCalls,     \* bound: how many of them
    MaxInputs     \* bound: how often the user acts on a window

ASSUME Bounds == MaxCalls \in Nat /\ MaxInputs \in Nat
ASSUME Named == Calls \subseteq {"viewer", "manager", "closeviewer", "closemanager", "add",
                    "addgroup", "save", "restore", "set", "html", "screen", "quit"}

Window == {"viewer", "manager"}
None == "none"

VARIABLES
    todo,       \* main: the steps left, innermost activation first
    hot,        \* hotwindowv and hotwindowm, with their object and task
    port,       \* taskport: updates of the tasks and replies to main
    inbox,      \* the port of each task
    proc,       \* where each subtask is
    hotsema,    \* who holds hotsema
    nodes,      \* how the list nodes of each window relate to the list
    locked,     \* hotmanager.c: the static flag, it outlives the window
    list,       \* hotchanged, and whether the list differs from its file
    screen,     \* AOAPP_Screenvalid
    left        \* bounds: calls and inputs left, and whether AWeb has quit

vars == <<todo, hot, port, inbox, proc, hotsema, nodes, locked, list, screen, left>>
winvars == <<hot, hotsema, locked, screen>>

---------------------------------------------------------------------------
(* Records and initial state. *)

Step(do, w, k) == [do |-> do, w |-> w, k |-> k]
Update(w, k, sync) == [from |-> w, kind |-> k, sync |-> sync, id |-> 0]
ReplyTo(w, id) == [from |-> w, kind |-> "reply", sync |-> FALSE, id |-> id]
Closed == [exists |-> FALSE, task |-> FALSE, breaking |-> FALSE, wasopen |-> FALSE]
Gone == [at |-> "none", then |-> "none", break |-> FALSE]

Init ==
    /\ todo = <<>> /\ port = <<>>
    /\ hot = [w \in Window |-> Closed]
    /\ inbox = [w \in Window |-> <<>>]
    /\ proc = [w \in Window |-> Gone]
    /\ hotsema = None
    /\ nodes = [w \in Window |-> {}]
    /\ locked = FALSE
    /\ list = [hotchanged |-> FALSE, dirty |-> FALSE]
    /\ screen = TRUE
    /\ left = [calls |-> MaxCalls, inputs |-> MaxInputs, quit |-> FALSE]

\* All nodes that pointed into the list are out of date once it changed.
Outdated(S) == IF S = {} THEN {} ELSE {"stale"}

---------------------------------------------------------------------------
(* What the calls of hotlist.c do, as steps of main. *)

Savehotlist == <<Step("save", None, None)>>

\* Mutant of Restorehotlist: the manager is not waited for.
RestoreTellsManager == <<
    Step("sync", "viewer", "Dispose"), Step("tell", "manager", "Dispose"),
    Step("reload", None, None),
    Step("tell", "viewer", "Newlist"), Step("tell", "manager", "Newlist")>>

\* Mutant of Restorehotlist: the windows rebuild before the list is read.
RestoreTellsEarly == <<
    Step("sync", "viewer", "Dispose"), Step("sync", "manager", "Dispose"),
    Step("tell", "viewer", "Newlist"), Step("tell", "manager", "Newlist"),
    Step("reload", None, None)>>

Restorehotlist == <<
    Step("sync", "viewer", "Dispose"), Step("sync", "manager", "Dispose"),
    Step("reload", None, None),
    Step("tell", "viewer", "Newlist"), Step("tell", "manager", "Newlist")>>

Sethotlistcontents == <<
    Step("sync", "viewer", "Dispose"), Step("sync", "manager", "Dispose"),
    Step("rebuild", None, None),
    Step("tell", "viewer", "Newlist"), Step("tell", "manager", "Newlist")>>

\* tag is Newlist when the entry went into a group of the list.
Addtohotlist(tag) == <<
    Step("add", None, None),
    Step("tell", "viewer", tag), Step("tell", "manager", tag)>> \o Savehotlist

\* Mutant of Quits: the list is saved before the windows close.
QuitSavesFirst == <<
    Step("savequit", None, None), Step("screenoff", None, None),
    Step("dispose", "viewer", None), Step("dispose", "manager", None),
    Step("quit", None, None)>>

\* Cleanup: the application goes first and closes its screen, which stops the
\* windows' tasks; then Deinstallhotwindow.
Quits == <<
    Step("screenoff", None, None),
    Step("dispose", "viewer", None), Step("dispose", "manager", None),
    Step("savequit", None, None), Step("quit", None, None)>>

Stepsof(c) ==
    CASE c = "viewer" -> <<Step("show", "viewer", None)>>
      [] c = "manager" -> <<Step("show", "manager", None)>>
      [] c = "closeviewer" -> <<Step("dispose", "viewer", None)>>
      [] c = "closemanager" -> <<Step("dispose", "manager", None)>>
      [] c = "add" -> Addtohotlist("Addentry")
      [] c = "addgroup" -> Addtohotlist("Newlist")
      [] c = "save" -> Savehotlist
      [] c = "restore" -> Restorehotlist
      [] c = "set" -> Sethotlistcontents
      [] c = "html" -> <<Step("html", None, None)>>
      [] c = "screen" -> <<Step("screen", None, None)>>
      [] c = "quit" -> Quits

\* The window, application and ARexx code calls; main has nothing else to do.
Call ==
    /\ todo = <<>> /\ left.calls > 0 /\ ~left.quit
    /\ \E c \in Calls :
          /\ todo' = Stepsof(c)
          /\ left' = [left EXCEPT !.calls = @ - 1, !.quit = c = "quit"]
    /\ UNCHANGED <<hot, port, inbox, proc, hotsema, nodes, locked, list, screen>>

---------------------------------------------------------------------------
(* Updatehotwindow: what an update of window w makes main do.  The answer  *)
(* of a sync update comes after it.                                        *)

Body(u) ==
    CASE u.kind = "Changed" -> <<Step("changed", None, None), Step("tell", "viewer", "Addentry")>>
      [] u.kind = "Save" -> Savehotlist
      [] u.kind = "Restore" -> Restorehotlist
      [] u.kind = "Manager" -> <<Step("show", "manager", None)>>
      [] u.kind = "Close" -> <<Step("close", u.from, None)>>
      [] u.kind \in {"Dimx", "Follow", "reply"} -> <<>>

Updatehotwindow(u) ==
    Body(u) \o IF u.sync THEN <<Step("answer", u.from, None)>> ELSE <<>>

Processtask ==
    /\ todo = <<>> /\ port # <<>>
    /\ todo' = Updatehotwindow(Head(port))
    /\ port' = Tail(port)
    /\ UNCHANGED <<winvars, inbox, proc, nodes, list, left>>

---------------------------------------------------------------------------
(* The steps of main. *)

Doing(do) == todo # <<>> /\ Head(todo).do = do
W == Head(todo).w

\* Goes on with steps in place of the one that is done.
Then(steps) == todo' = steps \o Tail(todo)

\* Mutant of Alive: a message is put to a process that has ended.
EverAlive(w) == proc[w].at # "none"

\* The process owns its port and can be told something.
Alive(w) == proc[w].at \notin {"none", "dead"}

\* Asetattrssync: the message has the number of sync calls main waits for.
Asetattrssync ==
    /\ Doing("sync")
    /\ IF hot[W].task /\ Alive(W)
       THEN LET n == Cardinality({i \in DOMAIN todo : todo[i].do = "await"}) IN
            /\ inbox' = [inbox EXCEPT ![W] = Append(@, [kind |-> Head(todo).k, id |-> n + 1])]
            /\ Then(<<Step("await", W, n + 1)>>)
       ELSE Then(<<>>) /\ UNCHANGED inbox
    /\ UNCHANGED <<winvars, port, proc, nodes, list, left>>

Asetattrsasync ==
    /\ Doing("tell")
    /\ inbox' = IF hot[W].task /\ Alive(W)
                THEN [inbox EXCEPT ![W] = Append(@, [kind |-> Head(todo).k, id |-> 0])]
                ELSE inbox
    /\ Then(<<>>)
    /\ UNCHANGED <<winvars, port, proc, nodes, list, left>>

\* The places in taskport of the messages of w.
Of(w) == {i \in DOMAIN port : port[i].from = w}
First(w) == CHOOSE i \in Of(w) : \A j \in Of(w) : i <= j

\* Waitformsg takes the first message of the task.  Its own reply ends the
\* wait; another reply is freed, and with it the wait of an outer call.
Waitformsg ==
    /\ Doing("await") /\ Of(W) # {}
    /\ LET m == port[First(W)] IN
       IF m.kind = "reply" /\ m.id = Head(todo).k
       THEN Then(<<>>)
       ELSE todo' = Updatehotwindow(m) \o todo
    /\ port' = RemoveAt(port, First(W))
    /\ UNCHANGED <<winvars, inbox, proc, nodes, list, left>>

\* Dodisposetask waits for the end of the process and processes its messages.
Dodisposetask ==
    /\ Doing("ended")
    /\ \/ /\ Of(W) # {}
          /\ todo' = Updatehotwindow(port[First(W)]) \o todo
          /\ port' = RemoveAt(port, First(W))
          /\ UNCHANGED proc
       \/ /\ Of(W) = {} /\ proc[W].at = "dead"
          /\ proc' = [proc EXCEPT ![W] = Gone]
          /\ Then(<<>>)
          /\ UNCHANGED port
    /\ UNCHANGED <<winvars, inbox, nodes, list, left>>

\* Adisposeobject of the task: Ctrl-C, then Dodisposetask.
Stoptask ==
    /\ Doing("stop")
    /\ proc' = [proc EXCEPT ![W].break = Alive(W)]
    /\ Then(<<Step("ended", W, None)>>)
    /\ UNCHANGED <<winvars, port, inbox, nodes, list, left>>

\* The Close update: the disposal is put off until its handler has returned,
\* but task and libbase are cleared at once.
CloseUpdate ==
    /\ Doing("close")
    /\ IF hot[W].breaking \/ ~hot[W].task
       THEN Then(<<>>) /\ UNCHANGED hot
       ELSE /\ hot' = [hot EXCEPT ![W].task = FALSE]
            /\ Then(<<Step("stop", W, None)>>)
    /\ UNCHANGED <<port, inbox, proc, hotsema, nodes, locked, list, screen, left>>

\* Closehotlistviewer, Closehotlistmanager, and the object's AOM_DISPOSE.
Disposehotwindow ==
    /\ Doing("dispose")
    /\ hot' = [hot EXCEPT ![W].breaking = hot[W].task]
    /\ Then(IF hot[W].task THEN <<Step("stop", W, None), Step("gone", W, None)>>
                           ELSE <<Step("gone", W, None)>>)
    /\ UNCHANGED <<port, inbox, proc, hotsema, nodes, locked, list, screen, left>>

Disposed ==
    /\ Doing("gone")
    /\ hot' = [hot EXCEPT ![W] = Closed]
    /\ Then(<<>>)
    /\ UNCHANGED <<port, inbox, proc, hotsema, nodes, locked, list, screen, left>>

Starttask(w) == proc' = [proc EXCEPT ![w] = [Gone EXCEPT !.at = "build"]]

\* Hotlistviewer and Hotlistmanager, with Newhotwindow.
Show ==
    /\ Doing("show")
    /\ IF hot[W].task
       THEN Then(<<Step("tell", W, "Tofront")>>) /\ UNCHANGED <<hot, proc>>
       ELSE /\ hot' = [hot EXCEPT ![W] = [Closed EXCEPT !.exists = TRUE, !.task = screen]]
            /\ IF screen THEN Starttask(W) ELSE UNCHANGED proc
            /\ Then(<<>>)
    /\ UNCHANGED <<port, inbox, hotsema, nodes, locked, list, screen, left>>

\* The screen closes or opens, or closes for good when AWeb quits;
\* Sethotwindow of each window follows.
Screen ==
    /\ Doing("screen") \/ Doing("screenoff")
    /\ screen' = (Doing("screen") /\ ~screen)
    /\ \/ /\ screen' # screen
          /\ \E v, w \in Window :
                v # w /\ Then(<<Step("screenvalid", v, None), Step("screenvalid", w, None)>>)
       \/ screen' = screen /\ Then(<<>>)
    /\ UNCHANGED <<hot, port, inbox, proc, hotsema, nodes, locked, list, left>>

Sethotwindow ==
    /\ Doing("screenvalid")
    /\ \/ /\ ~screen /\ hot[W].task
          /\ hot' = [hot EXCEPT ![W].breaking = TRUE, ![W].wasopen = TRUE]
          /\ Then(<<Step("stop", W, None), Step("stopped", W, None)>>)
          /\ UNCHANGED proc
       \/ /\ screen /\ hot[W].wasopen /\ ~hot[W].task
          /\ hot' = [hot EXCEPT ![W].task = TRUE]
          /\ Starttask(W)
          /\ Then(<<>>)
       \/ /\ IF screen THEN ~hot[W].wasopen \/ hot[W].task ELSE ~hot[W].task
          /\ Then(<<>>)
          /\ UNCHANGED <<hot, proc>>
    /\ UNCHANGED <<port, inbox, hotsema, nodes, locked, list, screen, left>>

Stopped ==
    /\ Doing("stopped")
    /\ hot' = [hot EXCEPT ![W].task = FALSE, ![W].breaking = FALSE]
    /\ Then(<<>>)
    /\ UNCHANGED <<port, inbox, proc, hotsema, nodes, locked, list, screen, left>>

Changed ==
    /\ Doing("changed")
    /\ list' = [list EXCEPT !.hotchanged = TRUE]
    /\ Then(<<>>)
    /\ UNCHANGED <<winvars, port, inbox, proc, nodes, left>>

\* ReplyMsg of a sync update: the subtask goes on.
Answer ==
    /\ Doing("answer")
    /\ proc' = [proc EXCEPT ![W].at = proc[W].then, ![W].then = "none"]
    /\ Then(<<>>)
    /\ UNCHANGED <<winvars, port, inbox, nodes, list, left>>

\* The steps between an ObtainSemaphore and its ReleaseSemaphore on hotsema:
\* main waits for the semaphore and for nothing else in them.
Locks == {"save", "reload", "rebuild", "add", "html"}

Saved(l) == [hotchanged |-> FALSE, dirty |-> l.dirty /\ ~l.hotchanged]

ListStep ==
    /\ todo # <<>> /\ Head(todo).do \in Locks /\ hotsema = None
    /\ list' = CASE Head(todo).do = "save" -> Saved(list)
                 [] Head(todo).do = "reload" -> [hotchanged |-> FALSE, dirty |-> FALSE]
                 [] Head(todo).do \in {"rebuild", "add"} -> [hotchanged |-> TRUE, dirty |-> TRUE]
                 [] Head(todo).do = "html" -> list
    /\ nodes' = IF Head(todo).do \in {"reload", "rebuild", "add"}
                THEN [w \in Window |-> Outdated(nodes[w])] ELSE nodes
    /\ Then(<<>>)
    /\ UNCHANGED <<winvars, port, inbox, proc, left>>

\* The end of Deinstallhotwindow: the list is saved if it changed, and freed.
Deinstalls ==
    /\ todo # <<>> /\ Head(todo).do \in {"savequit", "quit"}
    /\ list' = IF Doing("savequit") THEN Saved(list) ELSE list
    /\ Then(<<>>)
    /\ UNCHANGED <<winvars, port, inbox, proc, nodes, left>>

MainStep ==
    \/ Processtask \/ Asetattrssync \/ Asetattrsasync \/ Waitformsg \/ Dodisposetask
    \/ Stoptask \/ CloseUpdate \/ Disposehotwindow \/ Disposed \/ Show \/ Screen
    \/ Sethotwindow \/ Stopped \/ Changed \/ Answer \/ ListStep \/ Deinstalls

---------------------------------------------------------------------------
(* The subtasks.  at: "build" opens the window; "top" waits for messages   *)
(* and input; "drain" has read a message while more were queued; "done"    *)
(* was told to close by an input; "sync" waits for main; "unlock" and      *)
(* "relock" come back from a sync update sent with hotsema held or after   *)
(* releasing it; "free" frees its nodes; "end" is the epilogue of Subtask. *)

At(w, at) == proc' = [proc EXCEPT ![w].at = at]

Updatetaskattrs(w, k, then) ==
    /\ port' = Append(port, Update(w, k, TRUE))
    /\ proc' = [proc EXCEPT ![w].at = "sync", ![w].then = then]

UpdateAsync(w, k) == port' = Append(port, Update(w, k, FALSE))

\* Buildhotviewwindow, Buildhotlistwindow; without a window the task ends.
Build(w) ==
    /\ proc[w].at = "build" /\ hotsema = None
    /\ \/ /\ nodes' = [nodes EXCEPT ![w] = {"current"}]
          /\ At(w, "top")
          /\ UNCHANGED port
       \/ /\ At(w, "end")
          /\ UpdateAsync(w, "Close")
          /\ UNCHANGED nodes
    /\ UNCHANGED <<winvars, todo, inbox, list, left>>

\* Gettaskmsg looks for Ctrl-C first.
Stops(w) ==
    /\ proc[w].at \in {"top", "drain"} /\ proc[w].break
    /\ At(w, "closing")
    /\ UNCHANGED <<winvars, todo, port, inbox, nodes, list, left>>

\* The nodes of w after the message; the viewer's Newhotlist frees none.
Rebuilt(w, k) ==
    CASE k = "Dispose" -> {}
      [] k = "Addentry" -> {"current"}
      [] k = "Newlist" -> {"current"} \cup IF w = "viewer" THEN nodes[w] ELSE {}
      [] k = "Tofront" -> nodes[w]

Message(w) ==
    /\ proc[w].at \in {"top", "drain"} /\ ~proc[w].break /\ inbox[w] # <<>>
    /\ LET m == Head(inbox[w]) IN
       /\ m.kind # "Tofront" => hotsema = None
       /\ nodes' = [nodes EXCEPT ![w] = Rebuilt(w, m.kind)]
       /\ locked' = IF w = "manager" /\ m.kind \in {"Dispose", "Newlist"}
                    THEN m.kind = "Dispose" ELSE locked
       /\ port' = IF m.id > 0 THEN Append(port, ReplyTo(w, m.id)) ELSE port
    /\ inbox' = [inbox EXCEPT ![w] = Tail(@)]
    /\ At(w, IF Len(inbox[w]) > 1 THEN "drain" ELSE "top")
    /\ UNCHANGED <<todo, hot, hotsema, list, screen, left>>

\* RA_HandleInput of either window gives an input until there is no more,
\* also after one that said done.  The manager drops it while it is locked.
Input(w) ==
    /\ proc[w].at \in {"top", "done"} /\ left.inputs > 0
    /\ w = "manager" => ~locked
    /\ hotsema = None
    /\ left' = [left EXCEPT !.inputs = @ - 1]

Closes(w) ==
    /\ Input(w) /\ At(w, "done")
    /\ UNCHANGED <<winvars, todo, port, inbox, nodes, list>>

\* Showhide and Enternode on a group.
Showhide ==
    /\ Input("viewer") /\ nodes["viewer"] # {}
    /\ list' = [list EXCEPT !.dirty = TRUE]
    /\ UpdateAsync("viewer", "Changed")
    /\ UNCHANGED <<winvars, todo, inbox, proc, nodes>>

Seturls ==
    /\ Input("viewer")
    /\ nodes' = [nodes EXCEPT !["viewer"] = {"current"}]
    /\ UNCHANGED <<winvars, todo, port, inbox, proc, list>>

\* A followed link assigns done, so it may also take back an earlier close.
Enternode ==
    /\ Input("viewer") /\ nodes["viewer"] # {}
    /\ hotsema' = "viewer"
    /\ \E then \in {"unlock", "unlockdone"} : Updatetaskattrs("viewer", "Follow", then)
    /\ UNCHANGED <<hot, locked, screen, todo, inbox, nodes, list>>

\* Where a sync update that was sent with hotsema held comes back to.
Unlock(w) == IF proc[w].at = "done" THEN "unlockdone" ELSE "unlock"

ManagerButton ==
    /\ Input("viewer")
    /\ hotsema' = "viewer"
    /\ Updatetaskattrs("viewer", "Manager", Unlock("viewer"))
    /\ UNCHANGED <<hot, locked, screen, todo, inbox, nodes, list>>

\* Show, Doubleclickl and Doubleclickg of the manager.
Follow ==
    /\ Input("manager")
    /\ hotsema' = "manager"
    /\ Updatetaskattrs("manager", "Follow", Unlock("manager"))
    /\ UNCHANGED <<hot, locked, screen, todo, inbox, nodes, list>>

\* Any change of the list by the manager, which may free entries of it.
Edit ==
    /\ Input("manager")
    /\ list' = [list EXCEPT !.dirty = TRUE]
    /\ nodes' = [nodes EXCEPT !["viewer"] = Outdated(@)]
    /\ UpdateAsync("manager", "Changed")
    /\ UNCHANGED <<winvars, todo, inbox, proc>>

Revert ==
    /\ Input("manager")
    /\ UpdateAsync("manager", "Restore")
    /\ UNCHANGED <<winvars, todo, inbox, proc, nodes, list>>

\* Mutant of SemaForSave: the semaphore is kept, as it is for Follow.
KeepsSema == "manager"
SemaForSave == None

Save ==
    /\ Input("manager")
    /\ hotsema' = SemaForSave
    /\ Updatetaskattrs("manager", "Save",
           IF proc["manager"].at = "done" THEN "relockdone" ELSE "relock")
    /\ UNCHANGED <<hot, locked, screen, todo, inbox, nodes, list>>

\* The IDCMP hook, called inside RA_HandleInput.
Idcmphook(w) ==
    /\ proc[w].at \in {"top", "done"} /\ left.inputs > 0
    /\ left' = [left EXCEPT !.inputs = @ - 1]
    /\ Updatetaskattrs(w, "Dimx", proc[w].at)
    /\ UNCHANGED <<winvars, todo, inbox, nodes, list>>

\* Main has answered: the semaphore is released, or first obtained again.
Returns(w) ==
    /\ \/ proc[w].at \in {"unlock", "unlockdone"}
       \/ proc[w].at \in {"relock", "relockdone"} /\ hotsema \in {None, w}
    /\ hotsema' = None
    /\ At(w, IF proc[w].at \in {"unlockdone", "relockdone"} THEN "done" ELSE "top")
    /\ UNCHANGED <<hot, locked, screen, todo, port, inbox, nodes, list, left>>

\* The loop of the task ends; the window tells its place and closes.
Closing(w) ==
    /\ proc[w].at \in {"done", "closing"}
    /\ Updatetaskattrs(w, "Dimx", "free")
    /\ UNCHANGED <<winvars, todo, inbox, nodes, list, left>>

\* Freenodes or Freeallnodes, which walks the list without hotsema.
Frees(w) ==
    /\ proc[w].at = "free"
    /\ nodes' = [nodes EXCEPT ![w] = {}]
    /\ UpdateAsync(w, "Close")
    /\ At(w, "end")
    /\ UNCHANGED <<winvars, todo, inbox, list, left>>

\* The epilogue of Subtask replies what is left in the port; the number of an
\* async message is 0, and main just frees it.
Ends(w) ==
    /\ proc[w].at = "end"
    /\ port' = port \o [i \in DOMAIN inbox[w] |-> ReplyTo(w, inbox[w][i].id)]
    /\ inbox' = [inbox EXCEPT ![w] = <<>>]
    /\ proc' = [proc EXCEPT ![w].at = "dead", ![w].break = FALSE]
    /\ UNCHANGED <<winvars, todo, nodes, list, left>>

TaskStep(w) ==
    Build(w) \/ Stops(w) \/ Message(w) \/ Returns(w) \/ Closing(w) \/ Frees(w) \/ Ends(w)

User ==
    \/ \E w \in Window : Closes(w) \/ Idcmphook(w)
    \/ Showhide \/ Seturls \/ Enternode \/ ManagerButton
    \/ Follow \/ Edit \/ Revert \/ Save

Next == Call \/ MainStep \/ (\E w \in Window : TaskStep(w)) \/ User

Spec == Init /\ [][Next]_vars

\* Exec runs every process that can run; user and ARexx owe nothing.
FairSpec == Spec /\ WF_vars(MainStep) /\ \A w \in Window : WF_vars(TaskStep(w))

---------------------------------------------------------------------------
(* Properties. *)

Dos == Locks \cup {"sync", "await", "tell", "stop", "ended", "close", "dispose", "gone", "show",
    "screen", "screenoff", "screenvalid", "stopped", "changed", "answer", "savequit", "quit"}
Ats == {"none", "build", "top", "drain", "done", "sync", "unlock", "unlockdone", "relock",
    "relockdone", "closing", "free", "end", "dead"}

\* Types.
TypeOK ==
    /\ \A i \in DOMAIN todo : todo[i].do \in Dos
    /\ \A w \in Window : /\ proc[w].at \in Ats /\ nodes[w] \subseteq {"current", "stale"}
                         /\ hot[w].task => hot[w].exists
                         /\ proc[w].at \in {"none", "dead"} => inbox[w] = <<>>

\* When main frees the list, by a restore, by ARexx or by quitting, the
\* manager has given up its nodes and is not walking the list to make or free
\* them, which it does without hotsema (hotmanager.c:1772, 2285): the sync
\* Dispose and the locked flag see to that (hotlist.c:1067).
ManagerLetsGo ==
    [][todo # <<>> /\ todo' # todo /\ Head(todo).do \in {"reload", "rebuild", "quit"}
       /\ (todo' = Tail(todo))
       => nodes["manager"] = {} /\ proc["manager"].at \notin {"build", "free"}]_vars

\* A window with nothing left to hear shows the list as it is; the manager
\* shows nothing else, whatever was added, edited or restored meanwhile.
QuietWindowIsCurrent ==
    todo = <<>> /\ port = <<>> =>
        \A w \in Window : proc[w].at = "top" /\ inbox[w] = <<>> =>
            /\ "current" \in nodes[w]
            /\ w = "manager" => nodes[w] = {"current"}

\* No change of the list is forgotten: main knows of it, or its update is on
\* the way, and AWeb has not quit without saving it.
ChangesAreSaved ==
    /\ list.dirty =>
        \/ list.hotchanged
        \/ \E i \in DOMAIN port : port[i].kind = "Changed"
        \/ \E i \in DOMAIN todo : todo[i].do = "changed"
    /\ left.quit /\ todo = <<>> => ~list.dirty

\* hotsema is held across a step only by a window that waits for main or has
\* just been answered, and main can always answer once it has begun to handle
\* the update: it does not need the semaphore its sender holds (hotmanager.c:2111).
BegunIsAnswered ==
    hotsema # None =>
        /\ proc[hotsema].at \in {"sync", "unlock", "unlockdone"}
        /\ (\E i \in DOMAIN todo : todo[i] = Step("answer", hotsema, None)) =>
              Head(todo).do \notin Locks

\* A task cannot go on before hotsema is released.
NeedsSema(w) ==
    \/ proc[w].at \in {"build", "relock", "relockdone"}
    \/ /\ proc[w].at \in {"top", "drain"} /\ ~proc[w].break
       /\ inbox[w] # <<>> /\ Head(inbox[w]).kind # "Tofront"

\* Main and the holder of hotsema wait for each other.
Deadlocked ==
    /\ hotsema # None /\ todo # <<>> /\ proc[hotsema].at = "sync"
    /\ \/ Head(todo).do \in Locks
       \/ Head(todo).do \in {"await", "ended"} /\ W # hotsema /\ NeedsSema(W)

\* "While waiting, other messages from the same task are processed to avoid
\* deadlocks" (task.h:39): main and a window never wait for each other.
NoDeadlock == ~Deadlocked

\* The message main waits for was taken by a call nested in the wait.
Lost ==
    /\ Doing("await")
    /\ \A i \in DOMAIN inbox[W] : inbox[W][i].id # Head(todo).k
    /\ \A i \in DOMAIN port : port[i] # ReplyTo(W, Head(todo).k)

\* Main comes back from whatever it does, unless it waits in a deadlock over
\* hotsema or for a message a nested call has taken; nothing else stops it.
MainReturns == todo # <<>> ~> (todo = <<>> \/ Deadlocked \/ Lost)
=============================================================================
