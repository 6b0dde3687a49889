-------------------------------- MODULE Task --------------------------------
(***************************************************************************)
(* The subtask framework of AWeb: Source/AWebAPL/task.c and task.h.        *)
(*                                                                         *)
(* The main process runs everything that touches an AWeb object.  A task   *)
(* object (AOTP_TASK) owns one Exec process.  Main puts messages on the    *)
(* subtask's port, the subtask puts updates on main's taskport, and every  *)
(* message of main comes back to taskport when it is replied.  Main        *)
(* recurses: Processreply runs a handler, the handler may send, stop or    *)
(* dispose, and each of those may wait and process messages meanwhile.     *)
(* That recursion is the variable stack, innermost activation first.       *)
(*                                                                         *)
(* A critical section of portsema or task->sema is one step, except the    *)
(* epilogue of Subtask, which keeps task->sema over several steps.  Memory *)
(* is never short; the process and its port may fail to be created.        *)
(***************************************************************************)
EXTENDS Naturals, Sequences, FiniteSets, Functions

CONSTANTS
    Task,          \* the task objects that can be created
    NoTask,        \* the NULL task of a startup message
    IdleCalls,     \* what main calls from its event loop
    OwnCalls,      \* what an update handler calls on the task it serves
    OtherCalls,    \* what an update handler calls on another task
    MaxUpdates,    \* bound: updates one subtask sends
    MaxMessages    \* bound: messages main sends to one subtask

Calls == {"new", "start", "stop", "dispose", "sync", "async", "vanilla",
          "suspend", "quit"}

ASSUME ConstantsAssumption ==
    /\ NoTask \notin Task
    /\ IdleCalls \cup OwnCalls \cup OtherCalls \subseteq Calls
    /\ MaxUpdates \in Nat
    /\ MaxMessages \in Nat

VARIABLES
    task,      \* the Atask structures, main's side
    proc,      \* the subtasks: where they are, their port and their locals
    port,      \* the message list of taskport
    psig,      \* the signal bit of taskport
    mask,      \* the main loop has seen that bit, Processtask is still to run
    semaport,  \* the message list of semaport: the semaphores granted
    ssig,      \* the signal bit of semaport
    procured,  \* the tasks whose runsema main is queued for
    stack,     \* the activations of main, innermost first
    quitting   \* Deinstalltask: not yet, running or done

taskport == <<port, psig>>
semas == <<semaport, ssig, procured>>
vars == <<task, proc, taskport, mask, semas, stack, quitting>>

-----------------------------------------------------------------------------
(* Data *)

\* "message": AOTSK_Message; "vanilla": Asetattrsasync; async: TSMF_ASYNC.
Kinds == {"startup", "update", "suspend", "release", "message", "vanilla"}
Message == [task: Task \cup {NoTask}, kind: Kinds, async: BOOLEAN, id: Nat]
Msg(t, kind, async, id) ==
    [task |-> t, kind |-> kind, async |-> async, id |-> id]
Startup == Msg(NoTask, "startup", FALSE, 0)
NoMsg   == Msg(NoTask, "message", FALSE, 0)

Flags == {"DISPOSING", "PROCESSING", "MUSTDISPOSE"}
TaskRecord ==
    [obj: {"none", "live", "freed"},
     state: {"NEW", "RUN", "SUSPEND", "DEAD"},
     flags: SUBSET Flags,
     target: BOOLEAN,       \* task->target is set
     wanted: BOOLEAN,       \* the last AOTSK_Suspend that was set
     messages: Nat]         \* messages sent so far

\* Where a subtask is.  "none": no process; "created": it does not own runsema
\* yet; "run": in its entry function; "wait": in Waittask; "get", "getwait",
\* "getmsg": in Gettaskmsg, scanning, blocked, about to take a message;
\* "update": waiting on updport; "drain": in the epilogue, owning task->sema;
\* "dead": about to release runsema; "ended": runsema released.
Places == {"none", "created", "run", "wait", "get", "getwait", "getmsg",
           "update", "drain", "dead", "ended"}
ProcRecord ==
    [at: Places,
     port: Seq(Message),    \* task->subport
     sig: BOOLEAN,          \* its signal bit
     ctrlC: BOOLEAN,        \* SIGBREAKF_CTRL_C
     held: Message,         \* the message it got and has not replied
     suspend: BOOLEAN,      \* the local of Gettaskmsg
     leaving: BOOLEAN,      \* it has decided to return
     answered: BOOLEAN,     \* task->updport holds the replied update
     updates: Nat]          \* updates sent so far

\* An activation of Processtask, Processreply, Waitformsg or Dodisposetask
\* (with the synchronous Stoptask inside), and how far it is.
Frames == [op: {"Processtask", "Processreply", "Waitformsg", "Dodisposetask"},
           task: Task \cup {NoTask},
           msg: Message,
           pc: {"begin", "handler", "end", "scan", "blocked",
                "drain", "wait", "redrain", "final"}]
Frame(op, t, m, pc) == [op |-> op, task |-> t, msg |-> m, pc |-> pc]
At(op, pc) == stack # <<>> /\ Head(stack).op = op /\ Head(stack).pc = pc
Goto(pc) == <<[Head(stack) EXCEPT !.pc = pc]>> \o Tail(stack)

First(S) == {i \in S : \A j \in S : i =< j}
Without(s, i) == SubSeq(s, 1, i - 1) \o SubSeq(s, i + 1, Len(s))

Init ==
    /\ task = [t \in Task |->
                 [obj |-> "none", state |-> "NEW", flags |-> {}, target |-> TRUE,
                  wanted |-> FALSE, messages |-> 0]]
    /\ proc = [t \in Task |->
                 [at |-> "none", port |-> <<>>, sig |-> FALSE, ctrlC |-> FALSE,
                  held |-> NoMsg, suspend |-> FALSE, leaving |-> FALSE,
                  answered |-> FALSE, updates |-> 0]]
    /\ port = <<>> /\ psig = FALSE /\ mask = FALSE
    /\ semaport = <<>> /\ ssig = FALSE /\ procured = {}
    /\ stack = <<>> /\ quitting = "no"

-----------------------------------------------------------------------------
(* The subtask *)

\* The subport exists: created by Subtask, deleted in its epilogue.
HasSubport(t) == proc[t].at \notin {"none", "created", "dead", "ended"}

\* PutMsg or ReplyMsg to taskport.
PutPort(m) == port' = Append(port, m) /\ psig' = TRUE

\* A step of the subtask inside its own process.
Moves(t, rec) ==
    /\ proc' = [proc EXCEPT ![t] = rec]
    /\ UNCHANGED <<task, taskport, mask, semas, stack, quitting>>
\* A step that also puts message m to taskport.
MovesAndPuts(t, rec, m) ==
    /\ proc' = [proc EXCEPT ![t] = rec]
    /\ PutPort(m)
    /\ UNCHANGED <<mask, semas, stack, quitting>>

\* The wrapper takes runsema and answers the startup message; without a
\* message port the subtask is dead before it ran.
Subtask(t) ==
    /\ proc[t].at = "created"
    /\ \E ok \in BOOLEAN :
        /\ MovesAndPuts(t, [proc[t] EXCEPT !.at = IF ok THEN "run" ELSE "dead"],
                        Startup)
        /\ task' = [task EXCEPT ![t].state = IF ok THEN "RUN" ELSE "DEAD"]

\* The subtask is in its entry function with nothing left to reply.
Free(t) == proc[t].at = "run" /\ proc[t].held = NoMsg
Works(t) == Free(t) /\ ~proc[t].leaving

PortIsEmpty(t) == proc[t].port = <<>>
Waittask(t) ==
    /\ Works(t) /\ PortIsEmpty(t)
    /\ Moves(t, [proc[t] EXCEPT !.at = "wait"])

\* The wait ends by the port, by Ctrl-C, which is set again, or by one of the
\* subtask's own signals: a window event, a socket, a timer.
Wakes(t, own) ==
    /\ proc[t].at = "wait" /\ (own \/ proc[t].sig \/ proc[t].ctrlC)
    /\ Moves(t, [proc[t] EXCEPT !.at = "run", !.sig = FALSE])

\* With Ctrl-C set Gettaskmsg makes an AOTSK_Stop message up, which the subtask
\* frees before it leaves; Checktaskbreak tells the same without a message.
Gettaskmsg(t) ==
    /\ Works(t)
    /\ Moves(t, IF proc[t].ctrlC THEN [proc[t] EXCEPT !.leaving = TRUE]
                ELSE [proc[t] EXCEPT !.at = "get", !.suspend = FALSE])

\* Mutant of OwnAnswers: a suspended subtask answers no sync message.
OwnAnswersNoSync(t) ==
    {i \in DOMAIN proc[t].port : proc[t].port[i].kind \in {"suspend", "release"}}

\* What the loop of Gettaskmsg answers itself: the suspend and release
\* messages, and every message without TSMF_ASYNC while it is suspended.
OwnAnswers(t) ==
    {i \in DOMAIN proc[t].port :
        \/ proc[t].port[i].kind \in {"suspend", "release"}
        \/ proc[t].suspend /\ ~proc[t].port[i].async}

StateAfter(kind, state) ==
    CASE kind = "suspend" -> "SUSPEND" [] kind = "release" -> "RUN" [] OTHER -> state

Answers(t) ==
    /\ proc[t].at = "get"
    /\ \E i \in First(OwnAnswers(t)) :
        LET kind == proc[t].port[i].kind
        IN /\ MovesAndPuts(t, [proc[t] EXCEPT
                !.port = Without(@, i),
                !.suspend = (kind = "suspend") \/ (@ /\ kind # "release")],
                proc[t].port[i])
           /\ task' = [task EXCEPT ![t].state = StateAfter(kind, @)]

ScanEnds(t) ==
    /\ proc[t].at = "get" /\ OwnAnswers(t) = {}
    /\ Moves(t, [proc[t] EXCEPT
                   !.at = IF proc[t].suspend THEN "getwait" ELSE "getmsg"])

\* Suspended: wait for a message or Ctrl-C.
ScanWakes(t) ==
    /\ proc[t].at = "getwait" /\ (proc[t].sig \/ proc[t].ctrlC)
    /\ Moves(t, [proc[t] EXCEPT !.sig = FALSE, !.leaving = proc[t].ctrlC,
                   !.at = IF proc[t].ctrlC THEN "run" ELSE "get"])

\* The final GetMsg, outside task->sema: it takes whatever is first by now.
GetMsg(t) ==
    /\ proc[t].at = "getmsg"
    /\ Moves(t, IF proc[t].port = <<>> THEN [proc[t] EXCEPT !.at = "run"]
                ELSE [proc[t] EXCEPT !.at = "run", !.held = Head(proc[t].port),
                                     !.port = Tail(@)])

Replytaskmsg(t) ==
    /\ proc[t].at = "run" /\ proc[t].held # NoMsg
    /\ MovesAndPuts(t, [proc[t] EXCEPT !.held = NoMsg], proc[t].held)
    /\ UNCHANGED task

\* Updatetask and UpdatetaskattrsA: the subtask waits for the answer unless
\* AOTSK_Async is set.  It may do so while it holds a message of main.
Updatetask(t, async) ==
    /\ proc[t].at = "run" /\ proc[t].updates < MaxUpdates
    /\ MovesAndPuts(t, [proc[t] EXCEPT !.at = IF async THEN "run" ELSE "update",
                                       !.updates = @ + 1],
                    Msg(t, "update", async, 0))
    /\ UNCHANGED task

UpdateReplied(t) ==
    /\ proc[t].at = "update" /\ proc[t].answered
    /\ Moves(t, [proc[t] EXCEPT !.at = "run", !.answered = FALSE])

\* The work is done, the connection closed, the window shut by the user.
Finishes(t) == Works(t) /\ Moves(t, [proc[t] EXCEPT !.leaving = TRUE])

\* The entry function returns: the epilogue takes task->sema,
Returns(t) ==
    /\ Free(t) /\ proc[t].leaving
    /\ Moves(t, [proc[t] EXCEPT !.at = "drain"])

\* answers what main still sent,
Drains(t) ==
    /\ proc[t].at = "drain" /\ proc[t].port # <<>>
    /\ MovesAndPuts(t, [proc[t] EXCEPT !.port = Tail(@)], Head(proc[t].port))
    /\ UNCHANGED task

\* gives the port up and releases task->sema,
Dies(t) ==
    /\ proc[t].at = "drain" /\ proc[t].port = <<>>
    /\ proc' = [proc EXCEPT ![t].at = "dead"]
    /\ task' = [task EXCEPT ![t].state = "DEAD"]
    /\ UNCHANGED <<taskport, mask, semas, stack, quitting>>

\* Mutant of GoesToMain: the semaphore is released without a look at its queue.
GoesToNobody(t) == t \in procured /\ proc[t].port # <<>>

\* and last releases runsema, which goes to main if main has procured it.
GoesToMain(t) == t \in procured
Ends(t) ==
    /\ proc[t].at = "dead"
    /\ proc' = [proc EXCEPT ![t].at = "ended"]
    /\ procured' = procured \ {t}
    /\ IF GoesToMain(t) THEN semaport' = Append(semaport, t) /\ ssig' = TRUE
                        ELSE UNCHANGED <<semaport, ssig>>
    /\ UNCHANGED <<task, taskport, mask, stack, quitting>>

-----------------------------------------------------------------------------
(* Main: the event loop and Processreply *)

\* Wait returns and clears the signals; SetSignal(0,0), used while set-message
\* nodes are queued, leaves them set.
MainWaits ==
    /\ stack = <<>> /\ quitting = "no" /\ psig /\ ~mask
    /\ mask' = TRUE /\ psig' \in BOOLEAN
    /\ UNCHANGED <<task, proc, port, semas, stack, quitting>>

\* Start Processreply for the message at place i of taskport.
TakeReply(i, below) ==
    /\ port' = Without(port, i)
    /\ stack' = <<Frame("Processreply", port[i].task, port[i], "begin")>> \o below

\* One message for each call from the main loop,
Processtask ==
    /\ stack = <<>> /\ quitting = "no" /\ mask
    /\ mask' = FALSE
    /\ LET loop == <<Frame("Processtask", NoTask, NoMsg, "end")>>
       IN  IF port = <<>> THEN stack' = loop /\ UNCHANGED port
                          ELSE TakeReply(1, loop)
    /\ UNCHANGED <<task, proc, psig, semas, quitting>>

\* Mutant of MoreReplies: the signal is not set again.
NoMoreReplies == FALSE

\* then the signal is set again if there are more.
MoreReplies == port # <<>>
ProcesstaskEnds ==
    /\ At("Processtask", "end")
    /\ psig' = (psig \/ MoreReplies)
    /\ stack' = Tail(stack)
    /\ UNCHANGED <<task, proc, port, mask, semas, quitting>>

\* Mutant of IsReplied: an update of a task without target is not answered.
IsRepliedByTarget(m) == m.kind = "update" /\ ~m.async /\ task[m.task].target

\* A sync update is replied to its sender; any other message is freed.
IsReplied(m) == m.kind = "update" /\ ~m.async
Answer(m) ==
    proc' = IF IsReplied(m) THEN [proc EXCEPT ![m.task].answered = TRUE] ELSE proc

\* An update goes to the target, whose handler runs with PROCESSING set.
ProcessreplyBegins ==
    /\ At("Processreply", "begin")
    /\ LET m == Head(stack).msg
           t == Head(stack).task
       IN  IF m.kind = "update" /\ task[t].target
           THEN /\ task' = [task EXCEPT ![t].flags = @ \cup {"PROCESSING"}]
                /\ stack' = Goto("handler")
                /\ UNCHANGED proc
           ELSE Answer(m) /\ stack' = Goto("end") /\ UNCHANGED task
    /\ UNCHANGED <<taskport, mask, semas, quitting>>

HandlerReturns ==
    /\ At("Processreply", "handler")
    /\ task' = [task EXCEPT ![Head(stack).task].flags = @ \ {"PROCESSING"}]
    /\ Answer(Head(stack).msg)
    /\ stack' = Goto("end")
    /\ UNCHANGED <<taskport, mask, semas, quitting>>

\* The first half of Stoptask, inside task->sema.
SemaFree(t) == proc[t].at # "drain"
\* Mutant of CanBreak: a dead task is signalled too.
CanBreakDead(t) == task[t].state # "NEW"

CanBreak(t) == task[t].state \notin {"DEAD", "NEW"}
BreakSubtask(t) ==
    /\ SemaFree(t)
    /\ proc' = [proc EXCEPT ![t].ctrlC = @ \/ CanBreak(t)]

\* Dodisposetask begins, on top of the activations below.
StartDispose(t, below) ==
    /\ BreakSubtask(t)
    /\ stack' = <<Frame("Dodisposetask", t, NoMsg, "drain")>> \o below

\* Mutant of MustDispose: the disposal that was put off is forgotten.
MustDisposeNever(t) == "MUSTDISPOSE" \in task[t].flags /\ task[t].target

\* A disposal asked for by the handler happens when Processreply is done.
MustDispose(t) == "MUSTDISPOSE" \in task[t].flags
ProcessreplyEnds ==
    /\ At("Processreply", "end")
    /\ LET t == Head(stack).task
       IN  IF MustDispose(t)
           THEN /\ task' = [task EXCEPT ![t].flags = @ \ {"MUSTDISPOSE"}]
                /\ StartDispose(t, Tail(stack))
           ELSE stack' = Tail(stack) /\ UNCHANGED <<task, proc>>
    /\ UNCHANGED <<taskport, mask, semas, quitting>>

-----------------------------------------------------------------------------
(* Main: waiting in Waitformsg and in Dodisposetask *)

\* Waitformsg looks for its message and for any other of the same task.
Awaited == {i \in DOMAIN port : \/ port[i] = Head(stack).msg
                                \/ port[i].task = Head(stack).msg.task}

\* Its own message ends the wait: Starttask frees the startup message, the
\* others go through Processreply.  The signal the wait has cleared is set
\* again.  Another message of the task is processed on the spot.
WaitformsgScans ==
    /\ At("Waitformsg", "scan")
    /\ \E i \in First(Awaited) :
        LET m == Head(stack).msg
        IN IF port[i] # m THEN TakeReply(i, stack) /\ UNCHANGED psig
           ELSE /\ psig' = TRUE
                /\ IF m = Startup
                   THEN port' = Without(port, i) /\ stack' = Tail(stack)
                   ELSE TakeReply(i, Tail(stack))
    /\ UNCHANGED <<task, proc, mask, semas, quitting>>

WaitformsgBlocks ==
    /\ At("Waitformsg", "scan") /\ Awaited = {}
    /\ stack' = Goto("blocked")
    /\ UNCHANGED <<task, proc, taskport, mask, semas, quitting>>

WaitformsgWakes ==
    /\ At("Waitformsg", "blocked") /\ psig
    /\ psig' = FALSE /\ stack' = Goto("scan")
    /\ UNCHANGED <<task, proc, port, mask, semas, quitting>>

\* Processtaskreply: every message of the task that is in taskport.
Repliesof(t) == {i \in DOMAIN port : port[i].task = t}
\* Mutant of NothingLeft: the replies in taskport are left there.
NothingLeftUnread(t) == t \in Task

NothingLeft(t) == Repliesof(t) = {}
Processtaskreply(pc) ==
    LET t == Head(stack).task
    IN  /\ At("Dodisposetask", pc) /\ Repliesof(t) # {}
        /\ \E i \in First(Repliesof(t)) : TakeReply(i, stack)
        /\ UNCHANGED <<task, proc, psig, mask, semas, quitting>>

\* Stoptask queues for runsema; a free semaphore is granted at once.
RunsemaFree(t) == proc[t].at \in {"none", "ended"}
Procures ==
    LET t == Head(stack).task
    IN  /\ At("Dodisposetask", "drain") /\ NothingLeft(t)
        /\ IF RunsemaFree(t)
           THEN semaport' = Append(semaport, t) /\ ssig' = TRUE /\ UNCHANGED procured
           ELSE procured' = procured \cup {t} /\ UNCHANGED <<semaport, ssig>>
        /\ stack' = Goto("wait")
        /\ UNCHANGED <<task, proc, taskport, mask, quitting>>

\* Mutant of Granted: the taskport signal is served before the semaphore.
GrantedSecond(t) == ~psig /\ ssig /\ semaport # <<>> /\ Head(semaport) = t

\* The wait of Stoptask.  A signal takes one message from semaport, and the
\* wait ends if it grants this task's runsema.  Setportsignal makes up for the
\* taskport signal the wait has cleared.
Granted(t) == ssig /\ semaport # <<>> /\ Head(semaport) = t
StoptaskWakes ==
    LET got == Granted(Head(stack).task)
    IN  /\ At("Dodisposetask", "wait") /\ (psig \/ ssig)
        /\ ssig' = FALSE
        /\ semaport' = IF ssig /\ semaport # <<>> THEN Tail(semaport) ELSE semaport
        /\ psig' = got
        /\ stack' = Goto(IF got THEN "final" ELSE IF psig THEN "redrain" ELSE "wait")
        /\ UNCHANGED <<task, proc, port, mask, procured, quitting>>

WaitsAgain ==
    /\ At("Dodisposetask", "redrain") /\ NothingLeft(Head(stack).task)
    /\ stack' = Goto("wait")
    /\ UNCHANGED <<task, proc, taskport, mask, semas, quitting>>

\* The subtask has ended and its messages are processed: the object goes.
Frees ==
    /\ At("Dodisposetask", "final") /\ NothingLeft(Head(stack).task)
    /\ task' = [task EXCEPT ![Head(stack).task].obj = "freed"]
    /\ stack' = Tail(stack)
    /\ UNCHANGED <<proc, taskport, mask, semas, quitting>>

-----------------------------------------------------------------------------
(* Main: what the rest of AWeb calls *)

\* Code of AWeb runs from the event loop or as an update handler.
May(call, t) ==
    \/ stack = <<>> /\ quitting = "no" /\ call \in IdleCalls
    \/ /\ At("Processreply", "handler")
       /\ call \in IF Head(stack).task = t THEN OwnCalls ELSE OtherCalls

\* The callers forget a task once their handler has disposed of it.
Usable(t) == task[t].obj = "live" /\ ~MustDispose(t)

Newtask(t) ==
    /\ May("new", t) /\ task[t].obj = "none"
    /\ task' = [task EXCEPT ![t].obj = "live"]
    /\ UNCHANGED <<proc, taskport, mask, semas, stack, quitting>>

\* Mutant of IsNew: a dead task is started again.
IsNewOrDead(t) == proc[t].at \in {"none", "ended"}

\* AOTSK_Start is heard only by a new task, and the creator sets it before
\* anyone can dispose of the task.  Without a process the task is dead;
\* otherwise main waits for the startup message.
IsNew(t) == task[t].state = "NEW" /\ proc[t].at = "none"
Starttask(t) ==
    /\ May("start", t) /\ task[t].obj = "live" /\ task[t].flags = {}
    /\ IsNew(t)
    /\ \/ task' = [task EXCEPT ![t].state = "DEAD"] /\ UNCHANGED <<proc, stack>>
       \/ /\ proc' = [proc EXCEPT ![t].at = "created"]
          /\ stack' = <<Frame("Waitformsg", t, Startup, "scan")>> \o stack
          /\ UNCHANGED task
    /\ UNCHANGED <<taskport, mask, semas, quitting>>

\* AOTSK_Stop with AOTSK_Async, as every caller sets it.
Stoptask(t) ==
    /\ May("stop", t) /\ Usable(t) /\ BreakSubtask(t)
    /\ UNCHANGED <<task, taskport, mask, semas, stack, quitting>>

\* Send a message.  A sync one is waited for; one that could not be put goes
\* through Processreply at once.
Send(t, kind, async, possible, wait) ==
    LET m == Msg(t, kind, async, task[t].messages + 1)
    IN  /\ Usable(t) /\ SemaFree(t) /\ task[t].messages < MaxMessages
        /\ proc' = IF possible
                   THEN [proc EXCEPT ![t].port = Append(@, m), ![t].sig = TRUE]
                   ELSE proc
        /\ stack' = IF ~possible
                    THEN <<Frame("Processreply", t, m, "begin")>> \o stack
                    ELSE IF wait THEN <<Frame("Waitformsg", t, m, "scan")>> \o stack
                    ELSE stack
        /\ UNCHANGED <<taskport, mask, semas, quitting>>

\* Mutant of CanPut: a message is put to a port that is gone.
CanPutToDead(t) == proc[t].at \notin {"none", "created"}

\* AOTSK_Message with and without AOTSK_Async.
CanPut(t) == task[t].state # "DEAD" /\ HasSubport(t)
Messagetask(t, async) ==
    /\ May(IF async THEN "async" ELSE "sync", t)
    /\ Send(t, "message", async, CanPut(t), ~async)
    /\ task' = [task EXCEPT ![t].messages = @ + 1]

\* The message of Asetattrsasync has no TSMF_ASYNC flag.  It is dropped, here
\* not sent at all, when the subtask cannot take it.
AsetattrsasyncA(t) ==
    /\ May("vanilla", t) /\ CanPut(t)
    /\ Send(t, "vanilla", FALSE, TRUE, FALSE)
    /\ task' = [task EXCEPT ![t].messages = @ + 1]

\* AOTSK_Suspend as Settask decodes it: the second test repeats the first.
Suspendtask(t, async) ==
    /\ Send(t, "suspend", FALSE, task[t].state = "RUN" /\ HasSubport(t), ~async)
    /\ task' = [task EXCEPT ![t].messages = @ + 1, ![t].wanted = TRUE]
Releasetask(t) ==
    /\ task[t].state = "SUSPEND" /\ HasSubport(t)
    /\ Send(t, "release", FALSE, TRUE, FALSE)
    /\ task' = [task EXCEPT ![t].messages = @ + 1, ![t].wanted = FALSE]
SettaskSuspend(t, data, async) ==
    LET suspending == data
        releasing == ~data /\ data
    IN  /\ May("suspend", t) /\ Usable(t)
        /\ IF suspending THEN Suspendtask(t, async)
           ELSE IF releasing THEN Releasetask(t)
           ELSE /\ task' = [task EXCEPT ![t].wanted = FALSE]
                /\ UNCHANGED <<proc, taskport, mask, semas, stack, quitting>>

\* Mutant of InHandler: the task is disposed of inside its own handler.
InHandlerIgnored(t) == "PROCESSING" \in task[t].flags /\ ~task[t].target

\* While the task's update is being processed the disposal is put off, and the
\* target hears no further update.
InHandler(t) == "PROCESSING" \in task[t].flags
Disposetask(t) ==
    /\ task[t].obj = "live" /\ "DISPOSING" \notin task[t].flags
    /\ IF InHandler(t)
       THEN /\ task' = [task EXCEPT ![t].flags = @ \cup {"DISPOSING", "MUSTDISPOSE"},
                                    ![t].target = FALSE]
            /\ UNCHANGED <<proc, stack>>
       ELSE /\ task' = [task EXCEPT ![t].flags = @ \cup {"DISPOSING"}]
            /\ StartDispose(t, stack)
    /\ UNCHANGED <<taskport, mask, semas, quitting>>

Disposes(t) == May("dispose", t) /\ Disposetask(t)

\* The main loop ends.  Deinstalltask disposes of the tasks that are left.
Quits ==
    /\ stack = <<>> /\ quitting = "no" /\ "quit" \in IdleCalls
    /\ quitting' = "deinstall"
    /\ UNCHANGED <<task, proc, taskport, mask, semas, stack>>

Deinstalltask ==
    /\ stack = <<>> /\ quitting = "deinstall"
    /\ \/ \E t \in Task : Disposetask(t)
       \/ /\ \A t \in Task : task[t].obj # "live"
          /\ quitting' = "done"
          /\ UNCHANGED <<task, proc, taskport, mask, semas, stack>>

-----------------------------------------------------------------------------

SubtaskStep(t) ==
    \/ Subtask(t) \/ Waittask(t) \/ \E own \in BOOLEAN : Wakes(t, own)
    \/ Gettaskmsg(t) \/ Answers(t) \/ ScanEnds(t) \/ ScanWakes(t) \/ GetMsg(t)
    \/ Replytaskmsg(t) \/ \E async \in BOOLEAN : Updatetask(t, async)
    \/ UpdateReplied(t) \/ Finishes(t) \/ Returns(t)
    \/ Drains(t) \/ Dies(t) \/ Ends(t)

\* Main on its way through what it is doing.
MainStep ==
    \/ MainWaits \/ Processtask \/ ProcesstaskEnds
    \/ ProcessreplyBegins \/ HandlerReturns \/ ProcessreplyEnds
    \/ WaitformsgScans \/ WaitformsgBlocks \/ WaitformsgWakes
    \/ \E pc \in {"drain", "redrain", "final"} : Processtaskreply(pc)
    \/ Procures \/ StoptaskWakes \/ WaitsAgain \/ Frees
    \/ Deinstalltask

\* Main starts something.
CallStep(t) ==
    \/ Newtask(t) \/ Starttask(t) \/ Stoptask(t) \/ Disposes(t)
    \/ \E async \in BOOLEAN : Messagetask(t, async)
    \/ AsetattrsasyncA(t)
    \/ \E data, async \in BOOLEAN : SettaskSuspend(t, data, async)

Next ==
    \/ \E t \in Task : SubtaskStep(t) \/ CallStep(t)
    \/ MainStep
    \/ Quits

Spec == Init /\ [][Next]_vars

\* Exec schedules every process and main is single threaded.  A subtask keeps
\* the contract of task.h: it looks for messages, replies the one it took,
\* sees the break signal, and then returns.
Fairness ==
    /\ WF_vars(MainStep)
    /\ \A t \in Task :
        /\ WF_vars(\/ Subtask(t) \/ Wakes(t, FALSE) \/ Answers(t) \/ ScanEnds(t)
                   \/ ScanWakes(t) \/ GetMsg(t) \/ UpdateReplied(t)
                   \/ Drains(t) \/ Dies(t) \/ Ends(t))
        /\ SF_vars(Gettaskmsg(t))
        /\ SF_vars(Replytaskmsg(t))
        /\ SF_vars(Returns(t))

FairSpec == Spec /\ Fairness

-----------------------------------------------------------------------------
(* Properties *)

\* The variables have their types.
TypeOK ==
    /\ task \in [Task -> TaskRecord]
    /\ proc \in [Task -> ProcRecord]
    /\ port \in Seq(Message) /\ psig \in BOOLEAN /\ mask \in BOOLEAN
    /\ semaport \in Seq(Task) /\ ssig \in BOOLEAN /\ procured \in SUBSET Task
    /\ stack \in Seq(Frames)
    /\ quitting \in {"no", "deinstall", "done"}

\* A task object is freed only after its subtask has released runsema: the
\* subtask never runs on freed memory (Dodisposetask, Stoptask).
FreedTaskHasEnded ==
    \A t \in Task : task[t].obj = "freed" => proc[t].at \in {"none", "ended"}

\* No message that names a freed task is left in any port, where Processreply
\* would later follow its task pointer.
FreedTaskHasNoMessages ==
    \A t \in Task : task[t].obj = "freed" =>
        proc[t].port = <<>> /\ proc[t].held = NoMsg /\ Repliesof(t) = {}

\* No activation of main still works for a task that has been freed: neither
\* Processreply, which reads task->flags last, nor a wait.
NoFrameOnFreedTask ==
    \A i \in DOMAIN stack :
        stack[i].task # NoTask => task[stack[i].task].obj = "live"

\* The message that a Waitformsg waits for still exists where it can come back
\* from: nobody else in main's recursion has taken and freed it.
AwaitedMessageExists ==
    \A i \in DOMAIN stack : stack[i].op = "Waitformsg" =>
        LET t == stack[i].task
            m == stack[i].msg
        IN  \/ m \in Range(port)
            \/ m = Startup /\ proc[t].at = "created"
            \/ HasSubport(t) /\ m \in Range(proc[t].port)
            \/ m = proc[t].held

\* Stoptask waits for the runsema of t; it is queued for it, or its grant is in
\* semaport.
Stopping(t) ==
    \E i \in DOMAIN stack :
        /\ stack[i].op = "Dodisposetask" /\ stack[i].task = t
        /\ stack[i].pc \in {"wait", "redrain"}
Coming(t) == t \in procured \cup Range(semaport)

\* A Stoptask that waits has its grant coming, unless a Stoptask of another task
\* that a handler began on top of it took the grant and dropped it.  Only that
\* can be the reason: neither its own wait, nor a signal that means something
\* else, nor the end of the subtask before or after Procure loses it.
GrantIsKept ==
    [][\A t \in Task : Stopping(t)' =>
          \/ Coming(t)'
          \/ Stopping(t) /\ ~Coming(t)
          \/ /\ Stopping(t) /\ At("Dodisposetask", "wait") /\ Head(stack).task # t
             /\ semaport # <<>> /\ Head(semaport) = t]_vars

\* Every grant that is queued for or waits in semaport is for a Stoptask that
\* still waits, and there is one: its SemaphoreMessage is on the C stack.
GrantHasItsWaiter ==
    /\ \A t \in Task : Coming(t) => Stopping(t)
    /\ \A i, j \in DOMAIN semaport : semaport[i] = semaport[j] => i = j
    /\ procured \cap Range(semaport) = {}

\* A subtask that waits for the answer to an update has its update in taskport
\* or in main's hands, or has the answer, and only one of them.
SyncUpdateIsPending ==
    \A t \in Task : proc[t].at = "update" =>
        LET m == Msg(t, "update", FALSE, 0)
            queued == {i \in DOMAIN port : port[i] = m}
            inwork == {i \in DOMAIN stack : stack[i].msg = m /\ stack[i].pc # "end"}
        IN  Cardinality(queued) + Cardinality(inwork)
              + (IF proc[t].answered THEN 1 ELSE 0) = 1

\* Main never sleeps over a message: where it would wait with something to
\* process in taskport or a granted semaphore in semaport, the signal is set.
MainIsSignalled ==
    /\ stack = <<>> /\ quitting = "no" /\ port # <<>> => psig \/ mask
    /\ At("Waitformsg", "blocked") /\ Awaited # {} => psig
    /\ At("Dodisposetask", "wait") =>
        /\ Repliesof(Head(stack).task) # {} => psig
        /\ Head(stack).task \in Range(semaport) => ssig

\* Back in the event loop no task is half disposed of: else Deinstalltask,
\* which disposes of the first task until the list is empty, would never end.
NoneLeftDisposing ==
    stack = <<>> => \A t \in Task : task[t].obj = "live" => task[t].flags = {}

\* The object, the process and the disposal as TaskLife sees them.
Process(t) == CASE proc[t].at \in {"none", "ended"} -> proc[t].at [] OTHER -> "runs"
Lives == INSTANCE TaskLife WITH
    object <- [t \in Task |-> task[t].obj],
    process <- [t \in Task |-> Process(t)],
    asked <- {t \in Task : "DISPOSING" \in task[t].flags}

\* The framework implements TaskLife: whatever main calls while it waits for a
\* task, that task is started once, stopped before it is freed, and freed once.
LifeSpec == Lives!Spec

\* Ctrl-C is only ever sent to a process that is inside Subtask and still owns
\* its port: task->state is read under task->sema.
BreaksOnlyTheLiving ==
    [][\A t \in Task : proc'[t].ctrlC /\ ~proc[t].ctrlC => HasSubport(t)]_vars

\* Setting AOTSK_Suspend to FALSE lets a suspended subtask go again: the
\* message that releases it is put to its port.
ResumeReleases ==
    [][\A t \in Task :
        task[t].state = "SUSPEND" /\ task[t].wanted /\ ~task'[t].wanted =>
        \E i \in DOMAIN proc'[t].port : proc'[t].port[i].kind = "release"]_vars

\* Every wait for a message of a task comes to an end.
SyncCallReturns ==
    \A t \in Task :
        (\E i \in DOMAIN stack : stack[i].op = "Waitformsg" /\ stack[i].task = t)
        ~> (\A i \in DOMAIN stack : stack[i].op = "Waitformsg" => stack[i].task # t)

\* A disposed task stops and is freed.
DisposalEnds ==
    \A t \in Task : ("DISPOSING" \in task[t].flags) ~> (task[t].obj = "freed")

\* Quitting ends, with every task gone.
QuitEnds == (quitting = "deinstall") ~> (quitting = "done")
=============================================================================
