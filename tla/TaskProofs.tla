----------------------------- MODULE TaskProofs -----------------------------
(***************************************************************************)
(* What is proved of Task for every set of tasks, every set of calls and   *)
(* every bound: the types, that no task object is freed under a running    *)
(* process and that Ctrl-C is only sent to a process inside Subtask; that  *)
(* a freed task has no message left, that no disposal is forgotten and     *)
(* that every sync update is answered once.                                *)
(***************************************************************************)
EXTENDS Task, TLAPS, SequenceTheorems, FiniteSetTheorems

\* The messages that have a task, and the subtasks that hold only those.
GoodMsg == [task: Task, kind: Kinds, async: BOOLEAN, id: Nat]
GoodProc ==
    [at: Places, port: Seq(GoodMsg), sig: BOOLEAN, ctrlC: BOOLEAN,
     held: GoodMsg \cup {NoMsg}, suspend: BOOLEAN, leaving: BOOLEAN,
     answered: BOOLEAN, updates: Nat]

\* Every activation but the one of the event loop works for a task, and a wait
\* is for the startup message or for a message of a task.
GoodFrame ==
    {f \in Frames :
        /\ f.op # "Processtask" => f.task \in Task
        /\ f.op = "Processreply" => f.msg \in GoodMsg
        /\ f.op = "Waitformsg" => f.msg = Startup \/ f.msg \in GoodMsg}

Typed ==
    /\ task \in [Task -> TaskRecord]
    /\ proc \in [Task -> GoodProc]
    /\ port \in Seq(Message) /\ psig \in BOOLEAN /\ mask \in BOOLEAN
    /\ semaport \in Seq(Task) /\ ssig \in BOOLEAN /\ procured \in SUBSET Task
    /\ stack \in Seq(GoodFrame)
    /\ quitting \in {"no", "deinstall", "done"}

\* Starttask waits for the startup message of t, and nothing runs above it.
AwaitsStartup(t) ==
    /\ stack # <<>> /\ Head(stack).op = "Waitformsg"
    /\ Head(stack).msg = Startup /\ Head(stack).task = t

\* The startup message has no task, so Processreply must never meet it: while
\* it is in taskport it is the only one, and main waits for it.
StartupAwaited ==
    \/ /\ port \in Seq(GoodMsg)
       /\ \A t \in Task : proc[t].at = "created" => AwaitsStartup(t)
    \/ /\ \E t \in Task : AwaitsStartup(t)
       /\ \A t \in Task : proc[t].at # "created"
       /\ \E i \in DOMAIN port :
            /\ port[i] = Startup
            /\ \A j \in DOMAIN port \ {i} : port[j] \in GoodMsg

TypeInv == Typed /\ StartupAwaited

-----------------------------------------------------------------------------
(* Sequences *)

\* What is left when one element is taken out of a sequence is made of the
\* others (Remove of a message of taskport or of a subport).
LEMMA WithoutType ==
    ASSUME NEW S, NEW T, NEW s \in Seq(S), NEW i \in DOMAIN s,
           \A j \in DOMAIN s \ {i} : s[j] \in T
    PROVE  Without(s, i) \in Seq(T)
<1>1. DOMAIN s = 1..Len(s) /\ Len(s) \in Nat
    BY LenProperties
<1>2. i \in Int /\ i - 1 \in Int /\ i + 1 \in Int /\ 1 \in Int /\ Len(s) \in Int
    BY <1>1
<1>3. \A j \in 1..(i - 1) : s[j] \in T
    BY <1>1
<1>4. \A j \in (i + 1)..Len(s) : s[j] \in T
    BY <1>1
<1>5. SubSeq(s, 1, i - 1) \in Seq(T)
    BY <1>2, <1>3, SubSeqProperties
<1>6. SubSeq(s, i + 1, Len(s)) \in Seq(T)
    BY <1>2, <1>4, SubSeqProperties
<1> QED
    BY <1>5, <1>6, ConcatProperties DEF Without

\* An element put in front of a sequence (an activation on top of another).
LEMMA PushType ==
    ASSUME NEW S, NEW s \in Seq(S), NEW e \in S
    PROVE  <<e>> \o s \in Seq(S) /\ <<e>> \o s # <<>> /\ Head(<<e>> \o s) = e
<1>1. <<e>> \in Seq(S) /\ Len(<<e>>) = 1 /\ <<e>>[1] = e
    OBVIOUS
<1>2. /\ <<e>> \o s \in Seq(S)
      /\ Len(<<e>> \o s) = 1 + Len(s)
      /\ (<<e>> \o s)[1] = e
    BY <1>1, ConcatProperties, LenProperties
<1>3. <<e>> \o s # <<>>
    BY <1>2, LenProperties, EmptySeq
<1> QED
    BY <1>2, <1>3

\* The innermost activation and the others.
LEMMA TopType ==
    ASSUME Typed, stack # <<>>
    PROVE  Head(stack) \in GoodFrame /\ Tail(stack) \in Seq(GoodFrame)
BY HeadTailProperties DEF Typed

\* A change of pc keeps everything else of the innermost activation.
LEMMA GotoType ==
    ASSUME Typed, stack # <<>>,
           NEW pc \in {"begin", "handler", "end", "scan", "blocked",
                       "drain", "wait", "redrain", "final"}
    PROVE  /\ Goto(pc) \in Seq(GoodFrame) /\ Goto(pc) # <<>>
           /\ Head(Goto(pc)) = [Head(stack) EXCEPT !.pc = pc]
<1>1. [Head(stack) EXCEPT !.pc = pc] \in GoodFrame
    BY TopType DEF GoodFrame, Frames
<1> QED
    BY <1>1, TopType, PushType DEF Goto

-----------------------------------------------------------------------------
(* Types *)

\* A step of a subtask inside its own process keeps the types.
LEMMA MovesTyped ==
    ASSUME Typed, NEW t \in Task, NEW rec \in GoodProc, Moves(t, rec)
    PROVE  Typed'
BY DEF Typed, Moves, semas, taskport

\* So does one that puts a message to taskport and stores a new task record.
LEMMA MovesAndPutsTyped ==
    ASSUME Typed, NEW t \in Task, NEW rec \in GoodProc, NEW m \in Message,
           MovesAndPuts(t, rec, m),
           NEW new \in TaskRecord, task' = [task EXCEPT ![t] = new]
    PROVE  Typed'
<1>1. port' \in Seq(Message)
    BY AppendProperties DEF Typed, MovesAndPuts, PutPort
<1> QED
    BY <1>1 DEF Typed, MovesAndPuts, PutPort, semas

\* A subtask changes its own record and puts messages of its own to taskport.
LEMMA SubtaskTyped ==
    ASSUME Typed, NEW t \in Task, SubtaskStep(t)
    PROVE  Typed'
<1>0. /\ proc[t] \in GoodProc /\ task[t] \in TaskRecord
      /\ task = [task EXCEPT ![t] = task[t]]
    BY DEF Typed
<1>1. GoodMsg \subseteq Message /\ Startup \in Message
    BY DEF GoodMsg, Message, Startup, Msg, Kinds
<1>2. CASE Waittask(t)
    BY <1>2, <1>0, MovesTyped DEF Waittask, GoodProc, Places
<1>3. CASE \E own \in BOOLEAN : Wakes(t, own)
    BY <1>3, <1>0, MovesTyped DEF Wakes, GoodProc, Places
<1>4. CASE Gettaskmsg(t)
    BY <1>4, <1>0, MovesTyped DEF Gettaskmsg, GoodProc, Places
<1>5. CASE ScanEnds(t)
    BY <1>5, <1>0, MovesTyped DEF ScanEnds, GoodProc, Places
<1>6. CASE ScanWakes(t)
    BY <1>6, <1>0, MovesTyped DEF ScanWakes, GoodProc, Places
<1>7. CASE UpdateReplied(t)
    BY <1>7, <1>0, MovesTyped DEF UpdateReplied, GoodProc, Places
<1>8. CASE Finishes(t)
    BY <1>8, <1>0, MovesTyped DEF Finishes, GoodProc, Places
<1>9. CASE Returns(t)
    BY <1>9, <1>0, MovesTyped DEF Returns, GoodProc, Places
<1>10. CASE GetMsg(t)
  <2>1. CASE proc[t].port = <<>>
      BY <1>10, <2>1, <1>0, MovesTyped DEF GetMsg, GoodProc, Places
  <2>2. CASE proc[t].port # <<>>
    <3>1. Head(proc[t].port) \in GoodMsg /\ Tail(proc[t].port) \in Seq(GoodMsg)
        BY <2>2, <1>0, HeadTailProperties DEF GoodProc
    <3> QED
        BY <1>10, <2>2, <3>1, <1>0, MovesTyped DEF GetMsg, GoodProc, Places
  <2> QED
      BY <2>1, <2>2
<1>11. CASE Subtask(t)
  <2>1. PICK ok \in BOOLEAN :
            /\ MovesAndPuts(t, [proc[t] EXCEPT !.at = IF ok THEN "run" ELSE "dead"],
                            Startup)
            /\ task' = [task EXCEPT ![t].state = IF ok THEN "RUN" ELSE "DEAD"]
      BY <1>11 DEF Subtask
  <2>2. [proc[t] EXCEPT !.at = IF ok THEN "run" ELSE "dead"] \in GoodProc
      BY <1>0 DEF GoodProc, Places
  <2>3. [task[t] EXCEPT !.state = IF ok THEN "RUN" ELSE "DEAD"] \in TaskRecord
      BY <1>0 DEF TaskRecord
  <2> QED
      BY <2>1, <2>2, <2>3, <1>1, MovesAndPutsTyped
<1>12. CASE Answers(t)
  <2> DEFINE Kind(i) == proc[t].port[i].kind
             Rec(i) == [proc[t] EXCEPT !.port = Without(@, i),
                !.suspend = (Kind(i) = "suspend") \/ (@ /\ Kind(i) # "release")]
  <2>1. PICK i \in First(OwnAnswers(t)) :
            /\ MovesAndPuts(t, Rec(i), proc[t].port[i])
            /\ task' = [task EXCEPT ![t].state = StateAfter(Kind(i), @)]
      BY <1>12 DEF Answers
  <2>2. i \in DOMAIN proc[t].port
      BY DEF First, OwnAnswers
  <2>3. proc[t].port \in Seq(GoodMsg)
      BY <1>0 DEF GoodProc
  <2>4. \A j \in DOMAIN proc[t].port : proc[t].port[j] \in GoodMsg
      BY <2>3
  <2>5. Without(proc[t].port, i) \in Seq(GoodMsg)
      BY <2>2, <2>3, <2>4, WithoutType
  <2>6. \A b \in BOOLEAN, q \in Seq(GoodMsg) :
            [proc[t] EXCEPT !.port = q, !.suspend = b] \in GoodProc
      BY <1>0 DEF GoodProc
  <2>7. Rec(i) \in GoodProc
      BY <2>5, <2>6
  <2>8. [task[t] EXCEPT !.state = StateAfter(Kind(i), @)] \in TaskRecord
      BY <1>0 DEF TaskRecord, StateAfter
  <2> HIDE DEF Rec, Kind
  <2> QED
      BY <2>1, <2>2, <2>4, <2>7, <2>8, <1>1, MovesAndPutsTyped
<1>13. CASE Replytaskmsg(t)
  <2>1. proc[t].held \in GoodMsg
      BY <1>13, <1>0 DEF Replytaskmsg, GoodProc
  <2>2. [proc[t] EXCEPT !.held = NoMsg] \in GoodProc
      BY <1>0 DEF GoodProc
  <2> QED
      BY <1>13, <2>1, <2>2, <1>0, <1>1, MovesAndPutsTyped DEF Replytaskmsg
<1>14. CASE \E async \in BOOLEAN : Updatetask(t, async)
  <2>1. PICK async \in BOOLEAN : Updatetask(t, async)
      BY <1>14
  <2>0. (IF async THEN "run" ELSE "update") \in Places /\ proc[t].updates + 1 \in Nat
      BY <1>0 DEF GoodProc, Places
  <2>2. [proc[t] EXCEPT !.at = IF async THEN "run" ELSE "update",
                        !.updates = @ + 1] \in GoodProc
      BY <2>0, <1>0 DEF GoodProc
  <2>3. Msg(t, "update", async, 0) \in Message
      BY DEF Msg, Message, Kinds
  <2> QED
      BY <2>1, <2>2, <2>3, <1>0, MovesAndPutsTyped DEF Updatetask
<1>15. CASE Drains(t)
  <2>1. Head(proc[t].port) \in GoodMsg /\ Tail(proc[t].port) \in Seq(GoodMsg)
      BY <1>15, <1>0, HeadTailProperties DEF Drains, GoodProc
  <2>2. [proc[t] EXCEPT !.port = Tail(@)] \in GoodProc
      BY <2>1, <1>0 DEF GoodProc
  <2> QED
      BY <1>15, <2>1, <2>2, <1>0, <1>1, MovesAndPutsTyped DEF Drains
<1>16. CASE Dies(t)
  <2>1. [proc[t] EXCEPT !.at = "dead"] \in GoodProc
      BY <1>0 DEF GoodProc, Places
  <2>2. [task[t] EXCEPT !.state = "DEAD"] \in TaskRecord
      BY <1>0 DEF TaskRecord
  <2> QED
      BY <1>16, <2>1, <2>2 DEF Dies, Typed, semas, taskport
<1>17. CASE Ends(t)
  <2>1. [proc[t] EXCEPT !.at = "ended"] \in GoodProc
      BY <1>0 DEF GoodProc, Places
  <2>2. semaport' \in Seq(Task) /\ ssig' \in BOOLEAN
    <3>0. semaport \in Seq(Task) /\ Append(semaport, t) \in Seq(Task)
        BY AppendProperties DEF Typed
    <3>1. CASE GoesToMain(t)
        BY <1>17, <3>0, <3>1 DEF Ends
    <3>2. CASE ~GoesToMain(t)
        BY <1>17, <3>2 DEF Ends, Typed
    <3> QED
        BY <3>1, <3>2
  <2> QED
      BY <1>17, <2>1, <2>2 DEF Ends, Typed, taskport
<1> QED
    BY <1>2, <1>3, <1>4, <1>5, <1>6, <1>7, <1>8, <1>9, <1>10, <1>11, <1>12,
       <1>13, <1>14, <1>15, <1>16, <1>17 DEF SubtaskStep

\* What a step of subtask t leaves alone, and what it puts to taskport.
LEMMA SubtaskEffect ==
    ASSUME Typed, NEW t \in Task, SubtaskStep(t)
    PROVE  /\ UNCHANGED <<mask, stack, quitting>>
           /\ \A u \in Task \ {t} : proc'[u] = proc[u]
           /\ \A u \in Task : task'[u].obj = task[u].obj /\ task'[u].flags = task[u].flags
           /\ \/ proc[t].at = "created" /\ port' = Append(port, Startup)
              \/ /\ proc[t].at # "created"
                 /\ port' = port \/ \E m \in GoodMsg : port' = Append(port, m)
           /\ proc'[t].at # "created"
<1>. USE DEF Moves, MovesAndPuts, PutPort, taskport, Typed
<1>0. proc[t] \in GoodProc /\ task[t] \in TaskRecord
    OBVIOUS
<1>1. CASE Subtask(t)
    BY <1>1, <1>0 DEF Subtask, GoodProc, TaskRecord
<1>3. CASE Answers(t)
  <2>1. PICK i \in First(OwnAnswers(t)) :
            /\ port' = Append(port, proc[t].port[i])
            /\ proc' = [proc EXCEPT ![t].port = Without(@, i),
                          ![t].suspend = (proc[t].port[i].kind = "suspend")
                                  \/ (@ /\ proc[t].port[i].kind # "release")]
            /\ task' = [task EXCEPT ![t].state = StateAfter(proc[t].port[i].kind, @)]
            /\ UNCHANGED <<mask, stack, quitting>>
      BY <1>3 DEF Answers
  <2>2. i \in DOMAIN proc[t].port
      BY DEF First, OwnAnswers
  <2>3. proc[t].port[i] \in GoodMsg
      BY <2>2, <1>0 DEF GoodProc
  <2> QED
      BY <2>1, <2>3, <1>3, <1>0 DEF Answers, GoodProc, TaskRecord
<1>4. CASE Replytaskmsg(t)
    BY <1>4, <1>0 DEF Replytaskmsg, GoodProc
<1>5. CASE \E async \in BOOLEAN : Updatetask(t, async)
  <2>1. \A async \in BOOLEAN : Msg(t, "update", async, 0) \in GoodMsg
      BY DEF Msg, GoodMsg, Kinds
  <2> QED
      BY <2>1, <1>5, <1>0 DEF Updatetask, GoodProc
<1>6. CASE Drains(t)
  <2>1. Head(proc[t].port) \in GoodMsg
      BY <1>6, <1>0, HeadTailProperties DEF Drains, GoodProc
  <2> QED
      BY <1>6, <2>1, <1>0 DEF Drains, GoodProc
<1>7. CASE Dies(t)
    BY <1>7, <1>0 DEF Dies, GoodProc, TaskRecord
<1>17. CASE Ends(t)
    BY <1>17, <1>0 DEF Ends, GoodProc
<1>8. CASE Waittask(t)
    BY <1>8, <1>0 DEF Waittask, Works, Free, GoodProc
<1>9. CASE \E own \in BOOLEAN : Wakes(t, own)
    BY <1>9, <1>0 DEF Wakes, GoodProc
<1>10. CASE Gettaskmsg(t)
    BY <1>10, <1>0 DEF Gettaskmsg, Works, Free, GoodProc
<1>11. CASE ScanEnds(t)
    BY <1>11, <1>0 DEF ScanEnds, GoodProc
<1>12. CASE ScanWakes(t)
    BY <1>12, <1>0 DEF ScanWakes, GoodProc
<1>13. CASE UpdateReplied(t)
    BY <1>13, <1>0 DEF UpdateReplied, GoodProc
<1>14. CASE Finishes(t)
    BY <1>14, <1>0 DEF Finishes, Works, Free, GoodProc
<1>15. CASE Returns(t)
    BY <1>15, <1>0 DEF Returns, Free, GoodProc
<1>16. CASE GetMsg(t)
    BY <1>16, <1>0 DEF GetMsg, GoodProc
<1> QED
    BY <1>1, <1>3, <1>4, <1>5, <1>6, <1>7, <1>8, <1>9, <1>10, <1>11, <1>12,
       <1>13, <1>14, <1>15, <1>16, <1>17 DEF SubtaskStep

\* The startup message stays the only message without a task.
LEMMA SubtaskStartup ==
    ASSUME TypeInv, NEW t \in Task, SubtaskStep(t)
    PROVE  StartupAwaited'
<1>. USE DEF TypeInv
<1>1. \A u \in Task : AwaitsStartup(u)' <=> AwaitsStartup(u)
    BY SubtaskEffect DEF AwaitsStartup
<1>2. DOMAIN port = 1..Len(port) /\ Len(port) \in Nat
    BY LenProperties DEF Typed
<1>3. \A m \in Message : /\ DOMAIN Append(port, m) = 1..(Len(port) + 1)
                         /\ \A i \in DOMAIN port : Append(port, m)[i] = port[i]
                         /\ Append(port, m)[Len(port) + 1] = m
    BY AppendProperties, LenProperties DEF Typed
<1>4. GoodMsg \subseteq Message /\ Startup \in Message
    BY DEF GoodMsg, Message, Startup, Msg, Kinds
<1>5. ASSUME port \in Seq(GoodMsg), \A u \in Task : proc[u].at = "created" => AwaitsStartup(u)
      PROVE  StartupAwaited'
  <2>1. CASE proc[t].at = "created"
    <3>1. port' = Append(port, Startup)
        BY <2>1, SubtaskEffect
    <3>2. \A u \in Task : proc'[u].at # "created"
        BY <1>5, <2>1, SubtaskEffect DEF AwaitsStartup
    <3>3. \A j \in DOMAIN port : port[j] \in GoodMsg
        BY <1>5
    <3>4. /\ Len(port) + 1 \in DOMAIN port'
          /\ port'[Len(port) + 1] = Startup
          /\ \A j \in DOMAIN port' \ {Len(port) + 1} : port'[j] \in GoodMsg
        BY <3>1, <3>3, <1>2, <1>3, <1>4
    <3> QED
        BY <1>1, <1>5, <2>1, <3>2, <3>4 DEF StartupAwaited
  <2>2. CASE proc[t].at # "created"
    <3>1. port' \in Seq(GoodMsg)
        BY <1>5, <2>2, SubtaskEffect, AppendProperties
    <3> QED
        BY <1>1, <1>5, <2>2, <3>1, SubtaskEffect DEF StartupAwaited
  <2> QED
      BY <2>1, <2>2
<1>6. ASSUME NEW w \in Task, AwaitsStartup(w), \A u \in Task : proc[u].at # "created",
             NEW i \in DOMAIN port, port[i] = Startup,
             \A j \in DOMAIN port \ {i} : port[j] \in GoodMsg
      PROVE  StartupAwaited'
  <2>1. \A u \in Task : proc'[u].at # "created"
      BY <1>6, SubtaskEffect
  <2>2. /\ i \in DOMAIN port' /\ port'[i] = Startup
        /\ \A j \in DOMAIN port' \ {i} : port'[j] \in GoodMsg
    <3>1. CASE port' = port
        BY <3>1, <1>6
    <3>2. ASSUME NEW m \in GoodMsg, port' = Append(port, m)
          PROVE  /\ i \in DOMAIN port' /\ port'[i] = Startup
                 /\ \A j \in DOMAIN port' \ {i} : port'[j] \in GoodMsg
        BY <3>2, <1>2, <1>3, <1>4, <1>6
    <3> QED
        BY <3>1, <3>2, <1>6, SubtaskEffect
  <2> QED
      BY <1>1, <1>6, <2>1, <2>2 DEF StartupAwaited
<1> QED
    BY <1>5, <1>6 DEF StartupAwaited

-----------------------------------------------------------------------------
(* Main *)

\* Unless main waits for a startup message, taskport holds only messages of
\* tasks and no process is still to be heard of.
LEMMA NoStartup ==
    ASSUME TypeInv, \A t \in Task : ~AwaitsStartup(t)
    PROVE  /\ port \in Seq(GoodMsg)
           /\ \A t \in Task : proc[t].at # "created"
           /\ \A i \in DOMAIN port : port[i] \in GoodMsg
<1>1. /\ port \in Seq(GoodMsg)
      /\ \A t \in Task : proc[t].at # "created"
    BY DEF TypeInv, StartupAwaited
<1> QED
    BY <1>1

\* Where main runs code of AWeb, or is not in Waitformsg, that is so.
LEMMA NotWaiting ==
    ASSUME stack = <<>> \/ Head(stack).op # "Waitformsg"
    PROVE  \A t \in Task : ~AwaitsStartup(t)
BY DEF AwaitsStartup

\* TakeReply begins Processreply on a message of a task.
LEMMA TakeReplyType ==
    ASSUME NEW S, port \in Seq(S), NEW i \in DOMAIN port,
           \A j \in DOMAIN port \ {i} : port[j] \in S, port[i] \in GoodMsg,
           NEW below \in Seq(GoodFrame), TakeReply(i, below)
    PROVE  port' \in Seq(S) /\ stack' \in Seq(GoodFrame)
<1>1. Frame("Processreply", port[i].task, port[i], "begin") \in GoodFrame
    BY DEF Frame, GoodFrame, Frames, GoodMsg, Message
<1>2. stack' \in Seq(GoodFrame)
    BY <1>1, PushType DEF TakeReply
<1> QED
    BY <1>2, WithoutType DEF TakeReply

\* A step that keeps the data of the tasks and leaves no startup message.
LEMMA KeepsTypeInv ==
    ASSUME TypeInv,
           UNCHANGED <<semas, quitting>> \/
               /\ semaport' \in Seq(Task) /\ ssig' \in BOOLEAN
               /\ procured' \in SUBSET Task
               /\ quitting' \in {"no", "deinstall", "done"},
           task' \in [Task -> TaskRecord], proc' \in [Task -> GoodProc],
           \A t \in Task : proc'[t].at = proc[t].at,
           \A t \in Task : ~AwaitsStartup(t),
           port' \in Seq(GoodMsg), psig' \in BOOLEAN, mask' \in BOOLEAN,
           stack' \in Seq(GoodFrame)
    PROVE  TypeInv'
<1>1. GoodMsg \subseteq Message
    BY DEF GoodMsg, Message
<1>2. port' \in Seq(Message)
    BY <1>1, SeqMonotonic
<1>3. Typed'
    BY <1>2 DEF TypeInv, Typed, semas
<1>4. \A t \in Task : proc'[t].at # "created"
    BY NoStartup
<1> QED
    BY <1>3, <1>4 DEF TypeInv, StartupAwaited

\* Other flags leave a task record a task record.
LEMMA FlagsType ==
    ASSUME Typed, NEW t \in Task, NEW F \in SUBSET Flags
    PROVE  [task EXCEPT ![t].flags = F] \in [Task -> TaskRecord]
<1>1. task[t] \in TaskRecord
    BY DEF Typed
<1>2. [task[t] EXCEPT !.flags = F] \in TaskRecord
    BY <1>1 DEF TaskRecord
<1> QED
    BY <1>2 DEF Typed

\* The answer to an update changes no more than the record of its sender.
LEMMA AnswerType ==
    ASSUME Typed, NEW m \in GoodMsg, Answer(m)
    PROVE  proc' \in [Task -> GoodProc] /\ \A u \in Task : proc'[u].at = proc[u].at
<1>1. m.task \in Task
    BY DEF GoodMsg
<1>2. proc[m.task] \in GoodProc
    BY <1>1 DEF Typed
<1>3. /\ [proc[m.task] EXCEPT !.answered = TRUE] \in GoodProc
      /\ [proc[m.task] EXCEPT !.answered = TRUE].at = proc[m.task].at
    BY <1>2 DEF GoodProc
<1>4. proc' = proc \/ proc' = [proc EXCEPT ![m.task] =
                                 [proc[m.task] EXCEPT !.answered = TRUE]]
    BY DEF Answer
<1> QED
    BY <1>1, <1>3, <1>4 DEF Typed

\* Dodisposetask begins on a task, with Ctrl-C to its process perhaps.
LEMMA StartDisposeType ==
    ASSUME Typed, NEW t \in Task, NEW below \in Seq(GoodFrame), StartDispose(t, below)
    PROVE  /\ proc' \in [Task -> GoodProc] /\ \A u \in Task : proc'[u].at = proc[u].at
           /\ stack' \in Seq(GoodFrame)
<1>1. proc[t] \in GoodProc
    BY DEF Typed
<1>2. \A b \in BOOLEAN : /\ [proc[t] EXCEPT !.ctrlC = b] \in GoodProc
                         /\ [proc[t] EXCEPT !.ctrlC = b].at = proc[t].at
    BY <1>1 DEF GoodProc
<1>3. \E b \in BOOLEAN : proc' = [proc EXCEPT ![t] = [proc[t] EXCEPT !.ctrlC = b]]
    BY <1>1 DEF StartDispose, BreakSubtask, CanBreak
<1>4. Frame("Dodisposetask", t, NoMsg, "drain") \in GoodFrame
    BY DEF Frame, GoodFrame, Frames, NoMsg, Msg, Message, Kinds
<1> QED
    BY <1>2, <1>3, <1>4, PushType DEF Typed, StartDispose

\* Disposetask, from the event loop, a handler or Deinstalltask.
LEMMA DisposetaskTypeInv ==
    ASSUME TypeInv, \A u \in Task : ~AwaitsStartup(u),
           NEW t \in Task, Disposetask(t)
    PROVE  TypeInv'
<1>0. Typed /\ stack \in Seq(GoodFrame) /\ task[t].flags \in SUBSET Flags
    BY DEF TypeInv, Typed, TaskRecord
<1>1. CASE InHandler(t)
  <2>1. task[t].flags \cup {"DISPOSING", "MUSTDISPOSE"} \in SUBSET Flags
      BY <1>0 DEF Flags
  <2>2. task' \in [Task -> TaskRecord]
    <3>1. [task[t] EXCEPT !.flags = @ \cup {"DISPOSING", "MUSTDISPOSE"},
                          !.target = FALSE] \in TaskRecord
        BY <1>0, <2>1 DEF Typed, TaskRecord
    <3>2. task' = [task EXCEPT ![t] =
                     [task[t] EXCEPT !.flags = @ \cup {"DISPOSING", "MUSTDISPOSE"},
                                     !.target = FALSE]]
        BY <1>1 DEF Disposetask
    <3> QED
        BY <1>0, <3>1, <3>2 DEF Typed
  <2> QED
      BY <1>0, <1>1, <2>2, NoStartup, KeepsTypeInv DEF Disposetask, Typed, taskport
<1>2. CASE ~InHandler(t)
  <2>1. task[t].flags \cup {"DISPOSING"} \in SUBSET Flags
      BY <1>0 DEF Flags
  <2>2. task' = [task EXCEPT ![t].flags = @ \cup {"DISPOSING"}]
      BY <1>2 DEF Disposetask
  <2>3. task' \in [Task -> TaskRecord]
      BY <1>0, <2>1, <2>2, FlagsType
  <2>4. StartDispose(t, stack)
      BY <1>2 DEF Disposetask
  <2> QED
      BY <1>0, <1>2, <2>3, <2>4, NoStartup, StartDisposeType, KeepsTypeInv
         DEF Disposetask, Typed, taskport
<1> QED
    BY <1>1, <1>2

\* Every step of main keeps the types, the recursion included.
LEMMA MainTypeInv ==
    ASSUME TypeInv, MainStep
    PROVE  TypeInv'
<1>0. Typed
    BY DEF TypeInv
<1>1. CASE MainWaits
  <2>1. \A t \in Task : ~AwaitsStartup(t)
      BY <1>1, NotWaiting DEF MainWaits
  <2> QED
      BY <1>0, <1>1, <2>1, NoStartup, KeepsTypeInv DEF MainWaits, Typed
<1>2. CASE Processtask
  <2> DEFINE loop == <<Frame("Processtask", NoTask, NoMsg, "end")>>
  <2>1. \A t \in Task : ~AwaitsStartup(t)
      BY <1>2, NotWaiting DEF Processtask
  <2>2. Frame("Processtask", NoTask, NoMsg, "end") \in GoodFrame
      BY DEF Frame, GoodFrame, Frames, NoMsg, Msg, Message, Kinds
  <2>3. loop \in Seq(GoodFrame)
      BY <2>2
  <2>4. port' \in Seq(GoodMsg) /\ stack' \in Seq(GoodFrame)
    <3>1. CASE port = <<>>
        BY <1>2, <2>1, <2>3, <3>1, NoStartup DEF Processtask
    <3>2. CASE port # <<>>
      <4>1. TakeReply(1, loop) /\ 1 \in DOMAIN port
          BY <1>0, <1>2, <3>2, EmptySeq, LenProperties DEF Processtask, Typed
      <4> QED
          BY <4>1, <2>1, <2>3, NoStartup, TakeReplyType
    <3> QED
        BY <3>1, <3>2
  <2> QED
      BY <1>0, <1>2, <2>1, <2>4, KeepsTypeInv DEF Processtask, Typed
<1>3. CASE ProcesstaskEnds
  <2>1. \A t \in Task : ~AwaitsStartup(t)
      BY <1>3, NotWaiting DEF ProcesstaskEnds, At
  <2>2. stack' \in Seq(GoodFrame) /\ psig' \in BOOLEAN
      BY <1>0, <1>3, TopType DEF ProcesstaskEnds, At, MoreReplies, Typed
  <2> QED
      BY <1>0, <1>3, <2>1, <2>2, NoStartup, KeepsTypeInv DEF ProcesstaskEnds, Typed
<1>4. CASE ProcessreplyBegins
  <2> DEFINE t == Head(stack).task
             m == Head(stack).msg
  <2>1. \A u \in Task : ~AwaitsStartup(u)
      BY <1>4, NotWaiting DEF ProcessreplyBegins, At
  <2>2. stack # <<>> /\ t \in Task /\ m \in GoodMsg
      BY <1>0, <1>4, TopType DEF ProcessreplyBegins, At, GoodFrame
  <2>3. stack' \in Seq(GoodFrame)
      BY <1>0, <1>4, <2>2, GotoType DEF ProcessreplyBegins
  <2>4. task' = task \/ task' = [task EXCEPT ![t].flags = @ \cup {"PROCESSING"}]
      BY <1>4 DEF ProcessreplyBegins
  <2>5. task[t].flags \cup {"PROCESSING"} \in SUBSET Flags
      BY <1>0, <2>2 DEF Typed, TaskRecord, Flags
  <2>6. task' \in [Task -> TaskRecord]
    <3>1. [task EXCEPT ![t].flags = @ \cup {"PROCESSING"}] \in [Task -> TaskRecord]
        BY <1>0, <2>2, <2>5, FlagsType
    <3> QED
        BY <1>0, <2>4, <3>1 DEF Typed
  <2>7. proc' \in [Task -> GoodProc] /\ \A u \in Task : proc'[u].at = proc[u].at
      BY <1>0, <1>4, <2>2, AnswerType DEF ProcessreplyBegins, Typed
  <2> QED
      BY <1>0, <1>4, <2>1, <2>3, <2>6, <2>7, NoStartup, KeepsTypeInv
         DEF ProcessreplyBegins, Typed, taskport
<1>5. CASE HandlerReturns
  <2> DEFINE t == Head(stack).task
             m == Head(stack).msg
  <2>1. \A u \in Task : ~AwaitsStartup(u)
      BY <1>5, NotWaiting DEF HandlerReturns, At
  <2>2. stack # <<>> /\ t \in Task /\ m \in GoodMsg
      BY <1>0, <1>5, TopType DEF HandlerReturns, At, GoodFrame
  <2>3. stack' \in Seq(GoodFrame)
      BY <1>0, <1>5, <2>2, GotoType DEF HandlerReturns
  <2>4. task' \in [Task -> TaskRecord]
    <3>1. task[t].flags \ {"PROCESSING"} \in SUBSET Flags
        BY <1>0, <2>2 DEF Typed, TaskRecord
    <3> QED
        BY <1>0, <1>5, <2>2, <3>1, FlagsType DEF HandlerReturns
  <2>5. proc' \in [Task -> GoodProc] /\ \A u \in Task : proc'[u].at = proc[u].at
      BY <1>0, <1>5, <2>2, AnswerType DEF HandlerReturns
  <2> QED
      BY <1>0, <1>5, <2>1, <2>3, <2>4, <2>5, NoStartup, KeepsTypeInv
         DEF HandlerReturns, Typed, taskport
<1>6. CASE ProcessreplyEnds
  <2> DEFINE t == Head(stack).task
  <2>1. \A u \in Task : ~AwaitsStartup(u)
      BY <1>6, NotWaiting DEF ProcessreplyEnds, At
  <2>2. stack # <<>> /\ t \in Task /\ Tail(stack) \in Seq(GoodFrame)
      BY <1>0, <1>6, TopType DEF ProcessreplyEnds, At, GoodFrame
  <2>3. CASE MustDispose(t)
    <3>1. task[t].flags \ {"MUSTDISPOSE"} \in SUBSET Flags
        BY <1>0, <2>2 DEF Typed, TaskRecord
    <3>0. task' = [task EXCEPT ![t].flags = @ \ {"MUSTDISPOSE"}]
        BY <1>6, <2>3 DEF ProcessreplyEnds
    <3>2. task' \in [Task -> TaskRecord]
        BY <1>0, <2>2, <3>0, <3>1, FlagsType
    <3>3. StartDispose(t, Tail(stack))
        BY <1>6, <2>3 DEF ProcessreplyEnds
    <3> QED
        BY <1>0, <1>6, <2>1, <2>2, <3>2, <3>3, NoStartup, StartDisposeType, KeepsTypeInv
           DEF ProcessreplyEnds, Typed, taskport
  <2>4. CASE ~MustDispose(t)
      BY <1>0, <1>6, <2>1, <2>2, <2>4, NoStartup, KeepsTypeInv
         DEF ProcessreplyEnds, Typed, taskport
  <2> QED
      BY <2>3, <2>4
<1>7. CASE WaitformsgScans
  <2> DEFINE m == Head(stack).msg
  <2>1. PICK i \in First(Awaited) :
            IF port[i] # m THEN TakeReply(i, stack) /\ UNCHANGED psig
            ELSE /\ psig' = TRUE
                 /\ IF m = Startup
                    THEN port' = Without(port, i) /\ stack' = Tail(stack)
                    ELSE TakeReply(i, Tail(stack))
      BY <1>7 DEF WaitformsgScans
  <2>2. i \in DOMAIN port /\ (port[i] = m \/ port[i].task = m.task)
      BY DEF First, Awaited
  <2>3. /\ stack # <<>> /\ Head(stack) \in GoodFrame /\ Tail(stack) \in Seq(GoodFrame)
        /\ Head(stack).op = "Waitformsg" /\ Head(stack).task \in Task
        /\ m = Startup \/ m \in GoodMsg
      BY <1>0, <1>7, TopType DEF WaitformsgScans, At, GoodFrame
  <2>4. CASE m = Startup
    <3>1. Startup \notin GoodMsg /\ Startup.task = NoTask
        BY ConstantsAssumption DEF Startup, Msg, GoodMsg
    <3>2. port[i] \notin GoodMsg
        BY <2>2, <2>4, <3>1, ConstantsAssumption DEF GoodMsg
    <3>3. /\ \A u \in Task : proc[u].at # "created"
          /\ port[i] = Startup
          /\ \A j \in DOMAIN port \ {i} : port[j] \in GoodMsg
        BY <2>2, <3>2 DEF TypeInv, StartupAwaited
    <3>4. port' = Without(port, i) /\ stack' = Tail(stack) /\ psig' = TRUE
        BY <2>1, <2>4, <3>3
    <3>5. port' \in Seq(GoodMsg)
        BY <1>0, <2>2, <3>3, <3>4, WithoutType DEF Typed
    <3>6. port' \in Seq(Message)
        BY <3>5, SeqMonotonic DEF GoodMsg, Message
    <3> QED
        BY <1>0, <1>7, <2>3, <3>3, <3>4, <3>5, <3>6
           DEF WaitformsgScans, TypeInv, Typed, StartupAwaited, semas
  <2>5. CASE m # Startup
    <3>1. \A u \in Task : ~AwaitsStartup(u)
        BY <2>5 DEF AwaitsStartup
    <3>2. PICK below \in Seq(GoodFrame) : TakeReply(i, below) /\ psig' \in BOOLEAN
        BY <1>0, <2>1, <2>3, <2>5 DEF Typed
    <3>3. port' \in Seq(GoodMsg) /\ stack' \in Seq(GoodFrame)
        BY <2>2, <3>1, <3>2, NoStartup, TakeReplyType
    <3> QED
        BY <1>0, <1>7, <3>1, <3>2, <3>3, KeepsTypeInv DEF WaitformsgScans, Typed
  <2> QED
      BY <2>4, <2>5
<1>8. CASE WaitformsgBlocks \/ WaitformsgWakes
  <2>1. PICK pc \in {"scan", "blocked"} : stack' = Goto(pc) /\ stack # <<>>
      BY <1>8 DEF WaitformsgBlocks, WaitformsgWakes, At
  <2>2. /\ stack' \in Seq(GoodFrame) /\ stack' # <<>>
        /\ Head(stack') = [Head(stack) EXCEPT !.pc = pc]
      BY <1>0, <2>1, GotoType
  <2>3. Head(stack) \in GoodFrame
      BY <1>0, <2>1, TopType
  <2>4. \A u \in Task : AwaitsStartup(u)' <=> AwaitsStartup(u)
      BY <2>1, <2>2, <2>3 DEF AwaitsStartup, GoodFrame, Frames
  <2>5. UNCHANGED <<task, proc, port, mask, semas, quitting>> /\ psig' \in BOOLEAN
      BY <1>0, <1>8 DEF WaitformsgBlocks, WaitformsgWakes, taskport, Typed
  <2> QED
      BY <1>0, <2>2, <2>4, <2>5 DEF TypeInv, Typed, StartupAwaited, semas
<1>9. CASE \/ \E pc \in {"drain", "redrain", "final"} : Processtaskreply(pc)
           \/ Procures \/ StoptaskWakes \/ WaitsAgain \/ Frees
  <2> DEFINE t == Head(stack).task
  <2>1. \A u \in Task : ~AwaitsStartup(u)
      BY <1>9, NotWaiting
         DEF Processtaskreply, Procures, StoptaskWakes, WaitsAgain, Frees, At
  <2>2. /\ stack # <<>> /\ t \in Task
        /\ Head(stack) \in GoodFrame /\ Tail(stack) \in Seq(GoodFrame)
      BY <1>0, <1>9, TopType
         DEF Processtaskreply, Procures, StoptaskWakes, WaitsAgain, Frees, At, GoodFrame
  <2>3. CASE \E pc \in {"drain", "redrain", "final"} : Processtaskreply(pc)
    <3>1. PICK i \in DOMAIN port : TakeReply(i, stack)
        BY <2>3 DEF Processtaskreply, First, Repliesof
    <3>2. port' \in Seq(GoodMsg) /\ stack' \in Seq(GoodFrame)
        BY <1>0, <2>1, <3>1, NoStartup, TakeReplyType DEF Typed
    <3> QED
        BY <1>0, <2>1, <2>3, <3>2, KeepsTypeInv DEF Processtaskreply, Typed
  <2>4. CASE Procures
    <3>1. Append(semaport, t) \in Seq(Task) /\ procured \cup {t} \in SUBSET Task
        BY <1>0, <2>2, AppendProperties DEF Typed
    <3>2. /\ semaport' \in Seq(Task) /\ ssig' \in BOOLEAN
          /\ procured' \in SUBSET Task
      <4>1. CASE RunsemaFree(t)
          BY <1>0, <2>4, <3>1, <4>1 DEF Procures, Typed
      <4>2. CASE ~RunsemaFree(t)
          BY <1>0, <2>4, <3>1, <4>2 DEF Procures, Typed
      <4> QED
          BY <4>1, <4>2
    <3>3. stack' \in Seq(GoodFrame)
        BY <1>0, <2>2, <2>4, GotoType DEF Procures
    <3> QED
        BY <1>0, <2>1, <2>4, <3>2, <3>3, NoStartup, KeepsTypeInv
           DEF Procures, Typed, taskport
  <2>5. CASE StoptaskWakes
    <3>1. semaport' \in Seq(Task)
        BY <1>0, <2>5, HeadTailProperties DEF StoptaskWakes, Typed
    <3>2. PICK pc \in {"final", "redrain", "wait"} : stack' = Goto(pc)
        BY <2>5 DEF StoptaskWakes
    <3>3. stack' \in Seq(GoodFrame)
        BY <1>0, <2>2, <3>2, GotoType
    <3>4. ssig' \in BOOLEAN /\ psig' \in BOOLEAN
        BY <2>5 DEF StoptaskWakes, Granted
    <3> QED
        BY <1>0, <2>1, <2>5, <3>1, <3>3, <3>4, NoStartup, KeepsTypeInv
           DEF StoptaskWakes, Typed
  <2>6. CASE WaitsAgain
    <3>1. stack' \in Seq(GoodFrame)
        BY <1>0, <2>2, <2>6, GotoType DEF WaitsAgain
    <3> QED
        BY <1>0, <2>1, <2>6, <3>1, NoStartup, KeepsTypeInv DEF WaitsAgain, Typed, taskport
  <2>7. CASE Frees
    <3>1. task[t] \in TaskRecord
        BY <1>0, <2>2 DEF Typed
    <3>2. [task[t] EXCEPT !.obj = "freed"] \in TaskRecord
        BY <3>1 DEF TaskRecord
    <3>3. task' = [task EXCEPT ![t] = [task[t] EXCEPT !.obj = "freed"]]
        BY <2>7 DEF Frees
    <3>4. task' \in [Task -> TaskRecord]
        BY <1>0, <3>2, <3>3 DEF Typed
    <3> QED
        BY <1>0, <2>1, <2>2, <2>7, <3>4, NoStartup, KeepsTypeInv DEF Frees, Typed, taskport
  <2> QED
      BY <1>9, <2>3, <2>4, <2>5, <2>6, <2>7
<1>10. CASE Deinstalltask
  <2>1. \A u \in Task : ~AwaitsStartup(u)
      BY <1>10, NotWaiting DEF Deinstalltask
  <2>2. ASSUME NEW t \in Task, Disposetask(t), UNCHANGED quitting \/ quitting' = "done"
        PROVE  TypeInv'
      BY <1>10, <2>1, <2>2, DisposetaskTypeInv
  <2>3. CASE UNCHANGED <<task, proc, taskport, mask, semas, stack>> /\ quitting' = "done"
      BY <1>0, <2>1, <2>3, NoStartup, KeepsTypeInv DEF Typed, taskport, semas
  <2> QED
      BY <1>10, <2>2, <2>3 DEF Deinstalltask, Disposetask
<1> QED
    BY <1>1, <1>2, <1>3, <1>4, <1>5, <1>6, <1>7, <1>8, <1>9, <1>10 DEF MainStep

\* What the rest of AWeb calls does not run above a wait of Starttask.
LEMMA MayNotWaiting ==
    ASSUME NEW call, NEW t \in Task, May(call, t)
    PROVE  \A u \in Task : ~AwaitsStartup(u)
BY NotWaiting DEF May, At

\* Sending a message, of any kind and whether or not it can be put.
LEMMA SendTypeInv ==
    ASSUME TypeInv, \A u \in Task : ~AwaitsStartup(u),
           NEW t \in Task, NEW kind \in Kinds, NEW async \in BOOLEAN,
           NEW possible \in BOOLEAN, NEW wait \in BOOLEAN,
           Send(t, kind, async, possible, wait), NEW wanted \in BOOLEAN,
           \/ task' = [task EXCEPT ![t].messages = @ + 1]
           \/ task' = [task EXCEPT ![t].messages = @ + 1, ![t].wanted = wanted]
    PROVE  TypeInv'
<1> DEFINE m == Msg(t, kind, async, task[t].messages + 1)
<1>0. Typed /\ task[t] \in TaskRecord /\ proc[t] \in GoodProc /\ stack \in Seq(GoodFrame)
    BY DEF TypeInv, Typed
<1>1. m \in GoodMsg
    BY <1>0 DEF Msg, GoodMsg, TaskRecord
<1>2. task' \in [Task -> TaskRecord]
  <2> DEFINE n == task[t].messages + 1
  <2>1. n \in Nat
      BY <1>0 DEF TaskRecord
  <2>2. /\ [task[t] EXCEPT !.messages = n] \in TaskRecord
        /\ [task[t] EXCEPT !.messages = n, !.wanted = wanted] \in TaskRecord
      BY <1>0, <2>1 DEF TaskRecord
  <2>3. \/ task' = [task EXCEPT ![t] = [task[t] EXCEPT !.messages = n]]
        \/ task' = [task EXCEPT ![t] = [task[t] EXCEPT !.messages = n, !.wanted = wanted]]
      BY <1>0 DEF TaskRecord
  <2>4. \A r \in TaskRecord : [task EXCEPT ![t] = r] \in [Task -> TaskRecord]
      BY <1>0 DEF Typed
  <2> HIDE DEF n
  <2> QED
      BY <2>2, <2>3, <2>4
<1>3. proc' \in [Task -> GoodProc] /\ \A u \in Task : proc'[u].at = proc[u].at
  <2>1. Append(proc[t].port, m) \in Seq(GoodMsg)
      BY <1>0, <1>1, AppendProperties DEF GoodProc
  <2> HIDE DEF m
  <2>2. [proc[t] EXCEPT !.port = Append(@, m), !.sig = TRUE] \in GoodProc
      BY <1>0, <2>1 DEF GoodProc
  <2>3. \/ proc' = proc
        \/ proc' = [proc EXCEPT ![t] = [proc[t] EXCEPT !.port = Append(@, m),
                                                       !.sig = TRUE]]
      BY DEF Send, m
  <2>4. [proc[t] EXCEPT !.port = Append(@, m), !.sig = TRUE].at = proc[t].at
      BY <1>0 DEF GoodProc
  <2> QED
      BY <1>0, <2>2, <2>3, <2>4 DEF Typed
<1>4. stack' \in Seq(GoodFrame)
  <2> HIDE DEF m
  <2>1. GoodMsg \subseteq Message
      BY DEF GoodMsg, Message
  <2>2. /\ Frame("Processreply", t, m, "begin") \in GoodFrame
        /\ Frame("Waitformsg", t, m, "scan") \in GoodFrame
      BY <1>1, <2>1 DEF Frame, GoodFrame, Frames
  <2>3. \/ stack' = stack
        \/ stack' = <<Frame("Processreply", t, m, "begin")>> \o stack
        \/ stack' = <<Frame("Waitformsg", t, m, "scan")>> \o stack
      BY DEF Send, m
  <2>4. /\ <<Frame("Processreply", t, m, "begin")>> \o stack \in Seq(GoodFrame)
        /\ <<Frame("Waitformsg", t, m, "scan")>> \o stack \in Seq(GoodFrame)
      BY <1>0, <2>2, PushType
  <2> QED
      BY <1>0, <2>3, <2>4
<1> QED
    BY <1>0, <1>2, <1>3, <1>4, NoStartup, KeepsTypeInv DEF Send, Typed, taskport

\* Every call of the interface keeps the types.
LEMMA CallTypeInv ==
    ASSUME TypeInv, NEW t \in Task, CallStep(t)
    PROVE  TypeInv'
<1>0. Typed /\ task[t] \in TaskRecord /\ proc[t] \in GoodProc /\ stack \in Seq(GoodFrame)
    BY DEF TypeInv, Typed
<1>1. \A u \in Task : ~AwaitsStartup(u)
    BY MayNotWaiting DEF CallStep, Newtask, Starttask, Stoptask, Disposes, Messagetask,
       AsetattrsasyncA, SettaskSuspend
<1>2. CASE Newtask(t)
  <2>1. [task[t] EXCEPT !.obj = "live"] \in TaskRecord
      BY <1>0 DEF TaskRecord
  <2>2. task' = [task EXCEPT ![t] = [task[t] EXCEPT !.obj = "live"]]
      BY <1>2 DEF Newtask
  <2>3. task' \in [Task -> TaskRecord]
      BY <1>0, <2>1, <2>2 DEF Typed
  <2> QED
      BY <1>0, <1>1, <1>2, <2>3, NoStartup, KeepsTypeInv DEF Newtask, Typed, taskport
<1>3. CASE Starttask(t)
  <2>1. CASE task' = [task EXCEPT ![t].state = "DEAD"] /\ UNCHANGED <<proc, stack>>
    <3>1. [task[t] EXCEPT !.state = "DEAD"] \in TaskRecord
        BY <1>0 DEF TaskRecord
    <3>2. task' \in [Task -> TaskRecord]
        BY <1>0, <2>1, <3>1 DEF Typed
    <3> QED
        BY <1>0, <1>1, <1>3, <2>1, <3>2, NoStartup, KeepsTypeInv
           DEF Starttask, IsNew, Typed, taskport
  <2>2. CASE /\ proc' = [proc EXCEPT ![t].at = "created"]
             /\ stack' = <<Frame("Waitformsg", t, Startup, "scan")>> \o stack
             /\ UNCHANGED task
    <3>1. [proc[t] EXCEPT !.at = "created"] \in GoodProc
        BY <1>0 DEF GoodProc, Places
    <3>2. Frame("Waitformsg", t, Startup, "scan") \in GoodFrame
        BY DEF Frame, GoodFrame, Frames, Startup, Msg, Message, Kinds
    <3>3. /\ stack' \in Seq(GoodFrame) /\ stack' # <<>>
          /\ Head(stack') = Frame("Waitformsg", t, Startup, "scan")
        BY <1>0, <2>2, <3>2, PushType
    <3>4. Typed'
        BY <1>0, <1>3, <2>2, <3>1, <3>3 DEF Starttask, IsNew, Typed, taskport, semas
    <3>5. AwaitsStartup(t)'
        BY <3>3 DEF AwaitsStartup, Frame
    <3>6. \A u \in Task \ {t} : proc'[u].at # "created"
        BY <1>0, <1>1, <2>2, NoStartup DEF Typed
    <3>7. port' \in Seq(GoodMsg)
        BY <1>1, <1>3, NoStartup DEF Starttask, IsNew, taskport
    <3> QED
        BY <3>4, <3>5, <3>6, <3>7 DEF TypeInv, StartupAwaited
  <2> QED
      BY <1>3, <2>1, <2>2 DEF Starttask, IsNew
<1>4. CASE Stoptask(t)
  <2>1. \A b \in BOOLEAN : /\ [proc[t] EXCEPT !.ctrlC = b] \in GoodProc
                           /\ [proc[t] EXCEPT !.ctrlC = b].at = proc[t].at
      BY <1>0 DEF GoodProc
  <2>2. \E b \in BOOLEAN : proc' = [proc EXCEPT ![t] = [proc[t] EXCEPT !.ctrlC = b]]
      BY <1>0, <1>4 DEF Stoptask, BreakSubtask, CanBreak
  <2> QED
      BY <1>0, <1>1, <1>4, <2>1, <2>2, NoStartup, KeepsTypeInv DEF Stoptask, Typed, taskport
<1>5. CASE Disposes(t)
    BY <1>1, <1>5, DisposetaskTypeInv DEF Disposes
<1>6. CASE \E async \in BOOLEAN : Messagetask(t, async)
  <2>1. PICK async \in BOOLEAN : Messagetask(t, async)
      BY <1>6
  <2>2. CanPut(t) \in BOOLEAN /\ (~async) \in BOOLEAN /\ "message" \in Kinds
      BY DEF CanPut, Kinds
  <2>3. Send(t, "message", async, CanPut(t), ~async)
      BY <2>1 DEF Messagetask
  <2>4. task' = [task EXCEPT ![t].messages = @ + 1]
      BY <2>1 DEF Messagetask
  <2> QED
      BY <1>1, <2>2, <2>3, <2>4, SendTypeInv
<1>7. CASE AsetattrsasyncA(t)
  <2>1. Send(t, "vanilla", FALSE, TRUE, FALSE) /\ "vanilla" \in Kinds
      BY <1>7 DEF AsetattrsasyncA, Kinds
  <2>2. task' = [task EXCEPT ![t].messages = @ + 1]
      BY <1>7 DEF AsetattrsasyncA
  <2> QED
      BY <1>1, <2>1, <2>2, SendTypeInv
<1>8. CASE \E data, async \in BOOLEAN : SettaskSuspend(t, data, async)
  <2>1. PICK data \in BOOLEAN, async \in BOOLEAN : SettaskSuspend(t, data, async)
      BY <1>8
  <2>2. CASE Suspendtask(t, async)
    <3> DEFINE possible == task[t].state = "RUN" /\ HasSubport(t)
    <3>1. possible \in BOOLEAN /\ (~async) \in BOOLEAN /\ "suspend" \in Kinds
        BY DEF Kinds
    <3>2. Send(t, "suspend", FALSE, possible, ~async)
        BY <2>2 DEF Suspendtask
    <3>3. task' = [task EXCEPT ![t].messages = @ + 1, ![t].wanted = TRUE]
        BY <2>2 DEF Suspendtask
    <3> HIDE DEF possible
    <3> QED
        BY <1>1, <3>1, <3>2, <3>3, SendTypeInv
  <2>3. CASE /\ task' = [task EXCEPT ![t].wanted = FALSE]
             /\ UNCHANGED <<proc, taskport, mask, semas, stack, quitting>>
    <3>1. [task[t] EXCEPT !.wanted = FALSE] \in TaskRecord
        BY <1>0 DEF TaskRecord
    <3>2. task' \in [Task -> TaskRecord]
        BY <1>0, <2>3, <3>1 DEF Typed
    <3> QED
        BY <1>0, <1>1, <2>3, <3>2, NoStartup, KeepsTypeInv DEF Typed, taskport
  <2> QED
      BY <2>1, <2>2, <2>3 DEF SettaskSuspend
<1> QED
    BY <1>2, <1>3, <1>4, <1>5, <1>6, <1>7, <1>8 DEF CallStep

\* The invariant holds at the start,
LEMMA InitTypeInv == Init => TypeInv
<1> SUFFICES ASSUME Init PROVE TypeInv
    OBVIOUS
<1>1. /\ <<>> \in Seq(GoodMsg) /\ <<>> \in Seq(Message)
      /\ <<>> \in Seq(GoodFrame) /\ <<>> \in Seq(Task)
    OBVIOUS
<1>2. Typed
    BY <1>1 DEF Init, Typed, TaskRecord, GoodProc, Places, Flags
<1> QED
    BY <1>1, <1>2 DEF Init, TypeInv, StartupAwaited

\* and every step keeps it.
LEMMA NextTypeInv == TypeInv /\ [Next]_vars => TypeInv'
<1> SUFFICES ASSUME TypeInv, [Next]_vars PROVE TypeInv'
    OBVIOUS
<1>1. ASSUME NEW t \in Task, SubtaskStep(t) PROVE TypeInv'
    BY <1>1, SubtaskTyped, SubtaskStartup DEF TypeInv
<1>2. ASSUME NEW t \in Task, CallStep(t) PROVE TypeInv'
    BY <1>2, CallTypeInv
<1>3. CASE MainStep
    BY <1>3, MainTypeInv
<1>4. CASE Quits
  <2>1. \A u \in Task : ~AwaitsStartup(u)
      BY <1>4, NotWaiting DEF Quits
  <2> QED
      BY <1>4, <2>1, NoStartup, KeepsTypeInv DEF Quits, TypeInv, Typed, taskport, semas
<1>5. CASE UNCHANGED vars
    BY <1>5 DEF vars, taskport, semas, TypeInv, Typed, StartupAwaited, AwaitsStartup
<1> QED
    BY <1>1, <1>2, <1>3, <1>4, <1>5 DEF Next

\* The strengthened types are an invariant of the framework.
THEOREM TypeInvariant == Spec => []TypeInv
BY InitTypeInv, NextTypeInv, PTL DEF Spec

\* Every variable of the framework always has its type: no message without a
\* task reaches Processreply, and semaport only ever grants runsemas of tasks.
THEOREM TypeCorrect == Spec => []TypeOK
<1>1. TypeInv => TypeOK
  <2> SUFFICES ASSUME TypeInv PROVE TypeOK
      OBVIOUS
  <2>1. GoodMsg \subseteq Message /\ NoMsg \in Message
      BY DEF GoodMsg, Message, NoMsg, Msg, Kinds
  <2>2. \A q \in Seq(GoodMsg) : q \in Seq(Message)
      BY <2>1, SeqMonotonic
  <2>3. GoodProc \subseteq ProcRecord
      BY <2>1, <2>2 DEF GoodProc, ProcRecord
  <2>4. \A q \in Seq(GoodFrame) : q \in Seq(Frames)
      BY SeqMonotonic DEF GoodFrame
  <2> QED
      BY <2>3, <2>4 DEF TypeInv, Typed, TypeOK
<1> QED
    BY <1>1, TypeInvariant, PTL

-----------------------------------------------------------------------------
(* No process outlives its task object *)

\* A task that is being disposed of and whose subtask runs no more.
EndedTasks == {t \in Task : proc[t].at \in {"none", "ended"} /\ "DISPOSING" \in task[t].flags}

\* Dodisposetask works for a disposed task; when it goes on to free it, the
\* subtask has ended.
SafeFrame ==
    {f \in GoodFrame : f.op = "Dodisposetask" =>
        /\ "DISPOSING" \in task[f.task].flags
        /\ f.pc = "final" => f.task \in EndedTasks}

\* Why freeing is safe: a runsema is granted only when the subtask has released
\* it, main asks only for the runsemas of disposed tasks, and a disposed task is
\* never started.
Life ==
    /\ \A t \in Task : task[t].obj = "freed" => t \in EndedTasks
    /\ \A t \in Task : "MUSTDISPOSE" \in task[t].flags => "DISPOSING" \in task[t].flags
    /\ procured \subseteq {t \in Task : "DISPOSING" \in task[t].flags}
    /\ semaport \in Seq(EndedTasks)
    /\ stack \in Seq(SafeFrame)
    /\ \A t \in Task : task[t].state \in {"RUN", "SUSPEND"} => HasSubport(t)

\* What has ended stays ended, so an activation that was safe remains so.
LEMMA SafeStays ==
    ASSUME TypeInv, \A t \in EndedTasks : proc'[t].at \in {"none", "ended"},
           \A t \in Task : "DISPOSING" \in task[t].flags => "DISPOSING" \in task'[t].flags
    PROVE  /\ EndedTasks \subseteq EndedTasks'
           /\ SafeFrame \subseteq SafeFrame'
           /\ \A q \in Seq(EndedTasks) : q \in Seq(EndedTasks')
           /\ \A q \in Seq(SafeFrame) : q \in Seq(SafeFrame')
<1>1. EndedTasks \subseteq EndedTasks'
    BY DEF EndedTasks
<1>2. SafeFrame \subseteq SafeFrame'
    BY <1>1 DEF SafeFrame, GoodFrame
<1> QED
    BY <1>1, <1>2, SeqMonotonic

\* A subtask that moves has not ended; it releases runsema as its last step,
\* and its port exists as long as task->state says that it runs.
LEMMA SubtaskLife ==
    ASSUME TypeInv, Life, NEW t \in Task, SubtaskStep(t)
    PROVE  /\ proc[t].at \notin {"none", "ended"}
           /\ procured' \subseteq procured
           /\ \/ semaport' = semaport
              \/ /\ t \in procured /\ proc'[t].at = "ended"
                 /\ semaport' = Append(semaport, t)
           /\ task'[t].state \in {"RUN", "SUSPEND"} => HasSubport(t)'
           /\ \A u \in Task \ {t} : task'[u] = task[u]
           /\ proc'[t].ctrlC = proc[t].ctrlC
<1>. USE DEF Moves, MovesAndPuts, semas, HasSubport
<1>0. /\ task \in [Task -> TaskRecord] /\ proc \in [Task -> GoodProc]
      /\ proc[t] \in GoodProc /\ task[t] \in TaskRecord
      /\ task[t].state \in {"RUN", "SUSPEND"} => HasSubport(t)
    BY DEF TypeInv, Typed, Life
<1>1. CASE Subtask(t)
    BY <1>1, <1>0 DEF Subtask, GoodProc, TaskRecord
<1>2. CASE Waittask(t)
    BY <1>2, <1>0 DEF Waittask, Works, Free, GoodProc
<1>3. CASE \E own \in BOOLEAN : Wakes(t, own)
    BY <1>3, <1>0 DEF Wakes, GoodProc
<1>4. CASE Gettaskmsg(t)
    BY <1>4, <1>0 DEF Gettaskmsg, Works, Free, GoodProc
<1>5. CASE ScanEnds(t)
    BY <1>5, <1>0 DEF ScanEnds, GoodProc
<1>6. CASE ScanWakes(t)
    BY <1>6, <1>0 DEF ScanWakes, GoodProc
<1>7. CASE GetMsg(t)
    BY <1>7, <1>0 DEF GetMsg, GoodProc
<1>8. CASE UpdateReplied(t)
    BY <1>8, <1>0 DEF UpdateReplied, GoodProc
<1>9. CASE Finishes(t)
    BY <1>9, <1>0 DEF Finishes, Works, Free, GoodProc
<1>10. CASE Returns(t)
    BY <1>10, <1>0 DEF Returns, Free, GoodProc
<1>11. CASE Answers(t)
    BY <1>11, <1>0 DEF Answers, GoodProc, TaskRecord
<1>12. CASE Replytaskmsg(t)
    BY <1>12, <1>0 DEF Replytaskmsg, GoodProc
<1>13. CASE \E async \in BOOLEAN : Updatetask(t, async)
    BY <1>13, <1>0 DEF Updatetask, GoodProc
<1>14. CASE Drains(t)
    BY <1>14, <1>0 DEF Drains, GoodProc
<1>15. CASE Dies(t)
    BY <1>15, <1>0 DEF Dies, GoodProc, TaskRecord
<1>16. CASE Ends(t)
    BY <1>16, <1>0 DEF Ends, GoesToMain, GoodProc
<1> QED
    BY <1>1, <1>2, <1>3, <1>4, <1>5, <1>6, <1>7, <1>8, <1>9, <1>10, <1>11, <1>12,
       <1>13, <1>14, <1>15, <1>16 DEF SubtaskStep

\* A subtask's step keeps the life invariant.
LEMMA SubtaskKeepsLife ==
    ASSUME TypeInv, Life, NEW t \in Task, SubtaskStep(t)
    PROVE  Life'
<1>0. Typed
    BY DEF TypeInv
<1>1. /\ \A u \in Task : task'[u].obj = task[u].obj /\ task'[u].flags = task[u].flags
      /\ \A u \in Task \ {t} : proc'[u] = proc[u] /\ task'[u] = task[u]
      /\ stack' = stack
    BY <1>0, SubtaskEffect, SubtaskLife
<1>2. \A u \in EndedTasks : proc'[u].at \in {"none", "ended"}
    BY <1>1, SubtaskLife DEF EndedTasks
<1>3. stack' \in Seq(SafeFrame') /\ semaport \in Seq(EndedTasks')
      /\ EndedTasks \subseteq EndedTasks'
    BY <1>1, <1>2, SafeStays DEF Life
<1>4. semaport' \in Seq(EndedTasks')
  <2>1. CASE semaport' = semaport
      BY <1>3, <2>1
  <2>2. CASE t \in procured /\ proc'[t].at = "ended" /\ semaport' = Append(semaport, t)
    <3>1. t \in EndedTasks'
        BY <1>1, <2>2 DEF Life, EndedTasks
    <3> QED
        BY <1>3, <2>2, <3>1, AppendProperties
  <2> QED
      BY <2>1, <2>2, SubtaskLife
<1>5. \A u \in Task : task'[u].state \in {"RUN", "SUSPEND"} => HasSubport(u)'
    BY <1>1, SubtaskLife DEF Life, HasSubport
<1>6. procured' \subseteq {u \in Task : "DISPOSING" \in task'[u].flags}
    BY <1>1, SubtaskLife DEF Life
<1> QED
    BY <1>1, <1>3, <1>4, <1>5, <1>6 DEF Life

\* A step of main that moves no subtask, takes DISPOSING from no task and frees
\* only what has ended keeps it.
LEMMA KeepsLife ==
    ASSUME TypeInv, Life,
           \A t \in Task : proc'[t].at = proc[t].at,
           \A t \in Task : task'[t].state \in {task[t].state, "DEAD"},
           \A t \in Task : "DISPOSING" \in task[t].flags => "DISPOSING" \in task'[t].flags,
           \A t \in Task : "MUSTDISPOSE" \in task'[t].flags =>
                "MUSTDISPOSE" \in task[t].flags \/ "DISPOSING" \in task'[t].flags,
           \A t \in Task : task'[t].obj = "freed" => t \in EndedTasks \/ task[t].obj = "freed",
           procured' \subseteq procured \cup {t \in Task : "DISPOSING" \in task[t].flags},
           semaport' \in Seq(EndedTasks), stack' \in Seq(SafeFrame')
    PROVE  Life'
<1>1. EndedTasks \subseteq EndedTasks' /\ semaport' \in Seq(EndedTasks')
    BY SafeStays DEF EndedTasks
<1>2. \A t \in Task : task'[t].obj = "freed" => t \in EndedTasks'
    BY <1>1 DEF Life
<1>3. procured' \subseteq {t \in Task : "DISPOSING" \in task'[t].flags}
    BY DEF Life
<1>4. \A t \in Task : task'[t].state \in {"RUN", "SUSPEND"} => HasSubport(t)'
    BY DEF Life, HasSubport
<1> QED
    BY <1>1, <1>2, <1>3, <1>4 DEF Life

\* The activations that go on, and those put on top, are safe.
LEMMA SafeStack ==
    ASSUME TypeInv, Life,
           \A t \in Task : proc'[t].at = proc[t].at,
           \A t \in Task : "DISPOSING" \in task[t].flags => "DISPOSING" \in task'[t].flags
    PROVE  /\ stack \in Seq(SafeFrame')
           /\ stack # <<>> => Tail(stack) \in Seq(SafeFrame')
           /\ \A f \in GoodFrame : f.op # "Dodisposetask" =>
                <<f>> \o stack \in Seq(SafeFrame')
           /\ \A f \in GoodFrame : stack # <<>> /\ f.op # "Dodisposetask" =>
                <<f>> \o Tail(stack) \in Seq(SafeFrame')
           /\ \A pc \in {"begin", "handler", "end", "scan", "blocked",
                         "drain", "wait", "redrain", "final"} :
                /\ stack # <<>>
                /\ \/ pc # "final" \/ Head(stack).op # "Dodisposetask"
                   \/ Head(stack).task \in EndedTasks
                => Goto(pc) \in Seq(SafeFrame')
<1>1. /\ EndedTasks \subseteq EndedTasks' /\ SafeFrame \subseteq SafeFrame'
      /\ \A q \in Seq(SafeFrame) : q \in Seq(SafeFrame')
    BY SafeStays DEF EndedTasks
<1>2. stack \in Seq(SafeFrame')
    BY <1>1 DEF Life
<1>3. stack # <<>> => Head(stack) \in SafeFrame' /\ Tail(stack) \in Seq(SafeFrame')
    BY <1>2, HeadTailProperties
<1>4. \A f \in GoodFrame : f.op # "Dodisposetask" => f \in SafeFrame'
    BY DEF SafeFrame
<1>5. \A f \in GoodFrame : f.op # "Dodisposetask" => <<f>> \o stack \in Seq(SafeFrame')
    BY <1>2, <1>4, PushType
<1>6. \A f \in GoodFrame : stack # <<>> /\ f.op # "Dodisposetask" =>
            <<f>> \o Tail(stack) \in Seq(SafeFrame')
    BY <1>3, <1>4, PushType
<1>7. ASSUME NEW pc \in {"begin", "handler", "end", "scan", "blocked",
                         "drain", "wait", "redrain", "final"},
             stack # <<>>,
             \/ pc # "final" \/ Head(stack).op # "Dodisposetask"
             \/ Head(stack).task \in EndedTasks
      PROVE  Goto(pc) \in Seq(SafeFrame')
  <2>1. [Head(stack) EXCEPT !.pc = pc] \in SafeFrame'
      BY <1>1, <1>3, <1>7 DEF SafeFrame, GoodFrame, Frames
  <2> QED
      BY <1>3, <1>7, <2>1, PushType DEF Goto
<1> QED
    BY <1>2, <1>3, <1>5, <1>6, <1>7

\* Dodisposetask begins on a disposed task.
LEMMA SafeDispose ==
    ASSUME TypeInv, Life, NEW t \in Task, NEW below \in Seq(SafeFrame'),
           StartDispose(t, below), "DISPOSING" \in task'[t].flags
    PROVE  stack' \in Seq(SafeFrame')
<1>1. Frame("Dodisposetask", t, NoMsg, "drain") \in SafeFrame'
    BY DEF Frame, SafeFrame, GoodFrame, Frames, NoMsg, Msg, Message, Kinds
<1> QED
    BY <1>1, PushType DEF StartDispose

\* Processreply begins on top of what goes on.
LEMMA SafeReply ==
    ASSUME NEW i, port[i] \in GoodMsg, NEW below \in Seq(SafeFrame'), TakeReply(i, below)
    PROVE  stack' \in Seq(SafeFrame')
<1>1. Frame("Processreply", port[i].task, port[i], "begin") \in SafeFrame'
    BY DEF Frame, SafeFrame, GoodFrame, Frames, GoodMsg, Message
<1> QED
    BY <1>1, PushType DEF TakeReply

\* Disposetask keeps the life invariant.
LEMMA DisposetaskKeepsLife ==
    ASSUME TypeInv, Life, NEW t \in Task, Disposetask(t)
    PROVE  Life'
<1>0. Typed /\ task \in [Task -> TaskRecord] /\ task[t] \in TaskRecord
      /\ stack \in Seq(GoodFrame)
    BY DEF TypeInv, Typed
<1>1. CASE InHandler(t)
  <2>1. /\ task' = [task EXCEPT ![t].flags = @ \cup {"DISPOSING", "MUSTDISPOSE"},
                                ![t].target = FALSE]
        /\ UNCHANGED <<proc, stack, semaport, procured>>
      BY <1>1 DEF Disposetask, semas
  <2>2. /\ \A u \in Task : task'[u].state = task[u].state /\ task'[u].obj = task[u].obj
        /\ \A u \in Task : "DISPOSING" \in task[u].flags => "DISPOSING" \in task'[u].flags
      BY <1>0, <2>1 DEF TaskRecord
  <2>3. \A u \in Task : "MUSTDISPOSE" \in task'[u].flags =>
            "MUSTDISPOSE" \in task[u].flags \/ "DISPOSING" \in task'[u].flags
      BY <1>0, <2>1 DEF TaskRecord
  <2>4. stack' \in Seq(SafeFrame')
      BY <2>1, <2>2, SafeStack
  <2> QED
      BY <1>0, <2>1, <2>2, <2>3, <2>4, KeepsLife DEF Life
<1>2. CASE ~InHandler(t)
  <2>1. /\ task' = [task EXCEPT ![t].flags = @ \cup {"DISPOSING"}]
        /\ StartDispose(t, stack) /\ UNCHANGED <<semaport, procured>>
      BY <1>2 DEF Disposetask, semas
  <2>2. /\ \A u \in Task : task'[u].state = task[u].state /\ task'[u].obj = task[u].obj
        /\ \A u \in Task : "DISPOSING" \in task[u].flags => "DISPOSING" \in task'[u].flags
        /\ "DISPOSING" \in task'[t].flags
      BY <1>0, <2>1 DEF TaskRecord
  <2>3. \A u \in Task : "MUSTDISPOSE" \in task'[u].flags => "MUSTDISPOSE" \in task[u].flags
      BY <1>0, <2>1 DEF TaskRecord
  <2>4. \A u \in Task : proc'[u].at = proc[u].at
      BY <1>0, <2>1, StartDisposeType
  <2>5. stack' \in Seq(SafeFrame')
      BY <2>1, <2>2, <2>4, SafeStack, SafeDispose
  <2> QED
      BY <1>0, <2>1, <2>2, <2>3, <2>4, <2>5, KeepsLife DEF Life
<1> QED
    BY <1>1, <1>2

\* Every step of main keeps it.
LEMMA MainKeepsLife ==
    ASSUME TypeInv, Life, MainStep
    PROVE  Life'
<1>0. Typed /\ task \in [Task -> TaskRecord]
    BY DEF TypeInv, Typed
<1>1. CASE MainWaits \/ WaitformsgBlocks \/ WaitformsgWakes \/ WaitsAgain
  <2>1. UNCHANGED <<task, proc, semaport, procured>>
      BY <1>1 DEF MainWaits, WaitformsgBlocks, WaitformsgWakes, WaitsAgain, semas
  <2>2. stack' = stack \/ \E pc \in {"blocked", "scan", "wait"} :
            stack # <<>> /\ stack' = Goto(pc)
      BY <1>1 DEF MainWaits, WaitformsgBlocks, WaitformsgWakes, WaitsAgain, At
  <2>3. stack' \in Seq(SafeFrame')
      BY <2>1, <2>2, SafeStack
  <2> QED
      BY <2>1, <2>3, KeepsLife DEF Life
<1>2. CASE Processtask
  <2> DEFINE loop == Frame("Processtask", NoTask, NoMsg, "end")
  <2>1. UNCHANGED <<task, proc, semaport, procured>> /\ stack = <<>>
      BY <1>2 DEF Processtask, semas
  <2>2. loop \in GoodFrame /\ loop.op # "Dodisposetask"
      BY DEF Frame, GoodFrame, Frames, NoMsg, Msg, Message, Kinds
  <2>3. <<loop>> \in Seq(SafeFrame')
      BY <2>2 DEF SafeFrame
  <2>4. stack' \in Seq(SafeFrame')
    <3>1. CASE port = <<>>
        BY <1>2, <2>3, <3>1 DEF Processtask
    <3>2. CASE port # <<>>
      <4>1. port[1] \in GoodMsg
          BY <1>0, <2>1, <3>2, NotWaiting, NoStartup, LenProperties, EmptySeq DEF Typed
      <4>2. TakeReply(1, <<loop>>)
          BY <1>2, <3>2 DEF Processtask
      <4> QED
          BY <2>3, <4>1, <4>2, SafeReply
    <3> QED
        BY <3>1, <3>2
  <2> QED
      BY <2>1, <2>4, KeepsLife DEF Life
<1>3. CASE ProcesstaskEnds
  <2>1. UNCHANGED <<task, proc, semaport, procured>> /\ stack # <<>> /\ stack' = Tail(stack)
      BY <1>3 DEF ProcesstaskEnds, At, semas
  <2>2. stack' \in Seq(SafeFrame')
      BY <2>1, SafeStack
  <2> QED
      BY <2>1, <2>2, KeepsLife DEF Life
<1>4. CASE ProcessreplyBegins \/ HandlerReturns
  <2> DEFINE t == Head(stack).task
             m == Head(stack).msg
  <2>1. stack # <<>> /\ t \in Task /\ m \in GoodMsg /\ Head(stack).op = "Processreply"
      BY <1>0, <1>4, TopType DEF ProcessreplyBegins, HandlerReturns, At, GoodFrame
  <2>2. UNCHANGED <<semaport, procured>>
      BY <1>4 DEF ProcessreplyBegins, HandlerReturns, semas
  <2>3. \/ task' = task
        \/ task' = [task EXCEPT ![t].flags = @ \cup {"PROCESSING"}]
        \/ task' = [task EXCEPT ![t].flags = @ \ {"PROCESSING"}]
      BY <1>4 DEF ProcessreplyBegins, HandlerReturns
  <2>4. /\ \A u \in Task : task'[u].state = task[u].state /\ task'[u].obj = task[u].obj
        /\ \A u \in Task : "DISPOSING" \in task[u].flags => "DISPOSING" \in task'[u].flags
        /\ \A u \in Task : "MUSTDISPOSE" \in task'[u].flags => "MUSTDISPOSE" \in task[u].flags
    <3> DEFINE Kept(F) == \A u \in Task :
            LET r == [task EXCEPT ![t].flags = F][u]
            IN  /\ r.state = task[u].state /\ r.obj = task[u].obj
                /\ r.flags = IF u = t THEN F ELSE task[u].flags
    <3>1. \A F \in SUBSET (Flags \cup task[t].flags) : Kept(F)
        BY <1>0, <2>1 DEF TaskRecord
    <3>2. /\ task[t].flags \cup {"PROCESSING"} \in SUBSET (Flags \cup task[t].flags)
          /\ task[t].flags \ {"PROCESSING"} \in SUBSET (Flags \cup task[t].flags)
        BY DEF Flags
    <3>3. CASE task' = task
        BY <3>3
    <3>4. CASE task' = [task EXCEPT ![t].flags = @ \cup {"PROCESSING"}]
        BY <2>1, <3>1, <3>2, <3>4
    <3>5. CASE task' = [task EXCEPT ![t].flags = @ \ {"PROCESSING"}]
        BY <2>1, <3>1, <3>2, <3>5
    <3> QED
        BY <2>3, <3>3, <3>4, <3>5
  <2>5. \A u \in Task : proc'[u].at = proc[u].at
    <3>1. proc' = proc \/ Answer(m)
        BY <1>4 DEF ProcessreplyBegins, HandlerReturns
    <3> QED
        BY <1>0, <2>1, <3>1, AnswerType
  <2>6. PICK pc \in {"handler", "end"} : stack' = Goto(pc)
      BY <1>4 DEF ProcessreplyBegins, HandlerReturns
  <2>7. stack' \in Seq(SafeFrame')
      BY <2>1, <2>4, <2>5, <2>6, SafeStack
  <2> QED
      BY <2>2, <2>4, <2>5, <2>7, KeepsLife DEF Life
<1>5. CASE ProcessreplyEnds
  <2> DEFINE t == Head(stack).task
  <2>1. stack # <<>> /\ t \in Task /\ UNCHANGED <<semaport, procured>>
      BY <1>0, <1>5, TopType DEF ProcessreplyEnds, At, GoodFrame, semas
  <2>2. CASE MustDispose(t)
    <3>1. /\ task' = [task EXCEPT ![t].flags = @ \ {"MUSTDISPOSE"}]
          /\ StartDispose(t, Tail(stack))
        BY <1>5, <2>2 DEF ProcessreplyEnds
    <3>2. /\ \A u \in Task : task'[u].state = task[u].state /\ task'[u].obj = task[u].obj
          /\ \A u \in Task : "DISPOSING" \in task[u].flags => "DISPOSING" \in task'[u].flags
          /\ \A u \in Task : "MUSTDISPOSE" \in task'[u].flags => "MUSTDISPOSE" \in task[u].flags
        BY <1>0, <2>1, <3>1 DEF TaskRecord
    <3>3. "DISPOSING" \in task'[t].flags
        BY <2>1, <2>2, <3>2 DEF MustDispose, Life
    <3>4. \A u \in Task : proc'[u].at = proc[u].at
        BY <1>0, <2>1, <3>1, TopType, StartDisposeType
    <3>5. stack' \in Seq(SafeFrame')
        BY <2>1, <3>1, <3>2, <3>3, <3>4, SafeStack, SafeDispose
    <3> QED
        BY <2>1, <3>2, <3>4, <3>5, KeepsLife DEF Life
  <2>3. CASE ~MustDispose(t)
    <3>1. UNCHANGED <<task, proc>> /\ stack' = Tail(stack)
        BY <1>5, <2>3 DEF ProcessreplyEnds
    <3>2. stack' \in Seq(SafeFrame')
        BY <2>1, <3>1, SafeStack
    <3> QED
        BY <2>1, <3>1, <3>2, KeepsLife DEF Life
  <2> QED
      BY <2>2, <2>3
<1>6. CASE WaitformsgScans
  <2> DEFINE m == Head(stack).msg
  <2>1. UNCHANGED <<task, proc, semaport, procured>> /\ stack # <<>>
      BY <1>6 DEF WaitformsgScans, semas, At
  <2>2. stack \in Seq(SafeFrame') /\ Tail(stack) \in Seq(SafeFrame')
      BY <2>1, SafeStack
  <2>3. CASE stack' = Tail(stack)
      BY <2>1, <2>2, <2>3, KeepsLife DEF Life
  <2>4. CASE stack' # Tail(stack)
    <3>1. PICK i \in DOMAIN port, below \in {stack, Tail(stack)} :
              TakeReply(i, below) /\ (m # Startup \/ port[i] # m)
        BY <1>6, <2>4 DEF WaitformsgScans, First, Awaited
    <3>2. port[i] \in GoodMsg
      <4>1. CASE m # Startup
          BY <4>1, NoStartup DEF AwaitsStartup
      <4>2. CASE port[i] # Startup
          BY <4>2, <3>1 DEF TypeInv, StartupAwaited
      <4> QED
          BY <3>1, <4>1, <4>2
    <3>3. stack' \in Seq(SafeFrame')
        BY <2>2, <3>1, <3>2, SafeReply
    <3> QED
        BY <2>1, <3>3, KeepsLife DEF Life
  <2> QED
      BY <2>3, <2>4
<1>7. CASE \E pc \in {"drain", "redrain", "final"} : Processtaskreply(pc)
  <2>1. UNCHANGED <<task, proc, semaport, procured>>
      BY <1>7 DEF Processtaskreply, semas
  <2>2. PICK i \in DOMAIN port : TakeReply(i, stack)
      BY <1>7 DEF Processtaskreply, First, Repliesof
  <2>3. port[i] \in GoodMsg
      BY <1>7, NotWaiting, NoStartup DEF Processtaskreply, At
  <2>4. stack' \in Seq(SafeFrame')
      BY <2>1, <2>2, <2>3, SafeStack, SafeReply
  <2> QED
      BY <2>1, <2>4, KeepsLife DEF Life
<1>8. CASE Procures
  <2> DEFINE t == Head(stack).task
  <2>1. UNCHANGED <<task, proc>> /\ stack # <<>> /\ stack' = Goto("wait")
      BY <1>8 DEF Procures, At
  <2>2. t \in Task /\ "DISPOSING" \in task[t].flags
    <3>1. Head(stack) \in SafeFrame /\ Head(stack).op = "Dodisposetask"
        BY <1>8, <2>1, HeadTailProperties DEF Procures, At, Life
    <3> QED
        BY <3>1 DEF SafeFrame, GoodFrame
  <2>3. /\ procured' \subseteq procured \cup {u \in Task : "DISPOSING" \in task[u].flags}
        /\ semaport' \in Seq(EndedTasks)
    <3>1. CASE RunsemaFree(t)
      <4>1. t \in EndedTasks
          BY <2>2, <3>1 DEF RunsemaFree, EndedTasks
      <4>2. semaport' = Append(semaport, t) /\ procured' = procured
          BY <1>8, <3>1 DEF Procures
      <4> QED
          BY <4>1, <4>2, AppendProperties DEF Life
    <3>2. CASE ~RunsemaFree(t)
        BY <1>8, <2>2, <3>2 DEF Procures, Life
    <3> QED
        BY <3>1, <3>2
  <2>4. stack' \in Seq(SafeFrame')
      BY <2>1, SafeStack
  <2> QED
      BY <2>1, <2>3, <2>4, KeepsLife DEF Life
<1>9. CASE StoptaskWakes
  <2> DEFINE t == Head(stack).task
             got == Granted(t)
  <2>1. UNCHANGED <<task, proc, procured>> /\ stack # <<>>
      BY <1>9 DEF StoptaskWakes, At
  <2>2. semaport' \in Seq(EndedTasks)
      BY <1>9, HeadTailProperties DEF StoptaskWakes, Life
  <2>3. (stack' = Goto("final") /\ got) \/ stack' = Goto("redrain") \/ stack' = Goto("wait")
      BY <1>9 DEF StoptaskWakes
  <2>4. got => t \in EndedTasks
      BY HeadTailProperties DEF Granted, Life
  <2>5. stack' \in Seq(SafeFrame')
      BY <2>1, <2>3, <2>4, SafeStack
  <2> QED
      BY <2>1, <2>2, <2>5, KeepsLife DEF Life
<1>10. CASE Frees
  <2> DEFINE t == Head(stack).task
  <2>1. /\ task' = [task EXCEPT ![t].obj = "freed"]
        /\ stack # <<>> /\ stack' = Tail(stack)
        /\ UNCHANGED <<proc, semaport, procured>>
      BY <1>10 DEF Frees, At, semas
  <2>2. t \in EndedTasks
    <3>1. /\ Head(stack) \in SafeFrame
          /\ Head(stack).op = "Dodisposetask" /\ Head(stack).pc = "final"
        BY <1>10, <2>1, HeadTailProperties DEF Frees, At, Life
    <3> QED
        BY <3>1 DEF SafeFrame
  <2>3. \A u \in Task : /\ task'[u].state = task[u].state /\ task'[u].flags = task[u].flags
                        /\ u # t => task'[u] = task[u]
      BY <1>0, <2>1, <2>2 DEF TaskRecord, EndedTasks
  <2>4. stack' \in Seq(SafeFrame')
      BY <2>1, <2>3, SafeStack
  <2> QED
      BY <2>1, <2>2, <2>3, <2>4, KeepsLife DEF Life
<1>11. CASE Deinstalltask
  <2>1. CASE UNCHANGED <<task, proc, taskport, mask, semas, stack>>
    <3>1. UNCHANGED <<task, proc, semaport, procured, stack>>
        BY <2>1 DEF semas
    <3>2. stack' \in Seq(SafeFrame')
        BY <3>1, SafeStack
    <3> QED
        BY <3>1, <3>2, KeepsLife DEF Life
  <2> QED
      BY <1>11, <2>1, DisposetaskKeepsLife DEF Deinstalltask
<1> QED
    BY <1>1, <1>2, <1>3, <1>4, <1>5, <1>6, <1>7, <1>8, <1>9, <1>10, <1>11 DEF MainStep

\* Every call of the interface keeps it.
LEMMA CallKeepsLife ==
    ASSUME TypeInv, Life, NEW t \in Task, CallStep(t)
    PROVE  Life'
<1>0. /\ Typed /\ task \in [Task -> TaskRecord] /\ proc \in [Task -> GoodProc]
      /\ stack \in Seq(GoodFrame)
    BY DEF TypeInv, Typed
<1>1. \A u \in Task : ~AwaitsStartup(u)
    BY MayNotWaiting DEF CallStep, Newtask, Starttask, Stoptask, Disposes, Messagetask,
       AsetattrsasyncA, SettaskSuspend
<1>2. CASE Newtask(t)
  <2>1. UNCHANGED <<proc, stack, semaport, procured>>
      BY <1>2 DEF Newtask, semas
  <2>2. \A u \in Task : /\ task'[u].state = task[u].state /\ task'[u].flags = task[u].flags
                        /\ task'[u].obj = "freed" => task[u].obj = "freed"
      BY <1>0, <1>2 DEF Newtask, TaskRecord
  <2>3. stack' \in Seq(SafeFrame')
      BY <2>1, <2>2, SafeStack
  <2> QED
      BY <2>1, <2>2, <2>3, KeepsLife DEF Life
<1>3. CASE Starttask(t)
  <2>1. UNCHANGED <<semaport, procured>> /\ task[t].obj = "live" /\ task[t].flags = {}
      BY <1>3 DEF Starttask, IsNew, semas
  <2>2. CASE task' = [task EXCEPT ![t].state = "DEAD"] /\ UNCHANGED <<proc, stack>>
    <3>1. \A u \in Task : /\ task'[u].state \in {task[u].state, "DEAD"}
                          /\ task'[u].flags = task[u].flags /\ task'[u].obj = task[u].obj
        BY <1>0, <2>2 DEF TaskRecord
    <3>2. stack' \in Seq(SafeFrame')
        BY <2>2, <3>1, SafeStack
    <3> QED
        BY <2>1, <2>2, <3>1, <3>2, KeepsLife DEF Life
  <2>3. CASE /\ proc' = [proc EXCEPT ![t].at = "created"]
             /\ stack' = <<Frame("Waitformsg", t, Startup, "scan")>> \o stack
             /\ UNCHANGED task
    <3>1. \A u \in Task \ {t} : proc'[u] = proc[u]
        BY <1>0, <2>3
    <3>2. t \notin EndedTasks
        BY <2>1 DEF EndedTasks
    <3>3. /\ EndedTasks \subseteq EndedTasks' /\ SafeFrame \subseteq SafeFrame'
          /\ semaport \in Seq(EndedTasks') /\ stack \in Seq(SafeFrame')
        BY <2>3, <3>1, <3>2, SafeStays DEF EndedTasks, Life
    <3>4. Frame("Waitformsg", t, Startup, "scan") \in SafeFrame'
        BY DEF Frame, SafeFrame, GoodFrame, Frames, Startup, Msg, Message, Kinds
    <3>5. stack' \in Seq(SafeFrame')
        BY <2>3, <3>3, <3>4, PushType
    <3>6. \A u \in Task : task[u].state \in {"RUN", "SUSPEND"} => HasSubport(u)'
        BY <1>3, <3>1 DEF Starttask, IsNew, Life, HasSubport
    <3> QED
        BY <2>1, <2>3, <3>3, <3>5, <3>6 DEF Life
  <2> QED
      BY <1>3, <2>2, <2>3 DEF Starttask, IsNew
<1>4. CASE Stoptask(t)
  <2>1. UNCHANGED <<task, stack, semaport, procured>>
      BY <1>4 DEF Stoptask, semas
  <2>2. \A u \in Task : proc'[u].at = proc[u].at
      BY <1>0, <1>4 DEF Stoptask, BreakSubtask, GoodProc
  <2>3. stack' \in Seq(SafeFrame')
      BY <2>1, <2>2, SafeStack
  <2> QED
      BY <2>1, <2>2, <2>3, KeepsLife DEF Life
<1>5. CASE Disposes(t)
    BY <1>5, DisposetaskKeepsLife DEF Disposes
<1>6. ASSUME NEW kind \in Kinds, NEW async \in BOOLEAN, NEW possible, NEW wait,
             Send(t, kind, async, possible, wait), NEW wanted \in BOOLEAN,
             \/ task' = [task EXCEPT ![t].messages = @ + 1]
             \/ task' = [task EXCEPT ![t].messages = @ + 1, ![t].wanted = wanted]
      PROVE  Life'
  <2> DEFINE m == Msg(t, kind, async, task[t].messages + 1)
  <2>1. UNCHANGED <<semaport, procured>>
      BY <1>6 DEF Send, semas
  <2>2. \A u \in Task : /\ task'[u].state = task[u].state /\ task'[u].flags = task[u].flags
                        /\ task'[u].obj = task[u].obj
    <3>1. CASE task' = [task EXCEPT ![t].messages = @ + 1]
        BY <1>0, <3>1 DEF TaskRecord
    <3>2. CASE task' = [task EXCEPT ![t].messages = @ + 1, ![t].wanted = wanted]
        BY <1>0, <3>2 DEF TaskRecord
    <3> QED
        BY <1>6, <3>1, <3>2
  <2>3. \A u \in Task : proc'[u].at = proc[u].at
      BY <1>0, <1>6 DEF Send, GoodProc
  <2>4. m \in GoodMsg /\ GoodMsg \subseteq Message
      BY <1>0, <1>6 DEF Msg, GoodMsg, Message, TaskRecord
  <2> HIDE DEF m
  <2>5. /\ Frame("Processreply", t, m, "begin") \in GoodFrame
        /\ Frame("Waitformsg", t, m, "scan") \in GoodFrame
        /\ Frame("Processreply", t, m, "begin").op # "Dodisposetask"
        /\ Frame("Waitformsg", t, m, "scan").op # "Dodisposetask"
      BY <2>4 DEF Frame, GoodFrame, Frames
  <2>6. \/ stack' = stack
        \/ stack' = <<Frame("Processreply", t, m, "begin")>> \o stack
        \/ stack' = <<Frame("Waitformsg", t, m, "scan")>> \o stack
      BY <1>6 DEF Send, m
  <2>7. stack' \in Seq(SafeFrame')
      BY <2>2, <2>3, <2>5, <2>6, SafeStack
  <2> QED
      BY <2>1, <2>2, <2>3, <2>7, KeepsLife DEF Life
<1>7. CASE \E async \in BOOLEAN : Messagetask(t, async)
    BY <1>6, <1>7 DEF Messagetask, Kinds
<1>8. CASE AsetattrsasyncA(t)
    BY <1>6, <1>8 DEF AsetattrsasyncA, Kinds
<1>9. CASE \E data, async \in BOOLEAN : SettaskSuspend(t, data, async)
  <2>1. PICK data \in BOOLEAN, async \in BOOLEAN : SettaskSuspend(t, data, async)
      BY <1>9
  <2>2. CASE Suspendtask(t, async)
      BY <1>6, <2>2 DEF Suspendtask, Kinds
  <2>3. CASE /\ task' = [task EXCEPT ![t].wanted = FALSE]
             /\ UNCHANGED <<proc, taskport, mask, semas, stack, quitting>>
    <3>1. \A u \in Task : /\ task'[u].state = task[u].state /\ task'[u].flags = task[u].flags
                          /\ task'[u].obj = task[u].obj
        BY <1>0, <2>3 DEF TaskRecord
    <3>2. UNCHANGED <<proc, stack, semaport, procured>>
        BY <2>3 DEF semas
    <3>3. stack' \in Seq(SafeFrame')
        BY <3>1, <3>2, SafeStack
    <3> QED
        BY <3>1, <3>2, <3>3, KeepsLife DEF Life
  <2> QED
      BY <2>1, <2>2, <2>3 DEF SettaskSuspend
<1> QED
    BY <1>2, <1>3, <1>4, <1>5, <1>7, <1>8, <1>9 DEF CallStep

\* The life invariant holds at the start, and every step keeps it.
LEMMA LifeInductive ==
    /\ Init => Life
    /\ TypeInv /\ Life /\ [Next]_vars => Life'
<1>1. Init => Life
  <2> SUFFICES ASSUME Init PROVE Life
      OBVIOUS
  <2>1. <<>> \in Seq(EndedTasks) /\ <<>> \in Seq(SafeFrame)
      OBVIOUS
  <2> QED
      BY <2>1 DEF Init, Life
<1>2. ASSUME TypeInv, Life, [Next]_vars PROVE Life'
  <2>1. ASSUME UNCHANGED <<task, proc, semaport, procured, stack>> PROVE Life'
      BY <1>2, <2>1 DEF Life, EndedTasks, SafeFrame, HasSubport
  <2>2. CASE UNCHANGED vars
      BY <2>1, <2>2 DEF vars, semas
  <2>3. CASE Quits
      BY <2>1, <2>3 DEF Quits, semas
  <2> QED
      BY <1>2, <2>2, <2>3, SubtaskKeepsLife, CallKeepsLife, MainKeepsLife DEF Next
<1> QED
    BY <1>1, <1>2

\* When Dodisposetask frees a task object, its subtask has released runsema:
\* no process runs on freed memory, however main's recursion went.
THEOREM FreedTaskIsSafe == Spec => []FreedTaskHasEnded
<1>1. Life => FreedTaskHasEnded
    BY DEF Life, FreedTaskHasEnded, EndedTasks
<1> QED
    BY <1>1, LifeInductive, TypeInvariant, PTL DEF Spec

\* A step sets the Ctrl-C of a process only where Stoptask has seen it alive.
LEMMA BreakEffect ==
    ASSUME TypeInv, Life, [Next]_vars, NEW u \in Task, proc'[u].ctrlC, ~proc[u].ctrlC
    PROVE  CanBreak(u)
<1>0. /\ Typed /\ \A t \in Task : proc[t] \in GoodProc
      /\ proc \in [Task -> GoodProc] /\ proc[u].ctrlC \in BOOLEAN
    BY DEF TypeInv, Typed, GoodProc
<1>1. CASE UNCHANGED proc
    BY <1>1
<1>2. ASSUME NEW t \in Task, BreakSubtask(t) PROVE CanBreak(u)
    BY <1>0, <1>2 DEF BreakSubtask, GoodProc
<1>3. ASSUME NEW m \in GoodMsg, Answer(m) PROVE CanBreak(u)
    BY <1>0, <1>3 DEF Answer, GoodProc, GoodMsg
<1>4. ASSUME NEW t \in Task, Disposetask(t) PROVE CanBreak(u)
    BY <1>1, <1>2, <1>4 DEF Disposetask, StartDispose
<1>5. ASSUME NEW t \in Task, SubtaskStep(t) PROVE CanBreak(u)
    BY <1>0, <1>5, SubtaskEffect, SubtaskLife
<1>6. ASSUME NEW t \in Task, NEW kind, NEW async, NEW possible, NEW wait,
             Send(t, kind, async, possible, wait)
      PROVE  CanBreak(u)
  <2>1. proc'[u].ctrlC = proc[u].ctrlC
      BY <1>0, <1>6 DEF Send, GoodProc
  <2> QED
      BY <2>1
<1>7. ASSUME NEW t \in Task, CallStep(t) PROVE CanBreak(u)
  <2>1. CASE Starttask(t)
    <3>1. proc' = proc \/ proc' = [proc EXCEPT ![t].at = "created"]
        BY <2>1 DEF Starttask, IsNew
    <3>2. proc'[u].ctrlC = proc[u].ctrlC
        BY <1>0, <3>1 DEF GoodProc
    <3> QED
        BY <3>2
  <2>2. CASE Newtask(t) \/ Stoptask(t) \/ Disposes(t)
      BY <1>1, <1>2, <1>4, <2>2 DEF Newtask, Stoptask, Disposes
  <2>3. CASE \/ AsetattrsasyncA(t)
             \/ \E async \in BOOLEAN : Messagetask(t, async)
             \/ \E data, async \in BOOLEAN : SettaskSuspend(t, data, async)
      BY <1>1, <1>6, <2>3
         DEF AsetattrsasyncA, Messagetask, SettaskSuspend, Suspendtask
  <2> QED
      BY <1>7, <2>1, <2>2, <2>3 DEF CallStep
<1>8. CASE ProcessreplyBegins \/ HandlerReturns
  <2>1. Head(stack).msg \in GoodMsg
      BY <1>0, <1>8, TopType DEF ProcessreplyBegins, HandlerReturns, At, GoodFrame
  <2> QED
      BY <1>1, <1>3, <1>8, <2>1 DEF ProcessreplyBegins, HandlerReturns
<1>9. CASE ProcessreplyEnds
  <2>1. Head(stack).task \in Task
      BY <1>0, <1>9, TopType DEF ProcessreplyEnds, At, GoodFrame
  <2> QED
      BY <1>1, <1>2, <1>9, <2>1 DEF ProcessreplyEnds, StartDispose
<1>10. CASE Deinstalltask
    BY <1>1, <1>4, <1>10 DEF Deinstalltask
<1>11. CASE MainStep /\ ~Deinstalltask /\ ~ProcessreplyBegins /\ ~HandlerReturns
            /\ ~ProcessreplyEnds
    BY <1>1, <1>11 DEF MainStep, MainWaits, Processtask, ProcesstaskEnds, WaitformsgScans,
       WaitformsgBlocks, WaitformsgWakes, Processtaskreply, Procures, StoptaskWakes,
       WaitsAgain, Frees
<1> QED
    BY <1>1, <1>5, <1>7, <1>8, <1>9, <1>10, <1>11 DEF Next, Quits, vars

\* Stoptask sends Ctrl-C only to a process that is still inside Subtask.
THEOREM BreakIsSafe == Spec => BreaksOnlyTheLiving
<1>1. TypeInv /\ Life /\ [Next]_vars =>
        [\A t \in Task : proc'[t].ctrlC /\ ~proc[t].ctrlC => HasSubport(t)]_vars
  <2> SUFFICES ASSUME TypeInv, Life, [Next]_vars, NEW t \in Task,
                      proc'[t].ctrlC, ~proc[t].ctrlC
               PROVE  HasSubport(t)
      OBVIOUS
  <2>1. task[t] \in TaskRecord
      BY DEF TypeInv, Typed
  <2> QED
      BY <2>1, BreakEffect DEF CanBreak, Life, TaskRecord
<1> QED
    BY <1>1, LifeInductive, TypeInvariant, PTL DEF Spec, BreaksOnlyTheLiving

-----------------------------------------------------------------------------
(* Sequences: what is in them when one element comes or goes *)

\* An element put in front of a sequence: places move up by one.
LEMMA Pushed ==
    ASSUME NEW S, NEW s \in Seq(S), NEW e
    PROVE  /\ DOMAIN (<<e>> \o s) = 1 .. Len(s) + 1 /\ DOMAIN s = 1 .. Len(s)
           /\ Len(s) \in Nat /\ Len(<<e>> \o s) = Len(s) + 1
           /\ (<<e>> \o s)[1] = e
           /\ \A i \in DOMAIN s : i + 1 \in DOMAIN (<<e>> \o s) /\ (<<e>> \o s)[i + 1] = s[i]
           /\ \A i \in DOMAIN (<<e>> \o s) \ {1} : i - 1 \in DOMAIN s /\ (<<e>> \o s)[i] = s[i - 1]
           /\ Range(<<e>> \o s) = {e} \cup Range(s)
<1> DEFINE T == S \cup {e}
           q == <<e>> \o s
<1>1. s \in Seq(T) /\ <<e>> \in Seq(T) /\ Len(<<e>>) = 1 /\ <<e>>[1] = e
    BY SeqMonotonic
<1>2. /\ q \in Seq(T) /\ Len(q) = 1 + Len(s)
      /\ \A i \in 1 .. 1 + Len(s) : q[i] = IF i =< 1 THEN <<e>>[i] ELSE s[i - 1]
    BY <1>1, ConcatProperties
<1>3. Len(s) \in Nat /\ DOMAIN s = 1 .. Len(s) /\ DOMAIN q = 1 .. Len(s) + 1
    BY <1>1, <1>2, LenProperties
<1> HIDE DEF q
<1>4. q[1] = e
    BY <1>1, <1>2, <1>3
<1>5. \A i \in DOMAIN s : i + 1 \in DOMAIN q /\ q[i + 1] = s[i]
  <2>1. ASSUME NEW i \in DOMAIN s PROVE i + 1 \in DOMAIN q /\ q[i + 1] = s[i]
      BY <1>2, <1>3, <2>1
  <2> QED BY <2>1
<1>6. \A i \in DOMAIN q \ {1} : i - 1 \in DOMAIN s /\ q[i] = s[i - 1]
    BY <1>2, <1>3
<1>7. Range(q) = {e} \cup Range(s)
  <2>1. ASSUME NEW x \in Range(q) PROVE x \in {e} \cup Range(s)
      BY <1>4, <1>6 DEF Range
  <2>2. e \in Range(q)
      BY <1>3, <1>4 DEF Range
  <2>3. ASSUME NEW x \in Range(s) PROVE x \in Range(q)
      BY <1>5 DEF Range
  <2> QED BY <2>1, <2>2, <2>3
<1> QED
    BY <1>2, <1>3, <1>4, <1>5, <1>6, <1>7 DEF q

\* The first element taken away: places move down by one.
LEMMA Popped ==
    ASSUME NEW S, NEW s \in Seq(S), s # <<>>
    PROVE  /\ DOMAIN Tail(s) = 1 .. Len(s) - 1 /\ DOMAIN s = 1 .. Len(s)
           /\ Len(s) \in Nat \ {0} /\ Tail(s) \in Seq(S)
           /\ s[1] = Head(s) /\ 1 \in DOMAIN s
           /\ \A i \in DOMAIN Tail(s) : i + 1 \in DOMAIN s /\ Tail(s)[i] = s[i + 1]
           /\ \A i \in DOMAIN s \ {1} : i - 1 \in DOMAIN Tail(s) /\ s[i] = Tail(s)[i - 1]
           /\ Range(s) = {Head(s)} \cup Range(Tail(s))
<1> DEFINE q == Tail(s)
<1>1. q \in Seq(S) /\ Len(q) = Len(s) - 1 /\ \A i \in 1 .. Len(q) : q[i] = s[i + 1]
    BY HeadTailProperties
<1>2. Len(s) \in Nat \ {0} /\ DOMAIN s = 1 .. Len(s) /\ DOMAIN q = 1 .. Len(s) - 1 /\ s[1] = Head(s)
    BY <1>1, LenProperties, EmptySeq
<1> HIDE DEF q
<1>3. 1 \in DOMAIN s
    BY <1>2
<1>4. \A i \in DOMAIN q : i + 1 \in DOMAIN s /\ q[i] = s[i + 1]
    BY <1>1, <1>2
<1>5. \A i \in DOMAIN s \ {1} : i - 1 \in DOMAIN q /\ s[i] = q[i - 1]
  <2>1. ASSUME NEW i \in DOMAIN s \ {1} PROVE i - 1 \in DOMAIN q /\ s[i] = q[i - 1]
    <3>1. i - 1 \in 1 .. Len(s) - 1 /\ (i - 1) + 1 = i
        BY <1>2
    <3> QED BY <3>1, <1>1, <1>2
  <2> QED BY <2>1
<1>6. Range(s) = {Head(s)} \cup Range(q)
  <2>1. ASSUME NEW x \in Range(s) PROVE x \in {Head(s)} \cup Range(q)
      BY <1>2, <1>5 DEF Range
  <2>2. Head(s) \in Range(s)
      BY <1>2, <1>3 DEF Range
  <2>3. ASSUME NEW x \in Range(q) PROVE x \in Range(s)
      BY <1>4 DEF Range
  <2> QED BY <2>1, <2>2, <2>3
<1> QED
    BY <1>1, <1>2, <1>3, <1>4, <1>5, <1>6 DEF q

\* An element taken out of the middle: the places behind it move down.
LEMMA Taken ==
    ASSUME NEW S, NEW s \in Seq(S), NEW i \in DOMAIN s
    PROVE  /\ Without(s, i) \in Seq(S)
           /\ DOMAIN Without(s, i) = 1 .. Len(s) - 1 /\ DOMAIN s = 1 .. Len(s) /\ Len(s) \in Nat \ {0}
           /\ \A j \in DOMAIN Without(s, i) : Without(s, i)[j] = IF j < i THEN s[j] ELSE s[j + 1]
           /\ \A x : x \in Range(Without(s, i)) <=> \E j \in DOMAIN s \ {i} : s[j] = x
<1> DEFINE a == SubSeq(s, 1, i - 1)
           b == SubSeq(s, i + 1, Len(s))
           q == Without(s, i)
<1>1. DOMAIN s = 1 .. Len(s) /\ Len(s) \in Nat \ {0} /\ i \in 1 .. Len(s) /\ \A j \in 1 .. Len(s) : s[j] \in S
    BY LenProperties, ElementOfSeq
<1>2. 1 \in Int /\ i - 1 \in Int /\ i + 1 \in Int /\ Len(s) \in Int
    BY <1>1
<1>3. (\A j \in 1 .. i - 1 : s[j] \in S) /\ \A j \in i + 1 .. Len(s) : s[j] \in S
    BY <1>1
<1>4. /\ a \in Seq(S) /\ Len(a) = i - 1 /\ \A j \in 1 .. i - 1 : a[j] = s[j]
  <2>1. /\ a \in Seq(S) /\ Len(a) = IF 1 =< i - 1 THEN (i - 1) - 1 + 1 ELSE 0
        /\ \A j \in 1 .. (i - 1) - 1 + 1 : a[j] = s[1 + j - 1]
      BY <1>2, <1>3, SubSeqProperties
  <2> QED BY <1>1, <2>1
<1>5. /\ b \in Seq(S) /\ Len(b) = Len(s) - i /\ \A j \in 1 .. Len(s) - i : b[j] = s[i + j]
  <2>1. /\ b \in Seq(S) /\ Len(b) = IF i + 1 =< Len(s) THEN Len(s) - (i + 1) + 1 ELSE 0
        /\ \A j \in 1 .. Len(s) - (i + 1) + 1 : b[j] = s[(i + 1) + j - 1]
      BY <1>2, <1>3, SubSeqProperties
  <2> QED BY <1>1, <2>1
<1>6. /\ q \in Seq(S) /\ Len(q) = Len(s) - 1
      /\ \A j \in 1 .. Len(s) - 1 : q[j] = IF j < i THEN s[j] ELSE s[j + 1]
  <2>1. /\ a \o b \in Seq(S) /\ Len(a \o b) = Len(a) + Len(b)
        /\ \A j \in 1 .. Len(a) + Len(b) : (a \o b)[j] = IF j <= Len(a) THEN a[j] ELSE b[j - Len(a)]
      BY <1>4, <1>5, ConcatProperties
  <2>2. q = a \o b
      BY DEF Without
  <2> HIDE DEF a, b, q
  <2>3. ASSUME NEW j \in 1 .. Len(s) - 1 PROVE q[j] = IF j < i THEN s[j] ELSE s[j + 1]
    <3>1. CASE j < i
        BY <1>1, <1>4, <1>5, <2>1, <2>2, <3>1
    <3>2. CASE ~ (j < i)
      <4>1. j - (i - 1) \in 1 .. Len(s) - i /\ i + (j - (i - 1)) = j + 1
          BY <1>1, <3>2
      <4>2. b[j - (i - 1)] = s[j + 1]
          BY <1>5, <4>1
      <4>3. j \in 1 .. Len(a) + Len(b) /\ ~ (j <= Len(a)) /\ j - Len(a) = j - (i - 1)
          BY <1>1, <1>4, <1>5, <3>2
      <4>4. q[j] = b[j - (i - 1)]
          BY <2>1, <2>2, <4>3
      <4> QED BY <3>2, <4>2, <4>4
    <3> QED BY <3>1, <3>2
  <2>4. Len(a) + Len(b) = Len(s) - 1
      BY <1>1, <1>4, <1>5
  <2>5. q \in Seq(S) /\ Len(q) = Len(s) - 1
      BY <2>1, <2>2, <2>4
  <2>6. \A j \in 1 .. Len(s) - 1 : q[j] = IF j < i THEN s[j] ELSE s[j + 1]
      BY <2>3
  <2> QED BY <2>5, <2>6
<1>7. DOMAIN q = 1 .. Len(s) - 1
    BY <1>6, LenProperties
<1> HIDE DEF q
<1>8. ASSUME NEW j \in DOMAIN s \ {i} PROVE \E k \in DOMAIN q : q[k] = s[j]
  <2>1. CASE j < i
    <3>1. j \in 1 .. Len(s) - 1
        BY <1>1, <2>1
    <3> QED BY <3>1, <2>1, <1>6, <1>7
  <2>2. CASE j > i
    <3>1. j - 1 \in 1 .. Len(s) - 1 /\ ~ (j - 1 < i) /\ (j - 1) + 1 = j
        BY <1>1, <2>2
    <3>2. q[j - 1] = s[j]
        BY <3>1, <1>6
    <3> QED BY <3>1, <3>2, <1>7
  <2> QED BY <1>1, <2>1, <2>2
<1>9. ASSUME NEW k \in DOMAIN q PROVE \E j \in DOMAIN s \ {i} : s[j] = q[k]
  <2>1. CASE k < i
    <3>1. k \in DOMAIN s \ {i} /\ s[k] = q[k]
        BY <1>1, <1>6, <1>7, <2>1
    <3> QED BY <3>1
  <2>2. CASE ~ (k < i)
    <3>1. k + 1 \in DOMAIN s \ {i} /\ s[k + 1] = q[k]
        BY <1>1, <1>6, <1>7, <2>2
    <3> QED BY <3>1
  <2> QED BY <2>1, <2>2
<1>10. \A x : x \in Range(q) <=> \E j \in DOMAIN s \ {i} : s[j] = x
  <2>1. ASSUME NEW x \in Range(q) PROVE \E j \in DOMAIN s \ {i} : s[j] = x
    <3>1. PICK k \in DOMAIN q : x = q[k]
        BY DEF Range
    <3> QED BY <3>1, <1>9
  <2>2. ASSUME NEW j \in DOMAIN s \ {i} PROVE s[j] \in Range(q)
    <3>1. PICK k \in DOMAIN q : q[k] = s[j]
        BY <1>8
    <3> QED BY <3>1 DEF Range
  <2> QED BY <2>1, <2>2
<1> QED
    BY <1>1, <1>6, <1>7, <1>10 DEF q

\* An element put at the end: the other places keep theirs.
LEMMA Added ==
    ASSUME NEW S, NEW s \in Seq(S), NEW e \in S
    PROVE  /\ DOMAIN Append(s, e) = 1 .. Len(s) + 1 /\ DOMAIN s = 1 .. Len(s) /\ Len(s) \in Nat
           /\ \A i \in DOMAIN s : Append(s, e)[i] = s[i]
           /\ Append(s, e)[Len(s) + 1] = e
           /\ Range(Append(s, e)) = Range(s) \cup {e}
<1> DEFINE q == Append(s, e)
<1>1. /\ q \in Seq(S) /\ Len(q) = Len(s) + 1
      /\ \A i \in 1 .. Len(s) : q[i] = s[i]
      /\ q[Len(s) + 1] = e
    BY AppendProperties
<1>2. Len(s) \in Nat /\ DOMAIN s = 1 .. Len(s) /\ DOMAIN q = 1 .. Len(s) + 1
    BY <1>1, LenProperties
<1> HIDE DEF q
<1>3. Range(q) = Range(s) \cup {e}
  <2>1. ASSUME NEW x \in Range(q) PROVE x \in Range(s) \cup {e}
    <3>1. PICK i \in 1 .. Len(s) + 1 : x = q[i]
        BY <1>2 DEF Range
    <3>2. i \in 1 .. Len(s) \/ i = Len(s) + 1
        BY <1>2
    <3> QED BY <1>1, <1>2, <3>1, <3>2 DEF Range
  <2>2. e \in Range(q)
    <3>1. Len(s) + 1 \in 1 .. Len(s) + 1
        BY <1>2
    <3> QED BY <1>1, <1>2, <3>1 DEF Range
  <2>3. ASSUME NEW x \in Range(s) PROVE x \in Range(q)
      BY <1>1, <1>2 DEF Range
  <2> QED BY <2>1, <2>2, <2>3
<1> QED
    BY <1>1, <1>2, <1>3 DEF q

-----------------------------------------------------------------------------
(* Sequences: whether they hold an element of a set, and how often *)

\* Some element of s is in A; at most one is.
HoldsIn(s, A) == \E i \in DOMAIN s : s[i] \in A
OnceIn(s, A) == \A i, j \in DOMAIN s : s[i] \in A /\ s[j] \in A => i = j

\* An empty sequence holds nothing.
LEMMA InEmpty ==
    ASSUME NEW A PROVE ~ HoldsIn(<<>>, A) /\ OnceIn(<<>>, A)
BY DEF HoldsIn, OnceIn

\* What a sequence holds after a push,
LEMMA InPushed ==
    ASSUME NEW S, NEW s \in Seq(S), NEW e, NEW A
    PROVE  /\ HoldsIn(<<e>> \o s, A) <=> e \in A \/ HoldsIn(s, A)
           /\ OnceIn(s, A) /\ (e \in A => ~ HoldsIn(s, A)) => OnceIn(<<e>> \o s, A)
<1> DEFINE q == <<e>> \o s
<1>1. /\ DOMAIN q = 1 .. Len(s) + 1 /\ DOMAIN s = 1 .. Len(s) /\ Len(s) \in Nat /\ q[1] = e
      /\ \A i \in DOMAIN s : i + 1 \in DOMAIN q /\ q[i + 1] = s[i]
      /\ \A i \in DOMAIN q \ {1} : i - 1 \in DOMAIN s /\ q[i] = s[i - 1]
    BY Pushed
<1> HIDE DEF q
<1>2. 1 \in DOMAIN q
    BY <1>1
<1>3. HoldsIn(q, A) <=> e \in A \/ HoldsIn(s, A)
  <2>1. ASSUME NEW i \in DOMAIN q, q[i] \in A PROVE e \in A \/ HoldsIn(s, A)
      BY <1>1, <2>1 DEF HoldsIn
  <2>2. ASSUME e \in A PROVE HoldsIn(q, A)
      BY <1>1, <1>2, <2>2 DEF HoldsIn
  <2>3. ASSUME NEW i \in DOMAIN s, s[i] \in A PROVE HoldsIn(q, A)
      BY <1>1, <2>3 DEF HoldsIn
  <2> QED BY <2>1, <2>2, <2>3 DEF HoldsIn
<1>4. ASSUME OnceIn(s, A), e \in A => ~ HoldsIn(s, A),
             NEW i \in DOMAIN q, NEW j \in DOMAIN q, q[i] \in A, q[j] \in A
      PROVE  i = j
  <2>1. CASE i = 1 /\ j = 1
      BY <2>1
  <2>2. CASE i = 1 /\ j # 1
      BY <1>1, <1>4, <2>2 DEF HoldsIn
  <2>3. CASE i # 1 /\ j = 1
      BY <1>1, <1>4, <2>3 DEF HoldsIn
  <2>4. CASE i # 1 /\ j # 1
    <3>1. i - 1 \in DOMAIN s /\ j - 1 \in DOMAIN s /\ s[i - 1] \in A /\ s[j - 1] \in A
        BY <1>1, <1>4, <2>4
    <3>2. i - 1 = j - 1
        BY <1>4, <3>1 DEF OnceIn
    <3> QED BY <1>1, <3>2
  <2> QED BY <2>1, <2>2, <2>3, <2>4
<1> QED
    BY <1>3, <1>4 DEF OnceIn, q

\* a pop,
LEMMA InPopped ==
    ASSUME NEW S, NEW s \in Seq(S), s # <<>>, NEW A
    PROVE  /\ HoldsIn(s, A) <=> Head(s) \in A \/ HoldsIn(Tail(s), A)
           /\ OnceIn(s, A) => OnceIn(Tail(s), A) /\ (Head(s) \in A => ~ HoldsIn(Tail(s), A))
<1> DEFINE q == Tail(s)
<1>1. /\ DOMAIN s = 1 .. Len(s) /\ Len(s) \in Nat /\ s[1] = Head(s) /\ 1 \in DOMAIN s
      /\ DOMAIN q = 1 .. Len(s) - 1
      /\ \A i \in DOMAIN q : i + 1 \in DOMAIN s /\ q[i] = s[i + 1]
      /\ \A i \in DOMAIN s \ {1} : i - 1 \in DOMAIN q /\ s[i] = q[i - 1]
    BY Popped
<1> HIDE DEF q
<1>2. HoldsIn(s, A) <=> Head(s) \in A \/ HoldsIn(q, A)
  <2>1. ASSUME NEW i \in DOMAIN s, s[i] \in A PROVE Head(s) \in A \/ HoldsIn(q, A)
      BY <1>1, <2>1 DEF HoldsIn
  <2>2. ASSUME Head(s) \in A PROVE HoldsIn(s, A)
      BY <1>1, <2>2 DEF HoldsIn
  <2>3. ASSUME NEW i \in DOMAIN q, q[i] \in A PROVE HoldsIn(s, A)
      BY <1>1, <2>3 DEF HoldsIn
  <2> QED BY <2>1, <2>2, <2>3 DEF HoldsIn
<1>3. ASSUME OnceIn(s, A), NEW i \in DOMAIN q, NEW j \in DOMAIN q, q[i] \in A, q[j] \in A
      PROVE  i = j
  <2>1. i + 1 \in DOMAIN s /\ j + 1 \in DOMAIN s /\ s[i + 1] \in A /\ s[j + 1] \in A
      BY <1>1, <1>3
  <2>2. i + 1 = j + 1
      BY <1>3, <2>1 DEF OnceIn
  <2> QED BY <1>1, <2>2
<1>4. ASSUME OnceIn(s, A), NEW i \in DOMAIN q, q[i] \in A, Head(s) \in A PROVE FALSE
  <2>1. i + 1 \in DOMAIN s /\ s[i + 1] \in A /\ s[1] \in A
      BY <1>1, <1>4
  <2>2. i + 1 = 1
      BY <1>1, <1>4, <2>1 DEF OnceIn
  <2> QED BY <1>1, <2>2
<1> QED
    BY <1>2, <1>3, <1>4 DEF OnceIn, HoldsIn, q

\* a removal,
LEMMA InTaken ==
    ASSUME NEW S, NEW s \in Seq(S), NEW i \in DOMAIN s, NEW A
    PROVE  /\ HoldsIn(s, A) <=> s[i] \in A \/ HoldsIn(Without(s, i), A)
           /\ OnceIn(s, A) => /\ OnceIn(Without(s, i), A)
                              /\ s[i] \in A => ~ HoldsIn(Without(s, i), A)
<1> DEFINE q == Without(s, i)
<1>1. /\ DOMAIN q = 1 .. Len(s) - 1 /\ DOMAIN s = 1 .. Len(s) /\ Len(s) \in Nat \ {0}
      /\ \A j \in DOMAIN q : q[j] = IF j < i THEN s[j] ELSE s[j + 1]
      /\ \A x : x \in Range(q) <=> \E j \in DOMAIN s \ {i} : s[j] = x
    BY Taken
<1> HIDE DEF q
<1> DEFINE at(k) == IF k < i THEN k ELSE k + 1
<1>2. ASSUME NEW k \in DOMAIN q
      PROVE  at(k) \in DOMAIN s \ {i} /\ q[k] = s[at(k)]
    BY <1>1
<1>3. ASSUME NEW j \in DOMAIN s \ {i} PROVE \E k \in DOMAIN q : q[k] = s[j]
  <2>1. s[j] \in Range(q)
      BY <1>1
  <2> QED BY <2>1 DEF Range
<1>4. \A k, l \in DOMAIN q : at(k) = at(l) => k = l
    BY <1>1
<1> HIDE DEF at
<1>5. ASSUME NEW j \in DOMAIN s, s[j] \in A PROVE s[i] \in A \/ HoldsIn(q, A)
    BY <1>3, <1>5 DEF HoldsIn
<1>6. ASSUME NEW k \in DOMAIN q, q[k] \in A PROVE HoldsIn(s, A) /\ (OnceIn(s, A) => s[i] \notin A)
    BY <1>2, <1>6 DEF HoldsIn, OnceIn
<1>7. ASSUME OnceIn(s, A), NEW k \in DOMAIN q, NEW l \in DOMAIN q, q[k] \in A, q[l] \in A
      PROVE  k = l
  <2>1. at(k) = at(l)
      BY <1>2, <1>7 DEF OnceIn
  <2> QED BY <1>4, <2>1
<1>8. HoldsIn(s, A) <=> s[i] \in A \/ HoldsIn(q, A)
  <2>1. ASSUME s[i] \in A PROVE HoldsIn(s, A)
      BY <2>1 DEF HoldsIn
  <2> QED BY <1>5, <1>6, <2>1 DEF HoldsIn
<1>9. OnceIn(s, A) => OnceIn(q, A) /\ (s[i] \in A => ~ HoldsIn(q, A))
  <2>1. OnceIn(s, A) => OnceIn(q, A)
      BY <1>7 DEF OnceIn
  <2>2. OnceIn(s, A) /\ s[i] \in A => ~ HoldsIn(q, A)
      BY <1>6 DEF HoldsIn
  <2> QED BY <2>1, <2>2
<1> QED
    BY <1>8, <1>9 DEF q

\* and an addition at the end.
LEMMA InAdded ==
    ASSUME NEW S, NEW s \in Seq(S), NEW e \in S, NEW A
    PROVE  /\ HoldsIn(Append(s, e), A) <=> HoldsIn(s, A) \/ e \in A
           /\ OnceIn(s, A) /\ (e \in A => ~ HoldsIn(s, A)) => OnceIn(Append(s, e), A)
<1> DEFINE q == Append(s, e)
<1>1. /\ DOMAIN q = 1 .. Len(s) + 1 /\ DOMAIN s = 1 .. Len(s) /\ Len(s) \in Nat
      /\ \A i \in DOMAIN s : q[i] = s[i]
      /\ q[Len(s) + 1] = e
    BY Added
<1> HIDE DEF q
<1>2. /\ Len(s) + 1 \in DOMAIN q /\ \A i \in DOMAIN s : i \in DOMAIN q
      /\ \A i \in DOMAIN q : i \in DOMAIN s \/ i = Len(s) + 1
    BY <1>1
<1>3. HoldsIn(q, A) <=> HoldsIn(s, A) \/ e \in A
    BY <1>1, <1>2 DEF HoldsIn
<1>4. OnceIn(s, A) /\ (e \in A => ~ HoldsIn(s, A)) => OnceIn(q, A)
    BY <1>1, <1>2 DEF OnceIn, HoldsIn
<1> QED
    BY <1>3, <1>4 DEF q

-----------------------------------------------------------------------------
(* What the steps of main do to the messages and the activations *)

\* Steps that keep every object with its flags, every subtask with its
\* messages, the messages and signals of taskport and semaport.
TaskSame == \A t \in Task : task'[t].obj = task[t].obj /\ task'[t].flags = task[t].flags
ProcSame == \A t \in Task :
    /\ proc'[t].at = proc[t].at /\ proc'[t].port = proc[t].port
    /\ proc'[t].held = proc[t].held /\ proc'[t].answered = proc[t].answered
Quiet == UNCHANGED <<psig, mask, semas>>

\* The innermost activation, and its replacement by one of another pc.
Top == Head(stack)
On(op, pc) == stack # <<>> /\ Top.op = op /\ Top.pc = pc
Pushes(f) == stack' = <<f>> \o stack
Turns(pc) == stack' = <<[Top EXCEPT !.pc = pc]>> \o Tail(stack)
Loop == Frame("Processtask", NoTask, NoMsg, "end")

\* The callers of the framework, Deinstalltask among them.
Caller(call, t) == May(call, t) \/ (call = "dispose" /\ stack = <<>>)

\* One of the flags of t, and nothing else of the tasks, is set or cleared.
Sets(t, F) == /\ task'[t].flags = F /\ task'[t].obj = task[t].obj
              /\ \A u \in Task \ {t} : task'[u].obj = task[u].obj /\ task'[u].flags = task[u].flags

\* The answer to m has reached its sender.
Answered(m) ==
    \A t \in Task :
        /\ proc'[t].at = proc[t].at /\ proc'[t].port = proc[t].port
        /\ proc'[t].held = proc[t].held
        /\ proc'[t].answered = (proc[t].answered \/ (IsReplied(m) /\ m.task = t))

\* Nothing of that changes; or main has seen its signal in the event loop.
Rests == TaskSame /\ ProcSame /\ UNCHANGED <<port, stack, semas>>
         /\ (UNCHANGED <<psig, mask>> \/ (stack = <<>> /\ mask'))
\* Newtask.
Creates(t) == /\ task[t].obj = "none" /\ task'[t].obj = "live" /\ task'[t].flags = task[t].flags
              /\ \A u \in Task \ {t} : task'[u].obj = task[u].obj /\ task'[u].flags = task[u].flags
              /\ ProcSame /\ UNCHANGED <<port, stack>> /\ Quiet
\* Starttask with a process.
Starts(t) == /\ Caller("start", t) /\ task[t].obj = "live" /\ task[t].flags = {}
             /\ proc[t].at = "none" /\ proc'[t].at = "created"
             /\ proc'[t].port = proc[t].port /\ proc'[t].held = proc[t].held
             /\ proc'[t].answered = proc[t].answered
             /\ \A u \in Task \ {t} : proc'[u] = proc[u]
             /\ Pushes(Frame("Waitformsg", t, Startup, "scan"))
             /\ TaskSame /\ UNCHANGED port /\ Quiet
\* The calls that send a message, and whether they wait for it.
Sends(t, m, possible, wait) ==
    /\ m \in GoodMsg /\ m.task = t /\ m.kind # "update"
    /\ Caller("sync", t) \/ Caller("suspend", t) \/ ~wait
    /\ stack = <<>> \/ On("Processreply", "handler")
    /\ task[t].obj = "live" /\ ~MustDispose(t)
    /\ possible => HasSubport(t)
    /\ \A u \in Task : /\ proc'[u].at = proc[u].at /\ proc'[u].held = proc[u].held
                       /\ proc'[u].answered = proc[u].answered
                       /\ proc'[u].port = IF possible /\ u = t THEN Append(proc[u].port, m)
                                          ELSE proc[u].port
    /\ IF ~possible THEN Pushes(Frame("Processreply", t, m, "begin"))
       ELSE IF wait THEN Pushes(Frame("Waitformsg", t, m, "scan"))
       ELSE UNCHANGED stack
    /\ TaskSame /\ UNCHANGED port /\ Quiet
\* Disposetask, put off or at once.
Defers(t) == /\ Caller("dispose", t) /\ "PROCESSING" \in task[t].flags
             /\ task[t].obj = "live" /\ "DISPOSING" \notin task[t].flags
             /\ Sets(t, task[t].flags \cup {"DISPOSING", "MUSTDISPOSE"})
             /\ ProcSame /\ UNCHANGED <<port, stack>> /\ Quiet
DisposesNow(t) == /\ Caller("dispose", t) /\ "PROCESSING" \notin task[t].flags
                  /\ task[t].obj = "live" /\ "DISPOSING" \notin task[t].flags
                  /\ Sets(t, task[t].flags \cup {"DISPOSING"})
                  /\ Pushes(Frame("Dodisposetask", t, NoMsg, "drain"))
                  /\ ProcSame /\ UNCHANGED port /\ Quiet

\* Processtask with nothing in taskport.
LoopsIdly == /\ stack = <<>> /\ port = <<>> /\ stack' = <<Loop>>
             /\ TaskSame /\ ProcSame /\ UNCHANGED <<port, psig, semas>>
\* Processreply begins on a message of taskport: for Processtask, for
\* Waitformsg (a message of the task, or the awaited one) or Dodisposetask.
Takes(i, below) ==
    /\ TaskSame /\ ProcSame /\ UNCHANGED semas
    /\ i \in DOMAIN port /\ port[i] \in GoodMsg /\ TakeReply(i, below)
    /\ \/ stack = <<>> /\ below = <<Loop>> /\ psig' = psig
       \/ /\ On("Waitformsg", "scan") /\ Top.msg # Startup /\ below = stack
          /\ port[i].task = Top.msg.task /\ port[i] # Top.msg /\ UNCHANGED <<psig, mask>>
       \/ /\ On("Waitformsg", "scan") /\ Top.msg # Startup /\ below = Tail(stack)
          /\ port[i] = Top.msg /\ psig' /\ UNCHANGED mask
       \/ /\ stack # <<>> /\ Top.op = "Dodisposetask" /\ Top.pc \in {"drain", "redrain", "final"}
          /\ below = stack /\ port[i].task = Top.task /\ UNCHANGED <<psig, mask>>
\* An activation ends: Processtask, Starttask's wait, Processreply.
Leaves ==
    /\ stack # <<>> /\ stack' = Tail(stack) /\ TaskSame /\ ProcSame /\ UNCHANGED <<semas, mask>>
    /\ \/ Top.op = "Processtask" /\ UNCHANGED port /\ psig' = (psig \/ port # <<>>)
       \/ /\ Top.op = "Processreply" /\ Top.pc = "end" /\ ~MustDispose(Top.task)
          /\ UNCHANGED <<port, psig>>
       \/ /\ On("Waitformsg", "scan") /\ Top.msg = Startup /\ psig'
          /\ \E i \in DOMAIN port : port[i] = Startup /\ port' = Without(port, i)
\* Dodisposetask has freed the task.
FreesTask == /\ On("Dodisposetask", "final") /\ NothingLeft(Top.task) /\ stack' = Tail(stack)
             /\ task'[Top.task].obj = "freed" /\ task'[Top.task].flags = task[Top.task].flags
             /\ \A u \in Task \ {Top.task} : task'[u].obj = task[u].obj /\ task'[u].flags = task[u].flags
             /\ ProcSame /\ UNCHANGED port /\ Quiet
\* Waitformsg and Dodisposetask go on.
GoesOn(pc) == /\ stack # <<>>
              /\ \/ Top.op = "Waitformsg" /\ Top.pc \in {"scan", "blocked"} /\ pc \in {"scan", "blocked"}
                 \/ /\ Top.op = "Dodisposetask" /\ Top.pc \in {"drain", "wait", "redrain"}
                    /\ pc \in {"wait", "redrain", "final"}
              /\ Turns(pc) /\ TaskSame /\ ProcSame /\ UNCHANGED port
              /\ WaitformsgBlocks \/ WaitformsgWakes \/ Procures \/ StoptaskWakes \/ WaitsAgain
\* Processreply calls the target, or answers; the handler returns; the
\* disposal that was put off begins.
CallsHandler == /\ On("Processreply", "begin") /\ Top.msg.kind = "update" /\ Turns("handler")
                /\ Sets(Top.task, task[Top.task].flags \cup {"PROCESSING"})
                /\ ProcSame /\ UNCHANGED port /\ Quiet
CallsNobody == /\ On("Processreply", "begin") /\ Turns("end") /\ TaskSame /\ Answered(Top.msg)
               /\ UNCHANGED port /\ Quiet
LeavesHandler == /\ On("Processreply", "handler") /\ Turns("end") /\ Answered(Top.msg)
                 /\ Sets(Top.task, task[Top.task].flags \ {"PROCESSING"})
                 /\ UNCHANGED port /\ Quiet
DisposesLate == /\ On("Processreply", "end") /\ MustDispose(Top.task)
                /\ Sets(Top.task, task[Top.task].flags \ {"MUSTDISPOSE"})
                /\ stack' = <<Frame("Dodisposetask", Top.task, NoMsg, "drain")>> \o Tail(stack)
                /\ ProcSame /\ UNCHANGED port /\ Quiet

\* What a step of main can be.
MainShape ==
    \/ Rests \/ LoopsIdly \/ Leaves \/ FreesTask
    \/ \E i \in DOMAIN port : \E below \in Seq(GoodFrame) : Takes(i, below)
    \/ \E pc \in {"scan", "blocked", "wait", "redrain", "final"} : GoesOn(pc)
    \/ CallsHandler \/ CallsNobody \/ LeavesHandler \/ DisposesLate
    \/ \E t \in Task : Creates(t) \/ Starts(t) \/ Defers(t) \/ DisposesNow(t)
    \/ \E t \in Task, m \in GoodMsg, possible \in BOOLEAN, wait \in BOOLEAN :
          Sends(t, m, possible, wait)

\* Processreply's answer, and the signal of Stoptask, in these terms.
LEMMA AnswerEffect ==
    ASSUME Typed, NEW m \in GoodMsg, Answer(m)
    PROVE  Answered(m)
<1>1. m.task \in Task /\ \A t \in Task : proc[t] \in GoodProc
    BY DEF GoodMsg, Typed
<1>2. CASE IsReplied(m)
  <2>1. proc' = [proc EXCEPT ![m.task].answered = TRUE]
      BY <1>2 DEF Answer
  <2> QED
      BY <1>1, <1>2, <2>1 DEF Answered, Typed, GoodProc
<1>3. CASE ~ IsReplied(m)
  <2>1. proc' = proc
      BY <1>3 DEF Answer
  <2> QED
      BY <1>1, <1>3, <2>1 DEF Answered, GoodProc
<1> QED
    BY <1>2, <1>3

LEMMA BreakSame ==
    ASSUME Typed, NEW t \in Task, BreakSubtask(t)
    PROVE  ProcSame
BY DEF Typed, BreakSubtask, ProcSame, GoodProc

\* Disposetask puts the disposal off or begins it.
LEMMA DisposetaskShape ==
    ASSUME TypeInv, NEW t \in Task, Disposetask(t), Caller("dispose", t)
    PROVE  Defers(t) \/ DisposesNow(t)
<1>0. Typed /\ task \in [Task -> TaskRecord] /\ task[t] \in TaskRecord
    BY DEF TypeInv, Typed
<1>1. CASE InHandler(t)
  <2>1. /\ task' = [task EXCEPT ![t].flags = @ \cup {"DISPOSING", "MUSTDISPOSE"},
                                ![t].target = FALSE]
        /\ UNCHANGED <<proc, stack>>
      BY <1>1 DEF Disposetask
  <2>2. Sets(t, task[t].flags \cup {"DISPOSING", "MUSTDISPOSE"})
      BY <1>0, <2>1 DEF Sets, TaskRecord
  <2> QED
      BY <1>1, <2>1, <2>2 DEF Disposetask, Defers, InHandler, ProcSame, Quiet, taskport
<1>2. CASE ~ InHandler(t)
  <2>1. task' = [task EXCEPT ![t].flags = @ \cup {"DISPOSING"}] /\ StartDispose(t, stack)
      BY <1>2 DEF Disposetask
  <2>2. Sets(t, task[t].flags \cup {"DISPOSING"})
      BY <1>0, <2>1 DEF Sets, TaskRecord
  <2>3. ProcSame /\ Pushes(Frame("Dodisposetask", t, NoMsg, "drain"))
      BY <1>0, <2>1, BreakSame DEF StartDispose, Pushes
  <2> QED
      BY <1>2, <2>2, <2>3 DEF Disposetask, DisposesNow, InHandler, Quiet, taskport
<1> QED
    BY <1>1, <1>2

\* Every step of main is one of those.
LEMMA MainStepShape ==
    ASSUME TypeInv, MainStep
    PROVE  MainShape
<1>0. /\ Typed /\ task \in [Task -> TaskRecord] /\ proc \in [Task -> GoodProc]
      /\ stack \in Seq(GoodFrame)
    BY DEF TypeInv, Typed
<1>1. UNCHANGED task => TaskSame
    BY DEF TaskSame
<1>2. UNCHANGED proc => ProcSame
    BY DEF ProcSame
<1>3. stack # <<>> => Top \in GoodFrame /\ Tail(stack) \in Seq(GoodFrame)
    BY <1>0, TopType DEF Top
<1>4. <<Loop>> \in Seq(GoodFrame)
  <2>1. Loop \in GoodFrame
      BY DEF Loop, Frame, GoodFrame, Frames, NoMsg, Msg, Message, Kinds
  <2> QED BY <2>1
<1>5. (\A u \in Task : ~AwaitsStartup(u)) => \A i \in DOMAIN port : port[i] \in GoodMsg
    BY NoStartup
<1>6. CASE MainWaits
    BY <1>1, <1>2, <1>6 DEF MainWaits, MainShape, Rests
<1>7. CASE Processtask
  <2>1. CASE port = <<>>
      BY <1>1, <1>2, <1>7, <2>1 DEF Processtask, MainShape, LoopsIdly, Loop
  <2>2. CASE port # <<>>
    <3>1. TakeReply(1, <<Loop>>) /\ 1 \in DOMAIN port
        BY <1>0, <1>7, <2>2, EmptySeq, LenProperties DEF Processtask, Typed, Loop
    <3>2. port[1] \in GoodMsg
        BY <1>5, <1>7, <3>1, NotWaiting DEF Processtask
    <3>3. Takes(1, <<Loop>>)
        BY <1>1, <1>2, <1>7, <3>1, <3>2 DEF Processtask, Takes
    <3> QED
        BY <1>4, <3>1, <3>3 DEF MainShape
  <2> QED BY <2>1, <2>2
<1>8. CASE ProcesstaskEnds
    BY <1>1, <1>2, <1>8 DEF ProcesstaskEnds, At, MoreReplies, MainShape, Leaves, Top
<1>9. CASE ProcessreplyBegins
  <2>1. /\ On("Processreply", "begin") /\ Top.task \in Task /\ Top.msg \in GoodMsg
        /\ UNCHANGED port /\ Quiet
      BY <1>3, <1>9 DEF ProcessreplyBegins, At, On, Top, GoodFrame, Quiet, taskport
  <2>2. CASE Top.msg.kind = "update" /\ task[Top.task].target
    <3>1. /\ task' = [task EXCEPT ![Top.task].flags = @ \cup {"PROCESSING"}]
          /\ Turns("handler") /\ UNCHANGED proc
        BY <1>9, <2>2 DEF ProcessreplyBegins, Top, Turns, Goto
    <3>2. Sets(Top.task, task[Top.task].flags \cup {"PROCESSING"})
        BY <1>0, <2>1, <3>1 DEF Sets, TaskRecord
    <3> QED
        BY <1>2, <2>1, <2>2, <3>1, <3>2 DEF MainShape, CallsHandler
  <2>3. CASE ~ (Top.msg.kind = "update" /\ task[Top.task].target)
    <3>1. Answer(Top.msg) /\ Turns("end") /\ UNCHANGED task
        BY <1>9, <2>3 DEF ProcessreplyBegins, Top, Turns, Goto
    <3> QED
        BY <1>0, <1>1, <2>1, <3>1, AnswerEffect DEF MainShape, CallsNobody
  <2> QED BY <2>2, <2>3
<1>10. CASE HandlerReturns
  <2>1. /\ On("Processreply", "handler") /\ Top.task \in Task /\ Top.msg \in GoodMsg
        /\ UNCHANGED port /\ Quiet
      BY <1>3, <1>10 DEF HandlerReturns, At, On, Top, GoodFrame, Quiet, taskport
  <2>2. /\ task' = [task EXCEPT ![Top.task].flags = @ \ {"PROCESSING"}]
        /\ Turns("end") /\ Answer(Top.msg)
      BY <1>10 DEF HandlerReturns, Top, Turns, Goto
  <2>3. Sets(Top.task, task[Top.task].flags \ {"PROCESSING"})
      BY <1>0, <2>1, <2>2 DEF Sets, TaskRecord
  <2> QED
      BY <1>0, <2>1, <2>2, <2>3, AnswerEffect DEF MainShape, LeavesHandler
<1>11. CASE ProcessreplyEnds
  <2>1. /\ On("Processreply", "end") /\ Top.task \in Task /\ UNCHANGED port /\ Quiet
      BY <1>3, <1>11 DEF ProcessreplyEnds, At, On, Top, GoodFrame, Quiet, taskport
  <2>2. CASE MustDispose(Top.task)
    <3>1. /\ task' = [task EXCEPT ![Top.task].flags = @ \ {"MUSTDISPOSE"}]
          /\ StartDispose(Top.task, Tail(stack))
        BY <1>11, <2>2 DEF ProcessreplyEnds, Top
    <3>2. Sets(Top.task, task[Top.task].flags \ {"MUSTDISPOSE"})
        BY <1>0, <2>1, <3>1 DEF Sets, TaskRecord
    <3>3. ProcSame
        BY <1>0, <2>1, <3>1, BreakSame DEF StartDispose
    <3> QED
        BY <2>1, <2>2, <3>1, <3>2, <3>3 DEF MainShape, DisposesLate, StartDispose
  <2>3. CASE ~ MustDispose(Top.task)
      BY <1>1, <1>2, <1>11, <2>1, <2>3 DEF ProcessreplyEnds, MainShape, Leaves, Top, On, Quiet, semas
  <2> QED BY <2>2, <2>3
<1>12. CASE WaitformsgScans
  <2>1. PICK i \in First(Awaited) :
            IF port[i] # Top.msg THEN TakeReply(i, stack) /\ UNCHANGED psig
            ELSE /\ psig' = TRUE
                 /\ IF Top.msg = Startup
                    THEN port' = Without(port, i) /\ stack' = Tail(stack)
                    ELSE TakeReply(i, Tail(stack))
      BY <1>12 DEF WaitformsgScans, Top
  <2>2. i \in DOMAIN port /\ (port[i] = Top.msg \/ port[i].task = Top.msg.task)
      BY DEF First, Awaited, Top
  <2>3. /\ On("Waitformsg", "scan") /\ Top \in GoodFrame /\ (Top.msg = Startup \/ Top.msg \in GoodMsg)
        /\ TaskSame /\ ProcSame /\ UNCHANGED semas /\ UNCHANGED mask
      BY <1>1, <1>2, <1>3, <1>12 DEF WaitformsgScans, At, On, Top, GoodFrame
  <2>4. CASE Top.msg = Startup
    <3>1. Startup \notin GoodMsg /\ Startup.task = NoTask
        BY ConstantsAssumption DEF Startup, Msg, GoodMsg
    <3>2. port[i] \notin GoodMsg
        BY <2>2, <2>4, <3>1, ConstantsAssumption DEF GoodMsg
    <3>3. port[i] = Startup
        BY <2>2, <3>2 DEF TypeInv, StartupAwaited
    <3>4. port' = Without(port, i) /\ stack' = Tail(stack) /\ psig'
        BY <2>1, <2>4, <3>3
    <3> QED
        BY <2>2, <2>3, <2>4, <3>3, <3>4 DEF MainShape, Leaves, On
  <2>5. CASE Top.msg # Startup
    <3>1. port[i] \in GoodMsg
        BY <2>2, <2>5, <1>5 DEF AwaitsStartup, Top
    <3>2. CASE port[i] # Top.msg
      <4>1. Takes(i, stack)
          BY <2>1, <2>2, <2>3, <2>5, <3>1, <3>2 DEF Takes
      <4> QED BY <1>0, <2>2, <4>1 DEF MainShape
    <3>3. CASE port[i] = Top.msg
      <4>1. Takes(i, Tail(stack))
          BY <2>1, <2>2, <2>3, <2>5, <3>1, <3>3 DEF Takes
      <4> QED BY <1>3, <2>2, <2>3, <4>1 DEF MainShape, On
    <3> QED BY <3>2, <3>3
  <2> QED BY <2>4, <2>5
<1>13. CASE WaitformsgBlocks
  <2>1. GoesOn("blocked")
      BY <1>1, <1>2, <1>13 DEF WaitformsgBlocks, At, GoesOn, Top, Turns, Goto, taskport
  <2> QED BY <2>1 DEF MainShape
<1>14. CASE WaitformsgWakes
  <2>1. GoesOn("scan")
      BY <1>1, <1>2, <1>14 DEF WaitformsgWakes, At, GoesOn, Top, Turns, Goto, taskport
  <2> QED BY <2>1 DEF MainShape
<1>15. CASE \E pc \in {"drain", "redrain", "final"} : Processtaskreply(pc)
  <2>1. PICK pc \in {"drain", "redrain", "final"} : Processtaskreply(pc)
      BY <1>15
  <2>2. PICK i \in DOMAIN port : TakeReply(i, stack) /\ port[i].task = Top.task
      BY <2>1 DEF Processtaskreply, First, Repliesof, Top
  <2>3. port[i] \in GoodMsg
      BY <1>5, <2>1, NotWaiting DEF Processtaskreply, At
  <2>4. Takes(i, stack)
      BY <1>1, <1>2, <2>1, <2>2, <2>3 DEF Processtaskreply, At, Takes, Top
  <2> QED BY <1>0, <2>4 DEF MainShape
<1>16. CASE Procures
  <2>1. GoesOn("wait")
      BY <1>1, <1>2, <1>16 DEF Procures, At, GoesOn, Top, Turns, Goto, taskport
  <2> QED BY <2>1 DEF MainShape
<1>17. CASE StoptaskWakes
  <2>1. PICK pc \in {"wait", "redrain", "final"} : stack' = Goto(pc)
      BY <1>17 DEF StoptaskWakes
  <2>2. GoesOn(pc)
      BY <1>1, <1>2, <1>17, <2>1 DEF StoptaskWakes, At, GoesOn, Top, Turns, Goto
  <2> QED BY <2>2 DEF MainShape
<1>18. CASE WaitsAgain
  <2>1. GoesOn("wait")
      BY <1>1, <1>2, <1>18 DEF WaitsAgain, At, GoesOn, Top, Turns, Goto, taskport
  <2> QED BY <2>1 DEF MainShape
<1>19. CASE Frees
  <2>1. /\ On("Dodisposetask", "final") /\ Top.task \in Task /\ NothingLeft(Top.task)
        /\ stack' = Tail(stack) /\ UNCHANGED port /\ Quiet /\ ProcSame
        /\ task' = [task EXCEPT ![Top.task].obj = "freed"]
      BY <1>2, <1>3, <1>19 DEF Frees, At, On, Top, GoodFrame, Quiet, taskport
  <2>2. /\ task'[Top.task].obj = "freed" /\ task'[Top.task].flags = task[Top.task].flags
        /\ \A u \in Task \ {Top.task} : task'[u].obj = task[u].obj /\ task'[u].flags = task[u].flags
      BY <1>0, <2>1 DEF TaskRecord
  <2> QED
      BY <2>1, <2>2 DEF MainShape, FreesTask
<1>20. CASE Deinstalltask
  <2>1. ASSUME NEW t \in Task, Disposetask(t) PROVE MainShape
      BY <1>20, <2>1, DisposetaskShape DEF Deinstalltask, Caller, MainShape
  <2>2. CASE UNCHANGED <<task, proc, taskport, mask, semas, stack>>
      BY <1>1, <1>2, <2>2 DEF MainShape, Rests, taskport
  <2> QED
      BY <1>20, <2>1, <2>2 DEF Deinstalltask
<1> QED
    BY <1>6, <1>7, <1>8, <1>9, <1>10, <1>11, <1>12, <1>13, <1>14, <1>15, <1>16, <1>17,
       <1>18, <1>19, <1>20 DEF MainStep

\* Every call that sends a message is one of the shapes.
LEMMA SendShape ==
    ASSUME TypeInv, NEW t \in Task, NEW kind \in Kinds \ {"update"}, NEW async \in BOOLEAN,
           NEW possible \in BOOLEAN, NEW wait \in BOOLEAN,
           Send(t, kind, async, possible, wait), possible => HasSubport(t),
           Caller("sync", t) \/ Caller("suspend", t) \/ ~wait,
           stack = <<>> \/ On("Processreply", "handler"),
           TaskSame
    PROVE  MainShape
<1> DEFINE m == Msg(t, kind, async, task[t].messages + 1)
<1>0. Typed /\ task[t] \in TaskRecord /\ proc \in [Task -> GoodProc]
    BY DEF TypeInv, Typed
<1>1. m \in GoodMsg /\ m.task = t /\ m.kind # "update"
    BY <1>0 DEF Msg, GoodMsg, TaskRecord
<1>2. proc' = IF possible
              THEN [proc EXCEPT ![t].port = Append(@, m), ![t].sig = TRUE] ELSE proc
    BY DEF Send
<1>3. IF ~possible THEN Pushes(Frame("Processreply", t, m, "begin"))
      ELSE IF wait THEN Pushes(Frame("Waitformsg", t, m, "scan"))
      ELSE UNCHANGED stack
    BY DEF Send, Pushes
<1> HIDE DEF m
<1>4. \A u \in Task : /\ proc'[u].at = proc[u].at /\ proc'[u].held = proc[u].held
                      /\ proc'[u].answered = proc[u].answered
                      /\ proc'[u].port = IF possible /\ u = t THEN Append(proc[u].port, m)
                                         ELSE proc[u].port
    BY <1>0, <1>2 DEF GoodProc
<1>5. Sends(t, m, possible, wait)
    BY <1>1, <1>3, <1>4 DEF Sends, Send, Usable, Quiet, taskport
<1> QED
    BY <1>1, <1>5 DEF MainShape

\* So is every call of the interface.
LEMMA CallStepShape ==
    ASSUME TypeInv, NEW t \in Task, CallStep(t)
    PROVE  MainShape
<1>0. /\ Typed /\ task \in [Task -> TaskRecord] /\ proc \in [Task -> GoodProc]
      /\ stack \in Seq(GoodFrame)
    BY DEF TypeInv, Typed
<1>1. UNCHANGED task => TaskSame
    BY DEF TaskSame
<1>2. UNCHANGED proc => ProcSame
    BY DEF ProcSame
<1>3. \A call : May(call, t) => Caller(call, t) /\ (stack = <<>> \/ On("Processreply", "handler"))
    BY DEF May, At, Caller, On, Top
<1>4. CASE Newtask(t)
    BY <1>0, <1>2, <1>4 DEF Newtask, MainShape, Creates, TaskRecord, Quiet, taskport
<1>5. CASE Starttask(t)
  <2>1. CASE task' = [task EXCEPT ![t].state = "DEAD"] /\ UNCHANGED <<proc, stack>>
    <3>1. TaskSame
        BY <1>0, <2>1 DEF TaskSame, TaskRecord
    <3> QED
        BY <1>2, <1>5, <2>1, <3>1 DEF Starttask, MainShape, Rests, taskport
  <2>2. CASE /\ proc' = [proc EXCEPT ![t].at = "created"]
             /\ stack' = <<Frame("Waitformsg", t, Startup, "scan")>> \o stack
             /\ UNCHANGED task
    <3>1. /\ proc'[t].at = "created" /\ proc'[t].port = proc[t].port
          /\ proc'[t].held = proc[t].held /\ proc'[t].answered = proc[t].answered
          /\ \A u \in Task \ {t} : proc'[u] = proc[u]
        BY <1>0, <2>2 DEF GoodProc
    <3> QED
        BY <1>1, <1>3, <1>5, <2>2, <3>1
           DEF Starttask, IsNew, MainShape, Starts, Pushes, Quiet, taskport
  <2> QED
      BY <1>5, <2>1, <2>2 DEF Starttask, IsNew
<1>6. CASE Stoptask(t)
    BY <1>0, <1>1, <1>6, BreakSame DEF Stoptask, MainShape, Rests, taskport
<1>7. CASE Disposes(t)
    BY <1>3, <1>7, DisposetaskShape DEF Disposes, MainShape
<1>8. task' = [task EXCEPT ![t].messages = @ + 1] => TaskSame
    BY <1>0 DEF TaskSame, TaskRecord
<1>9. CASE \E async \in BOOLEAN : Messagetask(t, async)
  <2>1. PICK async \in BOOLEAN : Messagetask(t, async)
      BY <1>9
  <2>2. Send(t, "message", async, CanPut(t), ~async) /\ TaskSame /\ "message" \in Kinds \ {"update"}
      BY <1>8, <2>1 DEF Messagetask, Kinds
  <2>3. /\ Caller("sync", t) \/ Caller("suspend", t) \/ ~ ~async
        /\ stack = <<>> \/ On("Processreply", "handler")
      BY <1>3, <2>1 DEF Messagetask
  <2>4. CanPut(t) \in BOOLEAN /\ (~async) \in BOOLEAN /\ (CanPut(t) => HasSubport(t))
      BY DEF CanPut
  <2> QED
      BY <2>2, <2>3, <2>4, SendShape
<1>10. CASE AsetattrsasyncA(t)
  <2>1. Send(t, "vanilla", FALSE, TRUE, FALSE) /\ TaskSame /\ "vanilla" \in Kinds \ {"update"}
      BY <1>8, <1>10 DEF AsetattrsasyncA, Kinds
  <2>2. HasSubport(t) /\ (stack = <<>> \/ On("Processreply", "handler"))
      BY <1>3, <1>10 DEF AsetattrsasyncA, CanPut
  <2> QED
      BY <2>1, <2>2, SendShape
<1>11. CASE \E data, async \in BOOLEAN : SettaskSuspend(t, data, async)
  <2>1. PICK data \in BOOLEAN, async \in BOOLEAN : SettaskSuspend(t, data, async)
      BY <1>11
  <2>2. CASE Suspendtask(t, async)
    <3> DEFINE possible == task[t].state = "RUN" /\ HasSubport(t)
    <3>1. Send(t, "suspend", FALSE, possible, ~async) /\ "suspend" \in Kinds \ {"update"}
        BY <2>2 DEF Suspendtask, Kinds
    <3>2. TaskSame
        BY <1>0, <2>2 DEF Suspendtask, TaskSame, TaskRecord
    <3>3. /\ Caller("sync", t) \/ Caller("suspend", t) \/ ~ ~async
          /\ stack = <<>> \/ On("Processreply", "handler")
        BY <1>3, <2>1 DEF SettaskSuspend
    <3>4. possible \in BOOLEAN /\ (~async) \in BOOLEAN /\ (possible => HasSubport(t))
        OBVIOUS
    <3> HIDE DEF possible
    <3> QED
        BY <3>1, <3>2, <3>3, <3>4, SendShape
  <2>3. CASE /\ task' = [task EXCEPT ![t].wanted = FALSE]
             /\ UNCHANGED <<proc, taskport, mask, semas, stack, quitting>>
    <3>1. TaskSame
        BY <1>0, <2>3 DEF TaskSame, TaskRecord
    <3> QED
        BY <1>2, <2>3, <3>1 DEF MainShape, Rests, taskport
  <2> QED
      BY <2>1, <2>2, <2>3 DEF SettaskSuspend
<1> QED
    BY <1>4, <1>5, <1>6, <1>7, <1>9, <1>10, <1>11 DEF CallStep

\* A step is one of a subtask or one of main's shapes.
LEMMA StepShape ==
    ASSUME TypeInv, [Next]_vars
    PROVE  (\E t \in Task : SubtaskStep(t)) \/ MainShape
<1>1. CASE Quits \/ UNCHANGED vars
    BY <1>1 DEF Quits, vars, taskport, semas, MainShape, Rests, TaskSame, ProcSame
<1> QED
    BY <1>1, MainStepShape, CallStepShape DEF Next

-----------------------------------------------------------------------------
(* Where the messages of a task are *)

\* What main sends to the subtask of t, what names t, and its sync update.
MessagesTo(t) == {m \in GoodMsg : m.task = t /\ m.kind # "update"}
From(t) == {m \in GoodMsg : m.task = t}
Update(t) == Msg(t, "update", FALSE, 0)

\* A subtask has only messages that main sent to it, which are no updates, it
\* has them only while it has a port, and it holds one only while it runs.
Carries(t) ==
    /\ proc[t].port \in Seq(MessagesTo(t))
    /\ proc[t].held \in MessagesTo(t) \cup {NoMsg}
    /\ proc[t].port # <<>> => HasSubport(t)
    /\ proc[t].held # NoMsg => proc[t].at \in {"run", "update"}
Carried == \A t \in Task : Carries(t)

\* What a subtask does with its messages: it sends an update, or gets the answer
\* to one, or puts one of main's messages back, or keeps what it has.
LEMMA SubtaskMessages ==
    ASSUME TypeInv, Carried, NEW t \in Task, SubtaskStep(t)
    PROVE  /\ Carries(t)'
           /\ \/ /\ \/ port' = port
                    \/ port' = Append(port, Startup) /\ proc[t].at = "created"
                    \/ \E m \in MessagesTo(t) : port' = Append(port, m)
                    \/ port' = Append(port, Msg(t, "update", TRUE, 0))
                 /\ proc'[t].answered = proc[t].answered
                 /\ proc'[t].at = "update" <=> proc[t].at = "update"
              \/ /\ port' = port /\ proc[t].answered /\ ~proc'[t].answered
                 /\ proc[t].at = "update" /\ proc'[t].at # "update"
              \/ /\ port' = Append(port, Update(t)) /\ proc'[t].answered = proc[t].answered
                 /\ proc[t].at # "update" /\ proc'[t].at = "update"
<1>. USE DEF Moves, MovesAndPuts, PutPort, taskport, HasSubport
<1>0. /\ Typed /\ proc \in [Task -> GoodProc] /\ proc[t] \in GoodProc /\ Carries(t)
    BY DEF TypeInv, Typed, Carried
<1>1. CASE Subtask(t)
    BY <1>1, <1>0 DEF Subtask, GoodProc, Carries
<1>2. CASE Waittask(t)
    BY <1>2, <1>0 DEF Waittask, Works, Free, GoodProc, Carries
<1>3. CASE \E own \in BOOLEAN : Wakes(t, own)
    BY <1>3, <1>0 DEF Wakes, GoodProc, Carries
<1>4. CASE Gettaskmsg(t)
    BY <1>4, <1>0 DEF Gettaskmsg, Works, Free, GoodProc, Carries
<1>5. CASE ScanEnds(t)
    BY <1>5, <1>0 DEF ScanEnds, GoodProc, Carries
<1>6. CASE ScanWakes(t)
    BY <1>6, <1>0 DEF ScanWakes, GoodProc, Carries
<1>7. CASE GetMsg(t)
  <2>1. CASE proc[t].port = <<>>
      BY <1>7, <2>1, <1>0 DEF GetMsg, GoodProc, Carries
  <2>2. CASE proc[t].port # <<>>
    <3>1. Head(proc[t].port) \in MessagesTo(t) /\ Tail(proc[t].port) \in Seq(MessagesTo(t))
        BY <2>2, <1>0, HeadTailProperties DEF Carries
    <3>2. /\ proc' = [proc EXCEPT ![t] = [proc[t] EXCEPT !.at = "run",
                            !.held = Head(proc[t].port), !.port = Tail(@)]]
          /\ port' = port /\ proc[t].at = "getmsg"
        BY <1>7, <2>2 DEF GetMsg
    <3> QED
        BY <3>1, <3>2, <1>0 DEF GoodProc, Carries
  <2> QED
      BY <2>1, <2>2
<1>8. CASE UpdateReplied(t)
    BY <1>8, <1>0 DEF UpdateReplied, GoodProc, Carries
<1>9. CASE Finishes(t)
    BY <1>9, <1>0 DEF Finishes, Works, Free, GoodProc, Carries
<1>10. CASE Returns(t)
    BY <1>10, <1>0 DEF Returns, Free, GoodProc, Carries
<1>11. CASE Answers(t)
  <2>1. PICK i \in First(OwnAnswers(t)) :
            /\ port' = Append(port, proc[t].port[i])
            /\ proc' = [proc EXCEPT ![t].port = Without(@, i),
                          ![t].suspend = (proc[t].port[i].kind = "suspend")
                                  \/ (@ /\ proc[t].port[i].kind # "release")]
      BY <1>11 DEF Answers
  <2>2. i \in DOMAIN proc[t].port
      BY DEF First, OwnAnswers
  <2>3. proc[t].port[i] \in MessagesTo(t)
      BY <2>2, <1>0 DEF Carries
  <2>4. \A j \in DOMAIN proc[t].port : proc[t].port[j] \in MessagesTo(t)
      BY <1>0 DEF Carries
  <2>5. Without(proc[t].port, i) \in Seq(MessagesTo(t))
      BY <2>2, <2>4, <1>0, WithoutType DEF Carries
  <2>6. /\ proc'[t].port = Without(proc[t].port, i) /\ proc'[t].at = proc[t].at
        /\ proc'[t].held = proc[t].held /\ proc'[t].answered = proc[t].answered
      BY <2>1, <1>0 DEF GoodProc
  <2>7. proc[t].at = "get"
      BY <1>11 DEF Answers
  <2> QED
      BY <2>1, <2>3, <2>5, <2>6, <2>7, <1>0 DEF Carries
<1>12. CASE Replytaskmsg(t)
    BY <1>12, <1>0 DEF Replytaskmsg, GoodProc, Carries
<1>13. CASE \E async \in BOOLEAN : Updatetask(t, async)
  <2>1. CASE Updatetask(t, TRUE)
    <3>1. /\ port' = Append(port, Msg(t, "update", TRUE, 0))
          /\ proc[t].at = "run" /\ proc'[t].at = "run" /\ proc'[t].port = proc[t].port
          /\ proc'[t].held = proc[t].held /\ proc'[t].answered = proc[t].answered
        BY <2>1, <1>0 DEF Updatetask, GoodProc
    <3> QED
        BY <3>1, <1>0 DEF Carries
  <2>2. CASE Updatetask(t, FALSE)
    <3>1. /\ port' = Append(port, Update(t))
          /\ proc[t].at = "run" /\ proc'[t].at = "update" /\ proc'[t].port = proc[t].port
          /\ proc'[t].held = proc[t].held /\ proc'[t].answered = proc[t].answered
        BY <2>2, <1>0 DEF Updatetask, GoodProc, Update
    <3> QED
        BY <3>1, <1>0 DEF Carries
  <2> QED
      BY <1>13, <2>1, <2>2
<1>14. CASE Drains(t)
  <2>1. Head(proc[t].port) \in MessagesTo(t) /\ Tail(proc[t].port) \in Seq(MessagesTo(t))
      BY <1>14, <1>0, HeadTailProperties DEF Carries, Drains
  <2>2. /\ proc' = [proc EXCEPT ![t] = [proc[t] EXCEPT !.port = Tail(@)]]
        /\ port' = Append(port, Head(proc[t].port)) /\ proc[t].at = "drain"
      BY <1>14 DEF Drains
  <2> QED
      BY <2>1, <2>2, <1>0 DEF GoodProc, Carries
<1>15. CASE Dies(t)
    BY <1>15, <1>0 DEF Dies, GoodProc, Carries
<1>16. CASE Ends(t)
    BY <1>16, <1>0 DEF Ends, GoodProc, Carries
<1> QED
    BY <1>1, <1>2, <1>3, <1>4, <1>5, <1>6, <1>7, <1>8, <1>9, <1>10, <1>11, <1>12,
       <1>13, <1>14, <1>15, <1>16 DEF SubtaskStep

\* The subtasks' messages after a step of main.
LEMMA MainCarries ==
    ASSUME TypeInv, Carried, MainShape
    PROVE  Carried'
<1>0. \A t \in Task : Carries(t)
    BY DEF Carried
<1>1. CASE ProcSame
    BY <1>0, <1>1 DEF ProcSame, Carried, Carries, HasSubport
<1>2. ASSUME NEW m, Answered(m) PROVE Carried'
    BY <1>0, <1>2 DEF Answered, Carried, Carries, HasSubport
<1>3. ASSUME NEW t \in Task, Starts(t) PROVE Carried'
  <2>1. ASSUME NEW u \in Task PROVE Carries(u)'
    <3>1. CASE u = t
        BY <1>0, <1>3, <3>1 DEF Starts, Carries, HasSubport
    <3>2. CASE u # t
        BY <1>0, <1>3, <3>2 DEF Starts, Carries, HasSubport
    <3> QED BY <3>1, <3>2
  <2> QED BY <2>1 DEF Carried
<1>4. ASSUME NEW t \in Task, NEW m \in GoodMsg, NEW possible \in BOOLEAN, NEW wait \in BOOLEAN,
             Sends(t, m, possible, wait)
      PROVE  Carried'
  <2>1. ASSUME NEW u \in Task PROVE Carries(u)'
    <3>1. CASE possible /\ u = t
      <4>1. m \in MessagesTo(t) /\ HasSubport(t) /\ proc'[t].port = Append(proc[t].port, m)
            /\ proc'[t].held = proc[t].held /\ proc'[t].at = proc[t].at
          BY <1>4, <3>1 DEF Sends, MessagesTo
      <4>2. Append(proc[t].port, m) \in Seq(MessagesTo(t))
          BY <1>0, <4>1, AppendProperties DEF Carries
      <4> QED BY <1>0, <3>1, <4>1, <4>2 DEF Carries, HasSubport
    <3>2. CASE ~ (possible /\ u = t)
        BY <1>0, <1>4, <3>2 DEF Sends, Carries, HasSubport
    <3> QED BY <3>1, <3>2
  <2> QED BY <2>1 DEF Carried
<1> QED
    BY <1>1, <1>2, <1>3, <1>4 DEF MainShape, Rests, LoopsIdly, Leaves, FreesTask, Takes, GoesOn,
       CallsHandler, CallsNobody, LeavesHandler, DisposesLate, Creates, Defers, DisposesNow

\* The activations that work for a task.
For(t) == {f \in GoodFrame : f.task = t}

\* No message of a task that is not live is in taskport, and nothing works for a
\* task that was never created.
NothingStray ==
    /\ \A t \in Task : task[t].obj # "live" => ~ HoldsIn(port, From(t))
    /\ \A t \in Task : task[t].obj = "none" =>
         proc[t].at = "none" /\ task[t].flags = {} /\ ~ HoldsIn(stack, For(t))

\* taskport after a step of main: nothing has come.
LEMMA MainPort ==
    ASSUME TypeInv, MainShape
    PROVE  /\ \A A : HoldsIn(port', A) => HoldsIn(port, A)
           /\ port' = port \/ \E i \in DOMAIN port : port' = Without(port, i)
<1>1. port' = port \/ \E i \in DOMAIN port : port' = Without(port, i)
    BY DEF MainShape, Rests, LoopsIdly, Leaves, FreesTask, Takes, TakeReply, GoesOn,
       CallsHandler, CallsNobody, LeavesHandler, DisposesLate, Creates, Starts, Defers,
       DisposesNow, Sends
<1>2. ASSUME NEW A, HoldsIn(port', A) PROVE HoldsIn(port, A)
  <2>1. ASSUME NEW i \in DOMAIN port, port' = Without(port, i) PROVE HoldsIn(port, A)
      BY <1>2, <2>1, InTaken DEF TypeInv, Typed
  <2> QED
      BY <1>1, <1>2, <2>1
<1> QED
    BY <1>1, <1>2

\* What main begins to work for is live, or sent a message, or was worked for.
LEMMA MainStack ==
    ASSUME TypeInv, MainShape, NEW t \in Task, HoldsIn(stack', For(t))
    PROVE  HoldsIn(stack, For(t)) \/ HoldsIn(port, From(t)) \/ task[t].obj = "live"
<1> DEFINE Known == HoldsIn(stack, For(t)) \/ HoldsIn(port, From(t)) \/ task[t].obj = "live"
<1>0. Typed /\ stack \in Seq(GoodFrame)
    BY DEF TypeInv, Typed
<1>1. stack # <<>> => /\ Top \in GoodFrame /\ Tail(stack) \in Seq(GoodFrame)
                      /\ Top.task = t => HoldsIn(stack, For(t))
                      /\ HoldsIn(Tail(stack), For(t)) => HoldsIn(stack, For(t))
    BY <1>0, TopType, InPopped DEF Top, For
<1>2. ASSUME NEW f, NEW q \in Seq(GoodFrame), stack' = <<f>> \o q
      PROVE  f.task = t \/ HoldsIn(q, For(t))
    BY <1>2, InPushed DEF For
<1>3. CASE stack' = stack
    BY <1>3
<1>4. CASE stack # <<>> /\ stack' = Tail(stack)
    BY <1>1, <1>4
<1>5. ASSUME NEW f, stack' = <<f>> \o stack, f.task = t => task[t].obj = "live" PROVE Known
    BY <1>0, <1>2, <1>5
<1>6. ASSUME NEW f, stack # <<>>, stack' = <<f>> \o Tail(stack), f.task = Top.task PROVE Known
    BY <1>1, <1>2, <1>6
<1>7. CASE stack' = <<Loop>>
  <2>1. ~ (Loop.task = t)
      BY ConstantsAssumption DEF Loop, Frame
  <2> QED BY <1>7, <2>1 DEF HoldsIn, For
<1>8. ASSUME NEW i \in DOMAIN port, NEW below \in Seq(GoodFrame), Takes(i, below) PROVE Known
  <2> DEFINE f == Frame("Processreply", port[i].task, port[i], "begin")
  <2>1. stack' = <<f>> \o below /\ f.task = port[i].task /\ port[i] \in GoodMsg
      BY <1>8 DEF Takes, TakeReply, Frame
  <2>2. f.task = t => HoldsIn(port, From(t))
      BY <2>1 DEF HoldsIn, From
  <2>3. HoldsIn(below, For(t)) => Known
    <3>1. CASE below = <<Loop>>
      <4>1. ~ (Loop.task = t)
          BY ConstantsAssumption DEF Loop, Frame
      <4> QED BY <3>1, <4>1 DEF HoldsIn, For
    <3>2. CASE below = stack \/ (stack # <<>> /\ below = Tail(stack))
        BY <1>1, <3>2
    <3> QED BY <1>8, <3>1, <3>2 DEF Takes, On
  <2> HIDE DEF f
  <2> QED BY <1>2, <2>1, <2>2, <2>3
<1>9. CASE \E pc : stack # <<>> /\ Turns(pc)
    BY <1>1, <1>6, <1>9 DEF Turns, GoodFrame, Frames
<1>10. ASSUME NEW u \in Task, Starts(u) \/ DisposesNow(u) PROVE Known
    BY <1>5, <1>10 DEF Starts, DisposesNow, Pushes, Frame
<1>11. ASSUME NEW u \in Task, NEW m \in GoodMsg, NEW possible \in BOOLEAN, NEW wait \in BOOLEAN,
              Sends(u, m, possible, wait)
       PROVE  Known
    BY <1>3, <1>5, <1>11 DEF Sends, Pushes, Frame
<1>12. CASE DisposesLate
    BY <1>6, <1>12 DEF DisposesLate, On, Frame
<1> QED
    BY <1>3, <1>4, <1>7, <1>8, <1>9, <1>10, <1>11, <1>12
       DEF MainShape, Rests, LoopsIdly, Leaves, FreesTask, GoesOn, CallsHandler, CallsNobody,
           LeavesHandler, On, Creates, Defers

\* Both are kept by every step.
LEMMA StrayInductive ==
    /\ Init => Carried /\ NothingStray
    /\ TypeInv /\ Life /\ Carried /\ NothingStray /\ [Next]_vars => Carried' /\ NothingStray'
<1>1. ASSUME Init PROVE Carried /\ NothingStray
  <2>1. \A S : <<>> \in Seq(S)
      OBVIOUS
  <2> QED
      BY <1>1, <2>1, InEmpty DEF Init, Carried, Carries, NothingStray
<1>2. ASSUME TypeInv, Life, Carried, NothingStray, NEW t \in Task, SubtaskStep(t)
      PROVE  Carried' /\ NothingStray'
  <2>0. Typed
      BY <1>2 DEF TypeInv
  <2>1. /\ \A u \in Task \ {t} : proc'[u] = proc[u]
        /\ \A u \in Task : task'[u].obj = task[u].obj /\ task'[u].flags = task[u].flags
        /\ proc[t].at \notin {"none", "ended"}
      BY <1>2, <2>0, SubtaskEffect, SubtaskLife
  <2>2. Carried'
      BY <1>2, <2>1, SubtaskMessages DEF Carried, Carries, HasSubport
  <2>3. task[t].obj = "live"
    <3>1. task[t] \in TaskRecord
        BY <2>0 DEF Typed
    <3> QED BY <1>2, <2>1, <3>1 DEF Life, EndedTasks, NothingStray, TaskRecord
  <2>4. ASSUME NEW u \in Task, task'[u].obj # "live" PROVE ~ HoldsIn(port', From(u))
    <3>1. ~ HoldsIn(port, From(u)) /\ u # t
        BY <1>2, <2>1, <2>3, <2>4 DEF NothingStray
    <3>2. CASE port' = port
        BY <3>1, <3>2
    <3>3. ASSUME NEW m \in Message, m.task \in {t, NoTask}, port' = Append(port, m)
          PROVE  ~ HoldsIn(port', From(u))
      <4>1. m \notin From(u)
          BY <3>1, <3>3, ConstantsAssumption DEF From
      <4> QED BY <2>0, <3>1, <3>3, <4>1, InAdded DEF Typed
    <3>4. /\ \A b \in BOOLEAN : LET m == Msg(t, "update", b, 0) IN m \in Message /\ m.task = t
          /\ Startup \in Message /\ Startup.task = NoTask
          /\ \A m \in MessagesTo(t) : m \in Message /\ m.task = t
        BY DEF Msg, Message, Kinds, Startup, MessagesTo, GoodMsg
    <3> QED BY <1>2, <3>2, <3>3, <3>4, SubtaskMessages DEF Update
  <2>5. stack' = stack
      BY <1>2, <2>0, SubtaskEffect
  <2> QED
      BY <1>2, <2>1, <2>2, <2>3, <2>4, <2>5 DEF NothingStray
<1>3. ASSUME TypeInv, Life, Carried, NothingStray, MainShape
      PROVE  Carried' /\ NothingStray'
  <2>1. Carried'
      BY <1>3, MainCarries
  <2>2. \A u \in Task : ~ HoldsIn(port, From(u)) => ~ HoldsIn(port', From(u))
      BY <1>3, MainPort
  <2>3. \A u \in Task : task[u].obj = "none" => ~ HoldsIn(stack', For(u))
      BY <1>3, MainStack DEF NothingStray
  <2>4. CASE TaskSame /\ \A u \in Task : proc'[u].at = proc[u].at
      BY <1>3, <2>1, <2>2, <2>3, <2>4 DEF TaskSame, NothingStray
  <2>5. CASE \E u \in Task : Creates(u)
      BY <1>3, <2>1, <2>2, <2>3, <2>5 DEF Creates, ProcSame, NothingStray
  <2>6. CASE \E u \in Task : Starts(u)
      BY <1>3, <2>1, <2>2, <2>3, <2>6 DEF Starts, TaskSame, NothingStray
  <2>7. ASSUME stack # <<>>, Top.op # "Processtask"
        PROVE  Top.task \in Task /\ task[Top.task].obj # "none"
    <3>1. Top \in GoodFrame /\ Top.task \in Task
        BY <1>3, <2>7, TopType DEF Top, GoodFrame, TypeInv
    <3>2. HoldsIn(stack, For(Top.task))
        BY <1>3, <2>7, <3>1, InPopped DEF Top, For, TypeInv, Typed
    <3> QED BY <1>3, <3>1, <3>2 DEF NothingStray
  <2>8. CASE FreesTask
    <3>1. ~ HoldsIn(port, From(Top.task))
        BY <2>8 DEF FreesTask, NothingLeft, Repliesof, HoldsIn, From
    <3> QED
        BY <1>3, <2>1, <2>2, <2>3, <2>7, <2>8, <3>1 DEF FreesTask, On, ProcSame, NothingStray
  <2>9. ASSUME NEW u \in Task, NEW F, Sets(u, F), \A v \in Task : proc'[v].at = proc[v].at,
               task[u].obj # "none"
        PROVE  NothingStray'
      BY <1>3, <2>1, <2>2, <2>3, <2>9 DEF Sets, NothingStray
  <2>10. CASE \E u \in Task : Defers(u) \/ DisposesNow(u)
      BY <2>1, <2>9, <2>10 DEF Defers, DisposesNow, ProcSame
  <2>11. CASE CallsHandler \/ LeavesHandler \/ DisposesLate
      BY <2>1, <2>7, <2>9, <2>11 DEF CallsHandler, LeavesHandler, DisposesLate, On, ProcSame, Answered
  <2> QED
      BY <1>3, <2>4, <2>5, <2>6, <2>8, <2>10, <2>11 DEF MainShape, Rests, LoopsIdly, Leaves, Takes,
         GoesOn, CallsNobody, Answered, Sends, ProcSame
<1> QED
    BY <1>1, <1>2, <1>3, StepShape

\* When a task is freed, no message of its is left in a port or with the subtask:
\* the epilogue of Subtask has answered what main sent, and Dodisposetask has
\* processed what came to taskport.
THEOREM FreedTaskIsForgotten == Spec => []FreedTaskHasNoMessages
<1>1. TypeInv /\ Life /\ Carried /\ NothingStray => FreedTaskHasNoMessages
  <2> SUFFICES ASSUME TypeInv, Life, Carried, NothingStray, NEW t \in Task, task[t].obj = "freed"
               PROVE  proc[t].port = <<>> /\ proc[t].held = NoMsg /\ Repliesof(t) = {}
      BY DEF FreedTaskHasNoMessages
  <2>1. proc[t].at \in {"none", "ended"}
      BY DEF Life, EndedTasks
  <2>2. proc[t].port = <<>> /\ proc[t].held = NoMsg
      BY <2>1 DEF Carried, Carries, HasSubport
  <2>3. ~ HoldsIn(port, From(t))
      BY DEF NothingStray
  <2>4. \A i \in DOMAIN port : port[i] \in GoodMsg \/ port[i] = Startup
    <3>1. CASE port \in Seq(GoodMsg)
        BY <3>1
    <3> QED BY <3>1 DEF TypeInv, StartupAwaited
  <2>5. Startup.task = NoTask /\ NoTask \notin Task
      BY ConstantsAssumption DEF Startup, Msg
  <2> QED
      BY <2>2, <2>3, <2>4, <2>5 DEF Repliesof, HoldsIn, From
<1> QED
    BY <1>1, LifeInductive, StrayInductive, InitTypeInv, NextTypeInv, PTL DEF Spec

\* What is in the stack when an activation is put on top or replaces the top.
LEMMA StackHolds ==
    ASSUME Typed, NEW A
    PROVE  /\ \A f : /\ HoldsIn(<<f>> \o stack, A) <=> f \in A \/ HoldsIn(stack, A)
                     /\ OnceIn(stack, A) /\ (f \in A => ~ HoldsIn(stack, A))
                          => OnceIn(<<f>> \o stack, A)
           /\ stack # <<>> =>
                /\ HoldsIn(stack, A) <=> Top \in A \/ HoldsIn(Tail(stack), A)
                /\ OnceIn(stack, A) =>
                     OnceIn(Tail(stack), A) /\ (Top \in A => ~ HoldsIn(Tail(stack), A))
                /\ \A f : /\ HoldsIn(<<f>> \o Tail(stack), A) <=> f \in A \/ HoldsIn(Tail(stack), A)
                          /\ OnceIn(Tail(stack), A) /\ (f \in A => ~ HoldsIn(Tail(stack), A))
                               => OnceIn(<<f>> \o Tail(stack), A)
<1>1. stack \in Seq(GoodFrame)
    BY DEF Typed
<1>2. \A f : /\ HoldsIn(<<f>> \o stack, A) <=> f \in A \/ HoldsIn(stack, A)
             /\ OnceIn(stack, A) /\ (f \in A => ~ HoldsIn(stack, A)) => OnceIn(<<f>> \o stack, A)
    BY <1>1, InPushed
<1>3. ASSUME stack # <<>>
      PROVE  /\ HoldsIn(stack, A) <=> Top \in A \/ HoldsIn(Tail(stack), A)
             /\ OnceIn(stack, A) =>
                  OnceIn(Tail(stack), A) /\ (Top \in A => ~ HoldsIn(Tail(stack), A))
    BY <1>1, <1>3, InPopped DEF Top
<1>4. ASSUME stack # <<>>
      PROVE  \A f : /\ HoldsIn(<<f>> \o Tail(stack), A) <=> f \in A \/ HoldsIn(Tail(stack), A)
                    /\ OnceIn(Tail(stack), A) /\ (f \in A => ~ HoldsIn(Tail(stack), A))
                         => OnceIn(<<f>> \o Tail(stack), A)
  <2>1. Tail(stack) \in Seq(GoodFrame)
      BY <1>4, TopType
  <2> QED BY <2>1, InPushed
<1> QED
    BY <1>2, <1>3, <1>4

-----------------------------------------------------------------------------
(* A disposal that has begun is under way *)

\* The activations that dispose of t, that run its handler, and the ones that
\* will look at MUSTDISPOSE once the handler is done.
Disposer(t) == {f \in GoodFrame : f.op = "Dodisposetask" /\ f.task = t}
Handler(t) == {f \in GoodFrame : f.op = "Processreply" /\ f.task = t /\ f.pc = "handler"}
Replier(t) == {f \in GoodFrame : f.op = "Processreply" /\ f.task = t /\ f.pc \in {"handler", "end"}}

\* A task that is disposed of has a Dodisposetask, or a Processreply that will
\* begin it; PROCESSING is set only while a handler of the task runs.
UnderWay ==
    \A t \in Task :
        /\ task[t].obj = "live" /\ "DISPOSING" \in task[t].flags =>
             \/ HoldsIn(stack, Disposer(t))
             \/ "MUSTDISPOSE" \in task[t].flags /\ HoldsIn(stack, Replier(t))
        /\ "PROCESSING" \in task[t].flags => HoldsIn(stack, Handler(t))

\* A disposal stays under way until the task is freed.
LEMMA UnderWayInductive ==
    /\ Init => UnderWay
    /\ TypeInv /\ Life /\ NothingStray /\ UnderWay /\ [Next]_vars => UnderWay'
<1>1. Init => UnderWay
    BY DEF Init, UnderWay
<1>2. ASSUME TypeInv, UnderWay, NEW t \in Task, SubtaskStep(t) PROVE UnderWay'
  <2>1. /\ stack' = stack
        /\ \A u \in Task : task'[u].obj = task[u].obj /\ task'[u].flags = task[u].flags
      BY <1>2, SubtaskEffect DEF TypeInv
  <2> QED
      BY <1>2, <2>1 DEF UnderWay
<1>3. ASSUME TypeInv, Life, NothingStray, UnderWay, MainShape PROVE UnderWay'
  <2>0. Typed /\ stack \in Seq(GoodFrame)
      BY <1>3 DEF TypeInv, Typed
  <2>1. stack # <<>> => Top \in GoodFrame
      BY <2>0, TopType DEF Top
  <2> DEFINE D(t) == HoldsIn(stack, Disposer(t))
             H(t) == HoldsIn(stack, Handler(t))
             R(t) == HoldsIn(stack, Replier(t))
             DD(t) == HoldsIn(stack', Disposer(t))
             HH(t) == HoldsIn(stack', Handler(t))
             RR(t) == HoldsIn(stack', Replier(t))
  <2>2. ASSUME TaskSame, \A t \in Task : (D(t) => DD(t)) /\ (H(t) => HH(t)),
               \A t \in Task : R(t) /\ "MUSTDISPOSE" \in task[t].flags => RR(t)
        PROVE  UnderWay'
      BY <1>3, <2>2 DEF UnderWay, TaskSame
  <2>3. CASE stack' = stack /\ TaskSame
      BY <2>2, <2>3
  <2>4. ASSUME NEW f, Pushes(f)
        PROVE  \A t \in Task : /\ DD(t) <=> (f \in Disposer(t) \/ D(t))
                               /\ HH(t) <=> (f \in Handler(t) \/ H(t))
                               /\ RR(t) <=> (f \in Replier(t) \/ R(t))
      BY <2>0, <2>4, StackHolds DEF Pushes
  <2>5. stack # <<>> =>
            \A t \in Task : /\ D(t) <=> (Top \in Disposer(t) \/ HoldsIn(Tail(stack), Disposer(t)))
                            /\ H(t) <=> (Top \in Handler(t) \/ HoldsIn(Tail(stack), Handler(t)))
                            /\ R(t) <=> (Top \in Replier(t) \/ HoldsIn(Tail(stack), Replier(t)))
      BY <2>0, StackHolds
  <2>6. ASSUME NEW f, stack # <<>>, stack' = <<f>> \o Tail(stack)
        PROVE  \A t \in Task : /\ DD(t) <=> (f \in Disposer(t) \/ HoldsIn(Tail(stack), Disposer(t)))
                               /\ HH(t) <=> (f \in Handler(t) \/ HoldsIn(Tail(stack), Handler(t)))
                               /\ RR(t) <=> (f \in Replier(t) \/ HoldsIn(Tail(stack), Replier(t)))
      BY <2>0, <2>6, StackHolds
  <2>7. stack = <<>> => \A t \in Task : ~ D(t) /\ ~ H(t) /\ ~ R(t)
      BY InEmpty
  <2> HIDE DEF D, H, R, DD, HH, RR
  <2>8. CASE TaskSame /\ \E f : Pushes(f)
      BY <2>2, <2>4, <2>8
  <2>9. CASE LoopsIdly
      BY <2>2, <2>7, <2>9 DEF LoopsIdly
  <2>10. CASE Leaves
    <3>1. \A t \in Task : Top \notin Disposer(t) /\ Top \notin Handler(t)
      BY <2>10 DEF Leaves, On, Disposer, Handler
    <3>2. \A t \in Task : "MUSTDISPOSE" \in task[t].flags => Top \notin Replier(t)
      BY <2>10 DEF Leaves, On, Replier, MustDispose
    <3>3. stack # <<>> /\ stack' = Tail(stack) /\ TaskSame
      BY <2>10 DEF Leaves
    <3> QED BY <2>2, <2>5, <3>1, <3>2, <3>3 DEF DD, HH, RR
  <2>11. ASSUME NEW i \in DOMAIN port, NEW below \in Seq(GoodFrame), Takes(i, below) PROVE UnderWay'
    <3> DEFINE f == Frame("Processreply", port[i].task, port[i], "begin")
    <3>1. stack' = <<f>> \o below /\ TaskSame
        BY <2>11 DEF Takes, TakeReply
    <3>2. CASE below = stack
        BY <2>8, <3>1, <3>2 DEF Pushes
    <3>3. CASE stack = <<>>
        BY <2>2, <2>7, <3>1, <3>3
    <3>4. CASE On("Waitformsg", "scan") /\ below = Tail(stack)
      <4>1. \A t \in Task : Top \notin Disposer(t) /\ Top \notin Handler(t) /\ Top \notin Replier(t)
          BY <3>4 DEF On, Disposer, Handler, Replier
      <4>2. stack # <<>> /\ stack' = <<f>> \o Tail(stack)
          BY <3>1, <3>4 DEF On
      <4> HIDE DEF f
      <4> QED BY <2>2, <2>5, <2>6, <3>1, <4>1, <4>2
    <3> QED BY <2>11, <3>2, <3>3, <3>4 DEF Takes
  <2>12. ASSUME NEW pc \in {"scan", "blocked", "wait", "redrain", "final"}, GoesOn(pc) PROVE UnderWay'
    <3> DEFINE f == [Top EXCEPT !.pc = pc]
    <3>1. stack # <<>> /\ stack' = <<f>> \o Tail(stack) /\ TaskSame
        BY <2>12 DEF GoesOn, Turns
    <3>2. \A t \in Task : /\ Top \in Disposer(t) => f \in Disposer(t)
                          /\ Top \notin Handler(t) /\ Top \notin Replier(t)
        BY <2>1, <2>12 DEF GoesOn, Disposer, Handler, Replier, GoodFrame, Frames
    <3> HIDE DEF f
    <3> QED BY <2>2, <2>5, <2>6, <3>1, <3>2
  <2>13. CASE FreesTask
    <3>1. Top.task \in Task /\ stack # <<>> /\ stack' = Tail(stack)
        BY <2>1, <2>13 DEF FreesTask, On, GoodFrame
    <3>2. \A t \in Task : Top \notin Handler(t) /\ Top \notin Replier(t)
                          /\ (t # Top.task => Top \notin Disposer(t))
        BY <2>13 DEF FreesTask, On, Handler, Replier, Disposer
    <3>3. \A t \in Task : (H(t) => HH(t)) /\ (R(t) => RR(t)) /\ (t # Top.task /\ D(t) => DD(t))
        BY <2>5, <3>1, <3>2 DEF DD, HH, RR
    <3> QED BY <1>3, <2>13, <3>1, <3>3 DEF FreesTask, UnderWay, D, H, R, DD, HH, RR
  <2>14. CASE CallsHandler
    <3> DEFINE f == [Top EXCEPT !.pc = "handler"]
    <3>1. Top.task \in Task /\ stack # <<>> /\ stack' = <<f>> \o Tail(stack)
        BY <2>1, <2>14 DEF CallsHandler, On, GoodFrame, Turns
    <3>2. /\ f \in Handler(Top.task)
          /\ \A t \in Task : Top \notin Handler(t) /\ Top \notin Replier(t) /\ Top \notin Disposer(t)
        BY <2>1, <2>14 DEF CallsHandler, On, Handler, Replier, Disposer, GoodFrame, Frames
    <3> HIDE DEF f
    <3>3. /\ \A t \in Task : (H(t) => HH(t)) /\ (R(t) => RR(t)) /\ (D(t) => DD(t))
          /\ HH(Top.task)
        BY <2>5, <2>6, <3>1, <3>2
    <3> QED BY <1>3, <2>14, <3>1, <3>3 DEF CallsHandler, Sets, UnderWay, D, H, R, DD, HH, RR
  <2>15. CASE CallsNobody
    <3> DEFINE f == [Top EXCEPT !.pc = "end"]
    <3>1. stack # <<>> /\ stack' = <<f>> \o Tail(stack) /\ TaskSame
        BY <2>15 DEF CallsNobody, On, Turns
    <3>2. \A t \in Task : Top \notin Handler(t) /\ Top \notin Replier(t) /\ Top \notin Disposer(t)
        BY <2>15 DEF CallsNobody, On, Handler, Replier, Disposer
    <3> HIDE DEF f
    <3> QED BY <2>2, <2>5, <2>6, <3>1, <3>2
  <2>16. CASE LeavesHandler
    <3> DEFINE f == [Top EXCEPT !.pc = "end"]
    <3>1. Top.task \in Task /\ stack # <<>> /\ stack' = <<f>> \o Tail(stack)
        BY <2>1, <2>16 DEF LeavesHandler, On, GoodFrame, Turns
    <3>2. \A t \in Task : /\ Top \notin Disposer(t) /\ (t # Top.task => Top \notin Handler(t))
                          /\ Top \in Replier(t) => f \in Replier(t)
        BY <2>1, <2>16 DEF LeavesHandler, On, Handler, Replier, Disposer, GoodFrame, Frames
    <3> HIDE DEF f
    <3>3. \A t \in Task : (t # Top.task /\ H(t) => HH(t)) /\ (R(t) => RR(t)) /\ (D(t) => DD(t))
        BY <2>5, <2>6, <3>1, <3>2
    <3> QED BY <1>3, <2>16, <3>1, <3>3 DEF LeavesHandler, Sets, UnderWay, D, H, R, DD, HH, RR
  <2>17. CASE DisposesLate
    <3> DEFINE f == Frame("Dodisposetask", Top.task, NoMsg, "drain")
    <3>1. Top.task \in Task /\ stack # <<>> /\ stack' = <<f>> \o Tail(stack)
        BY <2>1, <2>17 DEF DisposesLate, On, GoodFrame
    <3>2. /\ \A t \in Task : Top \notin Disposer(t) /\ Top \notin Handler(t)
                             /\ (t # Top.task => Top \notin Replier(t))
          /\ f \in Disposer(Top.task)
        BY <2>1, <2>17, <3>1 DEF DisposesLate, On, Handler, Replier, Disposer, GoodFrame, Frames, Frame,
           NoMsg, Msg, Message, Kinds
    <3> HIDE DEF f
    <3>3. /\ \A t \in Task : (t # Top.task /\ R(t) => RR(t)) /\ (H(t) => HH(t)) /\ (D(t) => DD(t))
          /\ DD(Top.task)
        BY <2>5, <2>6, <3>1, <3>2
    <3> QED BY <1>3, <2>17, <3>1, <3>3 DEF DisposesLate, Sets, UnderWay, D, H, R, DD, HH, RR
  <2>18. ASSUME NEW t \in Task, Creates(t) PROVE UnderWay'
    <3>1. task[t].flags = {}
        BY <1>3, <2>18 DEF Creates, NothingStray
    <3> QED BY <1>3, <2>18, <3>1 DEF Creates, UnderWay
  <2>19. ASSUME NEW t \in Task, Starts(t) PROVE UnderWay'
      BY <2>8, <2>19 DEF Starts
  <2>20. ASSUME NEW t \in Task, Defers(t) PROVE UnderWay'
    <3>1. H(t) /\ stack' = stack
        BY <1>3, <2>20 DEF Defers, UnderWay, H
    <3>2. R(t)
      <4>1. Handler(t) \subseteq Replier(t)
          BY DEF Handler, Replier
      <4> QED BY <3>1, <4>1 DEF H, R, HoldsIn
    <3> QED BY <1>3, <2>20, <3>1, <3>2 DEF Defers, Sets, UnderWay, R
  <2>21. ASSUME NEW t \in Task, DisposesNow(t) PROVE UnderWay'
    <3> DEFINE f == Frame("Dodisposetask", t, NoMsg, "drain")
    <3>1. Pushes(f) /\ f \in Disposer(t)
        BY <2>21 DEF DisposesNow, Disposer, GoodFrame, Frames, Frame, NoMsg, Msg, Message, Kinds
    <3> HIDE DEF f
    <3>2. /\ \A u \in Task : (R(u) => RR(u)) /\ (H(u) => HH(u)) /\ (D(u) => DD(u))
          /\ DD(t)
        BY <2>4, <3>1
    <3> QED BY <1>3, <2>21, <3>2 DEF DisposesNow, Sets, UnderWay, D, H, R, DD, HH, RR
  <2>22. ASSUME NEW t \in Task, NEW m \in GoodMsg, NEW possible \in BOOLEAN, NEW wait \in BOOLEAN,
                Sends(t, m, possible, wait)
         PROVE  UnderWay'
      BY <2>3, <2>8, <2>22 DEF Sends
  <2> QED
      BY <1>3, <2>3, <2>9, <2>10, <2>11, <2>12, <2>13, <2>14, <2>15, <2>16, <2>17, <2>18, <2>19,
         <2>20, <2>21, <2>22 DEF MainShape, Rests
<1> QED
    BY <1>1, <1>2, <1>3, StepShape

\* Whenever main is back in its event loop every disposal has been carried out
\* and no task is marked: the loop of Deinstalltask, which disposes of the first
\* task until there is none, never meets a task that refuses.
THEOREM NoDisposalIsForgotten == Spec => []NoneLeftDisposing
<1>1. TypeInv /\ Life /\ UnderWay => NoneLeftDisposing
  <2> SUFFICES ASSUME TypeInv, Life, UnderWay, stack = <<>>, NEW t \in Task, task[t].obj = "live"
               PROVE  task[t].flags = {}
      BY DEF NoneLeftDisposing
  <2>1. task[t].flags \subseteq Flags
      BY DEF TypeInv, Typed, TaskRecord
  <2>2. "DISPOSING" \notin task[t].flags /\ "PROCESSING" \notin task[t].flags
      BY InEmpty DEF UnderWay
  <2>3. "MUSTDISPOSE" \notin task[t].flags
      BY <2>2 DEF Life
  <2> QED
      BY <2>1, <2>2, <2>3 DEF Flags
<1> QED
    BY <1>1, LifeInductive, StrayInductive, UnderWayInductive, InitTypeInv, NextTypeInv, PTL
       DEF Spec

-----------------------------------------------------------------------------
(* A subtask gets one answer to each update *)

\* Updates have no number, Waitformsg and Dodisposetask never have one, and
\* Processreply works for the task whose message it has.
TidyMessage == {m \in Message : m.kind = "update" => m.id = 0}
TidyFrame ==
    {f \in GoodFrame :
        /\ f.msg \in TidyMessage
        /\ f.op # "Processreply" => f.msg.kind # "update"
        /\ f.op = "Processreply" => f.msg.task = f.task}
Tidy == port \in Seq(TidyMessage) /\ stack \in Seq(TidyFrame)

\* All three hold in every state.
LEMMA TidyInductive ==
    /\ Init => Tidy
    /\ TypeInv /\ Carried /\ Tidy /\ [Next]_vars => Tidy'
<1>1. Init => Tidy
  <2>1. \A S : <<>> \in Seq(S)
      OBVIOUS
  <2> QED BY <2>1 DEF Init, Tidy
<1>2. ASSUME TypeInv, Carried, Tidy, NEW t \in Task, SubtaskStep(t) PROVE Tidy'
  <2>1. stack' = stack
      BY <1>2, SubtaskEffect DEF TypeInv
  <2>2. ASSUME NEW m \in TidyMessage, port' = Append(port, m) PROVE port' \in Seq(TidyMessage)
      BY <1>2, <2>2, AppendProperties DEF Tidy
  <2>3. /\ Startup \in TidyMessage /\ MessagesTo(t) \subseteq TidyMessage
        /\ \A b \in BOOLEAN : Msg(t, "update", b, 0) \in TidyMessage
      BY DEF Startup, Msg, TidyMessage, Message, Kinds, MessagesTo, GoodMsg
  <2>4. port' \in Seq(TidyMessage)
      BY <1>2, <2>2, <2>3, SubtaskMessages DEF Update, Tidy
  <2> QED BY <1>2, <2>1, <2>4 DEF Tidy
<1>3. ASSUME TypeInv, Tidy, MainShape PROVE Tidy'
  <2>0. Typed /\ port \in Seq(TidyMessage) /\ stack \in Seq(TidyFrame)
      BY <1>3 DEF TypeInv, Tidy
  <2>1. port' \in Seq(TidyMessage)
    <3>1. ASSUME NEW i \in DOMAIN port, port' = Without(port, i) PROVE port' \in Seq(TidyMessage)
        BY <2>0, <3>1, WithoutType
    <3> QED BY <1>3, <2>0, <3>1, MainPort
  <2>2. stack # <<>> => Top \in TidyFrame /\ Tail(stack) \in Seq(TidyFrame)
      BY <2>0, HeadTailProperties DEF Top
  <2>3. \A f \in TidyFrame : /\ <<f>> \o stack \in Seq(TidyFrame)
                             /\ stack # <<>> => <<f>> \o Tail(stack) \in Seq(TidyFrame)
      BY <2>0, <2>2, PushType
  <2>4. /\ Loop \in TidyFrame
        /\ \A t \in Task : /\ Frame("Dodisposetask", t, NoMsg, "drain") \in TidyFrame
                           /\ Frame("Waitformsg", t, Startup, "scan") \in TidyFrame
      BY DEF Loop, Frame, TidyFrame, TidyMessage, GoodFrame, Frames, NoMsg, Startup, Msg, Message, Kinds
  <2>5. CASE stack' = stack \/ (stack # <<>> /\ stack' = Tail(stack))
      BY <2>0, <2>1, <2>2, <2>5 DEF Tidy
  <2>6. CASE LoopsIdly
    <3>1. <<Loop>> \in Seq(TidyFrame)
        BY <2>4
    <3> QED BY <2>1, <2>6, <3>1 DEF LoopsIdly, Tidy
  <2>7. ASSUME NEW i \in DOMAIN port, NEW below \in Seq(GoodFrame), Takes(i, below) PROVE Tidy'
    <3> DEFINE f == Frame("Processreply", port[i].task, port[i], "begin")
    <3>1. port[i] \in TidyMessage /\ port[i] \in GoodMsg
        BY <2>0, <2>7 DEF Takes
    <3>2. f \in TidyFrame
        BY <3>1 DEF Frame, TidyFrame, GoodFrame, Frames, GoodMsg, Message
    <3>3. stack' = <<f>> \o below
        BY <2>7 DEF Takes, TakeReply
    <3>4. below \in Seq(TidyFrame)
      <4>1. <<Loop>> \in Seq(TidyFrame)
          BY <2>4
      <4> QED BY <2>0, <2>2, <2>7, <4>1 DEF Takes, On
    <3> HIDE DEF f
    <3> QED BY <2>1, <3>2, <3>3, <3>4, PushType DEF Tidy
  <2>8. ASSUME NEW pc \in {"scan", "blocked", "wait", "redrain", "final", "handler", "end"},
               stack # <<>>, Turns(pc)
        PROVE Tidy'
    <3>1. [Top EXCEPT !.pc = pc] \in TidyFrame
        BY <2>2, <2>8 DEF TidyFrame, GoodFrame, Frames
    <3> QED BY <2>1, <2>3, <2>8, <3>1 DEF Turns, Tidy
  <2>9. CASE \E t \in Task : Starts(t) \/ DisposesNow(t)
      BY <2>1, <2>3, <2>4, <2>9 DEF Starts, DisposesNow, Pushes, Tidy
  <2>10. CASE DisposesLate
    <3>1. Top.task \in Task
        BY <2>2, <2>10 DEF DisposesLate, On, TidyFrame, GoodFrame
    <3> QED BY <2>1, <2>3, <2>4, <2>10, <3>1 DEF DisposesLate, On, Tidy
  <2>11. ASSUME NEW t \in Task, NEW m \in GoodMsg, NEW possible \in BOOLEAN, NEW wait \in BOOLEAN,
                Sends(t, m, possible, wait)
         PROVE  Tidy'
    <3>1. m.task = t /\ m.kind # "update"
        BY <2>11 DEF Sends
    <3>2. /\ Frame("Processreply", t, m, "begin") \in TidyFrame
          /\ Frame("Waitformsg", t, m, "scan") \in TidyFrame
        BY <3>1 DEF Frame, TidyFrame, TidyMessage, GoodFrame, Frames, GoodMsg, Message
    <3> QED BY <2>1, <2>3, <2>5, <2>11, <3>2 DEF Sends, Pushes, Tidy
  <2> QED
      BY <1>3, <2>5, <2>6, <2>7, <2>8, <2>9, <2>10, <2>11
         DEF MainShape, Rests, Leaves, FreesTask, GoesOn, CallsHandler, CallsNobody, LeavesHandler,
             On, Creates, Defers
<1> QED
    BY <1>1, <1>2, <1>3, StepShape

\* The activations that have the sync update of t and have not answered it.
InWork(t) == {f \in GoodFrame : f.msg = Update(t) /\ f.pc # "end"}
\* The update is in taskport; an activation has it.
Queued(t) == HoldsIn(port, {Update(t)})
Served(t) == HoldsIn(stack, InWork(t))

\* The update of a waiting subtask is in one place only, or is answered.
Pending(t) ==
    /\ OnceIn(port, {Update(t)}) /\ OnceIn(stack, InWork(t))
    /\ ~ (Queued(t) /\ Served(t))
    /\ proc[t].answered => ~ Queued(t) /\ ~ Served(t)
    /\ proc[t].at = "update" <=> Queued(t) \/ Served(t) \/ proc[t].answered
AllPending == \A t \in Task : Pending(t)

\* No step of a subtask loses or doubles an update,
LEMMA PendingSubtask ==
    ASSUME TypeInv, Life, Carried, AllPending, NEW t \in Task, SubtaskStep(t)
    PROVE  AllPending'
<1>0. Typed /\ port \in Seq(Message) /\ proc[t].answered \in BOOLEAN
    BY DEF TypeInv, Typed, GoodProc
<1>1. stack' = stack /\ \A u \in Task \ {t} : proc'[u] = proc[u]
    BY <1>0, SubtaskEffect
<1>2. ASSUME NEW u \in Task, NEW m \in Message, port' = Append(port, m)
      PROVE  /\ Queued(u)' <=> Queued(u) \/ m = Update(u)
             /\ OnceIn(port, {Update(u)}) /\ (m = Update(u) => ~ Queued(u)) => OnceIn(port', {Update(u)})
    BY <1>0, <1>2, InAdded DEF Queued, Update, Msg
<1>3. \A u \in Task : Served(u)' <=> Served(u)
    BY <1>1 DEF Served, InWork, Update, Msg
<1>4. ASSUME NEW u \in Task,
             port' = port \/ \E m \in Message : port' = Append(port, m) /\ m # Update(u),
             proc'[u].answered = proc[u].answered, proc'[u].at = "update" <=> proc[u].at = "update"
      PROVE  Pending(u)'
  <2>1. (Queued(u)' <=> Queued(u)) /\ (OnceIn(port, {Update(u)}) => OnceIn(port', {Update(u)}))
      BY <1>2, <1>4 DEF Queued
  <2> QED BY <1>1, <1>3, <1>4, <2>1 DEF AllPending, Pending, InWork
<1>5. /\ Startup \in Message /\ \A u \in Task : Startup # Update(u)
      /\ \A m \in MessagesTo(t) : m \in Message /\ \A u \in Task : m # Update(u)
      /\ Msg(t, "update", TRUE, 0) \in Message /\ \A u \in Task : Msg(t, "update", TRUE, 0) # Update(u)
      /\ Update(t) \in Message /\ \A u \in Task \ {t} : Update(t) # Update(u)
    BY DEF Startup, Update, Msg, Message, Kinds, MessagesTo, GoodMsg
<1>6. ASSUME NEW u \in Task \ {t} PROVE Pending(u)'
  <2>1. port' = port \/ \E m \in Message : port' = Append(port, m) /\ m # Update(u)
      BY <1>5, <1>6, SubtaskMessages
  <2> QED BY <1>1, <1>4, <1>6, <2>1
<1>7. Pending(t)'
  <2>1. CASE /\ \/ port' = port
                \/ port' = Append(port, Startup) /\ proc[t].at = "created"
                \/ \E m \in MessagesTo(t) : port' = Append(port, m)
                \/ port' = Append(port, Msg(t, "update", TRUE, 0))
             /\ proc'[t].answered = proc[t].answered
             /\ proc'[t].at = "update" <=> proc[t].at = "update"
      BY <1>4, <1>5, <2>1
  <2>2. CASE /\ port' = port /\ proc[t].answered /\ ~proc'[t].answered
             /\ proc[t].at = "update" /\ proc'[t].at # "update"
      BY <1>1, <1>3, <2>2 DEF AllPending, Pending, Queued, InWork
  <2>3. CASE /\ port' = Append(port, Update(t)) /\ proc'[t].answered = proc[t].answered
             /\ proc[t].at # "update" /\ proc'[t].at = "update"
    <3>1. ~ Queued(t) /\ ~ Served(t) /\ ~ proc[t].answered /\ OnceIn(port, {Update(t)})
          /\ OnceIn(stack, InWork(t))
        BY <2>3 DEF AllPending, Pending
    <3>2. Queued(t)' /\ OnceIn(port', {Update(t)})
        BY <1>2, <1>5, <2>3, <3>1
    <3> QED BY <1>1, <1>3, <2>3, <3>1, <3>2 DEF Pending, InWork
  <2> QED BY <2>1, <2>2, <2>3, SubtaskMessages
<1> QED
    BY <1>6, <1>7 DEF AllPending

\* nor does one of main.
LEMMA PendingMain ==
    ASSUME TypeInv, Tidy, AllPending, MainShape
    PROVE  AllPending'
<1>0. Typed /\ stack \in Seq(TidyFrame) /\ \A t \in Task : proc[t].answered \in BOOLEAN
    BY DEF TypeInv, Tidy, Typed, GoodProc
<1>1. stack # <<>> => Top \in TidyFrame
    BY <1>0, HeadTailProperties DEF Top
<1>2. ASSUME NEW t \in Task, Queued(t)' <=> Queued(t), OnceIn(port', {Update(t)}),
             Served(t)' <=> Served(t), OnceIn(stack', InWork(t)),
             proc'[t].answered = proc[t].answered, proc'[t].at = "update" <=> proc[t].at = "update"
      PROVE  Pending(t)'
    BY <1>2 DEF AllPending, Pending, InWork
<1>3. \A t \in Task : /\ Pending(t) /\ OnceIn(port, {Update(t)}) /\ OnceIn(stack, InWork(t))
    BY DEF AllPending, Pending
\* The stack: an activation that has no update comes, goes or turns.
<1>4. ASSUME NEW t \in Task, stack' = stack
      PROVE  (Served(t)' <=> Served(t)) /\ OnceIn(stack', InWork(t))
    BY <1>3, <1>4 DEF Served, InWork
<1>5. ASSUME NEW t \in Task, stack # <<>>, Top \notin InWork(t),
             stack' = Tail(stack) \/ \E f : stack' = <<f>> \o Tail(stack) /\ f \notin InWork(t)
      PROVE  (Served(t)' <=> Served(t)) /\ OnceIn(stack', InWork(t))
  <2>1. CASE stack' = Tail(stack)
      BY <1>0, <1>3, <1>5, <2>1, StackHolds DEF Served, InWork
  <2>2. CASE \E f : stack' = <<f>> \o Tail(stack) /\ f \notin InWork(t)
      BY <1>0, <1>3, <1>5, <2>2, StackHolds DEF Served, InWork
  <2> QED BY <1>5, <2>1, <2>2
<1>6. ASSUME NEW t \in Task, NEW f, stack' = <<f>> \o stack, f \notin InWork(t)
      PROVE  (Served(t)' <=> Served(t)) /\ OnceIn(stack', InWork(t))
    BY <1>0, <1>3, <1>6, StackHolds DEF Served, InWork
<1>7. port' = port => \A t \in Task : (Queued(t)' <=> Queued(t)) /\ OnceIn(port', {Update(t)})
    BY <1>3 DEF Queued
<1>8. stack # <<>> /\ (Top.op # "Processreply" \/ Top.pc = "end") => \A t \in Task : Top \notin InWork(t)
    BY <1>1 DEF InWork, TidyFrame, Update, Msg
<1>9. /\ \A t \in Task : Loop \notin InWork(t)
      /\ \A t, u \in Task : /\ Frame("Dodisposetask", u, NoMsg, "drain") \notin InWork(t)
                            /\ Frame("Waitformsg", u, Startup, "scan") \notin InWork(t)
    BY DEF Loop, Frame, InWork, NoMsg, Startup, Update, Msg
<1>10. CASE Rests \/ \E t \in Task : Creates(t) \/ Defers(t)
    BY <1>2, <1>4, <1>7, <1>10 DEF Rests, Creates, Defers, ProcSame, AllPending
<1>11. CASE LoopsIdly
  <2>1. ASSUME NEW t \in Task PROVE (Served(t)' <=> Served(t)) /\ OnceIn(stack', InWork(t))
    <3>1. ~ Served(t)
        BY <1>11, InEmpty DEF LoopsIdly, Served
    <3>2. stack' = <<Loop>>
        BY <1>11 DEF LoopsIdly
    <3>3. ~ HoldsIn(stack', InWork(t)) /\ OnceIn(stack', InWork(t))
        BY <1>9, <3>2 DEF HoldsIn, OnceIn
    <3> QED BY <3>1, <3>3 DEF Served, InWork
  <2> QED BY <1>2, <1>7, <1>11, <2>1 DEF LoopsIdly, ProcSame, AllPending
<1>12. CASE Leaves
  <2>1. \A t \in Task : (Served(t)' <=> Served(t)) /\ OnceIn(stack', InWork(t))
      BY <1>5, <1>8, <1>12 DEF Leaves, On
  <2>2. ASSUME NEW t \in Task PROVE (Queued(t)' <=> Queued(t)) /\ OnceIn(port', {Update(t)})
    <3>1. CASE port' = port
        BY <1>7, <3>1
    <3>2. ASSUME NEW i \in DOMAIN port, port[i] = Startup, port' = Without(port, i)
          PROVE  (Queued(t)' <=> Queued(t)) /\ OnceIn(port', {Update(t)})
      <4>1. port \in Seq(Message) /\ port[i] \notin {Update(t)}
          BY <1>0, <3>2 DEF Typed, Startup, Update, Msg
      <4> QED BY <1>3, <3>2, <4>1, InTaken DEF Queued, Update, Msg
    <3> QED BY <1>12, <3>1, <3>2 DEF Leaves
  <2> QED BY <1>2, <1>12, <2>1, <2>2 DEF Leaves, ProcSame, AllPending
<1>13. CASE FreesTask \/ \E pc \in {"scan", "blocked", "wait", "redrain", "final"} : GoesOn(pc)
  <2>1. /\ stack # <<>> /\ Top.op # "Processreply" /\ port' = port /\ ProcSame
        /\ stack' = Tail(stack) \/ \E pc : Turns(pc)
      BY <1>13 DEF FreesTask, GoesOn, On
  <2>2. \A pc, t : [Top EXCEPT !.pc = pc] \notin InWork(t)
      BY <1>1, <2>1 DEF InWork, TidyFrame, GoodFrame, Frames, Update, Msg
  <2>3. \A t \in Task : (Served(t)' <=> Served(t)) /\ OnceIn(stack', InWork(t))
      BY <1>5, <1>8, <2>1, <2>2 DEF Turns
  <2> QED BY <1>2, <1>7, <2>1, <2>3 DEF ProcSame, AllPending
<1>14. ASSUME NEW i \in DOMAIN port, NEW below \in Seq(GoodFrame), Takes(i, below) PROVE AllPending'
  <2> DEFINE f == Frame("Processreply", port[i].task, port[i], "begin")
  <2>1. /\ stack' = <<f>> \o below /\ port' = Without(port, i) /\ port[i] \in GoodMsg /\ ProcSame
      BY <1>14 DEF Takes, TakeReply
  <2>2. \A t \in Task : f \in InWork(t) <=> port[i] = Update(t)
      BY <2>1 DEF InWork, Frame, GoodFrame, Frames, GoodMsg, Message
  <2> HIDE DEF f
  <2>3. ASSUME NEW t \in Task
        PROVE  /\ HoldsIn(below, InWork(t)) <=> Served(t)
               /\ OnceIn(below, InWork(t))
    <3>1. CASE below = stack
        BY <1>3, <3>1 DEF Served
    <3>2. CASE stack = <<>> /\ below = <<Loop>>
        BY <1>9, <3>2 DEF Served, HoldsIn, OnceIn
    <3>3. CASE On("Waitformsg", "scan") /\ below = Tail(stack)
        BY <1>0, <1>3, <1>8, <3>3, StackHolds DEF Served, On
    <3> QED BY <1>14, <3>1, <3>2, <3>3 DEF Takes
  <2>4. ASSUME NEW t \in Task PROVE Pending(t)'
    <3>1. /\ Served(t)' <=> port[i] = Update(t) \/ Served(t)
          /\ (port[i] = Update(t) => ~ Served(t)) => OnceIn(stack', InWork(t))
      <4>1. /\ HoldsIn(stack', InWork(t)) <=> f \in InWork(t) \/ HoldsIn(below, InWork(t))
            /\ OnceIn(below, InWork(t)) /\ (f \in InWork(t) => ~ HoldsIn(below, InWork(t)))
                 => OnceIn(stack', InWork(t))
          BY <1>14, <2>1, InPushed
      <4> QED BY <2>2, <2>3, <4>1 DEF Served, InWork
    <3>2. /\ Queued(t) <=> port[i] = Update(t) \/ Queued(t)'
          /\ OnceIn(port', {Update(t)})
          /\ port[i] = Update(t) => ~ Queued(t)'
      <4>1. /\ HoldsIn(port, {Update(t)}) <=> port[i] \in {Update(t)} \/ HoldsIn(port', {Update(t)})
            /\ OnceIn(port, {Update(t)}) => /\ OnceIn(port', {Update(t)})
                                            /\ port[i] \in {Update(t)} => ~ HoldsIn(port', {Update(t)})
          BY <1>0, <2>1, InTaken DEF Typed
      <4>2. Queued(t)' <=> HoldsIn(port', {Update(t)})
          BY DEF Queued, Update, Msg
      <4> QED BY <1>3, <4>1, <4>2 DEF Queued
    <3> QED BY <1>3, <2>1, <3>1, <3>2 DEF Pending, ProcSame, InWork
  <2> QED BY <2>4 DEF AllPending
<1>15. CASE CallsHandler
  <2> DEFINE f == [Top EXCEPT !.pc = "handler"]
  <2>1. /\ stack # <<>> /\ stack' = <<f>> \o Tail(stack) /\ port' = port /\ ProcSame
        /\ Top.pc = "begin"
      BY <1>15 DEF CallsHandler, On, Turns
  <2>2. \A t \in Task : f \in InWork(t) <=> Top \in InWork(t)
      BY <1>1, <2>1 DEF InWork, TidyFrame, GoodFrame, Frames
  <2> HIDE DEF f
  <2>3. ASSUME NEW t \in Task PROVE (Served(t)' <=> Served(t)) /\ OnceIn(stack', InWork(t))
      BY <1>0, <1>3, <2>1, <2>2, StackHolds DEF Served, InWork
  <2> QED BY <1>2, <1>7, <2>1, <2>3 DEF ProcSame, AllPending
<1>16. CASE CallsNobody \/ LeavesHandler
  <2> DEFINE f == [Top EXCEPT !.pc = "end"]
  <2>1. /\ stack # <<>> /\ stack' = <<f>> \o Tail(stack) /\ port' = port /\ Answered(Top.msg)
        /\ Top.op = "Processreply" /\ Top.pc # "end"
      BY <1>16 DEF CallsNobody, LeavesHandler, On, Turns
  <2>2. \A t \in Task : f \notin InWork(t)
      BY <1>1, <2>1 DEF InWork, TidyFrame, GoodFrame, Frames
  <2> HIDE DEF f
  <2>3. ASSUME NEW t \in Task
        PROVE  /\ Top \in InWork(t) <=> IsReplied(Top.msg) /\ Top.msg.task = t
    <3>1. Top.msg = Update(t) <=> IsReplied(Top.msg) /\ Top.msg.task = t
      <4>1. Top.msg \in Message /\ (Top.msg.kind = "update" => Top.msg.id = 0)
          BY <1>1, <2>1 DEF TidyFrame, TidyMessage
      <4>2. Top.msg = [task |-> Top.msg.task, kind |-> Top.msg.kind, async |-> Top.msg.async,
                       id |-> Top.msg.id]
          BY <4>1 DEF Message
      <4>3. Top.msg = Update(t) => IsReplied(Top.msg) /\ Top.msg.task = t
          BY DEF IsReplied, Update, Msg
      <4>4. ASSUME IsReplied(Top.msg), Top.msg.task = t PROVE Top.msg = Update(t)
        <5>1. Top.msg.kind = "update" /\ Top.msg.async = FALSE /\ Top.msg.id = 0
            BY <4>1, <4>4 DEF Message, IsReplied
        <5> QED BY <4>2, <4>4, <5>1 DEF Update, Msg
      <4> QED BY <4>3, <4>4
    <3> QED BY <1>1, <2>1, <3>1 DEF InWork, TidyFrame
  <2>4. ASSUME NEW t \in Task PROVE Pending(t)'
    <3>1. /\ Served(t) <=> Top \in InWork(t) \/ Served(t)'
          /\ OnceIn(stack', InWork(t))
          /\ Top \in InWork(t) => ~ Served(t)'
        BY <1>0, <1>3, <2>1, <2>2, StackHolds DEF Served, InWork
    <3>2. (Queued(t)' <=> Queued(t)) /\ OnceIn(port', {Update(t)})
        BY <1>7, <2>1
    <3>3. proc'[t].answered = (proc[t].answered \/ Top \in InWork(t)) /\ proc'[t].at = proc[t].at
        BY <2>1, <2>3 DEF Answered
    <3> QED BY <1>0, <1>3, <3>1, <3>2, <3>3 DEF Pending, InWork
  <2> QED BY <2>4 DEF AllPending
<1>17. CASE DisposesLate
  <2>1. Top.task \in Task /\ Top.pc = "end" /\ stack # <<>> /\ port' = port /\ ProcSame
        /\ stack' = <<Frame("Dodisposetask", Top.task, NoMsg, "drain")>> \o Tail(stack)
      BY <1>1, <1>17 DEF DisposesLate, On, TidyFrame, GoodFrame
  <2>2. \A t \in Task : (Served(t)' <=> Served(t)) /\ OnceIn(stack', InWork(t))
      BY <1>5, <1>8, <1>9, <2>1
  <2> QED BY <1>2, <1>7, <2>1, <2>2 DEF ProcSame, AllPending
<1>18. ASSUME NEW u \in Task, Starts(u) PROVE AllPending'
  <2>1. ASSUME NEW t \in Task PROVE Pending(t)'
    <3>1. (Served(t)' <=> Served(t)) /\ OnceIn(stack', InWork(t))
        BY <1>6, <1>9, <1>18 DEF Starts, Pushes
    <3>2. proc'[t].answered = proc[t].answered /\ (proc'[t].at = "update" <=> proc[t].at = "update")
        BY <1>18 DEF Starts
    <3> QED BY <1>2, <1>7, <1>18, <3>1, <3>2 DEF Starts
  <2> QED BY <2>1 DEF AllPending
<1>19. ASSUME NEW u \in Task, DisposesNow(u) PROVE AllPending'
  <2>1. \A t \in Task : (Served(t)' <=> Served(t)) /\ OnceIn(stack', InWork(t))
      BY <1>6, <1>9, <1>19 DEF DisposesNow, Pushes
  <2> QED BY <1>2, <1>7, <1>19, <2>1 DEF DisposesNow, ProcSame, AllPending
<1>20. ASSUME NEW u \in Task, NEW m \in GoodMsg, NEW possible \in BOOLEAN, NEW wait \in BOOLEAN,
              Sends(u, m, possible, wait)
       PROVE  AllPending'
  <2>1. m.kind # "update" /\ port' = port /\ \A t \in Task : proc'[t].at = proc[t].at
                                         /\ proc'[t].answered = proc[t].answered
      BY <1>20 DEF Sends
  <2>2. \A t \in Task : /\ Frame("Processreply", u, m, "begin") \notin InWork(t)
                        /\ Frame("Waitformsg", u, m, "scan") \notin InWork(t)
      BY <2>1 DEF InWork, Frame, Update, Msg
  <2>3. \A t \in Task : (Served(t)' <=> Served(t)) /\ OnceIn(stack', InWork(t))
      BY <1>4, <1>6, <1>20, <2>2 DEF Sends, Pushes
  <2> QED BY <1>2, <1>7, <2>1, <2>3 DEF AllPending
<1> QED
    BY <1>10, <1>11, <1>12, <1>13, <1>14, <1>15, <1>16, <1>17, <1>18, <1>19, <1>20 DEF MainShape

\* A subtask that waits for the answer to an update has it, or its update is in
\* taskport or in the hands of one Processreply: however main's recursion nests,
\* the answer comes once and is not lost.
THEOREM UpdateIsAnsweredOnce == Spec => []SyncUpdateIsPending
<1>1. Init => AllPending
  <2>1. ASSUME Init, NEW t \in Task PROVE Pending(t)
      BY <2>1, InEmpty DEF Init, Pending, Queued, Served
  <2> QED BY <2>1 DEF AllPending
<1>2. TypeInv /\ Life /\ Carried /\ Tidy /\ AllPending /\ [Next]_vars => AllPending'
    BY StepShape, PendingSubtask, PendingMain
<1>3. TypeInv /\ Tidy /\ AllPending => SyncUpdateIsPending
  <2> SUFFICES ASSUME TypeInv, Tidy, AllPending, NEW t \in Task, proc[t].at = "update"
               PROVE  Cardinality({i \in DOMAIN port : port[i] = Update(t)})
                        + Cardinality({i \in DOMAIN stack : stack[i].msg = Update(t) /\ stack[i].pc # "end"})
                        + (IF proc[t].answered THEN 1 ELSE 0) = 1
      BY DEF SyncUpdateIsPending, Update
  <2> DEFINE Q == {i \in DOMAIN port : port[i] = Update(t)}
             K == {i \in DOMAIN stack : stack[i].msg = Update(t) /\ stack[i].pc # "end"}
  <2>1. Pending(t)
      BY DEF AllPending
  <2>2. \A i \in DOMAIN stack : stack[i] \in GoodFrame
      BY DEF TypeInv, Typed
  <2>3. K = {i \in DOMAIN stack : stack[i] \in InWork(t)}
      BY <2>2 DEF InWork
  <2>4. Queued(t) <=> Q # {}
      BY DEF Queued, HoldsIn
  <2>5. Served(t) <=> K # {}
      BY <2>3 DEF Served, HoldsIn
  <2>6. \A i, j \in Q : i = j
      BY <2>1 DEF Pending, OnceIn
  <2>7. \A i, j \in K : i = j
      BY <2>1, <2>3 DEF Pending, OnceIn
  <2>8. ASSUME NEW A, \A i, j \in A : i = j
        PROVE  Cardinality(A) = IF A = {} THEN 0 ELSE 1
    <3>1. CASE A = {}
        BY <3>1, FS_EmptySet
    <3>2. CASE A # {}
      <4>1. PICK i : A = {i}
          BY <2>8, <3>2
      <4> QED BY <3>2, <4>1, FS_Singleton
    <3> QED BY <3>1, <3>2
  <2>9. /\ Cardinality(Q) = IF Queued(t) THEN 1 ELSE 0
        /\ Cardinality(K) = IF Served(t) THEN 1 ELSE 0
    <3> HIDE DEF Q, K
    <3>1. Cardinality(Q) = IF Q = {} THEN 0 ELSE 1
        BY <2>6, <2>8
    <3>2. Cardinality(K) = IF K = {} THEN 0 ELSE 1
        BY <2>7, <2>8
    <3> QED BY <2>4, <2>5, <3>1, <3>2
  <2> HIDE DEF Q, K
  <2>10. Cardinality(Q) + Cardinality(K) + (IF proc[t].answered THEN 1 ELSE 0) = 1
      BY <2>1, <2>9 DEF Pending
  <2> QED BY <2>10 DEF Q, K
<1> QED
    BY <1>1, <1>2, <1>3, LifeInductive, StrayInductive, TidyInductive, InitTypeInv, NextTypeInv, PTL
       DEF Spec
=============================================================================
