---------------------------- MODULE TaskRefines -----------------------------
(***************************************************************************)
(* Task implements TaskLife, for every set of tasks, every set of calls    *)
(* and every bound.  The mapping is Lives, in Task.  What it needs beyond  *)
(* TypeInv and Life of TaskProofs is that nothing happens to a task before *)
(* Newtask has made it.                                                    *)
(***************************************************************************)
EXTENDS TaskProofs

Disposing(t) == "DISPOSING" \in task[t].flags

\* Before Newtask there is no process, and nobody has disposed of the task.
Born == \A t \in Task : task[t].obj = "none" => Process(t) = "none" /\ ~ Disposing(t)

\* A step does not show at task u.
SameAt(u) ==
    /\ task'[u].obj = task[u].obj
    /\ Disposing(u)' <=> Disposing(u)
    /\ Process(u)' = Process(u)

\* A step shows at task t and is one of the five that TaskLife has.
StepAt(t) ==
    \/ /\ task[t].obj = "none" /\ task'[t].obj = "live"
       /\ Disposing(t)' <=> Disposing(t)
       /\ Process(t)' = Process(t)
    \/ /\ task[t].obj = "live" /\ task'[t].obj = "live"
       /\ ~ Disposing(t) /\ ~ Disposing(t)'
       /\ Process(t) = "none" /\ Process(t)' = "runs"
    \/ /\ task[t].obj = "live" /\ task'[t].obj = "live"
       /\ Disposing(t)' <=> Disposing(t)
       /\ Process(t) = "runs" /\ Process(t)' = "ended"
    \/ /\ task[t].obj = "live" /\ task'[t].obj = "live"
       /\ ~ Disposing(t) /\ Disposing(t)'
       /\ Process(t)' = Process(t)
    \/ /\ task[t].obj = "live" /\ task'[t].obj = "freed"
       /\ Disposing(t) /\ Disposing(t)'
       /\ Process(t) # "runs" /\ Process(t)' = Process(t)

Visible == \/ \A u \in Task : SameAt(u)
           \/ \E t \in Task : StepAt(t) /\ \A u \in Task \ {t} : SameAt(u)

\* A step that moves no process and leaves the objects and the flag alone.
LEMMA Unseen ==
    ASSUME \A u \in Task : proc'[u].at = proc[u].at,
           \A u \in Task : task'[u].obj = task[u].obj,
           \A u \in Task : Disposing(u)' <=> Disposing(u)
    PROVE  Visible
BY DEF Visible, SameAt, Process

-----------------------------------------------------------------------------
(* Every step is visible as one of TaskLife *)

LEMMA SubtaskVisible ==
    ASSUME TypeInv, Life, Born, NEW t \in Task, SubtaskStep(t)
    PROVE  Visible
<1>1. /\ \A u \in Task : task'[u].obj = task[u].obj /\ task'[u].flags = task[u].flags
      /\ \A u \in Task \ {t} : proc'[u] = proc[u]
      /\ proc[t].at \notin {"none", "ended"}
    BY SubtaskEffect, SubtaskLife DEF TypeInv
<1>2. proc'[t].at # "none"
  <2>0. proc \in [Task -> GoodProc] /\ proc[t] \in GoodProc
      BY DEF TypeInv, Typed
  <2>. USE DEF Moves, MovesAndPuts
  <2>1. CASE Subtask(t)
      BY <2>0, <2>1 DEF Subtask, GoodProc
  <2>2. CASE Answers(t)
      BY <2>0, <2>2 DEF Answers, GoodProc
  <2>3. CASE Replytaskmsg(t) \/ Drains(t) \/ Dies(t) \/ Ends(t)
      BY <2>0, <2>3 DEF Replytaskmsg, Drains, Dies, Ends, GoodProc
  <2>4. CASE Waittask(t) \/ ScanEnds(t)
      BY <2>0, <2>4 DEF Waittask, ScanEnds, GoodProc
  <2>9. CASE Gettaskmsg(t)
      BY <2>0, <2>9, <1>1 DEF Gettaskmsg, GoodProc
  <2>5. CASE GetMsg(t) \/ ScanWakes(t)
      BY <2>0, <2>5 DEF GetMsg, ScanWakes, GoodProc
  <2>6. CASE \E own \in BOOLEAN : Wakes(t, own)
      BY <2>0, <2>6 DEF Wakes, GoodProc
  <2>7. CASE \E async \in BOOLEAN : Updatetask(t, async)
      BY <2>0, <2>7 DEF Updatetask, GoodProc
  <2>8. CASE UpdateReplied(t) \/ Finishes(t) \/ Returns(t)
      BY <2>0, <2>8, <1>1 DEF UpdateReplied, Finishes, Returns, Works, Free, GoodProc
  <2> QED
      BY <2>1, <2>2, <2>3, <2>4, <2>5, <2>6, <2>7, <2>8, <2>9 DEF SubtaskStep
<1>3. task[t].obj = "live"
  <2>1. task[t].obj # "freed"
      BY <1>1 DEF Life, EndedTasks
  <2>2. task[t].obj # "none"
      BY <1>1 DEF Born, Process
  <2> QED
      BY <2>1, <2>2 DEF TypeInv, Typed, TaskRecord
<1>4. \A u \in Task \ {t} : SameAt(u)
    BY <1>1 DEF SameAt, Process, Disposing
<1>5. CASE proc'[t].at = "ended"
    BY <1>1, <1>3, <1>4, <1>5 DEF Visible, StepAt, Process, Disposing
<1>6. CASE proc'[t].at # "ended"
  <2>1. SameAt(t)
      BY <1>1, <1>2, <1>6 DEF SameAt, Process, Disposing
  <2> QED
      BY <1>4, <2>1 DEF Visible
<1> QED
    BY <1>5, <1>6

LEMMA DisposeVisible ==
    ASSUME TypeInv, NEW t \in Task, Disposetask(t)
    PROVE  Visible
<1>0. /\ Typed /\ task \in [Task -> TaskRecord]
      /\ stack \in Seq(GoodFrame)
    BY DEF TypeInv, Typed
<1>1. /\ task[t].obj = "live" /\ ~ Disposing(t)
      /\ \/ task' = [task EXCEPT ![t].flags = @ \cup {"DISPOSING", "MUSTDISPOSE"},
                                 ![t].target = FALSE]
         \/ task' = [task EXCEPT ![t].flags = @ \cup {"DISPOSING"}]
    BY DEF Disposetask, Disposing
<1>2. /\ task'[t].obj = "live" /\ Disposing(t)'
      /\ \A u \in Task \ {t} : task'[u] = task[u]
    BY <1>0, <1>1 DEF TaskRecord, Disposing
<1>3. \A u \in Task : proc'[u].at = proc[u].at
    BY <1>0, StartDisposeType DEF Disposetask
<1> QED
    BY <1>1, <1>2, <1>3 DEF Visible, SameAt, StepAt, Process, Disposing

LEMMA CallVisible ==
    ASSUME TypeInv, NEW t \in Task, CallStep(t)
    PROVE  Visible
<1>0. /\ task \in [Task -> TaskRecord] /\ proc \in [Task -> GoodProc]
      /\ task[t] \in TaskRecord
    BY DEF TypeInv, Typed
<1>1. CASE Newtask(t)
  <2>1. /\ task[t].obj = "none" /\ task'[t].obj = "live" /\ task'[t].flags = task[t].flags
        /\ \A u \in Task \ {t} : task'[u] = task[u]
        /\ proc' = proc
      BY <1>0, <1>1 DEF Newtask, TaskRecord
  <2> QED
      BY <2>1 DEF Visible, SameAt, StepAt, Process, Disposing
<1>2. CASE Starttask(t)
  <2>1. task[t].obj = "live" /\ task[t].flags = {} /\ proc[t].at = "none"
      BY <1>2 DEF Starttask, IsNew
  <2>2. CASE task' = [task EXCEPT ![t].state = "DEAD"] /\ UNCHANGED <<proc, stack>>
      BY <1>0, <2>2, Unseen DEF TaskRecord, Disposing
  <2>3. CASE proc' = [proc EXCEPT ![t].at = "created"] /\ UNCHANGED task
    <3>1. proc'[t].at = "created" /\ \A u \in Task \ {t} : proc'[u] = proc[u]
        BY <1>0, <2>3 DEF GoodProc
    <3> QED
        BY <2>1, <2>3, <3>1 DEF Visible, SameAt, StepAt, Process, Disposing
  <2> QED
      BY <1>2, <2>2, <2>3 DEF Starttask
<1>3. CASE Stoptask(t)
  <2>1. \A u \in Task : proc'[u].at = proc[u].at
      BY <1>0, <1>3 DEF Stoptask, BreakSubtask, GoodProc
  <2> QED
      BY <1>3, <2>1, Unseen DEF Stoptask, Disposing
<1>4. CASE Disposes(t)
    BY <1>4, DisposeVisible DEF Disposes
<1>5. ASSUME NEW kind, NEW async, NEW possible, NEW wait, NEW wanted,
             Send(t, kind, async, possible, wait),
             \/ task' = [task EXCEPT ![t].messages = @ + 1]
             \/ task' = [task EXCEPT ![t].messages = @ + 1, ![t].wanted = wanted]
      PROVE  Visible
  <2>1. \A u \in Task : proc'[u].at = proc[u].at
      BY <1>0, <1>5 DEF Send, GoodProc
  <2>2. \A u \in Task : task'[u].obj = task[u].obj /\ task'[u].flags = task[u].flags
    <3>1. CASE task' = [task EXCEPT ![t].messages = @ + 1]
        BY <1>0, <3>1 DEF TaskRecord
    <3>2. CASE task' = [task EXCEPT ![t].messages = @ + 1, ![t].wanted = wanted]
        BY <1>0, <3>2 DEF TaskRecord
    <3> QED
        BY <1>5, <3>1, <3>2
  <2> QED
      BY <2>1, <2>2, Unseen DEF Disposing
<1>6. CASE \E async \in BOOLEAN : Messagetask(t, async)
    BY <1>5, <1>6 DEF Messagetask
<1>7. CASE AsetattrsasyncA(t)
    BY <1>5, <1>7 DEF AsetattrsasyncA
<1>8. CASE \E data, async \in BOOLEAN : SettaskSuspend(t, data, async)
  <2>1. PICK data \in BOOLEAN, async \in BOOLEAN : SettaskSuspend(t, data, async)
      BY <1>8
  <2>2. CASE Suspendtask(t, async)
      BY <1>5, <2>2 DEF Suspendtask
  <2>3. CASE /\ task' = [task EXCEPT ![t].wanted = FALSE]
             /\ UNCHANGED <<proc, taskport, mask, semas, stack, quitting>>
      BY <1>0, <2>3, Unseen DEF TaskRecord, Disposing
  <2> QED
      BY <2>1, <2>2, <2>3 DEF SettaskSuspend
<1> QED
    BY <1>1, <1>2, <1>3, <1>4, <1>6, <1>7, <1>8 DEF CallStep

LEMMA MainVisible ==
    ASSUME TypeInv, Life, Born, MainStep
    PROVE  Visible
<1>0. Typed /\ task \in [Task -> TaskRecord] /\ proc \in [Task -> GoodProc]
    BY DEF TypeInv, Typed
<1>1. CASE UNCHANGED <<task, proc>>
    BY <1>1, Unseen DEF Disposing
<1>2. CASE ProcessreplyBegins \/ HandlerReturns
  <2>1. Head(stack).msg \in GoodMsg /\ Head(stack).task \in Task
      BY <1>0, <1>2, TopType DEF ProcessreplyBegins, HandlerReturns, At, GoodFrame
  <2>2. \A u \in Task : proc'[u].at = proc[u].at
      BY <1>0, <1>2, <2>1, AnswerType DEF ProcessreplyBegins, HandlerReturns
  <2>3. \A u \in Task : task'[u].obj = task[u].obj /\ (Disposing(u)' <=> Disposing(u))
    <3>1. \/ task' = task
          \/ task' = [task EXCEPT ![Head(stack).task].flags = @ \cup {"PROCESSING"}]
          \/ task' = [task EXCEPT ![Head(stack).task].flags = @ \ {"PROCESSING"}]
        BY <1>2 DEF ProcessreplyBegins, HandlerReturns
    <3> QED
        BY <1>0, <2>1, <3>1 DEF TaskRecord, Disposing
  <2> QED
      BY <2>2, <2>3, Unseen
<1>3. CASE ProcessreplyEnds
  <2>1. Head(stack).task \in Task /\ Tail(stack) \in Seq(GoodFrame)
      BY <1>0, <1>3, TopType DEF ProcessreplyEnds, At, GoodFrame
  <2>2. \A u \in Task : proc'[u].at = proc[u].at
      BY <1>0, <1>3, <2>1, StartDisposeType DEF ProcessreplyEnds
  <2>3. \A u \in Task : task'[u].obj = task[u].obj /\ (Disposing(u)' <=> Disposing(u))
    <3>1. CASE task' = task
        BY <3>1 DEF Disposing
    <3>2. CASE task' = [task EXCEPT ![Head(stack).task].flags = @ \ {"MUSTDISPOSE"}]
        BY <1>0, <2>1, <3>2 DEF TaskRecord, Disposing
    <3> QED
        BY <1>3, <3>1, <3>2 DEF ProcessreplyEnds
  <2> QED
      BY <2>2, <2>3, Unseen
<1>4. CASE Frees
  <2> DEFINE t == Head(stack).task
  <2>1. /\ t \in Task /\ t \in EndedTasks
    <3>1. stack \in Seq(SafeFrame) /\ stack # <<>>
        BY <1>4 DEF Life, Frees, At
    <3>2. Head(stack) \in SafeFrame
        BY <3>1, HeadTailProperties
    <3> QED
        BY <1>4, <3>2 DEF SafeFrame, GoodFrame, Frees, At, EndedTasks
  <2>2. /\ task'[t].obj = "freed" /\ task'[t].flags = task[t].flags
        /\ \A u \in Task \ {t} : task'[u] = task[u]
        /\ proc' = proc
      BY <1>0, <1>4, <2>1 DEF Frees, TaskRecord
  <2>3. Disposing(t) /\ Process(t) # "runs" /\ task[t].obj \in {"live", "freed"}
      BY <1>0, <2>1 DEF EndedTasks, Disposing, Process, Born, TaskRecord
  <2> HIDE DEF t
  <2> QED
      BY <2>1, <2>2, <2>3 DEF Visible, SameAt, StepAt, Process, Disposing
<1>5. CASE Deinstalltask
    BY <1>1, <1>5, DisposeVisible DEF Deinstalltask
<1>6. CASE \/ MainWaits \/ Processtask \/ ProcesstaskEnds \/ WaitformsgScans
           \/ WaitformsgBlocks \/ WaitformsgWakes \/ Procures \/ StoptaskWakes \/ WaitsAgain
           \/ \E pc \in {"drain", "redrain", "final"} : Processtaskreply(pc)
    BY <1>1, <1>6 DEF MainWaits, Processtask, ProcesstaskEnds, WaitformsgScans,
       WaitformsgBlocks, WaitformsgWakes, Procures, StoptaskWakes, WaitsAgain, Processtaskreply
<1> QED
    BY <1>2, <1>3, <1>4, <1>5, <1>6 DEF MainStep

LEMMA NextVisible ==
    ASSUME TypeInv, Life, Born, [Next]_vars
    PROVE  Visible
<1>1. CASE UNCHANGED vars \/ Quits
    BY <1>1, Unseen DEF vars, Quits, Disposing
<1> QED
    BY <1>1, SubtaskVisible, CallVisible, MainVisible DEF Next

-----------------------------------------------------------------------------
(* The refinement *)

\* A visible step keeps Born, and is a step of TaskLife.
LEMMA VisibleBorn ==
    ASSUME Born, Visible
    PROVE  Born'
BY DEF Born, Visible, SameAt, StepAt

LEMMA VisibleStep ==
    ASSUME Visible
    PROVE  [Lives!Next]_(Lives!vars)
<1> DEFINE object == [t \in Task |-> task[t].obj]
           process == [t \in Task |-> Process(t)]
           asked == {t \in Task : "DISPOSING" \in task[t].flags}
<1>1. CASE \A u \in Task : SameAt(u)
  <2>1. object' = object
      BY <1>1 DEF SameAt
  <2>2. process' = process
      BY <1>1 DEF SameAt, Process
  <2>3. asked' = asked
      BY <1>1 DEF SameAt, Disposing
  <2> QED
      BY <2>1, <2>2, <2>3 DEF Lives!vars
<1>2. ASSUME NEW t \in Task, StepAt(t), \A u \in Task \ {t} : SameAt(u)
      PROVE  Lives!Next
  <2>1. object' = [object EXCEPT ![t] = task'[t].obj]
      BY <1>2 DEF SameAt
  <2>2. process' = [process EXCEPT ![t] = Process(t)']
      BY <1>2 DEF SameAt, Process
  <2>3. asked' = IF Disposing(t)' THEN asked \cup {t} ELSE asked \ {t}
      BY <1>2 DEF SameAt, Disposing
  <2>4. /\ object[t] = task[t].obj /\ process[t] = Process(t)
        /\ t \in asked <=> Disposing(t)
      BY DEF Disposing
  <2>5. /\ task'[t].obj = task[t].obj => object' = object
        /\ Process(t)' = Process(t) => process' = process
        /\ (Disposing(t)' <=> Disposing(t)) => asked' = asked
      BY <2>1, <2>2, <2>3, <2>4
  <2>6. CASE task[t].obj = "none" /\ task'[t].obj = "live"
    <3>1. Lives!Create(t)
        BY <1>2, <2>1, <2>4, <2>5, <2>6 DEF StepAt, Lives!Create
    <3> QED
        BY <3>1 DEF Lives!Next
  <2>7. CASE Process(t) = "none" /\ Process(t)' = "runs"
    <3>1. Lives!Start(t)
        BY <1>2, <2>2, <2>4, <2>5, <2>7 DEF StepAt, Lives!Start
    <3> QED
        BY <3>1 DEF Lives!Next
  <2>8. CASE Process(t) = "runs" /\ Process(t)' = "ended"
    <3>1. Lives!End(t)
        BY <1>2, <2>2, <2>4, <2>5, <2>8 DEF StepAt, Lives!End
    <3> QED
        BY <3>1 DEF Lives!Next
  <2>9. CASE ~ Disposing(t) /\ Disposing(t)'
    <3>1. Lives!Dispose(t)
        BY <1>2, <2>3, <2>4, <2>5, <2>9 DEF StepAt, Lives!Dispose
    <3> QED
        BY <3>1 DEF Lives!Next
  <2>10. CASE task[t].obj = "live" /\ task'[t].obj = "freed"
    <3>1. Lives!Free(t)
        BY <1>2, <2>1, <2>4, <2>5, <2>10 DEF StepAt, Lives!Free
    <3> QED
        BY <3>1 DEF Lives!Next
  <2> HIDE DEF object, process, asked
  <2> QED
      BY <1>2, <2>6, <2>7, <2>8, <2>9, <2>10 DEF StepAt
<1> QED
    BY <1>1, <1>2 DEF Visible

\* However main's calls, handlers and waits nest, a task's process is started
\* once and not after the disposal, and its object is freed once, disposed of and
\* with no process left: the framework keeps what task.h promises.
THEOREM TaskImplementsLife == Spec => LifeSpec
<1>1. ASSUME Init PROVE Born /\ Lives!Init
  <2>1. \A t \in Task : /\ task[t].obj = "none" /\ Process(t) = "none"
                        /\ "DISPOSING" \notin task[t].flags
      BY <1>1 DEF Init, Process
  <2> QED
      BY <2>1 DEF Born, Disposing, Lives!Init
<1>2. TypeInv /\ Life /\ Born /\ [Next]_vars => Born' /\ [Lives!Next]_(Lives!vars)
    BY NextVisible, VisibleBorn, VisibleStep
<1> QED
    BY <1>1, <1>2, LifeInductive, TypeInvariant, PTL DEF Spec, LifeSpec, Lives!Spec
=============================================================================
