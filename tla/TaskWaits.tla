------------------------------ MODULE TaskWaits ------------------------------
(***************************************************************************)
(* What is proved of the nesting of main's activations.  The grants of     *)
(* runsema are followed whatever calls are made.  Each of the other        *)
(* theorems says which calls the update handlers must not make: with those *)
(* calls the code does break it.                                           *)
(***************************************************************************)
EXTENDS TaskProofs

\* No handler disposes of a task; nobody waits for a message, but for the
\* startup message in Starttask; no handler disposes of a task it does not
\* serve; no handler waits.
DisposesOutside == "dispose" \notin OwnCalls \cup OtherCalls
NoWaits == {"sync", "suspend"} \cap (IdleCalls \cup OwnCalls \cup OtherCalls) = {}
DisposesOwn == "dispose" \notin OtherCalls
WaitsOutside == {"sync", "suspend"} \cap (OwnCalls \cup OtherCalls) = {}

-----------------------------------------------------------------------------
(* No activation works for a freed task *)

Handlers == {f \in GoodFrame : f.op = "Processreply" /\ f.pc = "handler"}
Disposers == {f \in GoodFrame : f.op = "Dodisposetask"}

AllLive == \A t \in Task : task[t].obj # "live" => ~ HoldsIn(stack, For(t))

\* A push or a pop of an activation keeps them live.
LEMMA KeepsLive ==
    ASSUME TypeInv, NothingStray, AllLive, MainShape,
           \A t \in Task : task[t].obj = "live" => task'[t].obj = "live"
    PROVE  AllLive'
<1>1. ASSUME NEW t \in Task, task'[t].obj # "live" PROVE ~ HoldsIn(stack', For(t))
  <2>1. task[t].obj # "live" /\ ~ HoldsIn(stack, For(t)) /\ ~ HoldsIn(port, From(t))
      BY <1>1 DEF AllLive, NothingStray
  <2> QED BY <2>1, MainStack
<1> QED
    BY <1>1 DEF AllLive

\* Only freeing makes an object that was live something else.
LEMMA OnlyFreed ==
    ASSUME TypeInv, MainShape, NEW t \in Task, task[t].obj = "live", task'[t].obj # "live"
    PROVE  FreesTask /\ Top.task = t
<1>1. CASE Rests \/ LoopsIdly \/ Leaves \/ (\E i \in DOMAIN port : \E below \in Seq(GoodFrame) : Takes(i, below))
           \/ (\E pc \in {"scan", "blocked", "wait", "redrain", "final"} : GoesOn(pc)) \/ CallsNobody
           \/ (\E u \in Task : Starts(u))
           \/ \E u \in Task, m \in GoodMsg, possible \in BOOLEAN, wait \in BOOLEAN : Sends(u, m, possible, wait)
    BY <1>1 DEF Rests, LoopsIdly, Leaves, Takes, GoesOn, CallsNobody, Starts, Sends, TaskSame
<1>2. stack # <<>> /\ Top.op # "Processtask" => Top.task \in Task
    BY TopType DEF Top, GoodFrame, TypeInv
<1>3. ASSUME NEW u \in Task, NEW F, Sets(u, F) PROVE FALSE
    BY <1>3 DEF Sets
<1>4. CASE FreesTask
    BY <1>2, <1>4 DEF FreesTask, On
<1>5. CASE \E u \in Task : Creates(u)
    BY <1>5 DEF Creates
<1>6. CASE CallsHandler \/ LeavesHandler \/ DisposesLate
    BY <1>2, <1>3, <1>6 DEF CallsHandler, LeavesHandler, DisposesLate, On
<1>7. CASE \E u \in Task : Defers(u) \/ DisposesNow(u)
    BY <1>3, <1>7 DEF Defers, DisposesNow
<1> QED
    BY <1>1, <1>4, <1>5, <1>6, <1>7 DEF MainShape

\* Freeing, too, if no other activation works for the task.
LEMMA FreeingKeepsLive ==
    ASSUME TypeInv, NothingStray, AllLive, MainShape,
           FreesTask => ~ HoldsIn(Tail(stack), For(Top.task))
    PROVE  AllLive'
<1>1. CASE ~ FreesTask
    BY <1>1, KeepsLive, OnlyFreed
<1>2. CASE FreesTask
  <2>1. ASSUME NEW t \in Task, task'[t].obj # "live" PROVE ~ HoldsIn(stack', For(t))
    <3>1. stack' = Tail(stack) /\ stack # <<>>
        BY <1>2 DEF FreesTask, On
    <3>2. CASE t = Top.task
        BY <1>2, <3>1, <3>2
    <3>3. CASE t # Top.task
      <4>1. task[t].obj # "live"
          BY <1>2, <2>1, <3>3 DEF FreesTask
      <4>2. ~ HoldsIn(stack, For(t))
          BY <4>1 DEF AllLive
      <4> QED BY <3>1, <4>2, StackHolds DEF TypeInv
    <3> QED BY <3>2, <3>3
  <2> QED BY <2>1 DEF AllLive
<1> QED
    BY <1>1, <1>2

\* A subtask frees nothing and starts no activation of main.
LEMMA SubtaskLive ==
    ASSUME TypeInv, AllLive, NEW t \in Task, SubtaskStep(t)
    PROVE  AllLive'
BY SubtaskEffect DEF TypeInv, AllLive

\* Main starts without activations.
LEMMA InitLive == Init => AllLive
BY InEmpty DEF Init, AllLive

-----------------------------------------------------------------------------
(* Activations that are at the bottom of the stack *)

\* Only the last element of s may be in A.
LastOnly(s, A) == \A i \in DOMAIN s : s[i] \in A => i = Len(s)

\* It is so after a push of something else, and after a pop.
LEMMA LastPushed ==
    ASSUME NEW S, NEW s \in Seq(S), NEW e, NEW A, LastOnly(s, A), e \in A => s = <<>>
    PROVE  LastOnly(<<e>> \o s, A)
<1>1. /\ DOMAIN (<<e>> \o s) = 1 .. Len(s) + 1 /\ Len(s) \in Nat /\ Len(<<e>> \o s) = Len(s) + 1
      /\ (<<e>> \o s)[1] = e /\ DOMAIN s = 1 .. Len(s)
      /\ \A i \in DOMAIN (<<e>> \o s) \ {1} : i - 1 \in DOMAIN s /\ (<<e>> \o s)[i] = s[i - 1]
    BY Pushed
<1> DEFINE q == <<e>> \o s
<1> HIDE DEF q
<1>2. ASSUME NEW i \in DOMAIN q, q[i] \in A PROVE i = Len(q)
  <2>1. CASE i = 1
    <3>1. s = <<>>
        BY <1>1, <1>2, <2>1 DEF q
    <3>2. Len(s) = 0
        BY <3>1
    <3> QED BY <1>1, <2>1, <3>2 DEF q
  <2>2. CASE i # 1
    <3>1. i - 1 \in DOMAIN s /\ s[i - 1] \in A
        BY <1>1, <1>2, <2>2 DEF q
    <3>2. i - 1 = Len(s)
        BY <3>1 DEF LastOnly
    <3> QED BY <1>1, <1>2, <3>2 DEF q
  <2> QED BY <2>1, <2>2
<1> QED
    BY <1>2 DEF LastOnly, q

\* And after a pop; what is popped was the only element if it is in A.
LEMMA LastPopped ==
    ASSUME NEW S, NEW s \in Seq(S), s # <<>>, NEW A, LastOnly(s, A)
    PROVE  LastOnly(Tail(s), A) /\ (Head(s) \in A => Tail(s) = <<>>)
<1>1. /\ DOMAIN Tail(s) = 1 .. Len(s) - 1 /\ DOMAIN s = 1 .. Len(s)
      /\ Len(s) \in Nat \ {0} /\ Tail(s) \in Seq(S)
      /\ s[1] = Head(s) /\ 1 \in DOMAIN s
      /\ \A i \in DOMAIN Tail(s) : i + 1 \in DOMAIN s /\ Tail(s)[i] = s[i + 1]
    BY Popped
<1>2. Len(Tail(s)) = Len(s) - 1
    BY HeadTailProperties
<1> DEFINE q == Tail(s)
<1> HIDE DEF q
<1>3. ASSUME NEW i \in DOMAIN q, q[i] \in A PROVE i = Len(q)
  <2>1. i + 1 = Len(s)
      BY <1>1, <1>3 DEF LastOnly, q
  <2> QED BY <1>1, <1>2, <1>3, <2>1 DEF q
<1>4. ASSUME Head(s) \in A PROVE q = <<>>
  <2>1. 1 = Len(s)
      BY <1>1, <1>4 DEF LastOnly
  <2>2. Len(q) = 0
    <3>1. Len(q) = Len(s) - 1
        BY <1>2 DEF q
    <3>2. Len(s) - 1 = 0
        BY <2>1
    <3> QED BY <3>1, <3>2
  <2>3. q \in Seq(S)
      BY <1>1 DEF q
  <2> QED BY <2>2, <2>3, EmptySeq
<1> QED
    BY <1>3, <1>4 DEF LastOnly, q

\* Where an activation may be put on top of the others.
CallsMore ==
    stack # <<>> => Top \in Handlers \cup Disposers \/ (Top.op = "Waitformsg" /\ Top.msg # Startup)

\* What main's step does to the stack.
LEMMA StackMoves ==
    ASSUME TypeInv, MainShape
    PROVE  \/ stack' = stack
           \/ stack # <<>> /\ stack' = Tail(stack)
           \/ stack = <<>> /\ stack' = <<Loop>>
           \/ \E f \in GoodFrame :
                 /\ f.op = "Processreply" /\ f.pc = "begin"
                 /\ \/ stack' = <<f>> \o stack /\ CallsMore
                    \/ stack = <<>> /\ stack' = <<f>> \o <<Loop>>
                    \/ /\ On("Waitformsg", "scan") /\ Top.msg # Startup
                       /\ stack' = <<f>> \o Tail(stack)
           \/ \E f \in GoodFrame :
                 /\ f.op = "Waitformsg" /\ f.pc = "scan" /\ stack' = <<f>> \o stack
                 /\ CallsMore
                 /\ \/ f.msg = Startup /\ Caller("start", f.task)
                    \/ f.msg # Startup /\ (Caller("sync", f.task) \/ Caller("suspend", f.task))
           \/ \E f \in GoodFrame :
                 /\ stack # <<>> /\ stack' = <<f>> \o Tail(stack)
                 /\ f.op = Top.op /\ f.task = Top.task /\ f.msg = Top.msg
           \/ \E t \in Task : DisposesNow(t)
           \/ DisposesLate
<1>0. Typed /\ (stack # <<>> => Top \in GoodFrame)
    BY TopType DEF Top, TypeInv
<1>1. CASE Rests \/ LoopsIdly \/ Leaves \/ FreesTask \/ DisposesLate
           \/ (\E t \in Task : Creates(t) \/ Defers(t) \/ DisposesNow(t))
    BY <1>1 DEF Rests, LoopsIdly, Leaves, FreesTask, On, Creates, Defers
<1>2. ASSUME NEW i \in DOMAIN port, NEW below \in Seq(GoodFrame), Takes(i, below)
      PROVE  \E f \in GoodFrame :
                 /\ f.op = "Processreply" /\ f.pc = "begin"
                 /\ \/ stack' = <<f>> \o stack /\ CallsMore
                    \/ stack = <<>> /\ stack' = <<f>> \o <<Loop>>
                    \/ /\ On("Waitformsg", "scan") /\ Top.msg # Startup
                       /\ stack' = <<f>> \o Tail(stack)
  <2> DEFINE f == Frame("Processreply", port[i].task, port[i], "begin")
  <2>1. stack' = <<f>> \o below /\ port[i] \in GoodMsg
      BY <1>2 DEF Takes, TakeReply
  <2>2. f \in GoodFrame /\ f.op = "Processreply" /\ f.pc = "begin"
      BY <2>1 DEF Frame, GoodFrame, Frames, GoodMsg, Message
  <2>3. \/ below = stack /\ CallsMore
        \/ stack = <<>> /\ below = <<Loop>>
        \/ On("Waitformsg", "scan") /\ Top.msg # Startup /\ below = Tail(stack)
      BY <1>0, <1>2 DEF Takes, CallsMore, Disposers, On
  <2> HIDE DEF f
  <2> QED BY <2>1, <2>2, <2>3
<1>3. ASSUME NEW pc, Turns(pc), stack # <<>>,
             pc \in {"scan", "blocked", "wait", "redrain", "final", "handler", "end"}
      PROVE  \E f \in GoodFrame :
                 /\ stack # <<>> /\ stack' = <<f>> \o Tail(stack)
                 /\ f.op = Top.op /\ f.task = Top.task /\ f.msg = Top.msg
  <2>1. [Top EXCEPT !.pc = pc] \in GoodFrame
      BY <1>0, <1>3 DEF GoodFrame, Frames
  <2> QED BY <1>0, <1>3, <2>1 DEF Turns, GoodFrame, Frames
<1>4. CASE \E pc \in {"scan", "blocked", "wait", "redrain", "final"} : GoesOn(pc)
    BY <1>3, <1>4 DEF GoesOn
<1>5. CASE CallsHandler \/ CallsNobody \/ LeavesHandler
    BY <1>3, <1>5 DEF CallsHandler, CallsNobody, LeavesHandler, On
<1>6. ASSUME NEW call, NEW t, Caller(call, t) PROVE CallsMore
    BY <1>0, <1>6 DEF Caller, May, At, CallsMore, Handlers, Top
<1>8. ASSUME NEW t \in Task, Starts(t)
      PROVE  \E f \in GoodFrame :
                 /\ f.op = "Waitformsg" /\ f.pc = "scan" /\ stack' = <<f>> \o stack
                 /\ CallsMore /\ f.msg = Startup /\ Caller("start", f.task)
  <2> DEFINE f == Frame("Waitformsg", t, Startup, "scan")
  <2>1. f \in GoodFrame /\ f.op = "Waitformsg" /\ f.pc = "scan" /\ f.msg = Startup /\ f.task = t
      BY DEF Frame, GoodFrame, Frames, Startup, Msg, Message, Kinds
  <2> QED BY <1>6, <1>8, <2>1 DEF Starts, Pushes
<1>7. ASSUME NEW t \in Task, NEW m \in GoodMsg, NEW possible \in BOOLEAN, NEW wait \in BOOLEAN,
             Sends(t, m, possible, wait)
      PROVE  \/ stack' = stack
             \/ \E f \in GoodFrame :
                 f.op = "Processreply" /\ f.pc = "begin" /\ stack' = <<f>> \o stack /\ CallsMore
             \/ \E f \in GoodFrame :
                 /\ f.op = "Waitformsg" /\ f.pc = "scan" /\ stack' = <<f>> \o stack
                 /\ CallsMore /\ f.msg # Startup /\ (Caller("sync", f.task) \/ Caller("suspend", f.task))
  <2>1. CASE ~possible
    <3> DEFINE f == Frame("Processreply", t, m, "begin")
    <3>1. f \in GoodFrame /\ f.op = "Processreply" /\ f.pc = "begin"
        BY DEF Frame, GoodFrame, Frames, GoodMsg, Message
    <3>2. stack' = <<f>> \o stack /\ CallsMore
        BY <1>0, <1>7, <2>1 DEF Sends, Pushes, CallsMore, On, Handlers
    <3> QED BY <3>1, <3>2
  <2>2. CASE possible /\ wait
    <3> DEFINE f == Frame("Waitformsg", t, m, "scan")
    <3>1. f \in GoodFrame /\ f.op = "Waitformsg" /\ f.pc = "scan" /\ f.msg # Startup /\ f.task = t
        BY ConstantsAssumption DEF Frame, GoodFrame, Frames, GoodMsg, Message, Startup, Msg
    <3>2. stack' = <<f>> \o stack /\ (Caller("sync", t) \/ Caller("suspend", t)) /\ CallsMore
        BY <1>6, <1>7, <2>2 DEF Sends, Pushes
    <3> QED BY <3>1, <3>2
  <2>3. CASE possible /\ ~wait
      BY <1>7, <2>3 DEF Sends
  <2> QED BY <2>1, <2>2, <2>3
<1> QED
    BY <1>1, <1>2, <1>4, <1>5, <1>7, <1>8 DEF MainShape

\* Nothing is put off, and only the last activation disposes.
Outermost ==
    /\ \A t \in Task : "MUSTDISPOSE" \notin task[t].flags
    /\ LastOnly(stack, Disposers)

\* A disposal is put off only by Disposetask inside the handler of its task.
LEMMA FlagsMoves ==
    ASSUME TypeInv, MainShape, NEW t \in Task, "MUSTDISPOSE" \in task'[t].flags
    PROVE  "MUSTDISPOSE" \in task[t].flags \/ Defers(t)
<1>1. CASE \A u \in Task : task'[u].flags = task[u].flags
    BY <1>1
<1>2. stack # <<>> /\ Top.op # "Processtask" => Top.task \in Task
    BY TopType DEF Top, GoodFrame, TypeInv
<1>3. CASE FreesTask
    BY <1>2, <1>1, <1>3 DEF FreesTask, On
<1>4. ASSUME NEW u \in Task, NEW F, Sets(u, F), "MUSTDISPOSE" \in F => "MUSTDISPOSE" \in task[u].flags
      PROVE  "MUSTDISPOSE" \in task[t].flags
    BY <1>4 DEF Sets
<1>5. CASE CallsHandler
    BY <1>2, <1>4, <1>5 DEF CallsHandler, On
<1>6. CASE LeavesHandler
    BY <1>2, <1>4, <1>6 DEF LeavesHandler, On
<1>7. CASE DisposesLate
    BY <1>2, <1>4, <1>7 DEF DisposesLate, On
<1>8. ASSUME NEW u \in Task, DisposesNow(u) PROVE "MUSTDISPOSE" \in task[t].flags
    BY <1>4, <1>8 DEF DisposesNow
<1>9. ASSUME NEW u \in Task, Defers(u) PROVE "MUSTDISPOSE" \in task[t].flags \/ Defers(t)
    BY <1>9 DEF Defers, Sets
<1>10. ASSUME NEW u \in Task, Creates(u) PROVE "MUSTDISPOSE" \in task[t].flags
    BY <1>1, <1>10 DEF Creates
<1> QED
    BY <1>1, <1>3, <1>5, <1>6, <1>7, <1>8, <1>9, <1>10
       DEF MainShape, Rests, LoopsIdly, Leaves, Takes, GoesOn, CallsNobody, Starts, Sends, TaskSame

\* With no disposal inside a handler every Dodisposetask is outermost.
LEMMA OutermostInductive ==
    ASSUME DisposesOutside
    PROVE  /\ Init => Outermost
           /\ TypeInv /\ Life /\ UnderWay /\ Outermost /\ [Next]_vars => Outermost'
<1>1. Init => Outermost
    BY DEF Init, Outermost, LastOnly
<1>2. ASSUME TypeInv, Outermost, NEW t \in Task, SubtaskStep(t) PROVE Outermost'
    BY <1>2, SubtaskEffect DEF TypeInv, Outermost, Disposers
<1>3. ASSUME TypeInv, UnderWay, Outermost, MainShape PROVE Outermost'
  <2>0. /\ stack \in Seq(GoodFrame)
        /\ stack # <<>> => Top \in GoodFrame /\ Tail(stack) \in Seq(GoodFrame)
      BY <1>3, TopType DEF TypeInv, Typed, Top
  <2>1. \A t \in Task : Caller("dispose", t) => stack = <<>>
      BY DEF Caller, May, DisposesOutside
  <2>2. \A t \in Task : "MUSTDISPOSE" \notin task'[t].flags
    <3>1. ASSUME NEW t \in Task, Defers(t) PROVE FALSE
      <4>1. HoldsIn(stack, Handler(t)) /\ stack = <<>>
          BY <1>3, <2>1, <3>1 DEF UnderWay, Defers
      <4> QED BY <4>1, InEmpty
    <3> QED BY <1>3, <3>1, FlagsMoves DEF Outermost
  <2>3. stack # <<>> => LastOnly(Tail(stack), Disposers) /\ (Top \in Disposers => Tail(stack) = <<>>)
      BY <1>3, <2>0, LastPopped DEF Outermost, Top
  <2>4. \A f : (f \in Disposers => stack = <<>>) => LastOnly(<<f>> \o stack, Disposers)
      BY <1>3, <2>0, LastPushed DEF Outermost
  <2>5. \A f : stack # <<>> /\ (f \in Disposers => Top \in Disposers)
               => LastOnly(<<f>> \o Tail(stack), Disposers)
      BY <2>0, <2>3, LastPushed
  <2>6. LastOnly(stack', Disposers)
    <3>1. CASE stack' = stack \/ (stack # <<>> /\ stack' = Tail(stack))
        BY <1>3, <2>3, <3>1 DEF Outermost
    <3>2. CASE stack = <<>> /\ (stack' = <<Loop>> \/ \E f : f \notin Disposers /\ stack' = <<f>> \o <<Loop>>)
      <4>1. Loop \notin Disposers /\ LastOnly(<<Loop>>, Disposers)
          BY DEF Loop, Frame, Disposers, LastOnly
      <4>2. <<Loop>> \in Seq({Loop})
          OBVIOUS
      <4> QED BY <3>2, <4>1, <4>2, LastPushed
    <3>3. CASE \E f : f \notin Disposers /\ (stack' = <<f>> \o stack \/ (stack # <<>> /\ stack' = <<f>> \o Tail(stack)))
        BY <2>4, <2>5, <3>3
    <3>4. CASE \E f : stack # <<>> /\ f.op = Top.op /\ stack' = <<f>> \o Tail(stack)
        BY <2>0, <2>5, <3>4 DEF Disposers
    <3>5. CASE \E t \in Task : DisposesNow(t)
        BY <2>1, <2>4, <3>5 DEF DisposesNow, Pushes
    <3>6. CASE DisposesLate
      <4>1. Top.task \in Task /\ "MUSTDISPOSE" \in task[Top.task].flags
          BY <2>0, <3>6 DEF DisposesLate, On, MustDispose, GoodFrame
      <4> QED BY <1>3, <4>1 DEF Outermost
    <3> QED BY <1>3, <3>1, <3>2, <3>3, <3>4, <3>5, <3>6, StackMoves DEF Disposers, On
  <2> QED BY <2>2, <2>6 DEF Outermost, Disposers
<1> QED
    BY <1>1, <1>2, <1>3, StepShape

\* An outermost Dodisposetask frees a task that nothing else works for.
LEMMA LiveOutside ==
    ASSUME TypeInv, NothingStray, AllLive, Outermost, MainShape
    PROVE  AllLive'
<1>1. ASSUME FreesTask PROVE ~ HoldsIn(Tail(stack), For(Top.task))
  <2>1. stack # <<>> /\ Top \in Disposers /\ stack \in Seq(GoodFrame)
      BY <1>1, TopType DEF FreesTask, On, Disposers, TypeInv, Typed, Top
  <2>2. Tail(stack) = <<>>
      BY <2>1, LastPopped DEF Outermost, Top
  <2> QED BY <2>2, InEmpty
<1> QED
    BY <1>1, FreeingKeepsLive

-----------------------------------------------------------------------------
(* How activations nest when handlers dispose and nobody waits *)

\* Whatever is below an element of A is not in B.
Over(s, A, B) == \A i, j \in DOMAIN s : i < j /\ s[i] \in A => s[j] \notin B

\* It is so after a push of something that does not stand over an element of B,
LEMMA OverPushed ==
    ASSUME NEW S, NEW s \in Seq(S), NEW e, NEW A, NEW B,
           Over(s, A, B), e \in A => ~ HoldsIn(s, B)
    PROVE  Over(<<e>> \o s, A, B)
<1>1. /\ DOMAIN (<<e>> \o s) = 1 .. Len(s) + 1 /\ DOMAIN s = 1 .. Len(s) /\ Len(s) \in Nat
      /\ (<<e>> \o s)[1] = e
      /\ \A i \in DOMAIN (<<e>> \o s) \ {1} : i - 1 \in DOMAIN s /\ (<<e>> \o s)[i] = s[i - 1]
    BY Pushed
<1> DEFINE q == <<e>> \o s
<1> HIDE DEF q
<1>2. ASSUME NEW i \in DOMAIN q, NEW j \in DOMAIN q, i < j, q[i] \in A PROVE q[j] \notin B
  <2>1. j # 1 /\ j - 1 \in DOMAIN s /\ q[j] = s[j - 1]
      BY <1>1, <1>2 DEF q
  <2>2. CASE i = 1
      BY <1>1, <1>2, <2>1, <2>2 DEF HoldsIn, q
  <2>3. CASE i # 1
    <3>1. i - 1 \in DOMAIN s /\ s[i - 1] \in A /\ i - 1 < j - 1
        BY <1>1, <1>2, <2>3 DEF q
    <3> QED BY <2>1, <3>1 DEF Over
  <2> QED BY <2>2, <2>3
<1> QED
    BY <1>2 DEF Over, q

\* and after a pop; what was popped did not stand over one either.
LEMMA OverPopped ==
    ASSUME NEW S, NEW s \in Seq(S), s # <<>>, NEW A, NEW B, Over(s, A, B)
    PROVE  Over(Tail(s), A, B) /\ (Head(s) \in A => ~ HoldsIn(Tail(s), B))
<1>1. /\ DOMAIN Tail(s) = 1 .. Len(s) - 1 /\ DOMAIN s = 1 .. Len(s) /\ Len(s) \in Nat
      /\ s[1] = Head(s) /\ 1 \in DOMAIN s
      /\ \A i \in DOMAIN Tail(s) : i + 1 \in DOMAIN s /\ Tail(s)[i] = s[i + 1]
    BY Popped
<1> DEFINE q == Tail(s)
<1> HIDE DEF q
<1>2. ASSUME NEW i \in DOMAIN q, NEW j \in DOMAIN q, i < j, q[i] \in A PROVE q[j] \notin B
  <2>1. i + 1 \in DOMAIN s /\ j + 1 \in DOMAIN s /\ i + 1 < j + 1 /\ s[i + 1] \in A /\ q[j] = s[j + 1]
      BY <1>1, <1>2 DEF q
  <2> QED BY <2>1 DEF Over
<1>3. ASSUME Head(s) \in A, NEW j \in DOMAIN q PROVE q[j] \notin B
  <2>1. j + 1 \in DOMAIN s /\ 1 < j + 1 /\ q[j] = s[j + 1]
      BY <1>1, <1>3 DEF q
  <2> QED BY <1>1, <1>3, <2>1 DEF Over
<1> QED
    BY <1>2, <1>3 DEF Over, HoldsIn, q

\* The innermost activation after a push.
LEMMA TopOfPush ==
    ASSUME NEW S, NEW s \in Seq(S), NEW e
    PROVE  <<e>> \o s # <<>> /\ Tail(<<e>> \o s) = s /\ Head(<<e>> \o s) = e
<1> DEFINE T == S \cup {e}
<1>1. s \in Seq(T) /\ e \in T
    BY SeqMonotonic
<1> HIDE DEF T
<1>2. <<e>> \o s \in Seq(T) /\ <<e>> \o s # <<>> /\ Head(<<e>> \o s) = e
    BY <1>1, PushType
<1>3. /\ DOMAIN (<<e>> \o s) = 1 .. Len(s) + 1 /\ Len(s) \in Nat /\ Len(<<e>> \o s) = Len(s) + 1
      /\ \A i \in DOMAIN s : i + 1 \in DOMAIN (<<e>> \o s) /\ (<<e>> \o s)[i + 1] = s[i]
      /\ DOMAIN s = 1 .. Len(s)
    BY Pushed
<1> DEFINE q == <<e>> \o s
<1> HIDE DEF q
<1>4. /\ Tail(q) \in Seq(T) /\ Len(Tail(q)) = Len(q) - 1
      /\ \A i \in 1 .. Len(Tail(q)) : Tail(q)[i] = q[i + 1]
    BY <1>2, HeadTailProperties DEF q
<1>5. Len(Tail(q)) = Len(s)
    BY <1>3, <1>4 DEF q
<1>6. \A i \in 1 .. Len(s) : Tail(q)[i] = s[i]
    BY <1>3, <1>4, <1>5 DEF q
<1>7. Tail(q) = s
    BY <1>1, <1>4, <1>5, <1>6, SeqEqual
<1> QED BY <1>2, <1>7 DEF q

\* A sequence is its head and its tail.
LEMMA PushedBack ==
    ASSUME NEW S, NEW s \in Seq(S), s # <<>>
    PROVE  s = <<Head(s)>> \o Tail(s)
<1>1. /\ Len(s) \in Nat \ {0} /\ s[1] = Head(s) /\ Len(Tail(s)) = Len(s) - 1
      /\ \A i \in DOMAIN s \ {1} : i - 1 \in DOMAIN Tail(s) /\ s[i] = Tail(s)[i - 1]
      /\ DOMAIN s = 1 .. Len(s) /\ Head(s) \in S /\ Tail(s) \in Seq(S)
    BY Popped, HeadTailProperties
<1> DEFINE q == <<Head(s)>> \o Tail(s)
<1>2. /\ DOMAIN q = 1 .. Len(Tail(s)) + 1 /\ Len(q) = Len(Tail(s)) + 1 /\ q[1] = Head(s)
      /\ \A i \in DOMAIN q \ {1} : q[i] = Tail(s)[i - 1]
    BY <1>1, Pushed
<1>3. q \in Seq(S)
    BY <1>1, PushType
<1> HIDE DEF q
<1>4. Len(q) = Len(s)
    BY <1>1, <1>2
<1>5. \A i \in 1 .. Len(s) : q[i] = s[i]
    BY <1>1, <1>2, <1>4
<1>6. q = s
    BY <1>3, <1>4, <1>5, SeqEqual
<1> QED BY <1>6 DEF q

\* Below the innermost activation main is in a handler or disposes, and it
\* waits only for startup messages.
Settled == {Loop} \cup Handlers \cup Disposers
Placed ==
    /\ stack # <<>> => Tail(stack) \in Seq(Settled)
    /\ stack \in Seq({f \in GoodFrame : f.op = "Waitformsg" => f.msg = Startup})

\* Without a sync message main waits in Starttask only, and on top.
LEMMA PlacedInductive ==
    ASSUME NoWaits
    PROVE  /\ Init => Placed
           /\ TypeInv /\ Placed /\ [Next]_vars => Placed'
<1> DEFINE Waiter == {f \in GoodFrame : f.op = "Waitformsg" => f.msg = Startup}
<1>0. /\ \A S : <<>> \in Seq(S)
      /\ \A S : \A e \in S : <<e>> \in Seq(S)
      /\ \A e, S : Tail(<<e>>) = <<>> /\ \A s \in Seq(S) : <<e>> \o s # <<>> /\ Tail(<<e>> \o s) = s
    BY TopOfPush
<1>1. Init => Placed
    BY <1>0 DEF Init, Placed
<1>2. ASSUME TypeInv, Placed, NEW t \in Task, SubtaskStep(t) PROVE Placed'
    BY <1>2, SubtaskEffect DEF TypeInv, Placed, Settled, Handlers, Disposers
<1>3. ASSUME TypeInv, Placed, MainShape PROVE Placed'
  <2>1. /\ stack \in Seq(Waiter)
        /\ stack # <<>> => Top \in Waiter /\ Tail(stack) \in Seq(Waiter) /\ Tail(stack) \in Seq(Settled)
      BY <1>3, HeadTailProperties DEF Placed, Top
  <2>2. ASSUME CallsMore PROVE stack \in Seq(Settled)
    <3>1. CASE stack = <<>>
        BY <1>0, <3>1
    <3>2. CASE stack # <<>>
      <4>1. Top \in Settled
          BY <2>1, <2>2, <3>2 DEF CallsMore, Settled
      <4>2. stack = <<Top>> \o Tail(stack)
          BY <2>1, <3>2, PushedBack DEF Top
      <4>3. <<Top>> \o Tail(stack) \in Seq(Settled)
          BY <2>1, <3>2, <4>1, PushType
      <4> QED BY <4>2, <4>3
    <3> QED BY <3>1, <3>2
  <2>3. ASSUME NEW f \in Waiter, NEW s \in Seq(Waiter), s \in Seq(Settled), stack' = <<f>> \o s PROVE Placed'
    <3>1. Tail(stack') = s /\ stack' \in Seq(Waiter)
        BY <1>0, <2>3, PushType
    <3> QED BY <2>3, <3>1 DEF Placed, Settled, Handlers, Disposers
  <2>4. Loop \in Waiter
      BY DEF Loop, Frame, GoodFrame, Frames, NoMsg, Msg, Message, Kinds
  <2>5. CASE stack' = stack
      BY <1>3, <2>5 DEF Placed, Settled, Handlers, Disposers
  <2>6. CASE stack # <<>> /\ stack' = Tail(stack)
    <3>1. stack' # <<>> => Tail(stack') \in Seq(Settled)
        BY <2>1, <2>6, HeadTailProperties
    <3> QED BY <2>1, <2>6, <3>1 DEF Placed, Settled, Handlers, Disposers
  <2>7. CASE stack = <<>> /\ stack' = <<Loop>>
    <3>1. Tail(stack') = <<>> /\ stack' \in Seq(Waiter)
        BY <1>0, <2>4, <2>7
    <3> QED BY <1>0, <3>1 DEF Placed, Settled, Handlers, Disposers
  <2>8. ASSUME NEW f \in GoodFrame, f.op = "Processreply",
               \/ stack' = <<f>> \o stack /\ CallsMore
               \/ stack = <<>> /\ stack' = <<f>> \o <<Loop>>
        PROVE Placed'
    <3>1. f \in Waiter
        BY <2>8
    <3>2. <<Loop>> \in Seq(Waiter) /\ <<Loop>> \in Seq(Settled)
        BY <1>0, <2>4 DEF Settled
    <3> QED BY <2>1, <2>2, <2>3, <2>8, <3>1, <3>2
  <2>9. ~ (On("Waitformsg", "scan") /\ Top.msg # Startup)
      BY <2>1 DEF On
  <2>10. ASSUME NEW f \in GoodFrame, f.op = "Waitformsg", f.msg = Startup, CallsMore,
                stack' = <<f>> \o stack
         PROVE Placed'
      BY <2>1, <2>2, <2>3, <2>10
  <2>11. \A f : ~ (Caller("sync", f) \/ Caller("suspend", f))
      BY DEF NoWaits, Caller, May
  <2>12. ASSUME NEW f \in GoodFrame, stack # <<>>, stack' = <<f>> \o Tail(stack),
                f.op = Top.op, f.msg = Top.msg
         PROVE Placed'
      BY <2>1, <2>3, <2>12
  <2>13. \A t \in Task : Frame("Dodisposetask", t, NoMsg, "drain") \in Waiter
      BY DEF Frame, GoodFrame, Frames, NoMsg, Msg, Message, Kinds
  <2>14. ASSUME NEW t \in Task, DisposesNow(t) PROVE Placed'
    <3>1. CallsMore
        BY <2>1, <2>14 DEF DisposesNow, Caller, May, At, CallsMore, Handlers, Top
    <3> QED BY <2>1, <2>2, <2>3, <2>13, <2>14, <3>1 DEF DisposesNow, Pushes
  <2>15. CASE DisposesLate
    <3>1. Top.task \in Task
        BY <2>1, <2>15 DEF DisposesLate, On, GoodFrame
    <3> QED BY <2>1, <2>3, <2>13, <2>15, <3>1 DEF DisposesLate, On
  <2> HIDE DEF Waiter
  <2> QED BY <1>3, <2>5, <2>6, <2>7, <2>8, <2>9, <2>10, <2>11, <2>12, <2>14, <2>15, StackMoves
<1> QED
    BY <1>1, <1>2, <1>3, StepShape

\* Processreply is about to call the handler of t, or to look at MUSTDISPOSE.
Answering(t) ==
    /\ stack # <<>> /\ Top.op = "Processreply" /\ Top.task = t /\ Top.pc \in {"begin", "end"}
    /\ Top.msg.kind = "update" \/ "MUSTDISPOSE" \in task[t].flags

\* Nothing works for a task below its Dodisposetask; a handler is not entered
\* twice, and its task is PROCESSING; a disposal that is put off is not under
\* way.
Nested(t) ==
    /\ Over(stack, Disposer(t), For(t))
    /\ OnceIn(stack, Handler(t))
    /\ HoldsIn(stack, Handler(t)) => "PROCESSING" \in task[t].flags
    /\ "MUSTDISPOSE" \in task[t].flags => ~ HoldsIn(stack, Disposer(t))
    /\ Answering(t) => ~ HoldsIn(Tail(stack), Handler(t))
AllNested == \A t \in Task : Nested(t)

\* A disposed task has its mark.
LEMMA DisposersMark ==
    ASSUME TypeInv, Life, NEW t \in Task, HoldsIn(stack, Disposer(t))
    PROVE  "DISPOSING" \in task[t].flags
<1>1. PICK i \in DOMAIN stack : stack[i] \in Disposer(t)
    BY DEF HoldsIn
<1>2. stack[i] \in SafeFrame
    BY DEF Life
<1> QED
    BY <1>1, <1>2 DEF SafeFrame, Disposer

\* Main's steps keep the activations nested so.
LEMMA NestedMain ==
    ASSUME TypeInv, Life, NothingStray, Placed, AllNested, MainShape, NoWaits
    PROVE  AllNested'
<1>0. /\ Typed /\ stack \in Seq(GoodFrame)
      /\ stack # <<>> => Top \in GoodFrame /\ Tail(stack) \in Seq(GoodFrame) /\ Tail(stack) \in Seq(Settled)
      /\ On("Waitformsg", "scan") => Top.msg = Startup
    BY TopType DEF TypeInv, Typed, Top, Placed, On
<1>1. \A t \in Task : Nested(t)
    BY DEF AllNested
<1> DEFINE H(t) == HoldsIn(stack, Handler(t))
           D(t) == HoldsIn(stack, Disposer(t))
           h(t) == HoldsIn(Tail(stack), Handler(t))
           d(t) == HoldsIn(Tail(stack), Disposer(t))
           Marks(t) == /\ HoldsIn(stack', Handler(t)) => "PROCESSING" \in task'[t].flags
                       /\ "MUSTDISPOSE" \in task'[t].flags => ~ HoldsIn(stack', Disposer(t))
                       /\ Answering(t)' => ~ HoldsIn(Tail(stack'), Handler(t))
\* The stack, its parts for t; a push and a pop.
<1>2. ASSUME NEW t \in Task, NEW f, Pushes(f), f \in Disposer(t) => ~ HoldsIn(stack, For(t)),
             f \in Handler(t) => ~ H(t)
      PROVE  /\ Over(stack', Disposer(t), For(t)) /\ OnceIn(stack', Handler(t))
             /\ HoldsIn(stack', Handler(t)) <=> f \in Handler(t) \/ H(t)
             /\ HoldsIn(stack', Disposer(t)) <=> f \in Disposer(t) \/ D(t)
    BY <1>0, <1>1, <1>2, StackHolds, OverPushed DEF Nested, Pushes
<1>3. ASSUME NEW t \in Task, stack # <<>>
      PROVE  /\ Over(Tail(stack), Disposer(t), For(t)) /\ OnceIn(Tail(stack), Handler(t))
             /\ Top \in Disposer(t) => ~ HoldsIn(Tail(stack), For(t))
             /\ Top \in Handler(t) => ~ h(t)
             /\ H(t) <=> Top \in Handler(t) \/ h(t)
             /\ D(t) <=> Top \in Disposer(t) \/ d(t)
    BY <1>0, <1>1, <1>3, StackHolds, OverPopped DEF Nested, Top
<1>4. ASSUME NEW t \in Task, stack # <<>>, NEW f, stack' = <<f>> \o Tail(stack),
             f \in Disposer(t) => ~ HoldsIn(Tail(stack), For(t)), f \in Handler(t) => ~ h(t)
      PROVE  /\ Over(stack', Disposer(t), For(t)) /\ OnceIn(stack', Handler(t))
             /\ HoldsIn(stack', Handler(t)) <=> f \in Handler(t) \/ h(t)
             /\ HoldsIn(stack', Disposer(t)) <=> f \in Disposer(t) \/ d(t)
    BY <1>0, <1>3, <1>4, StackHolds, OverPushed
<1>5. \A f : /\ Head(<<f>> \o stack) = f /\ Tail(<<f>> \o stack) = stack /\ <<f>> \o stack # <<>>
             /\ stack # <<>> => /\ Head(<<f>> \o Tail(stack)) = f /\ <<f>> \o Tail(stack) # <<>>
                                /\ Tail(<<f>> \o Tail(stack)) = Tail(stack)
    BY <1>0, TopOfPush
<1>6. ASSUME NEW t \in Task
      PROVE  /\ \A f : f \in Handler(t) \/ f \in Disposer(t) => f \in For(t)
             /\ \A f \in Settled : f \in For(t) => f \in Handler(t) \/ f \in Disposer(t)
  <2>1. Loop.task # t
      BY ConstantsAssumption DEF Loop, Frame
  <2> QED BY <2>1 DEF Handler, Disposer, For, Settled, Handlers, Disposers
<1>7. ASSUME NEW t \in Task
      PROVE  Nested(t)' <=>
               /\ Over(stack', Disposer(t), For(t))
               /\ OnceIn(stack', Handler(t))
               /\ HoldsIn(stack', Handler(t)) => "PROCESSING" \in task'[t].flags
               /\ "MUSTDISPOSE" \in task'[t].flags => ~ HoldsIn(stack', Disposer(t))
               /\ (/\ stack' # <<>> /\ Head(stack').op = "Processreply" /\ Head(stack').task = t
                   /\ Head(stack').pc \in {"begin", "end"}
                   /\ Head(stack').msg.kind = "update" \/ "MUSTDISPOSE" \in task'[t].flags)
                    => ~ HoldsIn(Tail(stack'), Handler(t))
    BY DEF Nested, Answering, Top, Handler, Disposer, For
<1>8. ASSUME NEW t \in Task
      PROVE  /\ H(t) => "PROCESSING" \in task[t].flags
             /\ "MUSTDISPOSE" \in task[t].flags => ~ D(t)
             /\ Answering(t) => ~ h(t)
             /\ OnceIn(stack, Handler(t)) /\ Over(stack, Disposer(t), For(t))
             /\ D(t) => "DISPOSING" \in task[t].flags
    BY <1>1, DisposersMark DEF Nested
<1> HIDE DEF H, D, h, d
\* The stack and the marks of t stay.
<1>9. ASSUME NEW t \in Task, stack' = stack, task'[t].flags = task[t].flags PROVE Nested(t)'
    BY <1>1, <1>7, <1>9 DEF Nested, Answering, Top
<1>10. ASSUME NEW t \in Task, stack # <<>>, stack' = Tail(stack), task'[t].flags = task[t].flags
       PROVE  Nested(t)'
  <2>1. stack' # <<>> => Head(stack') \in Settled
      BY <1>0, <1>10, HeadTailProperties
  <2>2. stack' # <<>> => ~ (Head(stack').op = "Processreply" /\ Head(stack').pc \in {"begin", "end"})
      BY <2>1 DEF Settled, Loop, Frame, Handlers, Disposers
  <2> QED BY <1>3, <1>7, <1>8, <1>10, <2>2 DEF h, d
<1>11. ASSUME NEW t \in Task, NEW f, Pushes(f), task'[t].flags = task[t].flags,
              f \notin Disposer(t), f \notin Handler(t),
              f.op = "Processreply" /\ f.task = t /\ H(t) =>
                  f.msg.kind # "update" /\ "MUSTDISPOSE" \notin task[t].flags
       PROVE  Nested(t)'
  <2>1. /\ Over(stack', Disposer(t), For(t)) /\ OnceIn(stack', Handler(t))
        /\ HoldsIn(stack', Handler(t)) <=> H(t)
        /\ HoldsIn(stack', Disposer(t)) <=> D(t)
      BY <1>2, <1>11
  <2>2. stack' # <<>> /\ Head(stack') = f /\ Tail(stack') = stack
      BY <1>5, <1>11 DEF Pushes
  <2>3. HoldsIn(Tail(stack'), Handler(t)) <=> H(t)
      BY <2>2 DEF H
  <2> QED BY <1>7, <1>8, <1>11, <2>1, <2>2, <2>3
\* Another activation, or another pc, takes the place of the innermost one.
<1>12. ASSUME NEW t \in Task, NEW f, stack # <<>>, stack' = <<f>> \o Tail(stack),
              task'[t].flags = task[t].flags,
              f \in Disposer(t) => Top \in Disposer(t), f \in Handler(t) => Top \in Handler(t),
              \/ ~ (f.op = "Processreply" /\ f.task = t /\ f.pc \in {"begin", "end"})
              \/ f.msg = Top.msg /\ f.task = Top.task /\ f.op = Top.op /\ Top.pc = "begin"
       PROVE  Nested(t)'
  <2>1. /\ Over(stack', Disposer(t), For(t)) /\ OnceIn(stack', Handler(t))
        /\ HoldsIn(stack', Handler(t)) => H(t)
        /\ HoldsIn(stack', Disposer(t)) => D(t)
      BY <1>3, <1>4, <1>12
  <2>2. stack' # <<>> /\ Head(stack') = f /\ Tail(stack') = Tail(stack)
      BY <1>5, <1>12
  <2>3. HoldsIn(Tail(stack'), Handler(t)) <=> h(t)
      BY <2>2 DEF h
  <2> QED BY <1>7, <1>8, <1>12, <2>1, <2>2, <2>3 DEF Answering
<1>13. CASE Rests \/ \E u \in Task : Creates(u)
  <2>1. \A t \in Task : stack' = stack /\ task'[t].flags = task[t].flags
      BY <1>13 DEF Rests, Creates, TaskSame
  <2> QED BY <1>9, <2>1 DEF AllNested
<1>14. CASE LoopsIdly
  <2>1. ASSUME NEW t \in Task PROVE Nested(t)'
    <3>1. stack' = <<Loop>> /\ stack = <<>> /\ task'[t].flags = task[t].flags
        BY <1>14 DEF LoopsIdly, TaskSame
    <3>2. <<Loop>> = <<Loop>> \o stack
        BY <3>1
    <3>3. Loop.op = "Processtask" /\ Loop \notin Disposer(t) /\ Loop \notin Handler(t)
        BY DEF Loop, Frame, Disposer, Handler
    <3> QED BY <1>11, <3>1, <3>2, <3>3 DEF Pushes
  <2> QED BY <2>1 DEF AllNested
<1>15. CASE Leaves \/ FreesTask
  <2>1. /\ stack # <<>> /\ stack' = Tail(stack) /\ \A t \in Task : task'[t].flags = task[t].flags
      BY <1>0, <1>15 DEF Leaves, FreesTask, On, TaskSame
  <2> QED BY <1>10, <2>1 DEF AllNested
<1>16. ASSUME NEW i \in DOMAIN port, NEW below \in Seq(GoodFrame), Takes(i, below), NEW t \in Task
       PROVE  Nested(t)'
  <2> DEFINE f == Frame("Processreply", port[i].task, port[i], "begin")
  <2>1. stack' = <<f>> \o below /\ task'[t].flags = task[t].flags
      BY <1>16 DEF Takes, TakeReply, TaskSame
  <2>2. /\ f.op = "Processreply" /\ f.task = port[i].task /\ f.pc = "begin" /\ f.msg = port[i]
        /\ f \notin Disposer(t) /\ f \notin Handler(t)
      BY DEF Frame, Disposer, Handler
  <2> HIDE DEF f
  <2>3. CASE stack = <<>> /\ below = <<Loop>>
    <3>1. /\ Over(<<Loop>>, Disposer(t), For(t)) /\ OnceIn(<<Loop>>, Handler(t))
          /\ ~ HoldsIn(<<Loop>>, Handler(t)) /\ ~ HoldsIn(<<Loop>>, Disposer(t))
        BY DEF Over, OnceIn, HoldsIn, Loop, Frame, Disposer, Handler
    <3>2. /\ Over(stack', Disposer(t), For(t)) /\ OnceIn(stack', Handler(t))
          /\ ~ HoldsIn(stack', Handler(t)) /\ ~ HoldsIn(stack', Disposer(t))
        BY <1>16, <2>1, <2>2, <2>3, <3>1, OverPushed, InPushed
    <3>3. Tail(stack') = <<Loop>>
        BY <1>16, <2>1, <2>3, TopOfPush
    <3> QED BY <1>7, <3>1, <3>2, <3>3
  <2>4. CASE /\ stack # <<>> /\ Top.op = "Dodisposetask"
             /\ below = stack /\ port[i].task = Top.task
    <3>1. Pushes(f)
        BY <2>1, <2>4 DEF Pushes
    <3>2. f.task = t => ~ H(t)
      <4>1. ASSUME f.task = t PROVE Top \in Disposer(t) /\ Top \notin Handler(t)
          BY <1>0, <2>2, <2>4, <4>1 DEF Disposer, Handler
      <4>2. ~ HoldsIn(Tail(stack), For(t)) => ~ h(t)
          BY <1>6 DEF h, HoldsIn
      <4> QED BY <1>3, <2>4, <4>1, <4>2
    <3> QED BY <1>11, <2>1, <2>2, <3>1, <3>2
  <2> QED BY <1>0, <1>16, <2>3, <2>4 DEF Takes
<1>17. ASSUME NEW pc \in {"scan", "blocked", "wait", "redrain", "final"}, GoesOn(pc), NEW t \in Task
       PROVE  Nested(t)'
  <2> DEFINE f == [Top EXCEPT !.pc = pc]
  <2>1. /\ stack # <<>> /\ stack' = <<f>> \o Tail(stack) /\ task'[t].flags = task[t].flags
        /\ Top.op # "Processreply"
      BY <1>17 DEF GoesOn, Turns, TaskSame
  <2>2. /\ f.op = Top.op /\ f.task = Top.task /\ f \notin Handler(t)
        /\ f \in Disposer(t) => Top \in Disposer(t)
      BY <1>0, <2>1 DEF GoodFrame, Frames, Handler, Disposer
  <2> HIDE DEF f
  <2> QED BY <1>12, <2>1, <2>2
<1>18. ASSUME CallsHandler, NEW t \in Task PROVE Nested(t)'
  <2> DEFINE f == [Top EXCEPT !.pc = "handler"]
  <2>1. /\ stack # <<>> /\ stack' = <<f>> \o Tail(stack) /\ Top.op = "Processreply"
        /\ Top.pc = "begin" /\ Top.msg.kind = "update"
        /\ Sets(Top.task, task[Top.task].flags \cup {"PROCESSING"})
      BY <1>18 DEF CallsHandler, On, Turns
  <2>2. /\ f.op = Top.op /\ f.task = Top.task /\ f.pc = "handler"
        /\ f \notin Disposer(t) /\ (f \in Handler(t) => Top.task = t)
      BY <1>0, <2>1 DEF GoodFrame, Frames, Handler, Disposer
  <2> HIDE DEF f
  <2>3. CASE Top.task = t
    <3>1. Answering(t)
        BY <2>1, <2>3 DEF Answering
    <3>2. task'[t].flags = task[t].flags \cup {"PROCESSING"}
        BY <2>1, <2>3 DEF Sets
    <3>3. /\ Over(stack', Disposer(t), For(t)) /\ OnceIn(stack', Handler(t))
          /\ HoldsIn(stack', Disposer(t)) => D(t)
        BY <1>3, <1>4, <1>8, <2>1, <2>2, <3>1
    <3>4. Head(stack') = f
        BY <1>5, <2>1
    <3> QED BY <1>7, <1>8, <2>2, <3>2, <3>3, <3>4
  <2>4. CASE Top.task # t
    <3>1. task'[t].flags = task[t].flags
        BY <1>0, <2>1, <2>4 DEF Sets
    <3> QED BY <1>12, <2>1, <2>2, <2>4, <3>1
  <2> QED BY <2>3, <2>4
<1>19. ASSUME CallsNobody, NEW t \in Task PROVE Nested(t)'
  <2> DEFINE f == [Top EXCEPT !.pc = "end"]
  <2>1. /\ stack # <<>> /\ stack' = <<f>> \o Tail(stack) /\ task'[t].flags = task[t].flags
        /\ Top.pc = "begin" /\ Top.op = "Processreply"
      BY <1>19 DEF CallsNobody, On, Turns, TaskSame
  <2>2. /\ f.op = Top.op /\ f.task = Top.task /\ f.msg = Top.msg
        /\ f \notin Disposer(t) /\ f \notin Handler(t)
      BY <1>0, <2>1 DEF GoodFrame, Frames, Handler, Disposer
  <2> HIDE DEF f
  <2> QED BY <1>12, <2>1, <2>2
<1>20. ASSUME LeavesHandler, NEW t \in Task PROVE Nested(t)'
  <2> DEFINE f == [Top EXCEPT !.pc = "end"]
  <2>1. /\ stack # <<>> /\ stack' = <<f>> \o Tail(stack) /\ Top.op = "Processreply" /\ Top.pc = "handler"
        /\ Sets(Top.task, task[Top.task].flags \ {"PROCESSING"})
      BY <1>20 DEF LeavesHandler, On, Turns
  <2>2. f.op = Top.op /\ f.task = Top.task /\ f \notin Disposer(t) /\ f \notin Handler(t)
      BY <1>0, <2>1 DEF GoodFrame, Frames, Handler, Disposer
  <2> HIDE DEF f
  <2>3. CASE Top.task = t
    <3>1. Top \in Handler(t) /\ ~ h(t)
        BY <1>0, <1>3, <2>1, <2>3 DEF Handler
    <3>2. task'[t].flags = task[t].flags \ {"PROCESSING"}
        BY <2>1, <2>3 DEF Sets
    <3>3. /\ Over(stack', Disposer(t), For(t)) /\ OnceIn(stack', Handler(t))
          /\ ~ HoldsIn(stack', Handler(t))
        BY <1>3, <1>4, <2>1, <2>2, <3>1
    <3>4. Tail(stack') = Tail(stack)
        BY <1>5, <2>1
    <3>5. HoldsIn(stack', Disposer(t)) => D(t)
        BY <1>3, <1>4, <2>1, <2>2
    <3> QED BY <1>7, <1>8, <3>1, <3>2, <3>3, <3>4, <3>5 DEF h
  <2>4. CASE Top.task # t
    <3>1. task'[t].flags = task[t].flags
        BY <1>0, <2>1, <2>4 DEF Sets
    <3> QED BY <1>12, <2>1, <2>2, <2>4, <3>1
  <2> QED BY <2>3, <2>4
<1>21. ASSUME DisposesLate, NEW t \in Task PROVE Nested(t)'
  <2> DEFINE f == Frame("Dodisposetask", Top.task, NoMsg, "drain")
  <2>1. /\ stack # <<>> /\ stack' = <<f>> \o Tail(stack) /\ Top.op = "Processreply" /\ Top.pc = "end"
        /\ Sets(Top.task, task[Top.task].flags \ {"MUSTDISPOSE"})
        /\ "MUSTDISPOSE" \in task[Top.task].flags
      BY <1>21 DEF DisposesLate, On, MustDispose
  <2>2. /\ f.op = "Dodisposetask" /\ f.task = Top.task
        /\ f \notin Handler(t) /\ (f \in Disposer(t) => Top.task = t)
      BY DEF Frame, Handler, Disposer
  <2> HIDE DEF f
  <2>3. CASE Top.task = t
    <3>1. Answering(t)
        BY <2>1, <2>3 DEF Answering
    <3>2. ~ h(t) /\ ~ d(t)
        BY <1>3, <1>8, <2>1, <2>3, <3>1
    <3>3. ~ HoldsIn(Tail(stack), For(t))
        BY <1>0, <1>6, <2>1, <3>2 DEF HoldsIn, h, d
    <3>4. task'[t].flags = task[t].flags \ {"MUSTDISPOSE"}
        BY <2>1, <2>3 DEF Sets
    <3>5. /\ Over(stack', Disposer(t), For(t)) /\ OnceIn(stack', Handler(t))
          /\ ~ HoldsIn(stack', Handler(t))
        BY <1>4, <2>1, <2>2, <3>2, <3>3
    <3>6. Tail(stack') = Tail(stack)
        BY <1>5, <2>1
    <3> QED BY <1>7, <3>2, <3>4, <3>5, <3>6 DEF h
  <2>4. CASE Top.task # t
    <3>1. task'[t].flags = task[t].flags
        BY <1>0, <2>1, <2>4 DEF Sets
    <3> QED BY <1>12, <2>1, <2>2, <2>4, <3>1
  <2> QED BY <2>3, <2>4
<1>22. ASSUME NEW u \in Task, Starts(u), NEW t \in Task PROVE Nested(t)'
  <2>1. task'[t].flags = task[t].flags /\ Pushes(Frame("Waitformsg", u, Startup, "scan"))
      BY <1>22 DEF Starts, TaskSame
  <2>2. /\ Frame("Waitformsg", u, Startup, "scan") \notin Disposer(t) \cup Handler(t)
        /\ Frame("Waitformsg", u, Startup, "scan").op = "Waitformsg"
      BY DEF Frame, Disposer, Handler
  <2> QED BY <1>11, <2>1, <2>2
<1>23. ASSUME NEW u \in Task, Caller("dispose", u), NEW t \in Task
       PROVE  /\ ~ Answering(t)
              /\ ~ HoldsIn(stack, For(t)) \/ H(t) \/ D(t)
  <2>1. stack = <<>> \/ On("Processreply", "handler")
      BY <1>23 DEF Caller, May, At, On, Top
  <2>2. CASE stack = <<>>
      BY <2>2, InEmpty DEF Answering
  <2>3. CASE On("Processreply", "handler")
    <3>1. ~ Answering(t)
        BY <2>3 DEF Answering, On
    <3>2. Top \in Settled
        BY <1>0, <2>3 DEF On, Settled, Handlers
    <3>3. HoldsIn(stack, For(t)) => Top \in For(t) \/ HoldsIn(Tail(stack), For(t))
        BY <1>0, <2>3, StackHolds DEF On
    <3>4. Top \in For(t) => H(t) \/ D(t)
        BY <1>3, <1>6, <2>3, <3>2 DEF On
    <3>5. HoldsIn(Tail(stack), For(t)) => h(t) \/ d(t)
        BY <1>0, <1>6, <2>3 DEF HoldsIn, h, d, On
    <3>6. h(t) \/ d(t) => H(t) \/ D(t)
        BY <1>3, <2>3 DEF On
    <3> QED BY <3>1, <3>3, <3>4, <3>5, <3>6
  <2> QED BY <2>1, <2>2, <2>3
<1>24. ASSUME NEW u \in Task, Defers(u), NEW t \in Task PROVE Nested(t)'
  <2>1. /\ stack' = stack /\ Caller("dispose", u) /\ "PROCESSING" \in task[u].flags
        /\ "DISPOSING" \notin task[u].flags
        /\ Sets(u, task[u].flags \cup {"DISPOSING", "MUSTDISPOSE"})
      BY <1>24 DEF Defers
  <2>2. CASE t = u
    <3>1. task'[t].flags = task[t].flags \cup {"DISPOSING", "MUSTDISPOSE"} /\ ~ D(t)
        BY <1>8, <2>1, <2>2 DEF Sets
    <3>2. ~ (stack # <<>> /\ Top.op = "Processreply" /\ Top.pc \in {"begin", "end"})
        BY <2>1 DEF Caller, May, At, Top
    <3> QED BY <1>7, <1>8, <2>1, <2>2, <3>1, <3>2 DEF D, H, Top
  <2>3. CASE t # u
      BY <1>9, <2>1, <2>3 DEF Sets
  <2> QED BY <2>2, <2>3
<1>25. ASSUME NEW u \in Task, DisposesNow(u), NEW t \in Task PROVE Nested(t)'
  <2> DEFINE f == Frame("Dodisposetask", u, NoMsg, "drain")
  <2>1. /\ Pushes(f) /\ Caller("dispose", u) /\ "PROCESSING" \notin task[u].flags
        /\ "DISPOSING" \notin task[u].flags
        /\ Sets(u, task[u].flags \cup {"DISPOSING"})
      BY <1>25 DEF DisposesNow
  <2>2. f.op = "Dodisposetask" /\ f \notin Handler(t) /\ (f \in Disposer(t) => t = u)
      BY DEF Frame, Handler, Disposer
  <2> HIDE DEF f
  <2>3. CASE t = u
    <3>1. ~ H(t) /\ ~ D(t) /\ ~ HoldsIn(stack, For(t))
        BY <1>8, <1>23, <2>1, <2>3
    <3>2. /\ Over(stack', Disposer(t), For(t)) /\ OnceIn(stack', Handler(t))
          /\ ~ HoldsIn(stack', Handler(t))
        BY <1>2, <2>1, <2>2, <3>1
    <3>3. "MUSTDISPOSE" \notin task'[t].flags
        BY <2>1, <2>3 DEF Sets, Life
    <3>4. Head(stack').op = "Dodisposetask"
        BY <1>5, <2>1, <2>2 DEF Pushes
    <3> QED BY <1>7, <3>2, <3>3, <3>4
  <2>4. CASE t # u
    <3>1. task'[t].flags = task[t].flags
        BY <2>1, <2>4 DEF Sets
    <3> QED BY <1>11, <2>1, <2>2, <2>4, <3>1
  <2> QED BY <2>3, <2>4
<1>26. ASSUME NEW u \in Task, NEW m \in GoodMsg, NEW possible \in BOOLEAN, NEW wait \in BOOLEAN,
              Sends(u, m, possible, wait), NEW t \in Task
       PROVE  Nested(t)'
  <2>1. /\ m.kind # "update" /\ "MUSTDISPOSE" \notin task[u].flags
        /\ task'[t].flags = task[t].flags
      BY <1>26 DEF Sends, TaskSame, MustDispose
  <2>2. /\ Frame("Processreply", u, m, "begin") \notin Disposer(t) \cup Handler(t)
        /\ Frame("Processreply", u, m, "begin").task = u
        /\ Frame("Processreply", u, m, "begin").msg = m
        /\ Frame("Waitformsg", u, m, "scan") \notin Disposer(t) \cup Handler(t)
        /\ Frame("Waitformsg", u, m, "scan").op = "Waitformsg"
      BY DEF Frame, Disposer, Handler
  <2>3. CASE Pushes(Frame("Processreply", u, m, "begin"))
      BY <1>11, <2>1, <2>2, <2>3
  <2>4. CASE Pushes(Frame("Waitformsg", u, m, "scan"))
      BY <1>11, <2>1, <2>2, <2>4
  <2>5. CASE stack' = stack
      BY <1>9, <2>1, <2>5
  <2> QED BY <1>26, <2>3, <2>4, <2>5 DEF Sends
<1> QED
    BY <1>13, <1>14, <1>15, <1>16, <1>17, <1>18, <1>19, <1>20, <1>21, <1>22, <1>24, <1>25, <1>26
       DEF MainShape, AllNested

\* So do all steps, from the initial state.
LEMMA NestedInductive ==
    ASSUME NoWaits
    PROVE  /\ Init => Placed /\ AllNested
           /\ TypeInv /\ Life /\ NothingStray /\ Placed /\ AllNested /\ [Next]_vars
                => Placed' /\ AllNested'
<1>1. ASSUME Init PROVE AllNested
  <2>1. ASSUME NEW t \in Task PROVE Nested(t)
    <3>1. stack = <<>> /\ task[t].flags = {}
        BY <1>1 DEF Init
    <3> QED BY <3>1, InEmpty DEF Nested, Over, Answering
  <2> QED BY <2>1 DEF AllNested
<1>2. ASSUME TypeInv, AllNested, NEW u \in Task, SubtaskStep(u) PROVE AllNested'
  <2>1. stack' = stack /\ \A t \in Task : task'[t].flags = task[t].flags
      BY <1>2, SubtaskEffect DEF TypeInv
  <2> QED BY <1>2, <2>1 DEF AllNested, Nested, Answering, Top, Handler, Disposer, For
<1> QED
    BY <1>1, <1>2, PlacedInductive, NestedMain, StepShape

\* A nested Dodisposetask frees a task that nothing else works for.
LEMMA LiveNested ==
    ASSUME TypeInv, NothingStray, AllLive, AllNested, MainShape
    PROVE  AllLive'
<1>1. ASSUME FreesTask PROVE ~ HoldsIn(Tail(stack), For(Top.task))
  <2>1. Top.task \in Task /\ Top \in Disposer(Top.task) /\ stack # <<>> /\ stack \in Seq(GoodFrame)
      BY <1>1, TopType DEF FreesTask, On, Disposer, TypeInv, Typed, Top, GoodFrame
  <2> QED BY <2>1, OverPopped DEF AllNested, Nested, Top
<1> QED
    BY <1>1, FreeingKeepsLive

\* No activation of main works for a freed task, whatever subtasks do: if no
\* handler disposes of a task, or if handlers dispose as they like and main never
\* waits for a message. With both, Waitformsg may be left with a task that was
\* freed above it.
THEOREM NoFrameIsLeft ==
    ASSUME DisposesOutside \/ NoWaits
    PROVE  Spec => []NoFrameOnFreedTask
<1>1. TypeInv /\ AllLive => NoFrameOnFreedTask
  <2> SUFFICES ASSUME TypeInv, AllLive, NEW i \in DOMAIN stack, stack[i].task # NoTask
               PROVE  task[stack[i].task].obj = "live"
      BY DEF NoFrameOnFreedTask
  <2>1. stack[i] \in GoodFrame /\ stack[i].task \in Task
      BY DEF TypeInv, Typed, GoodFrame, Frames
  <2>2. HoldsIn(stack, For(stack[i].task))
      BY <2>1 DEF HoldsIn, For
  <2> QED BY <2>1, <2>2 DEF AllLive
<1>2. CASE DisposesOutside
  <2>1. TypeInv /\ NothingStray /\ AllLive /\ Outermost /\ [Next]_vars => AllLive'
      BY StepShape, SubtaskLive, LiveOutside
  <2>2. /\ Init => Outermost
        /\ TypeInv /\ Life /\ UnderWay /\ Outermost /\ [Next]_vars => Outermost'
      BY <1>2, OutermostInductive
  <2> QED
      BY <1>1, <2>1, <2>2, InitLive, LifeInductive, StrayInductive, UnderWayInductive,
         InitTypeInv, NextTypeInv, PTL DEF Spec
<1>3. CASE NoWaits
  <2>1. TypeInv /\ NothingStray /\ AllLive /\ AllNested /\ [Next]_vars => AllLive'
      BY StepShape, SubtaskLive, LiveNested
  <2>2. /\ Init => Placed /\ AllNested
        /\ TypeInv /\ Life /\ NothingStray /\ Placed /\ AllNested /\ [Next]_vars => Placed' /\ AllNested'
      BY <1>3, NestedInductive
  <2> QED
      BY <1>1, <2>1, <2>2, InitLive, LifeInductive, StrayInductive, InitTypeInv, NextTypeInv, PTL
         DEF Spec
<1> QED
    BY <1>2, <1>3

-----------------------------------------------------------------------------
(* One disposal at a time, when a handler disposes only of its own task *)

\* There is one handler and one Dodisposetask at most, for the same task; a
\* disposal is put off only when none is under way.
Single ==
    /\ OnceIn(stack, Disposers) /\ OnceIn(stack, Handlers)
    /\ \A t, u \in Task : HoldsIn(stack, Handler(t)) /\ HoldsIn(stack, Disposer(u)) => t = u
    /\ \A t \in Task : "MUSTDISPOSE" \in task[t].flags =>
         task[t].obj = "live" /\ ~ HoldsIn(stack, Disposers)
    /\ \A t \in Task : Answering(t) =>
         /\ ~ HoldsIn(Tail(stack), Handlers)
         /\ \A u \in Task : HoldsIn(stack, Disposer(u)) => t = u

\* An activation of either kind has a task.
LEMMA KindsHaveTasks ==
    ASSUME NEW s \in Seq(GoodFrame)
    PROVE  /\ HoldsIn(s, Handlers) <=> \E t \in Task : HoldsIn(s, Handler(t))
           /\ HoldsIn(s, Disposers) <=> \E t \in Task : HoldsIn(s, Disposer(t))
<1>1. \A i \in DOMAIN s : s[i] \in GoodFrame
    OBVIOUS
<1>2. ASSUME NEW i \in DOMAIN s, s[i] \in Handlers PROVE \E t \in Task : HoldsIn(s, Handler(t))
  <2>1. s[i].task \in Task /\ s[i] \in Handler(s[i].task)
      BY <1>2 DEF Handlers, Handler, GoodFrame
  <2> QED BY <2>1 DEF HoldsIn
<1>3. ASSUME NEW i \in DOMAIN s, s[i] \in Disposers PROVE \E t \in Task : HoldsIn(s, Disposer(t))
  <2>1. s[i].task \in Task /\ s[i] \in Disposer(s[i].task)
      BY <1>3 DEF Disposers, Disposer, GoodFrame
  <2> QED BY <2>1 DEF HoldsIn
<1>4. \A t : Handler(t) \subseteq Handlers /\ Disposer(t) \subseteq Disposers
    BY DEF Handlers, Handler, Disposers, Disposer
<1> QED
    BY <1>2, <1>3, <1>4 DEF HoldsIn

\* Main's steps keep a single disposal.
LEMMA SingleMain ==
    ASSUME TypeInv, Life, UnderWay, Placed, AllNested, Single, MainShape, NoWaits, DisposesOwn
    PROVE  Single'
<1>0. /\ Typed /\ stack \in Seq(GoodFrame)
      /\ stack # <<>> => Top \in GoodFrame /\ Tail(stack) \in Seq(GoodFrame) /\ Tail(stack) \in Seq(Settled)
      /\ On("Waitformsg", "scan") => Top.msg = Startup
    BY TopType DEF TypeInv, Typed, Top, Placed, On
<1> DEFINE Must == {t \in Task : "MUSTDISPOSE" \in task[t].flags}
           Must1 == {t \in Task : "MUSTDISPOSE" \in task'[t].flags}
           Live1 == {t \in Task : task'[t].obj = "live"}
\* Single in the next state.
<1>1. ASSUME OnceIn(stack', Disposers), OnceIn(stack', Handlers),
             \A t, u \in Task : HoldsIn(stack', Handler(t)) /\ HoldsIn(stack', Disposer(u)) => t = u,
             \A t \in Must1 : t \in Live1 /\ ~ HoldsIn(stack', Disposers),
             \A t \in Task :
                 (/\ stack' # <<>> /\ Head(stack').op = "Processreply" /\ Head(stack').task = t
                  /\ Head(stack').pc \in {"begin", "end"}
                  /\ Head(stack').msg.kind = "update" \/ t \in Must1)
                 => /\ ~ HoldsIn(Tail(stack'), Handlers)
                    /\ \A u \in Task : HoldsIn(stack', Disposer(u)) => t = u
      PROVE  Single'
    BY <1>1 DEF Single, Answering, Top, Handlers, Disposers, Handler, Disposer
<1>2. /\ OnceIn(stack, Disposers) /\ OnceIn(stack, Handlers)
      /\ \A t, u \in Task : HoldsIn(stack, Handler(t)) /\ HoldsIn(stack, Disposer(u)) => t = u
      /\ \A t \in Must : task[t].obj = "live" /\ ~ HoldsIn(stack, Disposers)
      /\ \A t \in Task : Answering(t) =>
           /\ ~ HoldsIn(Tail(stack), Handlers)
           /\ \A u \in Task : HoldsIn(stack, Disposer(u)) => t = u
    BY DEF Single
<1> HIDE DEF Must, Must1, Live1
\* A push and a pop.
<1>3. ASSUME NEW A, NEW f, Pushes(f)
      PROVE  /\ HoldsIn(stack', A) <=> f \in A \/ HoldsIn(stack, A)
             /\ OnceIn(stack, A) /\ (f \in A => ~ HoldsIn(stack, A)) => OnceIn(stack', A)
             /\ stack' # <<>> /\ Head(stack') = f /\ Tail(stack') = stack
    BY <1>0, <1>3, StackHolds, TopOfPush DEF Pushes
<1>4. ASSUME NEW A, stack # <<>>
      PROVE  /\ HoldsIn(stack, A) <=> Top \in A \/ HoldsIn(Tail(stack), A)
             /\ OnceIn(stack, A) => OnceIn(Tail(stack), A) /\ (Top \in A => ~ HoldsIn(Tail(stack), A))
    BY <1>0, <1>4, StackHolds
<1>5. ASSUME NEW A, NEW f, stack # <<>>, stack' = <<f>> \o Tail(stack)
      PROVE  /\ HoldsIn(stack', A) <=> f \in A \/ HoldsIn(Tail(stack), A)
             /\ OnceIn(Tail(stack), A) /\ (f \in A => ~ HoldsIn(Tail(stack), A)) => OnceIn(stack', A)
             /\ stack' # <<>> /\ Head(stack') = f /\ Tail(stack') = Tail(stack)
    BY <1>0, <1>5, StackHolds, TopOfPush
<1>6. \A t : Handler(t) \subseteq Handlers /\ Disposer(t) \subseteq Disposers
    BY DEF Handlers, Handler, Disposers, Disposer
<1>7. ASSUME Must1 \subseteq Must, stack' = stack, \A t \in Must1 : task[t].obj = "live" => t \in Live1
      PROVE  Single'
    BY <1>1, <1>2, <1>7 DEF Answering, Top, Must, Must1
<1>8. ASSUME Must1 \subseteq Must, stack # <<>>, stack' = Tail(stack),
             \A t \in Must1 : task[t].obj = "live" => t \in Live1
      PROVE  Single'
  <2>1. stack' # <<>> => Head(stack') \in Settled
      BY <1>0, <1>8, HeadTailProperties
  <2>2. stack' # <<>> => ~ (Head(stack').op = "Processreply" /\ Head(stack').pc \in {"begin", "end"})
      BY <2>1 DEF Settled, Loop, Frame, Handlers, Disposers
  <2>3. \A A : HoldsIn(stack', A) => HoldsIn(stack, A)
      BY <1>4, <1>8
  <2>4. OnceIn(stack', Disposers) /\ OnceIn(stack', Handlers)
      BY <1>2, <1>4, <1>8
  <2> QED BY <1>1, <1>2, <1>8, <2>2, <2>3, <2>4
<1>9. ASSUME NEW f, Pushes(f), f \notin Disposers, f \notin Handlers, Must1 \subseteq Must,
             \A t \in Must1 : task[t].obj = "live" => t \in Live1,
             \A t \in Task :
                 f.op = "Processreply" /\ f.task = t /\ (f.msg.kind = "update" \/ t \in Must1)
                 => /\ ~ HoldsIn(stack, Handlers)
                    /\ \A u \in Task : HoldsIn(stack, Disposer(u)) => t = u
      PROVE  Single'
  <2>1. /\ \A t : (HoldsIn(stack', Handler(t)) <=> HoldsIn(stack, Handler(t)))
                  /\ (HoldsIn(stack', Disposer(t)) <=> HoldsIn(stack, Disposer(t)))
        /\ HoldsIn(stack', Disposers) <=> HoldsIn(stack, Disposers)
        /\ OnceIn(stack', Disposers) /\ OnceIn(stack', Handlers)
      BY <1>2, <1>3, <1>6, <1>9
  <2>2. stack' # <<>> /\ Head(stack') = f /\ Tail(stack') = stack
      BY <1>3, <1>9
  <2> QED BY <1>1, <1>2, <1>9, <2>1, <2>2
<1>10. ASSUME NEW f, stack # <<>>, stack' = <<f>> \o Tail(stack), Must1 \subseteq Must,
              \A t \in Must1 : task[t].obj = "live" => t \in Live1,
              f \notin Handlers, f \in Disposers => Top \in Disposers /\ f.task = Top.task,
              \/ f.op # "Processreply"
              \/ /\ f.task = Top.task /\ Top.op = "Processreply"
                 /\ Top.pc = "handler" \/ (Top.pc = "begin" /\ f.msg = Top.msg)
       PROVE  Single'
  <2>1. /\ \A t : HoldsIn(stack', Handler(t)) => HoldsIn(stack, Handler(t))
        /\ \A t : HoldsIn(stack', Disposer(t)) => HoldsIn(stack, Disposer(t))
        /\ HoldsIn(stack', Disposers) => HoldsIn(stack, Disposers)
        /\ OnceIn(stack', Disposers) /\ OnceIn(stack', Handlers)
    <3>1. \A t : f \in Disposer(t) => Top \in Disposer(t)
        BY <1>0, <1>10 DEF Disposers, Disposer
    <3> QED BY <1>2, <1>4, <1>5, <1>6, <1>10, <3>1
  <2>2. stack' # <<>> /\ Head(stack') = f /\ Tail(stack') = Tail(stack)
      BY <1>5, <1>10
  <2>3. CASE f.op # "Processreply"
      BY <1>1, <1>2, <1>10, <2>1, <2>2, <2>3
  <2>4. CASE f.task = Top.task /\ Top.op = "Processreply" /\ Top.pc = "handler"
    <3>1. Top \in Handlers /\ \A t \in Task : t = Top.task => Top \in Handler(t)
        BY <1>0, <1>10, <2>4 DEF Handlers, Handler
    <3>2. ~ HoldsIn(Tail(stack), Handlers)
        BY <1>2, <1>4, <1>10, <3>1
    <3>3. \A t, u \in Task : t = Top.task /\ HoldsIn(stack, Disposer(u)) => t = u
        BY <1>2, <1>4, <1>10, <3>1
    <3> QED BY <1>1, <1>2, <1>10, <2>1, <2>2, <2>4, <3>2, <3>3
  <2>5. CASE f.task = Top.task /\ Top.op = "Processreply" /\ Top.pc = "begin" /\ f.msg = Top.msg
    <3>1. \A t \in Task : t = f.task /\ (f.msg.kind = "update" \/ t \in Must1) => Answering(t)
        BY <1>10, <2>5 DEF Answering, Must
    <3> QED BY <1>1, <1>2, <1>10, <2>1, <2>2, <2>5, <3>1
  <2> QED BY <1>10, <2>3, <2>4, <2>5
\* The tasks whose disposal is put off.
<1>11. ASSUME \A t \in Task : task'[t].flags = task[t].flags PROVE Must1 = Must
    BY <1>11 DEF Must, Must1
<1>12. TaskSame => Must1 = Must /\ \A t \in Task : task[t].obj = "live" => t \in Live1
    BY <1>11 DEF TaskSame, Live1
<1>13. ASSUME NEW u \in Task, NEW F, Sets(u, F)
       PROVE  /\ \A t \in Task : task[t].obj = "live" => t \in Live1
              /\ \A t \in Task \ {u} : t \in Must1 <=> t \in Must
              /\ u \in Must1 <=> "MUSTDISPOSE" \in F
    BY <1>13 DEF Sets, Live1, Must, Must1
<1>14. Must1 \subseteq Task
    BY DEF Must1
<1>15. CASE Rests
    BY <1>7, <1>12, <1>14, <1>15 DEF Rests
<1>16. CASE \E u \in Task : Creates(u)
  <2>1. Must1 = Must /\ \A t \in Task : task[t].obj = "live" => t \in Live1
      BY <1>11, <1>16 DEF Creates, Live1
  <2> QED BY <1>7, <1>14, <1>16, <2>1 DEF Creates
<1>17. CASE LoopsIdly
  <2>1. stack' = <<Loop>> /\ stack = <<>> /\ TaskSame
      BY <1>17 DEF LoopsIdly
  <2>2. <<Loop>> = <<Loop>> \o stack
      BY <2>1
  <2>3. Loop.op = "Processtask" /\ Loop \notin Disposers /\ Loop \notin Handlers
      BY DEF Loop, Frame, Disposers, Handlers
  <2> QED BY <1>9, <1>12, <1>14, <2>1, <2>2, <2>3 DEF Pushes
<1>18. CASE Leaves
    BY <1>8, <1>12, <1>14, <1>18 DEF Leaves
<1>19. CASE FreesTask
  <2>1. Top \in Disposers /\ stack # <<>> /\ stack' = Tail(stack) /\ Top.task \in Task
      BY <1>0, <1>19 DEF FreesTask, On, Disposers, GoodFrame
  <2>2. HoldsIn(stack, Disposers)
      BY <1>4, <2>1
  <2>3. Must1 = Must
      BY <1>11, <1>19, <2>1 DEF FreesTask
  <2>4. Must1 = {}
      BY <1>2, <1>14, <2>2, <2>3
  <2> QED BY <1>8, <2>1, <2>4
<1>20. ASSUME NEW i \in DOMAIN port, NEW below \in Seq(GoodFrame), Takes(i, below) PROVE Single'
  <2> DEFINE f == Frame("Processreply", port[i].task, port[i], "begin")
  <2>1. stack' = <<f>> \o below /\ TaskSame
      BY <1>20 DEF Takes, TakeReply
  <2>2. /\ f.op = "Processreply" /\ f.task = port[i].task /\ f.pc = "begin" /\ f.msg = port[i]
        /\ f \notin Disposers /\ f \notin Handlers
      BY DEF Frame, Disposers, Handlers
  <2> HIDE DEF f
  <2>3. CASE stack = <<>> /\ below = <<Loop>>
    <3>1. /\ \A t : ~ HoldsIn(<<Loop>>, Handler(t)) /\ ~ HoldsIn(<<Loop>>, Disposer(t))
          /\ OnceIn(<<Loop>>, Disposers) /\ OnceIn(<<Loop>>, Handlers)
          /\ ~ HoldsIn(<<Loop>>, Handlers) /\ ~ HoldsIn(<<Loop>>, Disposers)
        BY DEF OnceIn, HoldsIn, Loop, Frame, Disposer, Handler, Disposers, Handlers
    <3>2. \A A : /\ HoldsIn(stack', A) <=> f \in A \/ HoldsIn(<<Loop>>, A)
                 /\ OnceIn(<<Loop>>, A) /\ (f \in A => ~ HoldsIn(<<Loop>>, A)) => OnceIn(stack', A)
        BY <1>20, <2>1, <2>3, InPushed
    <3>3. Tail(stack') = <<Loop>>
        BY <1>20, <2>1, <2>3, TopOfPush
    <3>4. /\ OnceIn(stack', Disposers) /\ OnceIn(stack', Handlers)
          /\ ~ HoldsIn(stack', Disposers) /\ \A t : ~ HoldsIn(stack', Disposer(t))
        BY <1>6, <2>2, <3>1, <3>2
    <3>5. \A t \in Must1 : t \in Live1
        BY <1>2, <1>12, <1>14, <2>1
    <3> QED BY <1>1, <3>1, <3>3, <3>4, <3>5
  <2>4. CASE /\ stack # <<>> /\ Top.op = "Dodisposetask"
             /\ below = stack /\ port[i].task = Top.task
    <3>1. Pushes(f)
        BY <2>1, <2>4 DEF Pushes
    <3>2. Top.task \in Task /\ Top \in Disposer(Top.task) /\ Top \in Disposers /\ Top \notin Handlers
        BY <1>0, <2>4 DEF Disposer, Disposers, Handlers, GoodFrame
    <3>3. HoldsIn(stack, Disposer(Top.task))
        BY <1>4, <2>4, <3>2
    <3>4. \A u \in Task : HoldsIn(stack, Disposer(u)) => u = Top.task
      <4>1. ASSUME NEW u \in Task, HoldsIn(stack, Disposer(u)) PROVE u = Top.task
        <5>1. ~ HoldsIn(Tail(stack), Disposers)
            BY <1>2, <1>4, <2>4, <3>2
        <5>2. ~ HoldsIn(Tail(stack), Disposer(u))
            BY <1>6, <5>1 DEF HoldsIn
        <5>3. Top \in Disposer(u)
            BY <1>4, <2>4, <4>1, <5>2
        <5> QED BY <5>3 DEF Disposer
      <4> QED BY <4>1
    <3>5. ~ HoldsIn(stack, Handlers)
      <4>1. ASSUME NEW u \in Task, HoldsIn(stack, Handler(u)) PROVE FALSE
        <5>1. u = Top.task
            BY <1>2, <3>2, <3>3, <4>1
        <5>2. ~ HoldsIn(Tail(stack), For(u))
            BY <1>0, <2>4, <3>2, <5>1, OverPopped DEF AllNested, Nested, Top
        <5>3. ~ HoldsIn(Tail(stack), Handler(u))
            BY <5>2 DEF HoldsIn, For, Handler
        <5>4. Top \notin Handler(u)
            BY <2>4 DEF Handler
        <5> QED BY <1>4, <2>4, <4>1, <5>3, <5>4
      <4> QED BY <1>0, <4>1, KindsHaveTasks
    <3> QED BY <1>9, <1>12, <1>14, <2>1, <2>2, <2>4, <3>1, <3>4, <3>5
  <2> QED BY <1>0, <1>20, <2>3, <2>4 DEF Takes
<1>21. ASSUME NEW pc \in {"scan", "blocked", "wait", "redrain", "final"}, GoesOn(pc) PROVE Single'
  <2> DEFINE f == [Top EXCEPT !.pc = pc]
  <2>1. stack # <<>> /\ stack' = <<f>> \o Tail(stack) /\ TaskSame /\ Top.op # "Processreply"
      BY <1>21 DEF GoesOn, Turns
  <2>2. /\ f.op = Top.op /\ f.task = Top.task /\ f \notin Handlers
        /\ f \in Disposers => Top \in Disposers
      BY <1>0, <2>1 DEF GoodFrame, Frames, Handlers, Disposers
  <2> HIDE DEF f
  <2> QED BY <1>10, <1>12, <1>14, <2>1, <2>2
<1>22. CASE CallsHandler
  <2> DEFINE f == [Top EXCEPT !.pc = "handler"]
  <2>1. /\ stack # <<>> /\ stack' = <<f>> \o Tail(stack) /\ Top.op = "Processreply"
        /\ Top.pc = "begin" /\ Top.msg.kind = "update" /\ Top.task \in Task
        /\ Sets(Top.task, task[Top.task].flags \cup {"PROCESSING"})
      BY <1>0, <1>22 DEF CallsHandler, On, Turns, GoodFrame
  <2>2. /\ f.op = Top.op /\ f.task = Top.task /\ f.pc = "handler" /\ f \notin Disposers
        /\ \A t : f \in Handler(t) => t = Top.task
      BY <1>0, <2>1 DEF GoodFrame, Frames, Handler, Disposers
  <2> HIDE DEF f
  <2>3. Answering(Top.task)
      BY <2>1 DEF Answering
  <2>4. /\ ~ HoldsIn(Tail(stack), Handlers)
        /\ \A u \in Task : HoldsIn(stack, Disposer(u)) => u = Top.task
      BY <1>2, <2>1, <2>3
  <2>5. \A t : ~ HoldsIn(Tail(stack), Handler(t))
      BY <1>6, <2>4 DEF HoldsIn
  <2>6. /\ OnceIn(stack', Disposers) /\ OnceIn(stack', Handlers)
        /\ \A t : HoldsIn(stack', Handler(t)) => t = Top.task
        /\ \A t : HoldsIn(stack', Disposer(t)) => HoldsIn(stack, Disposer(t))
        /\ HoldsIn(stack', Disposers) => HoldsIn(stack, Disposers)
      BY <1>2, <1>4, <1>5, <1>6, <2>1, <2>2, <2>4, <2>5
  <2>7. Must1 = Must
      BY <1>13, <2>1 DEF Must, Must1
  <2>8. Head(stack').pc = "handler"
      BY <1>5, <2>1, <2>2
  <2>9. \A t \in Must1 : t \in Live1
      BY <1>2, <1>13, <1>14, <2>1, <2>7
  <2> QED BY <1>1, <1>2, <2>4, <2>6, <2>7, <2>8, <2>9
<1>23. CASE CallsNobody \/ LeavesHandler
  <2> DEFINE f == [Top EXCEPT !.pc = "end"]
  <2>1. /\ stack # <<>> /\ stack' = <<f>> \o Tail(stack) /\ Top.pc \in {"begin", "handler"}
        /\ Top.op = "Processreply" /\ Top.task \in Task
        /\ TaskSame \/ Sets(Top.task, task[Top.task].flags \ {"PROCESSING"})
      BY <1>0, <1>23 DEF CallsNobody, LeavesHandler, On, Turns, GoodFrame
  <2>2. f.op = Top.op /\ f.task = Top.task /\ f.msg = Top.msg /\ f \notin Disposers /\ f \notin Handlers
      BY <1>0, <2>1 DEF GoodFrame, Frames, Handlers, Disposers
  <2>3. Must1 = Must /\ \A t \in Task : task[t].obj = "live" => t \in Live1
      BY <1>12, <1>13, <2>1 DEF Must, Must1
  <2> HIDE DEF f
  <2> QED BY <1>10, <1>14, <2>1, <2>2, <2>3
<1>24. CASE DisposesLate
  <2> DEFINE f == Frame("Dodisposetask", Top.task, NoMsg, "drain")
  <2>1. /\ stack # <<>> /\ stack' = <<f>> \o Tail(stack) /\ Top.op = "Processreply" /\ Top.pc = "end"
        /\ Sets(Top.task, task[Top.task].flags \ {"MUSTDISPOSE"})
        /\ Top.task \in Must /\ Top.task \in Task
      BY <1>0, <1>24 DEF DisposesLate, On, MustDispose, Must, GoodFrame
  <2>2. /\ f.op = "Dodisposetask" /\ f \notin Handlers
      BY DEF Frame, Handlers
  <2> HIDE DEF f
  <2>3. Answering(Top.task)
      BY <2>1 DEF Answering, Must
  <2>4. ~ HoldsIn(Tail(stack), Handlers) /\ ~ HoldsIn(stack, Disposers)
      BY <1>2, <2>1, <2>3
  <2>5. ~ HoldsIn(Tail(stack), Disposers)
      BY <1>4, <2>1, <2>4
  <2>6. /\ OnceIn(stack', Disposers) /\ OnceIn(stack', Handlers) /\ ~ HoldsIn(stack', Handlers)
      BY <1>2, <1>4, <1>5, <2>1, <2>2, <2>4, <2>5
  <2>7. \A t : ~ HoldsIn(stack', Handler(t))
      BY <1>6, <2>6 DEF HoldsIn
  <2>8. Must1 = {}
    <3>1. ASSUME NEW t \in Task, t # Top.task, t \in Must PROVE FALSE
      <4>1. task[t].obj = "live" /\ "DISPOSING" \in task[t].flags
          BY <1>2, <3>1 DEF Must, Life
      <4>2. ~ HoldsIn(stack, Disposer(t))
          BY <1>0, <2>4, KindsHaveTasks
      <4>3. HoldsIn(stack, Replier(t))
          BY <4>1, <4>2 DEF UnderWay
      <4>4. Top \notin Replier(t)
          BY <3>1 DEF Replier
      <4>5. HoldsIn(Tail(stack), Replier(t))
          BY <1>4, <2>1, <4>3, <4>4
      <4>6. \A g \in Settled : g \in Replier(t) => g \in Handlers
          BY DEF Settled, Replier, Handlers, Disposers, Loop, Frame
      <4> QED BY <1>0, <2>1, <2>4, <4>5, <4>6 DEF HoldsIn
    <3> QED BY <1>13, <1>14, <2>1, <3>1
  <2>9. Head(stack').op = "Dodisposetask"
      BY <1>5, <2>1, <2>2
  <2> QED BY <1>1, <2>6, <2>7, <2>8, <2>9
<1>25. CASE \E u \in Task : Starts(u)
  <2>1. PICK u \in Task : TaskSame /\ Pushes(Frame("Waitformsg", u, Startup, "scan"))
      BY <1>25 DEF Starts
  <2>2. /\ Frame("Waitformsg", u, Startup, "scan") \notin Disposers
        /\ Frame("Waitformsg", u, Startup, "scan") \notin Handlers
        /\ Frame("Waitformsg", u, Startup, "scan").op = "Waitformsg"
      BY DEF Frame, Disposers, Handlers
  <2> QED BY <1>9, <1>12, <1>14, <2>1, <2>2
<1>26. ASSUME NEW u \in Task, Caller("dispose", u)
       PROVE  stack = <<>> \/ (On("Processreply", "handler") /\ Top \in Handler(u))
    BY <1>0, <1>26 DEF Caller, May, At, On, Top, DisposesOwn, Handler
<1>27. ASSUME NEW u \in Task, Defers(u) PROVE Single'
  <2>1. /\ stack' = stack /\ Caller("dispose", u) /\ "PROCESSING" \in task[u].flags
        /\ "DISPOSING" \notin task[u].flags /\ task[u].obj = "live"
        /\ Sets(u, task[u].flags \cup {"DISPOSING", "MUSTDISPOSE"})
      BY <1>27 DEF Defers
  <2>2. stack # <<>>
    <3>1. HoldsIn(stack, Handler(u))
        BY <2>1 DEF UnderWay
    <3> QED BY <3>1, InEmpty
  <2>3. On("Processreply", "handler") /\ Top \in Handler(u)
      BY <1>26, <2>1, <2>2
  <2>4. ~ HoldsIn(stack, Disposers)
    <3>1. ASSUME NEW v \in Task, HoldsIn(stack, Disposer(v)) PROVE FALSE
      <4>1. HoldsIn(stack, Handler(u))
          BY <1>4, <2>2, <2>3
      <4>2. u = v
          BY <1>2, <3>1, <4>1
      <4> QED BY <2>1, <3>1, <4>2, DisposersMark
    <3> QED BY <1>0, <3>1, KindsHaveTasks
  <2>5. \A t \in Must1 : t \in Live1
      BY <1>2, <1>13, <1>14, <2>1
  <2>6. Head(stack').pc = "handler"
      BY <2>1, <2>3 DEF On, Top
  <2> QED BY <1>1, <1>2, <2>1, <2>4, <2>5, <2>6
<1>28. ASSUME NEW u \in Task, DisposesNow(u) PROVE Single'
  <2> DEFINE f == Frame("Dodisposetask", u, NoMsg, "drain")
  <2>1. /\ Pushes(f) /\ Caller("dispose", u) /\ "PROCESSING" \notin task[u].flags
        /\ "DISPOSING" \notin task[u].flags
        /\ Sets(u, task[u].flags \cup {"DISPOSING"})
      BY <1>28 DEF DisposesNow
  <2>2. f.op = "Dodisposetask" /\ f \notin Handlers
      BY DEF Frame, Handlers
  <2> HIDE DEF f
  <2>3. stack = <<>>
    <3>1. CASE stack # <<>> /\ Top \in Handler(u)
      <4>1. HoldsIn(stack, Handler(u))
          BY <1>4, <3>1
      <4> QED BY <2>1, <4>1 DEF AllNested, Nested
    <3> QED BY <1>26, <2>1, <3>1 DEF On
  <2>4. Must1 = {}
    <3>1. ASSUME NEW t \in Must PROVE FALSE
      <4>1. t \in Task /\ task[t].obj = "live" /\ "DISPOSING" \in task[t].flags
          BY <1>2 DEF Must, Life
      <4> QED BY <2>3, <4>1, InEmpty DEF UnderWay
    <3>2. "MUSTDISPOSE" \notin task[u].flags \cup {"DISPOSING"}
        BY <2>1 DEF Life
    <3> QED BY <1>13, <1>14, <2>1, <3>1, <3>2
  <2>5. \A A : ~ HoldsIn(stack, A) /\ OnceIn(stack, A)
      BY <2>3, InEmpty
  <2>6. /\ OnceIn(stack', Disposers) /\ OnceIn(stack', Handlers) /\ ~ HoldsIn(stack', Handlers)
      BY <1>3, <2>1, <2>2, <2>5
  <2>7. \A t : ~ HoldsIn(stack', Handler(t))
      BY <1>6, <2>6 DEF HoldsIn
  <2>8. Head(stack').op = "Dodisposetask"
      BY <1>3, <2>1, <2>2
  <2> QED BY <1>1, <2>4, <2>6, <2>7, <2>8
<1>29. ASSUME NEW u \in Task, NEW m \in GoodMsg, NEW possible \in BOOLEAN, NEW wait \in BOOLEAN,
              Sends(u, m, possible, wait)
       PROVE  Single'
  <2>1. m.kind # "update" /\ "MUSTDISPOSE" \notin task[u].flags /\ TaskSame
      BY <1>29 DEF Sends, MustDispose
  <2>2. CASE Pushes(Frame("Processreply", u, m, "begin"))
    <3> DEFINE f == Frame("Processreply", u, m, "begin")
    <3>1. f \notin Disposers /\ f \notin Handlers /\ f.task = u /\ f.msg = m /\ f.op = "Processreply"
        BY DEF Frame, Disposers, Handlers
    <3> HIDE DEF f
    <3>2. u \notin Must1
        BY <1>12, <2>1 DEF Must
    <3> QED BY <1>9, <1>12, <1>14, <2>1, <2>2, <3>1, <3>2 DEF f
  <2>3. CASE Pushes(Frame("Waitformsg", u, m, "scan"))
    <3> DEFINE f == Frame("Waitformsg", u, m, "scan")
    <3>1. f \notin Disposers /\ f \notin Handlers /\ f.op = "Waitformsg"
        BY DEF Frame, Disposers, Handlers
    <3> HIDE DEF f
    <3> QED BY <1>9, <1>12, <1>14, <2>1, <2>3, <3>1 DEF f
  <2>4. CASE stack' = stack
      BY <1>7, <1>12, <1>14, <2>1, <2>4
  <2> QED BY <1>29, <2>2, <2>3, <2>4 DEF Sends
<1> QED
    BY <1>15, <1>16, <1>17, <1>18, <1>19, <1>20, <1>21, <1>22, <1>23, <1>24, <1>25, <1>27, <1>28, <1>29
       DEF MainShape

\* So do all steps, from the initial state.
LEMMA SingleInductive ==
    ASSUME NoWaits, DisposesOwn
    PROVE  /\ Init => Single
           /\ TypeInv /\ Life /\ UnderWay /\ Placed /\ AllNested /\ Single /\ [Next]_vars => Single'
<1>1. ASSUME Init PROVE Single
  <2>1. stack = <<>> /\ \A t \in Task : task[t].flags = {}
      BY <1>1 DEF Init
  <2> QED BY <2>1, InEmpty DEF Single, Answering
<1>2. ASSUME TypeInv, Single, NEW u \in Task, SubtaskStep(u) PROVE Single'
  <2>1. stack' = stack /\ \A t \in Task : task'[t].flags = task[t].flags /\ task'[t].obj = task[t].obj
      BY <1>2, SubtaskEffect DEF TypeInv
  <2> QED BY <1>2, <2>1 DEF Single, Answering, Top, Handler, Disposer, Handlers, Disposers
<1> QED
    BY <1>1, <1>2, SingleMain, StepShape

-----------------------------------------------------------------------------
(* Grants of runsema *)

\* The activations that wait for the end of a subtask; one of them for that of t.
Waiters == {f \in GoodFrame : f.op = "Dodisposetask" /\ f.pc \in {"wait", "redrain"}}
Waiter(t) == {f \in Waiters : f.task = t}

\* Main is queued for, or has in semaport with its signal set, the runsema of
\* the one task it waits for, and no other.
Granting ==
    /\ ~ HoldsIn(stack, Waiters) => procured = {} /\ semaport = <<>>
    /\ \A t \in Task : HoldsIn(stack, Waiter(t)) =>
         \/ procured = {t} /\ semaport = <<>>
         \/ procured = {} /\ semaport = <<t>> /\ ssig

\* What a subtask does to the signals, and to the semaphores.
LEMMA SubtaskSignals ==
    ASSUME NEW t \in Task, SubtaskStep(t)
    PROVE  /\ (port' = port /\ psig' = psig) \/ psig'
           /\ UNCHANGED semas \/ Ends(t)
<1>. USE DEF Moves, MovesAndPuts, PutPort, taskport
<1>1. CASE Subtask(t)
    BY <1>1 DEF Subtask
<1>2. CASE Answers(t)
    BY <1>2 DEF Answers
<1>3. CASE Replytaskmsg(t) \/ Drains(t) \/ Dies(t)
    BY <1>3 DEF Replytaskmsg, Drains, Dies
<1>4. CASE \E async \in BOOLEAN : Updatetask(t, async)
    BY <1>4 DEF Updatetask
<1>5. CASE Ends(t)
    BY <1>5 DEF Ends
<1>6. CASE \/ Waittask(t) \/ (\E own \in BOOLEAN : Wakes(t, own)) \/ Gettaskmsg(t) \/ ScanEnds(t)
           \/ ScanWakes(t) \/ UpdateReplied(t) \/ Finishes(t) \/ Returns(t) \/ GetMsg(t)
    BY <1>6 DEF Waittask, Wakes, Gettaskmsg, ScanEnds, ScanWakes, UpdateReplied, Finishes, Returns, GetMsg
<1> QED
    BY <1>1, <1>2, <1>3, <1>4, <1>5, <1>6 DEF SubtaskStep

\* What main does to an activation that waits for the end of a subtask, unless
\* it goes on with it.
LEMMA WaitersStay ==
    ASSUME TypeInv, MainShape,
           ~ \E pc \in {"scan", "blocked", "wait", "redrain", "final"} : GoesOn(pc),
           NEW A, A \subseteq Waiters
    PROVE  UNCHANGED semas /\ (HoldsIn(stack', A) <=> HoldsIn(stack, A))
<1>0. /\ Typed /\ stack \in Seq(GoodFrame)
      /\ stack # <<>> => Top \in GoodFrame /\ Tail(stack) \in Seq(GoodFrame)
    BY TopType DEF TypeInv, Typed, Top
<1>1. ASSUME NEW f, Pushes(f), f \notin A PROVE HoldsIn(stack', A) <=> HoldsIn(stack, A)
    BY <1>0, <1>1, StackHolds DEF Pushes
<1>2. ASSUME stack # <<>>, stack' = Tail(stack), Top \notin A PROVE HoldsIn(stack', A) <=> HoldsIn(stack, A)
    BY <1>0, <1>2, StackHolds
<1>3. ASSUME NEW f, stack # <<>>, stack' = <<f>> \o Tail(stack), f \notin A, Top \notin A
      PROVE  HoldsIn(stack', A) <=> HoldsIn(stack, A)
    BY <1>0, <1>3, StackHolds
<1>4. CASE Rests \/ \E t \in Task : Creates(t) \/ Defers(t)
    BY <1>4 DEF Rests, Creates, Defers, Quiet
<1>5. Loop \notin A /\ ~ HoldsIn(<<Loop>>, A)
  <2>1. Loop \notin Waiters
      BY DEF Loop, Frame, Waiters
  <2> QED BY <2>1 DEF HoldsIn
<1>6. CASE LoopsIdly
    BY <1>5, <1>6, InEmpty DEF LoopsIdly
<1>7. CASE Leaves \/ FreesTask
  <2>1. stack # <<>> /\ stack' = Tail(stack) /\ UNCHANGED semas /\ Top \notin A
      BY <1>7 DEF Leaves, FreesTask, On, Quiet, Waiters
  <2> QED BY <1>2, <2>1
<1>8. ASSUME NEW i \in DOMAIN port, NEW below \in Seq(GoodFrame), Takes(i, below)
      PROVE  UNCHANGED semas /\ (HoldsIn(stack', A) <=> HoldsIn(stack, A))
  <2> DEFINE f == Frame("Processreply", port[i].task, port[i], "begin")
  <2>1. stack' = <<f>> \o below /\ UNCHANGED semas /\ f \notin A
      BY <1>8 DEF Takes, TakeReply, Frame, Waiters
  <2> HIDE DEF f
  <2>2. HoldsIn(stack', A) <=> HoldsIn(below, A)
      BY <1>8, <2>1, InPushed
  <2>3. CASE below = stack
      BY <2>1, <2>2, <2>3
  <2>4. CASE stack = <<>> /\ below = <<Loop>>
      BY <1>5, <2>1, <2>2, <2>4, InEmpty
  <2>5. CASE On("Waitformsg", "scan") /\ below = Tail(stack)
    <3>1. Top \notin A
        BY <2>5 DEF On, Waiters
    <3> QED BY <1>0, <2>1, <2>2, <2>5, <3>1, StackHolds DEF On
  <2> QED BY <1>8, <2>3, <2>4, <2>5 DEF Takes
<1>9. ASSUME NEW pc, stack # <<>>, Top.op = "Processreply", Turns(pc)
      PROVE  HoldsIn(stack', A) <=> HoldsIn(stack, A)
  <2> DEFINE f == [Top EXCEPT !.pc = pc]
  <2>1. f \notin A /\ Top \notin A
      BY <1>0, <1>9 DEF Waiters, GoodFrame, Frames
  <2> HIDE DEF f
  <2> QED BY <1>3, <1>9, <2>1 DEF Turns, f
<1>10. CASE CallsHandler \/ CallsNobody \/ LeavesHandler
  <2>1. UNCHANGED semas /\ stack # <<>> /\ Top.op = "Processreply" /\ \E pc : Turns(pc)
      BY <1>10 DEF CallsHandler, CallsNobody, LeavesHandler, On, Quiet
  <2> QED BY <1>9, <2>1
<1>11. CASE DisposesLate
  <2> DEFINE f == Frame("Dodisposetask", Top.task, NoMsg, "drain")
  <2>1. stack' = <<f>> \o Tail(stack) /\ UNCHANGED semas /\ f \notin A /\ stack # <<>> /\ Top \notin A
      BY <1>11 DEF DisposesLate, On, Quiet, Frame, Waiters
  <2> HIDE DEF f
  <2> QED BY <1>3, <2>1
<1>12. ASSUME NEW t \in Task, Starts(t) \/ DisposesNow(t)
       PROVE  UNCHANGED semas /\ (HoldsIn(stack', A) <=> HoldsIn(stack, A))
  <2>1. PICK f : f \in {Frame("Waitformsg", t, Startup, "scan"), Frame("Dodisposetask", t, NoMsg, "drain")} /\ Pushes(f)
      BY <1>12 DEF Starts, DisposesNow
  <2>2. f \notin A
      BY <2>1 DEF Frame, Waiters
  <2> QED BY <1>1, <1>12, <2>1, <2>2 DEF Starts, DisposesNow, Quiet
<1>13. ASSUME NEW t \in Task, NEW m \in GoodMsg, NEW possible \in BOOLEAN, NEW wait \in BOOLEAN,
              Sends(t, m, possible, wait)
       PROVE  UNCHANGED semas /\ (HoldsIn(stack', A) <=> HoldsIn(stack, A))
  <2>1. /\ UNCHANGED semas
        /\ \/ stack' = stack
           \/ \E f : Pushes(f) /\ f \in {Frame("Waitformsg", t, m, "scan"), Frame("Processreply", t, m, "begin")}
      BY <1>13 DEF Sends, Quiet
  <2>2. {Frame("Waitformsg", t, m, "scan"), Frame("Processreply", t, m, "begin")} \cap A = {}
      BY DEF Frame, Waiters
  <2> QED BY <1>1, <2>1, <2>2
<1> QED
    BY <1>4, <1>6, <1>7, <1>8, <1>10, <1>11, <1>12, <1>13 DEF MainShape

\* Main's way through the wait, when nobody else waits.
LEMMA GrantingGoesOn ==
    ASSUME TypeInv, OnceIn(stack, Disposers), Granting,
           NEW pc \in {"scan", "blocked", "wait", "redrain", "final"}, GoesOn(pc)
    PROVE  Granting'
<1>0. /\ Typed /\ stack \in Seq(GoodFrame) /\ stack # <<>>
      /\ Top \in GoodFrame /\ Tail(stack) \in Seq(GoodFrame)
    BY TopType DEF TypeInv, Typed, Top, GoesOn
<1> DEFINE f == [Top EXCEPT !.pc = pc]
           t == Top.task
<1>1. /\ stack' = <<f>> \o Tail(stack) /\ f.op = Top.op /\ f.task = t /\ f.pc = pc /\ f \in GoodFrame
    BY <1>0 DEF GoesOn, Turns, GoodFrame, Frames
<1> HIDE DEF f
<1>2. ASSUME NEW A PROVE /\ HoldsIn(stack, A) <=> Top \in A \/ HoldsIn(Tail(stack), A)
                         /\ HoldsIn(stack', A) <=> f \in A \/ HoldsIn(Tail(stack), A)
    BY <1>0, <1>1, StackHolds
<1>3. Granting' <=>
        /\ ~ HoldsIn(stack', Waiters) => procured' = {} /\ semaport' = <<>>
        /\ \A u \in Task : HoldsIn(stack', Waiter(u)) =>
             \/ procured' = {u} /\ semaport' = <<>>
             \/ procured' = {} /\ semaport' = <<u>> /\ ssig'
    BY DEF Granting, Waiters, Waiter
<1>4. CASE WaitformsgBlocks \/ WaitformsgWakes
  <2>1. UNCHANGED semas /\ Top.op = "Waitformsg"
      BY <1>4 DEF WaitformsgBlocks, WaitformsgWakes, At, Top
  <2>2. \A A : A \subseteq Waiters => (HoldsIn(stack', A) <=> HoldsIn(stack, A))
      BY <1>1, <1>2, <2>1 DEF Waiters
  <2> QED BY <1>3, <2>1, <2>2 DEF Granting, semas, Waiter
<1>5. ASSUME Top.op = "Dodisposetask"
      PROVE  /\ t \in Task
             /\ ~ HoldsIn(Tail(stack), Waiters) /\ \A u : ~ HoldsIn(Tail(stack), Waiter(u))
             /\ f \in Waiters <=> pc \in {"wait", "redrain"}
             /\ \A u : f \in Waiter(u) <=> pc \in {"wait", "redrain"} /\ u = t
             /\ Top \in Waiters <=> Top.pc \in {"wait", "redrain"}
             /\ \A u : Top \in Waiter(u) <=> Top.pc \in {"wait", "redrain"} /\ u = t
  <2>1. Top \in Disposers
      BY <1>0, <1>5 DEF Disposers
  <2>2. ~ HoldsIn(Tail(stack), Disposers)
      BY <1>0, <2>1, StackHolds
  <2> QED BY <1>0, <1>1, <1>5, <2>2 DEF Waiters, Waiter, Disposers, HoldsIn, GoodFrame
<1>6. CASE Procures
  <2>1. /\ Top.op = "Dodisposetask" /\ Top.pc = "drain" /\ pc = "wait"
        /\ \/ semaport' = Append(semaport, t) /\ ssig' = TRUE /\ procured' = procured
           \/ procured' = procured \cup {t} /\ semaport' = semaport
    <3>1. /\ Top.op = "Dodisposetask" /\ Top.pc = "drain" /\ Turns("wait")
          /\ \/ semaport' = Append(semaport, t) /\ ssig' = TRUE /\ procured' = procured
             \/ procured' = procured \cup {t} /\ semaport' = semaport
        BY <1>6 DEF Procures, At, Top, Goto, Turns
    <3>2. Head(stack').pc = "wait"
        BY <1>0, <3>1, TopOfPush DEF Turns, GoodFrame, Frames
    <3>3. Head(stack') = f
        BY <1>0, <1>1, TopOfPush
    <3> QED BY <1>1, <3>1, <3>2, <3>3
  <2>2. ~ HoldsIn(stack, Waiters)
      BY <1>2, <1>5, <2>1
  <2>3. procured = {} /\ semaport = <<>>
      BY <2>2 DEF Granting
  <2>4. HoldsIn(stack', Waiters) /\ \A u : HoldsIn(stack', Waiter(u)) => u = t
      BY <1>2, <1>5, <2>1
  <2>5. Append(<<>>, t) = <<t>>
      OBVIOUS
  <2> QED BY <1>3, <2>1, <2>3, <2>4, <2>5
<1>7. CASE StoptaskWakes
  <2>1. /\ Top.op = "Dodisposetask" /\ Top.pc = "wait" /\ procured' = procured
        /\ semaport' = IF ssig /\ semaport # <<>> THEN Tail(semaport) ELSE semaport
        /\ pc = IF Granted(t) THEN "final" ELSE IF psig THEN "redrain" ELSE "wait"
    <3> DEFINE p == IF Granted(t) THEN "final" ELSE IF psig THEN "redrain" ELSE "wait"
    <3>1. /\ Top.op = "Dodisposetask" /\ Top.pc = "wait" /\ procured' = procured
          /\ semaport' = IF ssig /\ semaport # <<>> THEN Tail(semaport) ELSE semaport
          /\ Turns(p)
        BY <1>7 DEF StoptaskWakes, At, Top, Goto, Turns
    <3>2. Head(stack').pc = p
        BY <1>0, <3>1, TopOfPush DEF Turns, GoodFrame, Frames
    <3>3. Head(stack') = f
        BY <1>0, <1>1, TopOfPush
    <3> QED BY <1>1, <3>1, <3>2, <3>3
  <2>2. HoldsIn(stack, Waiter(t)) /\ t \in Task
      BY <1>2, <1>5, <2>1
  <2>3. \/ procured = {t} /\ semaport = <<>>
        \/ procured = {} /\ semaport = <<t>> /\ ssig
      BY <2>2 DEF Granting
  <2>4. CASE procured = {t} /\ semaport = <<>>
    <3>1. ~ Granted(t) /\ pc \in {"redrain", "wait"} /\ semaport' = <<>> /\ procured' = {t}
        BY <2>1, <2>4 DEF Granted
    <3>2. HoldsIn(stack', Waiters) /\ \A u : HoldsIn(stack', Waiter(u)) => u = t
        BY <1>2, <1>5, <2>1, <3>1
    <3> QED BY <1>3, <3>1, <3>2
  <2>5. CASE procured = {} /\ semaport = <<t>> /\ ssig
    <3>1. Granted(t) /\ semaport' = <<>> /\ procured' = {} /\ pc = "final"
        BY <2>1, <2>5 DEF Granted
    <3>2. \A u : ~ HoldsIn(stack', Waiter(u))
        BY <1>2, <1>5, <2>1, <3>1
    <3> QED BY <1>3, <3>1, <3>2
  <2> QED BY <2>3, <2>4, <2>5
<1>8. CASE WaitsAgain
  <2>1. /\ Top.op = "Dodisposetask" /\ Top.pc = "redrain" /\ pc = "wait" /\ UNCHANGED semas
    <3>1. /\ Top.op = "Dodisposetask" /\ Top.pc = "redrain" /\ UNCHANGED semas /\ Turns("wait")
        BY <1>8 DEF WaitsAgain, At, Top, Goto, Turns
    <3>2. Head(stack').pc = "wait"
        BY <1>0, <3>1, TopOfPush DEF Turns, GoodFrame, Frames
    <3>3. Head(stack') = f
        BY <1>0, <1>1, TopOfPush
    <3> QED BY <1>1, <3>1, <3>2, <3>3
  <2>2. /\ HoldsIn(stack', Waiters) /\ HoldsIn(stack, Waiters)
        /\ \A u : HoldsIn(stack', Waiter(u)) <=> HoldsIn(stack, Waiter(u))
      BY <1>2, <1>5, <2>1
  <2> QED BY <1>3, <2>1, <2>2 DEF Granting, semas
<1> QED
    BY <1>4, <1>6, <1>7, <1>8 DEF GoesOn

\* Grants come to the one who waits, whatever main and the subtasks do.
LEMMA GrantingInductive ==
    /\ Init => Granting
    /\ TypeInv /\ OnceIn(stack, Disposers) /\ Granting /\ [Next]_vars => Granting'
<1>1. Init => Granting
    BY InEmpty DEF Init, Granting
<1>2. ASSUME TypeInv, Granting, NEW u \in Task, SubtaskStep(u) PROVE Granting'
  <2>1. stack' = stack
      BY <1>2, SubtaskEffect DEF TypeInv
  <2>2. CASE UNCHANGED semas
      BY <1>2, <2>1, <2>2 DEF Granting, semas, Waiters, Waiter
  <2>3. CASE Ends(u)
    <3>1. /\ procured' = procured \ {u}
          /\ \/ u \in procured /\ semaport' = Append(semaport, u) /\ ssig' = TRUE
             \/ u \notin procured /\ semaport' = semaport /\ ssig' = ssig
        BY <2>3 DEF Ends, GoesToMain
    <3>2. Append(<<>>, u) = <<u>>
        OBVIOUS
    <3>3. ASSUME ~ HoldsIn(stack, Waiters) PROVE procured' = {} /\ semaport' = <<>>
        BY <1>2, <3>1, <3>3 DEF Granting
    <3>4. ASSUME NEW t \in Task, HoldsIn(stack, Waiter(t))
          PROVE  \/ procured' = {t} /\ semaport' = <<>>
                 \/ procured' = {} /\ semaport' = <<t>> /\ ssig'
      <4>1. \/ procured = {t} /\ semaport = <<>>
            \/ procured = {} /\ semaport = <<t>> /\ ssig
          BY <1>2, <3>4 DEF Granting
      <4>2. CASE procured = {t} /\ semaport = <<>>
        <5>1. CASE u = t
            BY <3>1, <3>2, <4>2, <5>1
        <5>2. CASE u # t
            BY <3>1, <4>2, <5>2
        <5> QED BY <5>1, <5>2
      <4>3. CASE procured = {} /\ semaport = <<t>> /\ ssig
          BY <3>1, <4>3
      <4> QED BY <4>1, <4>2, <4>3
    <3> QED BY <2>1, <3>3, <3>4 DEF Granting, Waiters, Waiter
  <2> QED BY <1>2, <2>2, <2>3, SubtaskSignals
<1>3. ASSUME TypeInv, Granting, MainShape,
             ~ \E pc \in {"scan", "blocked", "wait", "redrain", "final"} : GoesOn(pc)
      PROVE  Granting'
  <2>1. /\ UNCHANGED semas
        /\ HoldsIn(stack', Waiters) <=> HoldsIn(stack, Waiters)
        /\ \A t : HoldsIn(stack', Waiter(t)) <=> HoldsIn(stack, Waiter(t))
    <3>1. \A t : Waiter(t) \subseteq Waiters
        BY DEF Waiter
    <3> QED BY <1>3, <3>1, WaitersStay
  <2>2. Granting' <=>
          /\ ~ HoldsIn(stack', Waiters) => procured' = {} /\ semaport' = <<>>
          /\ \A t \in Task : HoldsIn(stack', Waiter(t)) =>
               \/ procured' = {t} /\ semaport' = <<>>
               \/ procured' = {} /\ semaport' = <<t>> /\ ssig'
      BY DEF Granting, Waiters, Waiter
  <2> QED BY <1>3, <2>1, <2>2 DEF Granting, semas
<1> QED
    BY <1>1, <1>2, <1>3, GrantingGoesOn, StepShape

\* There is one Dodisposetask at a time under either hypothesis.
LEMMA OneDisposer ==
    ASSUME DisposesOutside \/ (NoWaits /\ DisposesOwn)
    PROVE  Spec => [](TypeInv /\ OnceIn(stack, Disposers))
<1>1. CASE DisposesOutside
  <2>1. Outermost => OnceIn(stack, Disposers)
      BY DEF Outermost, LastOnly, OnceIn
  <2>2. /\ Init => Outermost
        /\ TypeInv /\ Life /\ UnderWay /\ Outermost /\ [Next]_vars => Outermost'
      BY <1>1, OutermostInductive
  <2> QED
      BY <2>1, <2>2, LifeInductive, StrayInductive, UnderWayInductive, InitTypeInv, NextTypeInv, PTL
         DEF Spec
<1>2. CASE NoWaits /\ DisposesOwn
  <2>1. Single => OnceIn(stack, Disposers)
      BY DEF Single
  <2>2. /\ Init => Placed /\ AllNested
        /\ TypeInv /\ Life /\ NothingStray /\ Placed /\ AllNested /\ [Next]_vars => Placed' /\ AllNested'
      BY <1>2, NestedInductive
  <2>3. /\ Init => Single
        /\ TypeInv /\ Life /\ UnderWay /\ Placed /\ AllNested /\ Single /\ [Next]_vars => Single'
      BY <1>2, SingleInductive
  <2> QED
      BY <2>1, <2>2, <2>3, LifeInductive, StrayInductive, UnderWayInductive, InitTypeInv, NextTypeInv, PTL
         DEF Spec
<1> QED
    BY <1>1, <1>2

\* The grant of t is on its way: as Coming says it.
Comes(t) == t \in procured \/ HoldsIn(semaport, {t})

\* There is one Dodisposetask for a task at most, and none yet while its disposal
\* is put off.
OneStoptask ==
    \A t \in Task : /\ OnceIn(stack, Disposer(t))
                    /\ "MUSTDISPOSE" \in task[t].flags => ~ HoldsIn(stack, Disposer(t))

\* Whose grant is on its way waits for it, and it is on its way once.
Owed == \A t \in Task : /\ Comes(t) => HoldsIn(stack, Waiter(t))
                        /\ OnceIn(semaport, {t})
                        /\ t \in procured => ~ HoldsIn(semaport, {t})

\* The next step takes the grant of t only for the Stoptask of another task, which
\* is nested in that of t.
Keeps(t) ==
    HoldsIn(stack', Waiter(t)) =>
        \/ t \in procured' \/ HoldsIn(semaport', {t})
        \/ HoldsIn(stack, Waiter(t)) /\ ~ Comes(t)
        \/ /\ HoldsIn(stack, Waiter(t)) /\ On("Dodisposetask", "wait") /\ Top.task # t
           /\ semaport # <<>> /\ Head(semaport) = t

\* A disposal begins once: DISPOSING is looked at, or MUSTDISPOSE is taken back.
LEMMA OneStoptaskInductive ==
    /\ Init => OneStoptask
    /\ TypeInv /\ Life /\ OneStoptask /\ [Next]_vars => OneStoptask'
<1>1. Init => OneStoptask
    BY InEmpty DEF Init, OneStoptask
<1>2. ASSUME TypeInv, OneStoptask, NEW u \in Task, SubtaskStep(u) PROVE OneStoptask'
  <2>1. stack' = stack /\ \A t \in Task : task'[t].flags = task[t].flags
      BY <1>2, SubtaskEffect DEF TypeInv
  <2> QED BY <1>2, <2>1 DEF OneStoptask, Disposer
<1>3. ASSUME TypeInv, Life, OneStoptask, MainShape, NEW t \in Task
      PROVE  /\ OnceIn(stack', Disposer(t))
             /\ "MUSTDISPOSE" \in task'[t].flags => ~ HoldsIn(stack', Disposer(t))
  <2> DEFINE A == Disposer(t)
  <2>0. /\ Typed /\ stack \in Seq(GoodFrame)
        /\ stack # <<>> => Top \in GoodFrame /\ Tail(stack) \in Seq(GoodFrame)
      BY <1>3, TopType DEF TypeInv, Typed, Top
  <2>1. OnceIn(stack, A) /\ (HoldsIn(stack, A) => "DISPOSING" \in task[t].flags)
      BY <1>3, DisposersMark DEF OneStoptask
  <2>2. ASSUME "MUSTDISPOSE" \in task'[t].flags PROVE ~ HoldsIn(stack, A)
      BY <1>3, <2>1, <2>2, FlagsMoves DEF Defers, OneStoptask
  <2>3. ASSUME NEW f, f \in A => ~ HoldsIn(stack, A), stack' = <<f>> \o stack
        PROVE  OnceIn(stack', A) /\ (HoldsIn(stack', A) <=> f \in A \/ HoldsIn(stack, A))
      BY <2>0, <2>1, <2>3, StackHolds
  <2>4. ASSUME NEW f, stack # <<>>, f \in A => Top \in A \/ ~ HoldsIn(stack, A), stack' = <<f>> \o Tail(stack)
        PROVE  OnceIn(stack', A) /\ (HoldsIn(stack', A) => f \in A \/ HoldsIn(stack, A))
      BY <2>0, <2>1, <2>4, StackHolds
  <2>5. Loop \notin A /\ ~ HoldsIn(<<Loop>>, A) /\ OnceIn(<<Loop>>, A) /\ <<Loop>> \in Seq({Loop})
      BY DEF Loop, Frame, Disposer, HoldsIn, OnceIn
  <2> HIDE DEF A
  <2>6. CASE stack' = stack
      BY <2>1, <2>2, <2>6 DEF A
  <2>7. CASE stack # <<>> /\ stack' = Tail(stack)
      BY <2>0, <2>1, <2>2, <2>7, StackHolds DEF A
  <2>8. CASE stack = <<>> /\ stack' = <<Loop>>
      BY <2>5, <2>8 DEF A
  <2>9. ASSUME NEW f, f.op # "Dodisposetask",
               \/ stack' = <<f>> \o stack
               \/ stack = <<>> /\ stack' = <<f>> \o <<Loop>>
               \/ stack # <<>> /\ stack' = <<f>> \o Tail(stack)
        PROVE  OnceIn(stack', A) /\ ("MUSTDISPOSE" \in task'[t].flags => ~ HoldsIn(stack', A))
    <3>1. f \notin A
        BY <2>9 DEF A, Disposer
    <3>2. CASE stack' = <<f>> \o <<Loop>>
      <4>1. ~ HoldsIn(<<f>> \o <<Loop>>, A) /\ OnceIn(<<f>> \o <<Loop>>, A)
          BY <2>5, <3>1, InPushed
      <4> QED BY <3>2, <4>1
    <3> QED BY <2>2, <2>3, <2>4, <2>9, <3>1, <3>2
  <2>10. ASSUME NEW f \in GoodFrame, stack # <<>>, stack' = <<f>> \o Tail(stack),
                f.op = Top.op, f.task = Top.task
         PROVE  OnceIn(stack', A) /\ ("MUSTDISPOSE" \in task'[t].flags => ~ HoldsIn(stack', A))
    <3>1. f \in A <=> Top \in A
        BY <2>0, <2>10 DEF A, Disposer
    <3>2. Top \in A => HoldsIn(stack, A)
        BY <2>0, <2>10, StackHolds
    <3> QED BY <2>2, <2>4, <2>10, <3>1, <3>2
  <2>11. ASSUME NEW u \in Task, DisposesNow(u)
         PROVE  OnceIn(stack', A) /\ ("MUSTDISPOSE" \in task'[t].flags => ~ HoldsIn(stack', A))
    <3> DEFINE f == Frame("Dodisposetask", u, NoMsg, "drain")
    <3>1. stack' = <<f>> \o stack /\ (f \in A => u = t)
        BY <2>11 DEF DisposesNow, Pushes, Frame, A, Disposer
    <3>2. CASE u = t
      <4>1. "DISPOSING" \notin task[t].flags /\ task'[t].flags = task[t].flags \cup {"DISPOSING"}
          BY <2>11, <3>2 DEF DisposesNow, Sets
      <4>2. "MUSTDISPOSE" \notin task'[t].flags
          BY <1>3, <4>1 DEF Life
      <4> QED BY <2>1, <2>3, <3>1, <4>1, <4>2
    <3>3. CASE u # t
        BY <2>2, <2>3, <3>1, <3>3
    <3> QED BY <3>2, <3>3
  <2>12. CASE DisposesLate
    <3> DEFINE f == Frame("Dodisposetask", Top.task, NoMsg, "drain")
    <3>1. /\ stack # <<>> /\ stack' = <<f>> \o Tail(stack) /\ (f \in A => Top.task = t)
          /\ Top.task \in Task
        BY <2>0, <2>12 DEF DisposesLate, On, Frame, A, Disposer, GoodFrame
    <3>2. CASE Top.task = t
      <4>1. "MUSTDISPOSE" \in task[t].flags /\ "MUSTDISPOSE" \notin task'[t].flags
          BY <2>12, <3>2 DEF DisposesLate, Sets, MustDispose
      <4>2. ~ HoldsIn(stack, A)
          BY <1>3, <4>1 DEF OneStoptask, A
      <4> QED BY <2>4, <3>1, <4>1, <4>2 DEF A
    <3>3. CASE Top.task # t
      <4> HIDE DEF f
      <4> QED BY <2>2, <2>4, <3>1, <3>3 DEF A
    <3> QED BY <3>2, <3>3
  <2> QED
      BY <1>3, <2>6, <2>7, <2>8, <2>9, <2>10, <2>11, <2>12, StackMoves DEF A, On
<1> QED
    BY <1>1, <1>2, <1>3, StepShape DEF OneStoptask, Disposer

\* Main's way through the wait keeps the grants.
LEMMA OwedGoesOn ==
    ASSUME TypeInv, OneStoptask, Owed,
           NEW pc \in {"scan", "blocked", "wait", "redrain", "final"}, GoesOn(pc),
           NEW u \in Task
    PROVE  /\ u \in procured' \/ HoldsIn(semaport', {u}) => HoldsIn(stack', Waiter(u))
           /\ OnceIn(semaport', {u})
           /\ u \in procured' => ~ HoldsIn(semaport', {u})
           /\ Keeps(u)
<1>0. /\ Typed /\ stack \in Seq(GoodFrame) /\ stack # <<>> /\ semaport \in Seq(Task)
      /\ Top \in GoodFrame /\ Tail(stack) \in Seq(GoodFrame)
    BY TopType DEF TypeInv, Typed, Top, GoesOn
<1> DEFINE f == [Top EXCEPT !.pc = pc]
           t == Top.task
<1>1. /\ stack' = <<f>> \o Tail(stack) /\ f.op = Top.op /\ f.task = t /\ f.pc = pc /\ f \in GoodFrame
    BY <1>0 DEF GoesOn, Turns, GoodFrame, Frames
<1> HIDE DEF f
<1>2. ASSUME NEW A PROVE /\ HoldsIn(stack, A) <=> Top \in A \/ HoldsIn(Tail(stack), A)
                         /\ HoldsIn(stack', A) <=> f \in A \/ HoldsIn(Tail(stack), A)
    BY <1>0, <1>1, StackHolds
<1>3. /\ Comes(u) => HoldsIn(stack, Waiter(u))
      /\ OnceIn(semaport, {u})
      /\ u \in procured => ~ HoldsIn(semaport, {u})
    BY DEF Owed
<1>4. CASE UNCHANGED semas /\ (HoldsIn(stack', Waiter(u)) <=> HoldsIn(stack, Waiter(u)))
    BY <1>3, <1>4 DEF Keeps, Comes, semas
<1>5. Head(stack').pc = pc
    BY <1>0, <1>1, TopOfPush
<1>6. ASSUME NEW p, Goto(p) = stack' PROVE p = pc
  <2>1. stack' = <<[Top EXCEPT !.pc = p]>> \o Tail(stack)
      BY <1>6 DEF Goto, Top
  <2>2. Head(stack') = [Top EXCEPT !.pc = p]
      BY <1>0, <2>1, TopOfPush
  <2> QED BY <1>0, <1>5, <2>2 DEF GoodFrame, Frames
<1>7. CASE WaitformsgBlocks \/ WaitformsgWakes
  <2>1. UNCHANGED semas /\ Top.op = "Waitformsg"
      BY <1>7 DEF WaitformsgBlocks, WaitformsgWakes, At, Top
  <2>2. Top \notin Waiter(u) /\ f \notin Waiter(u)
      BY <1>1, <2>1 DEF Waiter, Waiters
  <2> QED BY <1>2, <1>4, <2>1, <2>2
<1>8. CASE WaitsAgain
  <2>1. Top.op = "Dodisposetask" /\ Top.pc = "redrain" /\ pc = "wait" /\ UNCHANGED semas
      BY <1>6, <1>8 DEF WaitsAgain, At, Top
  <2>2. Top \in Waiter(u) <=> f \in Waiter(u)
      BY <1>0, <1>1, <2>1 DEF Waiter, Waiters
  <2> QED BY <1>2, <1>4, <2>1, <2>2
<1>9. ASSUME Top.op = "Dodisposetask"
      PROVE  /\ t \in Task /\ ~ HoldsIn(Tail(stack), Waiter(t))
             /\ f \in Waiter(u) <=> pc \in {"wait", "redrain"} /\ u = t
             /\ \A v : Top \in Waiter(v) <=> Top.pc \in {"wait", "redrain"} /\ v = t
  <2>1. t \in Task /\ Top \in Disposer(t)
      BY <1>0, <1>9 DEF Disposer, GoodFrame
  <2>2. ~ HoldsIn(Tail(stack), Disposer(t))
      BY <1>0, <2>1, StackHolds DEF OneStoptask
  <2> QED BY <1>0, <1>1, <1>9, <2>1, <2>2 DEF Waiters, Waiter, Disposer, HoldsIn
<1>10. CASE Procures
  <2>1. /\ Top.op = "Dodisposetask" /\ Top.pc = "drain" /\ pc = "wait"
        /\ \/ semaport' = Append(semaport, t) /\ procured' = procured
           \/ procured' = procured \cup {t} /\ semaport' = semaport
      BY <1>6, <1>10 DEF Procures, At, Top
  <2>2. /\ HoldsIn(stack', Waiter(u)) <=> u = t \/ HoldsIn(stack, Waiter(u))
        /\ ~ HoldsIn(stack, Waiter(t))
      BY <1>2, <1>9, <2>1
  <2>3. ~ Comes(t)
      BY <1>9, <2>1, <2>2 DEF Owed
  <2>4. /\ HoldsIn(Append(semaport, t), {u}) <=> t = u \/ HoldsIn(semaport, {u})
        /\ OnceIn(Append(semaport, t), {u})
    <3>1. t \in {u} => ~ HoldsIn(semaport, {u})
        BY <2>3 DEF Comes
    <3>2. t \in Task
        BY <1>9, <2>1
    <3> QED BY <1>0, <1>3, <3>1, <3>2, InAdded
  <2> QED BY <1>3, <2>1, <2>2, <2>3, <2>4 DEF Comes, Keeps
<1>11. CASE StoptaskWakes
  <2>1. /\ Top.op = "Dodisposetask" /\ Top.pc = "wait" /\ procured' = procured
        /\ semaport' = IF ssig /\ semaport # <<>> THEN Tail(semaport) ELSE semaport
        /\ pc = IF Granted(t) THEN "final" ELSE IF psig THEN "redrain" ELSE "wait"
      BY <1>6, <1>11 DEF StoptaskWakes, At, Top
  <2>2. CASE ~ (ssig /\ semaport # <<>>)
    <3>1. semaport' = semaport /\ pc \in {"redrain", "wait"}
        BY <2>1, <2>2 DEF Granted
    <3> QED BY <1>2, <1>3, <1>9, <2>1, <3>1 DEF Keeps, Comes
  <2>3. CASE ssig /\ semaport # <<>>
    <3> DEFINE h == Head(semaport)
    <3>1. /\ HoldsIn(semaport, {u}) <=> h = u \/ HoldsIn(Tail(semaport), {u})
          /\ OnceIn(Tail(semaport), {u}) /\ (h = u => ~ HoldsIn(Tail(semaport), {u}))
        BY <1>0, <1>3, <2>3, InPopped
    <3>2. semaport' = Tail(semaport) /\ (Granted(t) <=> h = t)
        BY <2>1, <2>3 DEF Granted
    <3>3. CASE h = t
      <4>1. pc = "final"
          BY <2>1, <3>2, <3>3
      <4>2. HoldsIn(stack', Waiter(u)) <=> u # t /\ HoldsIn(stack, Waiter(u))
          BY <1>2, <1>9, <2>1, <4>1
      <4> QED BY <1>3, <2>1, <3>1, <3>2, <3>3, <4>2 DEF Keeps, Comes
    <3>4. CASE h # t
      <4>1. pc \in {"redrain", "wait"}
          BY <2>1, <3>2, <3>4
      <4>2. HoldsIn(stack', Waiter(u)) <=> HoldsIn(stack, Waiter(u))
          BY <1>2, <1>9, <2>1, <4>1
      <4>3. On("Dodisposetask", "wait") /\ semaport # <<>>
          BY <1>0, <2>1, <2>3 DEF On
      <4> QED BY <1>3, <2>1, <3>1, <3>2, <3>4, <4>2, <4>3 DEF Keeps, Comes
    <3> QED BY <3>3, <3>4
  <2> QED BY <2>2, <2>3
<1> QED
    BY <1>7, <1>8, <1>10, <1>11 DEF GoesOn

\* Every step keeps the grants, and owes none to anybody who does not wait.
LEMMA OwedInductive ==
    /\ Init => Owed
    /\ TypeInv /\ OneStoptask /\ Owed /\ [Next]_vars => Owed' /\ \A t \in Task : Keeps(t)
<1>1. Init => Owed
    BY InEmpty DEF Init, Owed, Comes
<1>2. ASSUME TypeInv, Owed, NEW s \in Task, SubtaskStep(s), NEW u \in Task
      PROVE  /\ u \in procured' \/ HoldsIn(semaport', {u}) => HoldsIn(stack', Waiter(u))
             /\ OnceIn(semaport', {u})
             /\ u \in procured' => ~ HoldsIn(semaport', {u})
             /\ Keeps(u)
  <2>1. stack' = stack
      BY <1>2, SubtaskEffect DEF TypeInv
  <2>2. /\ Comes(u) => HoldsIn(stack, Waiter(u))
        /\ OnceIn(semaport, {u})
        /\ u \in procured => ~ HoldsIn(semaport, {u})
        /\ s \in procured => ~ HoldsIn(semaport, {s})
      BY <1>2 DEF Owed
  <2>3. CASE UNCHANGED semas
      BY <2>1, <2>2, <2>3 DEF Keeps, Comes, semas
  <2>4. CASE Ends(s)
    <3>1. /\ procured' = procured \ {s}
          /\ \/ s \in procured /\ semaport' = Append(semaport, s)
             \/ s \notin procured /\ semaport' = semaport
        BY <2>4 DEF Ends, GoesToMain
    <3>2. ASSUME s \in procured
          PROVE  /\ HoldsIn(Append(semaport, s), {u}) <=> s = u \/ HoldsIn(semaport, {u})
                 /\ OnceIn(Append(semaport, s), {u})
      <4>1. s \in {u} => ~ HoldsIn(semaport, {u})
          BY <2>2, <3>2
      <4>2. semaport \in Seq(Task)
          BY <1>2 DEF TypeInv, Typed
      <4> QED BY <2>2, <4>1, <4>2, InAdded
    <3> QED BY <2>1, <2>2, <3>1, <3>2 DEF Keeps, Comes
  <2> QED BY <1>2, <2>3, <2>4, SubtaskSignals
<1>3. ASSUME TypeInv, Owed, MainShape,
             ~ \E pc \in {"scan", "blocked", "wait", "redrain", "final"} : GoesOn(pc), NEW u \in Task
      PROVE  /\ u \in procured' \/ HoldsIn(semaport', {u}) => HoldsIn(stack', Waiter(u))
             /\ OnceIn(semaport', {u})
             /\ u \in procured' => ~ HoldsIn(semaport', {u})
             /\ Keeps(u)
  <2>1. UNCHANGED semas /\ (HoldsIn(stack', Waiter(u)) <=> HoldsIn(stack, Waiter(u)))
    <3>1. Waiter(u) \subseteq Waiters
        BY DEF Waiter
    <3> QED BY <1>3, <3>1, WaitersStay
  <2> QED BY <1>3, <2>1 DEF Owed, Keeps, Comes, semas
<1> QED
    BY <1>1, <1>2, <1>3, OwedGoesOn, StepShape DEF Owed, Comes, Waiter, Waiters

\* What the properties say in these terms.
LEMMA StoppingWaits ==
    ASSUME Typed, NEW t \in Task
    PROVE  /\ Stopping(t) <=> HoldsIn(stack, Waiter(t))
           /\ Coming(t) <=> Comes(t)
<1>1. \A i \in DOMAIN stack : stack[i] \in GoodFrame
    BY DEF Typed
<1>2. Stopping(t) <=> HoldsIn(stack, Waiter(t))
    BY <1>1 DEF Stopping, HoldsIn, Waiter, Waiters
<1>3. Coming(t) <=> Comes(t)
    BY DEF Coming, Comes, HoldsIn, Range
<1> QED
    BY <1>2, <1>3

\* The wait of Stoptask keeps its grant whatever else main does meanwhile, unless
\* a Stoptask of another task that was begun on top of it takes the grant out of
\* semaport, as task.c:497 does. No other nesting of calls, no signal and no end of
\* a subtask loses a grant, with any number of tasks and in any depth.
THEOREM GrantIsNotLost == Spec => GrantIsKept
<1>1. ASSUME TypeInv, TypeInv', OneStoptask, Owed, [Next]_vars
      PROVE  [\A t \in Task : Stopping(t)' =>
                \/ Coming(t)'
                \/ Stopping(t) /\ ~Coming(t)
                \/ /\ Stopping(t) /\ At("Dodisposetask", "wait") /\ Head(stack).task # t
                   /\ semaport # <<>> /\ Head(semaport) = t]_vars
  <2>1. ASSUME NEW t \in Task, Stopping(t)'
        PROVE  \/ Coming(t)'
               \/ Stopping(t) /\ ~Coming(t)
               \/ /\ Stopping(t) /\ At("Dodisposetask", "wait") /\ Head(stack).task # t
                  /\ semaport # <<>> /\ Head(semaport) = t
    <3>1. Keeps(t)
        BY <1>1, OwedInductive
    <3>2. (Stopping(t) <=> HoldsIn(stack, Waiter(t))) /\ (Coming(t) <=> Comes(t))
        BY <1>1, StoppingWaits DEF TypeInv
    <3>3. HoldsIn(stack, Waiter(t))' /\ (Coming(t)' <=> Comes(t)')
        BY <1>1, <2>1, StoppingWaits, PTL DEF TypeInv
    <3> QED BY <3>1, <3>2, <3>3 DEF Keeps, Comes, On, At, Top, Waiter, Waiters
  <2> QED BY <2>1
<1> QED
    BY <1>1, OneStoptaskInductive, OwedInductive, LifeInductive, InitTypeInv, NextTypeInv, PTL
       DEF Spec, GrantIsKept

\* No grant is queued or delivered for a Stoptask that is over: main never has a
\* runsema to take that nobody waits for, whose SemaphoreMessage was on the stack of
\* a call that has returned; and none is queued or delivered twice.
THEOREM GrantsAreAwaited == Spec => []GrantHasItsWaiter
<1>1. TypeInv /\ Owed => GrantHasItsWaiter
  <2> SUFFICES ASSUME TypeInv, Owed PROVE GrantHasItsWaiter
      OBVIOUS
  <2>1. \A t \in Task : /\ Stopping(t) <=> HoldsIn(stack, Waiter(t))
                        /\ Coming(t) <=> Comes(t)
      BY StoppingWaits DEF TypeInv
  <2>2. semaport \in Seq(Task)
      BY DEF TypeInv, Typed
  <2>3. ASSUME NEW i \in DOMAIN semaport, NEW j \in DOMAIN semaport, semaport[i] = semaport[j]
        PROVE  i = j
    <3>1. semaport[i] \in Task
        BY <2>2
    <3>2. OnceIn(semaport, {semaport[i]})
        BY <3>1 DEF Owed
    <3> QED BY <2>3, <3>2 DEF OnceIn
  <2>4. procured \cap Range(semaport) = {}
    <3>1. procured \subseteq Task
        BY DEF TypeInv, Typed
    <3>2. \A t \in Task : t \in Range(semaport) <=> HoldsIn(semaport, {t})
        BY DEF HoldsIn, Range
    <3> QED BY <3>1, <3>2 DEF Owed
  <2> QED BY <2>1, <2>3, <2>4 DEF GrantHasItsWaiter, Owed
<1> QED
    BY <1>1, OneStoptaskInductive, OwedInductive, LifeInductive, InitTypeInv, NextTypeInv, PTL DEF Spec

-----------------------------------------------------------------------------
(* The signals main waits for *)

\* The activations that set the signal of taskport again before they end, and
\* those in which main sleeps.
Setters == {f \in GoodFrame : \/ f.op \in {"Processtask", "Waitformsg"}
                              \/ f.op = "Dodisposetask" /\ f.pc \in {"wait", "redrain"}}
Sleepers == {f \in GoodFrame : f.pc \in {"blocked", "wait"}}

\* A message in taskport has its signal set, or seen, or somebody who will set it
\* again; only the innermost activation sleeps; it does not sleep over a message
\* that it would process.
Signalled ==
    /\ port # <<>> => psig \/ mask \/ HoldsIn(stack, Setters)
    /\ stack # <<>> => ~ HoldsIn(Tail(stack), Sleepers)
    /\ On("Waitformsg", "blocked") /\ Awaited # {} => psig
    /\ On("Dodisposetask", "wait") /\ Repliesof(Top.task) # {} => psig

\* A step after which main does not sleep needs only the signal.
LEMMA NotAsleep ==
    ASSUME TypeInv, Signalled, MainShape,
           port # <<>> => psig' \/ mask' \/ HoldsIn(stack', Setters),
           \/ stack # <<>> /\ stack' = Tail(stack)
           \/ \E f : /\ Pushes(f) /\ f \notin Sleepers /\ f \in GoodFrame
                     /\ stack # <<>> => Top \notin Sleepers
           \/ \E f : stack # <<>> /\ stack' = <<f>> \o Tail(stack) /\ f \notin Sleepers /\ f \in GoodFrame
           \/ \E f : stack = <<>> /\ stack' = <<f>> \o <<Loop>> /\ f \notin Sleepers /\ f \in GoodFrame
    PROVE  Signalled'
<1>0. /\ Typed /\ stack \in Seq(GoodFrame)
      /\ stack # <<>> => Top \in GoodFrame /\ Tail(stack) \in Seq(GoodFrame)
    BY TopType DEF TypeInv, Typed, Top
<1>1. port' # <<>> => port # <<>>
  <2>1. \A i \in DOMAIN port : port # <<>>
      OBVIOUS
  <2> QED BY <2>1, MainPort
<1>2. ASSUME stack' # <<>> => /\ Head(stack') \in GoodFrame \ Sleepers
                              /\ ~ HoldsIn(Tail(stack'), Sleepers)
      PROVE  Signalled'
  <2>1. stack' # <<>> => Head(stack').pc \notin {"blocked", "wait"}
      BY <1>2 DEF Sleepers
  <2>2. ~ On("Waitformsg", "blocked")' /\ ~ On("Dodisposetask", "wait")'
      BY <2>1 DEF On, Top
  <2>3. /\ port' # <<>> => psig' \/ mask' \/ HoldsIn(stack', Setters)
        /\ stack' # <<>> => ~ HoldsIn(Tail(stack'), Sleepers)
      BY <1>1, <1>2
  <2> QED BY <2>2, <2>3 DEF Signalled, Setters, Sleepers
<1>3. CASE stack # <<>> /\ stack' = Tail(stack)
  <2>1. ~ HoldsIn(Tail(stack), Sleepers)
      BY <1>3 DEF Signalled
  <2>2. stack' # <<>> =>
          /\ Head(stack') \in GoodFrame
          /\ HoldsIn(stack', Sleepers) <=> Head(stack') \in Sleepers \/ HoldsIn(Tail(stack'), Sleepers)
      BY <1>0, <1>3, InPopped, HeadTailProperties
  <2> QED BY <1>2, <1>3, <2>1, <2>2
<1>4. ASSUME NEW f, Pushes(f), f \notin Sleepers, f \in GoodFrame, stack # <<>> => Top \notin Sleepers
      PROVE  Signalled'
  <2>1. stack' # <<>> /\ Head(stack') = f /\ Tail(stack') = stack
      BY <1>0, <1>4, TopOfPush DEF Pushes
  <2>2. ~ HoldsIn(stack, Sleepers)
      BY <1>0, <1>4, StackHolds, InEmpty DEF Signalled
  <2> QED BY <1>2, <1>4, <2>1, <2>2
<1>5. ASSUME NEW f, stack # <<>>, stack' = <<f>> \o Tail(stack), f \notin Sleepers, f \in GoodFrame
      PROVE  Signalled'
  <2>1. stack' # <<>> /\ Head(stack') = f /\ Tail(stack') = Tail(stack)
      BY <1>0, <1>5, TopOfPush
  <2> QED BY <1>2, <1>5, <2>1 DEF Signalled
<1>6. ASSUME NEW f, stack' = <<f>> \o <<Loop>>, f \notin Sleepers, f \in GoodFrame
      PROVE  Signalled'
  <2>1. Loop \notin Sleepers /\ <<Loop>> \in Seq({Loop})
      BY DEF Loop, Frame, Sleepers
  <2>2. stack' # <<>> /\ Head(stack') = f /\ Tail(stack') = <<Loop>>
      BY <1>6, <2>1, TopOfPush
  <2> QED BY <1>2, <1>6, <2>1, <2>2 DEF HoldsIn
<1> QED
    BY <1>3, <1>4, <1>5, <1>6

\* Main's steps set the signal where it is needed.
LEMMA SignalledMain ==
    ASSUME TypeInv, Signalled, MainShape
    PROVE  Signalled'
<1> DEFINE Still == port # <<>> => psig' \/ mask' \/ HoldsIn(stack', Setters)
           f(pc) == [Top EXCEPT !.pc = pc]
<1>0. /\ Typed /\ stack \in Seq(GoodFrame)
      /\ stack # <<>> => Top \in GoodFrame /\ Tail(stack) \in Seq(GoodFrame)
    BY TopType DEF TypeInv, Typed, Top
<1>1. port # <<>> => psig \/ mask \/ HoldsIn(stack, Setters)
    BY DEF Signalled
<1>2. ASSUME UNCHANGED <<port, stack>>, UNCHANGED <<psig, mask>> \/ (stack = <<>> /\ mask') PROVE Signalled'
    BY <1>2 DEF Signalled, On, Top, Awaited, Repliesof, Setters, Sleepers
\* A push, a pop and another frame in place.
<1>3. ASSUME NEW g, Pushes(g), UNCHANGED <<psig, mask>>, g \in GoodFrame, g \notin Sleepers,
             stack # <<>> => Top \notin Sleepers
      PROVE  Signalled'
  <2>1. HoldsIn(stack, Setters) => HoldsIn(stack', Setters)
      BY <1>0, <1>3, StackHolds DEF Pushes
  <2> QED BY <1>1, <1>3, <2>1, NotAsleep
<1>4. ASSUME stack # <<>>, stack' = Tail(stack), psig' \/ (UNCHANGED <<psig, mask>> /\ Top \notin Setters)
      PROVE  Signalled'
  <2>1. Top \notin Setters /\ HoldsIn(stack, Setters) => HoldsIn(stack', Setters)
      BY <1>0, <1>4, StackHolds
  <2> QED BY <1>1, <1>4, <2>1, NotAsleep
<1>5. ASSUME NEW g, stack # <<>>, stack' = <<g>> \o Tail(stack), g \in GoodFrame, g \notin Sleepers,
             psig' \/ g \in Setters \/ (UNCHANGED <<psig, mask>> /\ Top \notin Setters)
      PROVE  Signalled'
  <2>1. /\ g \in Setters => HoldsIn(stack', Setters)
        /\ Top \notin Setters /\ HoldsIn(stack, Setters) => HoldsIn(stack', Setters)
      BY <1>0, <1>5, StackHolds
  <2> QED BY <1>1, <1>5, <2>1, NotAsleep
<1>6. CASE Rests \/ \E t \in Task : Creates(t) \/ Defers(t)
    BY <1>2, <1>6 DEF Rests, Creates, Defers, Quiet
<1>7. CASE LoopsIdly
  <2>1. Pushes(Loop) /\ port = <<>> /\ stack = <<>>
      BY <1>7 DEF LoopsIdly, Pushes
  <2>2. Loop \in GoodFrame /\ Loop \notin Sleepers
      BY DEF Loop, Frame, GoodFrame, Frames, NoMsg, Msg, Message, Kinds, Sleepers
  <2> QED BY <2>1, <2>2, NotAsleep
<1>8. CASE Leaves
  <2>1. stack # <<>> /\ stack' = Tail(stack) /\ mask' = mask
        /\ \/ psig' = (psig \/ port # <<>>) /\ port' = port
           \/ psig' = psig /\ Top \notin Setters
           \/ psig'
      BY <1>8 DEF Leaves, On, Setters
  <2>2. CASE psig' = (psig \/ port # <<>>)
      BY <2>1, <2>2, NotAsleep
  <2> QED BY <1>4, <2>1, <2>2
<1>9. CASE FreesTask
    BY <1>4, <1>9 DEF FreesTask, On, Setters, Quiet
<1>10. ASSUME NEW i \in DOMAIN port, NEW below \in Seq(GoodFrame), Takes(i, below) PROVE Signalled'
  <2> DEFINE g == Frame("Processreply", port[i].task, port[i], "begin")
  <2>1. stack' = <<g>> \o below /\ g \in GoodFrame /\ g \notin Sleepers
      BY <1>10 DEF Takes, TakeReply, Frame, Sleepers, GoodFrame, Frames, GoodMsg, Message
  <2> HIDE DEF g
  <2>2. CASE stack = <<>> /\ below = <<Loop>>
    <3>1. Loop \in Setters
        BY DEF Loop, Frame, Setters, GoodFrame, Frames, NoMsg, Msg, Message, Kinds
    <3>2. <<Loop>> \in Seq({Loop}) /\ HoldsIn(<<Loop>>, Setters)
        BY <3>1 DEF HoldsIn
    <3>3. HoldsIn(stack', Setters)
        BY <2>1, <2>2, <3>2, InPushed
    <3> QED BY <2>1, <2>2, <3>3, NotAsleep
  <2>3. CASE below = stack /\ UNCHANGED <<psig, mask>> /\ stack # <<>> /\ Top.pc \in {"scan", "drain", "redrain", "final"}
      BY <1>3, <2>1, <2>3 DEF Pushes, Sleepers
  <2>4. CASE stack # <<>> /\ below = Tail(stack) /\ psig'
      BY <1>5, <2>1, <2>4
  <2> QED BY <1>10, <2>2, <2>3, <2>4 DEF Takes, On
<1>11. ASSUME stack # <<>>,
              NEW pc \in {"begin", "handler", "end", "scan", "blocked", "drain", "wait", "redrain", "final"}
       PROVE  /\ f(pc) \in GoodFrame /\ f(pc).op = Top.op /\ f(pc).task = Top.task
              /\ f(pc).msg = Top.msg /\ f(pc).pc = pc
    BY <1>0, <1>11 DEF GoodFrame, Frames
<1>12. ASSUME CallsHandler \/ CallsNobody \/ LeavesHandler PROVE Signalled'
  <2>1. /\ stack # <<>> /\ Top \notin Setters /\ UNCHANGED <<psig, mask>>
        /\ \E pc \in {"handler", "end"} : stack' = <<f(pc)>> \o Tail(stack)
      BY <1>12 DEF CallsHandler, CallsNobody, LeavesHandler, On, Turns, Quiet, Setters
  <2>2. \A pc \in {"handler", "end"} : f(pc) \in GoodFrame \ Sleepers
      BY <1>11, <2>1 DEF Sleepers
  <2> HIDE DEF f
  <2> QED BY <1>5, <2>1, <2>2
<1>13. CASE DisposesLate
  <2> DEFINE g == Frame("Dodisposetask", Top.task, NoMsg, "drain")
  <2>1. /\ stack # <<>> /\ Top \notin Setters /\ UNCHANGED <<psig, mask>> /\ Top.task \in Task
        /\ stack' = <<g>> \o Tail(stack)
      BY <1>0, <1>13 DEF DisposesLate, On, Quiet, Setters, GoodFrame
  <2>2. g \in GoodFrame \ Sleepers
      BY <2>1 DEF Frame, GoodFrame, Frames, NoMsg, Msg, Message, Kinds, Sleepers
  <2> HIDE DEF g
  <2> QED BY <1>5, <2>1, <2>2
<1>14. ASSUME stack = <<>> \/ On("Processreply", "handler") PROVE stack # <<>> => Top \notin Sleepers
    BY <1>14 DEF On, Sleepers
<1>15. ASSUME NEW t \in Task, Starts(t) \/ DisposesNow(t) PROVE Signalled'
  <2>1. PICK g \in {Frame("Waitformsg", t, Startup, "scan"), Frame("Dodisposetask", t, NoMsg, "drain")} : Pushes(g)
      BY <1>15 DEF Starts, DisposesNow
  <2>2. g \in GoodFrame /\ g \notin Sleepers
    <3>1. /\ Frame("Waitformsg", t, Startup, "scan") \in GoodFrame
          /\ Frame("Waitformsg", t, Startup, "scan") \notin Sleepers
        BY DEF Frame, GoodFrame, Frames, Startup, Msg, Message, Kinds, Sleepers
    <3>2. /\ Frame("Dodisposetask", t, NoMsg, "drain") \in GoodFrame
          /\ Frame("Dodisposetask", t, NoMsg, "drain") \notin Sleepers
        BY DEF Frame, GoodFrame, Frames, NoMsg, Msg, Message, Kinds, Sleepers
    <3> QED BY <2>1, <3>1, <3>2
  <2>3. UNCHANGED <<psig, mask>> /\ (stack = <<>> \/ On("Processreply", "handler"))
      BY <1>15 DEF Starts, DisposesNow, Quiet, Caller, May, At, On, Top
  <2> QED BY <1>3, <1>14, <2>1, <2>2, <2>3
<1>16. ASSUME NEW t \in Task, NEW m \in GoodMsg, NEW possible \in BOOLEAN, NEW wait \in BOOLEAN,
              Sends(t, m, possible, wait)
       PROVE  Signalled'
  <2>1. /\ UNCHANGED <<psig, mask, port>> /\ (stack = <<>> \/ On("Processreply", "handler"))
        /\ \/ stack' = stack
           \/ \E g : Pushes(g) /\ g \in {Frame("Waitformsg", t, m, "scan"), Frame("Processreply", t, m, "begin")}
      BY <1>16 DEF Sends, Quiet
  <2>2. \A g \in {Frame("Waitformsg", t, m, "scan"), Frame("Processreply", t, m, "begin")} :
            g \in GoodFrame /\ g \notin Sleepers
      BY DEF Frame, GoodFrame, Frames, GoodMsg, Message, Sleepers
  <2> QED BY <1>2, <1>3, <1>14, <2>1, <2>2
\* The waits.
<1>17. ASSUME NEW pc \in {"blocked", "wait"}, stack # <<>>, stack' = <<f(pc)>> \o Tail(stack), f(pc) \in Setters,
              pc = "blocked" => Awaited = {}, pc = "wait" => NothingLeft(Top.task), UNCHANGED port
       PROVE  Signalled'
  <2>1. /\ f(pc) \in GoodFrame /\ f(pc).op = Top.op /\ f(pc).task = Top.task
        /\ f(pc).msg = Top.msg /\ f(pc).pc = pc
      BY <1>11, <1>17
  <2> DEFINE g == f(pc)
  <2> HIDE DEF f, g
  <2>2. stack' # <<>> /\ Head(stack') = g /\ Tail(stack') = Tail(stack) /\ HoldsIn(stack', Setters)
      BY <1>0, <1>17, StackHolds, TopOfPush DEF g
  <2>3. pc = "blocked" => Awaited' = {}
      BY <1>17, <2>1, <2>2 DEF Awaited, Top, g
  <2>4. pc = "wait" => {i \in DOMAIN port' : port'[i].task = Head(stack').task} = {}
      BY <1>17, <2>1, <2>2 DEF Repliesof, NothingLeft, Top, g
  <2>5. /\ On("Waitformsg", "blocked")' => pc = "blocked"
        /\ On("Dodisposetask", "wait")' => pc = "wait"
      BY <2>1, <2>2 DEF On, Top, g
  <2>6. /\ HoldsIn(stack', Setters) /\ ~ HoldsIn(Tail(stack'), Sleepers)
      BY <1>17, <2>2 DEF Signalled
  <2>7. On("Waitformsg", "blocked")' => Awaited' = {}
      BY <2>3, <2>5
  <2>8. On("Dodisposetask", "wait")' => Repliesof(Top.task)' = {}
      BY <2>4, <2>5 DEF Repliesof, Top
  <2> QED BY <2>6, <2>7, <2>8 DEF Signalled, Setters, Sleepers
<1>18. ASSUME NEW pc \in {"scan", "blocked", "wait", "redrain", "final"}, GoesOn(pc) PROVE Signalled'
  <2>1. CASE WaitformsgBlocks
    <3>1. /\ stack # <<>> /\ stack' = <<f("blocked")>> \o Tail(stack) /\ Awaited = {} /\ UNCHANGED port
          /\ Top.op = "Waitformsg"
        BY <2>1 DEF WaitformsgBlocks, At, Goto, Top, taskport
    <3>2. f("blocked") \in Setters
        BY <1>11, <3>1 DEF Setters
    <3> QED BY <1>17, <3>1, <3>2
  <2>2. CASE WaitformsgWakes
    <3>1. stack # <<>> /\ stack' = <<f("scan")>> \o Tail(stack) /\ Top.op = "Waitformsg"
        BY <2>2 DEF WaitformsgWakes, At, Goto, Top
    <3>2. f("scan") \in Setters /\ f("scan") \in GoodFrame /\ f("scan") \notin Sleepers
        BY <1>11, <3>1 DEF Setters, Sleepers
    <3> HIDE DEF f
    <3> QED BY <1>5, <3>1, <3>2
  <2>3. CASE Procures \/ WaitsAgain
    <3>1. /\ stack # <<>> /\ stack' = <<f("wait")>> \o Tail(stack) /\ NothingLeft(Top.task) /\ UNCHANGED port
          /\ Top.op = "Dodisposetask"
        BY <2>3 DEF Procures, WaitsAgain, At, Goto, Top, taskport
    <3>2. f("wait") \in Setters
        BY <1>11, <3>1 DEF Setters
    <3> QED BY <1>17, <3>1, <3>2
  <2>4. CASE StoptaskWakes
    <3>1. /\ stack # <<>> /\ Top.op = "Dodisposetask" /\ Top.pc = "wait" /\ UNCHANGED port
          /\ \/ psig' /\ stack' = <<f("final")>> \o Tail(stack)
             \/ stack' = <<f("redrain")>> \o Tail(stack)
             \/ ~psig /\ stack' = <<f("wait")>> \o Tail(stack)
        BY <2>4 DEF StoptaskWakes, At, Goto, Top
    <3>2. /\ f("final") \in GoodFrame /\ f("final") \notin Sleepers
          /\ f("redrain") \in GoodFrame /\ f("redrain") \notin Sleepers /\ f("redrain") \in Setters
          /\ f("wait") \in Setters
        BY <1>11, <3>1 DEF Setters, Sleepers
    <3>3. ~psig => NothingLeft(Top.task)
        BY <3>1 DEF Signalled, On, NothingLeft
    <3> HIDE DEF f
    <3> QED BY <1>5, <1>17, <3>1, <3>2, <3>3
  <2> QED BY <1>18, <2>1, <2>2, <2>3, <2>4 DEF GoesOn
<1> QED
    BY <1>6, <1>7, <1>8, <1>9, <1>10, <1>12, <1>13, <1>15, <1>16, <1>18 DEF MainShape

\* So do all steps, from the initial state.
LEMMA SignalledInductive ==
    /\ Init => Signalled
    /\ TypeInv /\ Signalled /\ [Next]_vars => Signalled'
<1>1. Init => Signalled
    BY DEF Init, Signalled, On
<1>2. ASSUME TypeInv, Signalled, NEW u \in Task, SubtaskStep(u) PROVE Signalled'
  <2>1. UNCHANGED <<mask, stack>> /\ ((port' = port /\ psig' = psig) \/ psig')
      BY <1>2, SubtaskEffect, SubtaskSignals DEF TypeInv
  <2>2. CASE psig'
      BY <1>2, <2>1, <2>2 DEF Signalled, Sleepers
  <2>3. CASE port' = port /\ psig' = psig
      BY <1>2, <2>1, <2>3 DEF Signalled, On, Top, Awaited, Repliesof, Setters, Sleepers
  <2> QED BY <2>1, <2>2, <2>3
<1> QED
    BY <1>1, <1>2, SignalledMain, StepShape

\* Main never sleeps over a message of taskport that it would process, nor over the
\* grant of the runsema it waits for: the signal it waits for is set. The part about
\* taskport needs no hypothesis.
THEOREM MainIsAwake ==
    ASSUME DisposesOutside \/ (NoWaits /\ DisposesOwn)
    PROVE  Spec => []MainIsSignalled
<1>1. TypeInv /\ Granting /\ Signalled => MainIsSignalled
  <2> SUFFICES ASSUME TypeInv, Granting, Signalled PROVE MainIsSignalled
      OBVIOUS
  <2>1. stack = <<>> /\ quitting = "no" /\ port # <<>> => psig \/ mask
      BY InEmpty DEF Signalled
  <2>2. At("Waitformsg", "blocked") /\ Awaited # {} => psig
      BY DEF Signalled, At, On, Top
  <2>3. ASSUME At("Dodisposetask", "wait")
        PROVE  /\ Repliesof(Head(stack).task) # {} => psig
               /\ Head(stack).task \in Range(semaport) => ssig
    <3>1. Repliesof(Head(stack).task) # {} => psig
        BY <2>3 DEF Signalled, At, On, Top
    <3>2. Head(stack) \in GoodFrame /\ Head(stack).task \in Task /\ stack \in Seq(GoodFrame)
        BY <2>3, TopType DEF TypeInv, Typed, At, GoodFrame
    <3>3. HoldsIn(stack, Waiter(Head(stack).task))
        BY <2>3, <3>2, InPopped DEF At, Waiter, Waiters
    <3>4. Range(<<>>) = {}
        BY DEF Range
    <3> QED BY <3>1, <3>2, <3>3, <3>4 DEF Granting
  <2> QED BY <2>1, <2>2, <2>3 DEF MainIsSignalled
<1> QED
    BY <1>1, OneDisposer, GrantingInductive, SignalledInductive, PTL DEF Spec

-----------------------------------------------------------------------------
(* The messages that main waits for *)

\* A message of main to the subtask of t is in taskport, in its port or held.
Exists(t, m) == HoldsIn(port, {m}) \/ HoldsIn(proc[t].port, {m}) \/ proc[t].held = m

\* No step of a subtask loses one.
LEMMA SubtaskHands ==
    ASSUME TypeInv, Carried, NEW t \in Task, NEW u \in Task, SubtaskStep(u),
           NEW m \in MessagesTo(t), Exists(t, m)
    PROVE  Exists(t, m)'
<1>0. /\ Typed /\ proc \in [Task -> GoodProc] /\ proc[t] \in GoodProc /\ Carries(t) /\ port \in Seq(Message)
      /\ m # NoMsg /\ m.task = t /\ m.task \in Task
    BY ConstantsAssumption DEF TypeInv, Typed, Carried, MessagesTo, NoMsg, Msg
<1>1. \A x : /\ HoldsIn(Append(port, x), {m}) => x = m \/ HoldsIn(port, {m})
             /\ x \in Message => (HoldsIn(Append(port, x), {m}) <=> HoldsIn(port, {m}) \/ x = m)
  <2>1. ASSUME NEW x \in Message PROVE HoldsIn(Append(port, x), {m}) <=> HoldsIn(port, {m}) \/ x = m
      BY <1>0, InAdded
  <2>2. ASSUME NEW x, HoldsIn(Append(port, x), {m}) PROVE x = m \/ HoldsIn(port, {m})
    <3> DEFINE S == Message \cup {x}
    <3>1. port \in Seq(S) /\ x \in S
        BY <1>0, SeqMonotonic
    <3> HIDE DEF S
    <3> QED BY <2>2, <3>1, InAdded
  <2> QED BY <2>1, <2>2
<1>2. GoodMsg \subseteq Message /\ Startup \in Message
    BY DEF GoodMsg, Message, Startup, Msg, Kinds
<1>3. port' = port \/ \E x \in Message : port' = Append(port, x)
    BY <1>0, <1>2, SubtaskEffect
<1>4. HoldsIn(port, {m}) => HoldsIn(port', {m})
    BY <1>1, <1>3
<1>5. CASE u # t
  <2>1. proc'[t] = proc[t]
      BY <1>0, <1>5, SubtaskEffect
  <2> QED BY <1>4, <2>1 DEF Exists
<1>6. ASSUME u = t, proc'[t].port = proc[t].port, proc'[t].held = proc[t].held PROVE Exists(t, m)'
    BY <1>4, <1>6 DEF Exists
<1>7. CASE u = t /\ Answers(t)
  <2>1. PICK i \in First(OwnAnswers(t)) :
            /\ port' = Append(port, proc[t].port[i])
            /\ proc' = [proc EXCEPT ![t].port = Without(@, i),
                          ![t].suspend = (proc[t].port[i].kind = "suspend")
                                  \/ (@ /\ proc[t].port[i].kind # "release")]
      BY <1>7 DEF Answers, MovesAndPuts, PutPort
  <2>2. i \in DOMAIN proc[t].port
      BY DEF First, OwnAnswers
  <2>3. proc'[t].port = Without(proc[t].port, i) /\ proc'[t].held = proc[t].held
      BY <1>0, <2>1 DEF GoodProc
  <2>4. HoldsIn(proc[t].port, {m}) => proc[t].port[i] = m \/ HoldsIn(Without(proc[t].port, i), {m})
      BY <1>0, <2>2, InTaken DEF Carries
  <2>5. proc[t].port[i] \in Message
      BY <1>0, <1>2, <2>2 DEF GoodProc
  <2> QED BY <1>1, <1>4, <2>1, <2>3, <2>4, <2>5 DEF Exists
<1>8. CASE u = t /\ GetMsg(t)
  <2>1. CASE proc[t].port = <<>>
    <3>1. proc'[t].port = proc[t].port /\ proc'[t].held = proc[t].held
        BY <1>0, <1>8, <2>1 DEF GetMsg, Moves, GoodProc
    <3> QED BY <1>6, <1>8, <3>1
  <2>2. CASE proc[t].port # <<>>
    <3>1. proc' = [proc EXCEPT ![t] = [proc[t] EXCEPT !.at = "run",
                          !.held = Head(proc[t].port), !.port = Tail(@)]] /\ proc[t].at = "getmsg"
        BY <1>8, <2>2 DEF GetMsg, Moves
    <3>2. proc'[t].port = Tail(proc[t].port) /\ proc'[t].held = Head(proc[t].port) /\ proc[t].held # m
        BY <1>0, <3>1 DEF GoodProc, Carries
    <3>3. HoldsIn(proc[t].port, {m}) => Head(proc[t].port) = m \/ HoldsIn(Tail(proc[t].port), {m})
        BY <1>0, <2>2, InPopped DEF Carries
    <3> QED BY <1>4, <3>2, <3>3 DEF Exists
  <2> QED BY <2>1, <2>2
<1>9. CASE u = t /\ Replytaskmsg(t)
  <2>1. /\ proc'[t].port = proc[t].port /\ port' = Append(port, proc[t].held) /\ proc[t].held \in Message
      BY <1>0, <1>2, <1>9 DEF Replytaskmsg, MovesAndPuts, PutPort, GoodProc
  <2> QED BY <1>1, <1>4, <2>1 DEF Exists
<1>10. CASE u = t /\ Drains(t)
  <2>1. proc' = [proc EXCEPT ![t] = [proc[t] EXCEPT !.port = Tail(@)]]
        /\ port' = Append(port, Head(proc[t].port)) /\ proc[t].port # <<>>
      BY <1>10 DEF Drains, MovesAndPuts, PutPort
  <2>2. /\ proc'[t].port = Tail(proc[t].port) /\ proc'[t].held = proc[t].held
        /\ Head(proc[t].port) \in Message
      BY <1>0, <1>2, <2>1, HeadTailProperties DEF GoodProc
  <2>3. HoldsIn(proc[t].port, {m}) => Head(proc[t].port) = m \/ HoldsIn(Tail(proc[t].port), {m})
      BY <1>0, <2>1, InPopped DEF Carries
  <2> QED BY <1>1, <1>4, <2>1, <2>2, <2>3 DEF Exists
<1>11. CASE u = t /\ ~ (Answers(t) \/ GetMsg(t) \/ Replytaskmsg(t) \/ Drains(t))
  <2>1. \/ Subtask(t) \/ Waittask(t) \/ (\E own \in BOOLEAN : Wakes(t, own)) \/ Gettaskmsg(t) \/ ScanEnds(t)
        \/ ScanWakes(t) \/ UpdateReplied(t) \/ Finishes(t) \/ Returns(t)
        \/ (\E async \in BOOLEAN : Updatetask(t, async)) \/ Dies(t) \/ Ends(t)
      BY <1>11 DEF SubtaskStep
  <2>2. proc'[t].port = proc[t].port /\ proc'[t].held = proc[t].held
    <3> USE DEF Moves, MovesAndPuts, GoodProc
    <3>1. CASE Subtask(t) \/ Dies(t) \/ Ends(t)
        BY <1>0, <3>1 DEF Subtask, Dies, Ends
    <3>2. ASSUME NEW rec, proc' = [proc EXCEPT ![t] = rec], rec.port = proc[t].port, rec.held = proc[t].held
          PROVE  proc'[t].port = proc[t].port /\ proc'[t].held = proc[t].held
        BY <1>0, <3>2
    <3>3. CASE Waittask(t)
        BY <1>0, <3>2, <3>3 DEF Waittask
    <3>4. CASE \E own \in BOOLEAN : Wakes(t, own)
        BY <1>0, <3>2, <3>4 DEF Wakes
    <3>6. CASE ScanEnds(t)
        BY <1>0, <3>2, <3>6 DEF ScanEnds
    <3>7. CASE Gettaskmsg(t)
        BY <1>0, <3>2, <3>7 DEF Gettaskmsg
    <3>8. CASE ScanWakes(t)
        BY <1>0, <3>2, <3>8 DEF ScanWakes
    <3>9. CASE UpdateReplied(t)
        BY <1>0, <3>2, <3>9 DEF UpdateReplied
    <3>10. CASE Finishes(t)
        BY <1>0, <3>2, <3>10 DEF Finishes
    <3>11. CASE Returns(t)
        BY <1>0, <3>2, <3>11 DEF Returns
    <3>5. CASE \E async \in BOOLEAN : Updatetask(t, async)
        BY <1>0, <3>5 DEF Updatetask
    <3> QED BY <2>1, <3>1, <3>3, <3>4, <3>5, <3>6, <3>7, <3>8, <3>9, <3>10, <3>11
  <2> QED BY <1>6, <1>11, <2>2
<1> QED
    BY <1>5, <1>7, <1>8, <1>9, <1>10, <1>11

\* The waits for the startup message, and those for another message.
Starters == {f \in GoodFrame : f.op = "Waitformsg" /\ f.msg = Startup}
Waits == {f \in GoodFrame : f.op = "Waitformsg" /\ f.msg # Startup}

\* Nothing runs above Starttask's wait, whose message will come or is there.
StartupComes ==
    stack # <<>> =>
        /\ ~ HoldsIn(Tail(stack), Starters)
        /\ Top \in Starters => proc[Top.task].at = "created" \/ HoldsIn(port, {Startup})

\* Every step keeps it so.
LEMMA StartupInductive ==
    /\ Init => StartupComes
    /\ TypeInv /\ StartupComes /\ [Next]_vars => StartupComes'
<1>1. Init => StartupComes
    BY DEF Init, StartupComes
<1>2. ASSUME TypeInv, StartupComes, NEW u \in Task, SubtaskStep(u) PROVE StartupComes'
  <2>0. /\ Typed /\ port \in Seq(Message)
      BY <1>2 DEF TypeInv, Typed
  <2>1. /\ stack' = stack /\ \A t \in Task \ {u} : proc'[t] = proc[t]
        /\ \/ proc[u].at = "created" /\ port' = Append(port, Startup)
           \/ proc[u].at # "created" /\ (port' = port \/ \E m \in GoodMsg : port' = Append(port, m))
      BY <1>2, <2>0, SubtaskEffect
  <2>2. GoodMsg \subseteq Message /\ Startup \in Message
      BY DEF GoodMsg, Message, Startup, Msg, Kinds
  <2>3. /\ HoldsIn(port, {Startup}) => HoldsIn(port', {Startup})
        /\ proc[u].at = "created" => HoldsIn(port', {Startup})
    <3>1. ASSUME NEW x \in Message PROVE HoldsIn(Append(port, x), {Startup}) <=> HoldsIn(port, {Startup}) \/ x = Startup
        BY <2>0, InAdded
    <3> QED BY <2>1, <2>2, <3>1
  <2>4. stack # <<>> /\ Top \in Starters => Top.task \in Task
      BY DEF Starters, GoodFrame
  <2>5. stack # <<>> /\ Top \in Starters => proc'[Top.task].at = "created" \/ HoldsIn(port', {Startup})
      BY <1>2, <2>1, <2>3, <2>4 DEF StartupComes
  <2> QED BY <1>2, <2>1, <2>5 DEF StartupComes, Top, Starters
<1>3. ASSUME TypeInv, StartupComes, MainShape PROVE StartupComes'
  <2>0. /\ Typed /\ stack \in Seq(GoodFrame)
        /\ stack # <<>> => Top \in GoodFrame /\ Tail(stack) \in Seq(GoodFrame)
      BY <1>3, TopType DEF TypeInv, Typed, Top
  <2>1. ASSUME stack' # <<>> => /\ ~ HoldsIn(Tail(stack'), Starters)
                                /\ Head(stack') \in Starters =>
                                     proc'[Head(stack').task].at = "created" \/ HoldsIn(port', {Startup})
        PROVE  StartupComes'
      BY <2>1 DEF StartupComes, Top, Starters
\* The stack stays, or is one shorter, or has another frame in place.
  <2>2. ASSUME UNCHANGED <<port, stack>>, \A t \in Task : proc'[t].at = proc[t].at PROVE StartupComes'
    <3>1. Head(stack) \in Starters => Head(stack).task \in Task
        BY DEF Starters, GoodFrame
    <3> QED BY <1>3, <2>1, <2>2, <3>1 DEF StartupComes, Top
  <2>3. ASSUME stack # <<>>, stack' = Tail(stack) PROVE StartupComes'
    <3>1. stack' # <<>> => (HoldsIn(stack', Starters) <=> Head(stack') \in Starters \/ HoldsIn(Tail(stack'), Starters))
        BY <2>0, <2>3, InPopped
    <3>2. ~ HoldsIn(stack', Starters)
        BY <1>3, <2>3 DEF StartupComes
    <3> QED BY <2>1, <3>1, <3>2
  <2>4. ASSUME NEW f, Pushes(f), stack # <<>> => Top \notin Starters,
               f \in Starters => proc'[f.task].at = "created"
        PROVE  StartupComes'
    <3>1. stack' # <<>> /\ Head(stack') = f /\ Tail(stack') = stack
        BY <2>0, <2>4, TopOfPush DEF Pushes
    <3>2. ~ HoldsIn(stack, Starters)
        BY <1>3, <2>0, <2>4, StackHolds, InEmpty DEF StartupComes
    <3> QED BY <2>1, <2>4, <3>1, <3>2
  <2>5. ASSUME NEW f, stack # <<>>, stack' = <<f>> \o Tail(stack), f \notin Starters PROVE StartupComes'
    <3>1. stack' # <<>> /\ Head(stack') = f /\ Tail(stack') = Tail(stack)
        BY <2>0, <2>5, TopOfPush
    <3> QED BY <1>3, <2>1, <2>5, <3>1 DEF StartupComes
  <2>6. CASE \/ Rests \/ \E t \in Task : Creates(t) \/ Defers(t)
      BY <2>2, <2>6 DEF Rests, Creates, Defers, ProcSame
  <2>7. CASE LoopsIdly
    <3>1. Pushes(Loop) /\ stack = <<>> /\ Loop \notin Starters
        BY <2>7 DEF LoopsIdly, Pushes, Loop, Frame, Starters
    <3> QED BY <2>4, <3>1
  <2>8. CASE Leaves \/ FreesTask
      BY <2>3, <2>8 DEF Leaves, FreesTask, On
  <2>9. ASSUME NEW i \in DOMAIN port, NEW below \in Seq(GoodFrame), Takes(i, below) PROVE StartupComes'
    <3> DEFINE f == Frame("Processreply", port[i].task, port[i], "begin")
    <3>1. stack' = <<f>> \o below /\ f \notin Starters
        BY <2>9 DEF Takes, TakeReply, Frame, Starters
    <3> HIDE DEF f
    <3>2. CASE stack = <<>> /\ below = <<Loop>>
      <4>1. Loop \notin Starters /\ <<Loop>> \in Seq({Loop})
          BY DEF Loop, Frame, Starters
      <4>2. stack' # <<>> /\ Head(stack') = f /\ Tail(stack') = <<Loop>>
          BY <3>1, <3>2, <4>1, TopOfPush
      <4>3. ~ HoldsIn(<<Loop>>, Starters)
          BY <4>1 DEF HoldsIn
      <4> QED BY <2>1, <3>1, <4>2, <4>3
    <3>3. CASE stack # <<>> /\ Top \notin Starters /\ below \in {stack, Tail(stack)}
        BY <2>4, <2>5, <3>1, <3>3 DEF Pushes
    <3> QED BY <2>9, <3>2, <3>3 DEF Takes, On, Starters
  <2>10. ASSUME NEW pc \in {"scan", "blocked", "wait", "redrain", "final"}, GoesOn(pc) PROVE StartupComes'
    <3> DEFINE f == [Top EXCEPT !.pc = pc]
    <3>1. /\ stack # <<>> /\ stack' = <<f>> \o Tail(stack) /\ port' = port
          /\ \A t \in Task : proc'[t].at = proc[t].at
          /\ f.op = Top.op /\ f.msg = Top.msg /\ f.task = Top.task
        BY <2>0, <2>10 DEF GoesOn, Turns, ProcSame, GoodFrame, Frames
    <3> HIDE DEF f
    <3>2. stack' # <<>> /\ Head(stack') = f /\ Tail(stack') = Tail(stack)
        BY <2>0, <3>1, TopOfPush
    <3>3. f \in Starters => Top \in Starters /\ Top.task \in Task
        BY <2>0, <3>1 DEF Starters, GoodFrame
    <3> QED BY <1>3, <2>1, <3>1, <3>2, <3>3 DEF StartupComes
  <2>11. ASSUME CallsHandler \/ CallsNobody \/ LeavesHandler PROVE StartupComes'
    <3>1. stack # <<>> /\ Top.op = "Processreply" /\ \E pc : Turns(pc)
        BY <2>11 DEF CallsHandler, CallsNobody, LeavesHandler, On
    <3>2. \A pc : [Top EXCEPT !.pc = pc] \notin Starters
        BY <2>0, <3>1 DEF Starters, GoodFrame, Frames
    <3> QED BY <2>5, <3>1, <3>2 DEF Turns
  <2>12. CASE DisposesLate
    <3>1. Frame("Dodisposetask", Top.task, NoMsg, "drain") \notin Starters
        BY DEF Frame, Starters
    <3> QED BY <2>5, <2>12, <3>1 DEF DisposesLate, On
  <2>13. ASSUME stack = <<>> \/ On("Processreply", "handler") PROVE stack # <<>> => Top \notin Starters
      BY <2>13 DEF On, Starters
  <2>14. ASSUME NEW t \in Task, Starts(t) \/ DisposesNow(t) PROVE StartupComes'
    <3>1. stack = <<>> \/ On("Processreply", "handler")
        BY <2>14 DEF Starts, DisposesNow, Caller, May, At, On, Top
    <3>2. PICK f : /\ Pushes(f)
                   /\ \/ f = Frame("Dodisposetask", t, NoMsg, "drain")
                      \/ f = Frame("Waitformsg", t, Startup, "scan") /\ proc'[t].at = "created"
        BY <2>14 DEF Starts, DisposesNow
    <3>3. f \in Starters => proc'[f.task].at = "created"
        BY <3>2 DEF Frame, Starters
    <3> QED BY <2>4, <2>13, <3>1, <3>2, <3>3
  <2>15. ASSUME NEW t \in Task, NEW m \in GoodMsg, NEW possible \in BOOLEAN, NEW wait \in BOOLEAN,
                Sends(t, m, possible, wait)
         PROVE  StartupComes'
    <3>1. /\ UNCHANGED port /\ (stack = <<>> \/ On("Processreply", "handler"))
          /\ \A u \in Task : proc'[u].at = proc[u].at
          /\ \/ stack' = stack
             \/ \E f : Pushes(f) /\ f \in {Frame("Waitformsg", t, m, "scan"), Frame("Processreply", t, m, "begin")}
        BY <2>15 DEF Sends
    <3>2. {Frame("Waitformsg", t, m, "scan"), Frame("Processreply", t, m, "begin")} \cap Starters = {}
        BY ConstantsAssumption DEF Frame, Starters, Startup, Msg, GoodMsg
    <3> QED BY <2>2, <2>4, <2>13, <3>1, <3>2
  <2> QED BY <1>3, <2>6, <2>7, <2>8, <2>9, <2>10, <2>11, <2>12, <2>14, <2>15 DEF MainShape
<1> QED
    BY <1>1, <1>2, <1>3, StepShape

\* Only the last activation waits for a message or disposes.
Bottom == LastOnly(stack, Disposers \cup Waits)

\* It is so if handlers neither wait nor dispose.
LEMMA BottomInductive ==
    ASSUME DisposesOutside, WaitsOutside
    PROVE  /\ Init => Bottom
           /\ TypeInv /\ Outermost /\ Bottom /\ [Next]_vars => Bottom'
<1> DEFINE A == Disposers \cup Waits
<1>0. Bottom <=> LastOnly(stack, A)
    BY DEF Bottom
<1>00. Bottom' <=> LastOnly(stack', A)
    BY DEF Bottom, Disposers, Waits
<1>1. Init => LastOnly(stack, A)
    BY DEF Init, LastOnly
<1>2. ASSUME TypeInv, NEW t \in Task, SubtaskStep(t) PROVE stack' = stack
    BY <1>2, SubtaskEffect DEF TypeInv
<1>3. ASSUME TypeInv, Outermost, LastOnly(stack, A), MainShape PROVE LastOnly(stack', A)
  <2>0. /\ stack \in Seq(GoodFrame)
        /\ stack # <<>> => Top \in GoodFrame /\ Tail(stack) \in Seq(GoodFrame)
      BY <1>3, TopType DEF TypeInv, Typed, Top
  <2>1. \A call \in {"dispose", "sync", "suspend"} : \A t : Caller(call, t) => stack = <<>>
      BY DEF Caller, May, DisposesOutside, WaitsOutside
  <2>2. /\ \A f \in GoodFrame : f.op = "Processreply" => f \notin A
        /\ \A f : f \in A => f \in GoodFrame
      BY DEF Disposers, Waits
  <2>3. stack # <<>> => LastOnly(Tail(stack), A) /\ (Top \in A => Tail(stack) = <<>>)
      BY <1>3, <2>0, LastPopped DEF Top
  <2>4. \A f : (f \in A => stack = <<>>) => LastOnly(<<f>> \o stack, A)
      BY <1>3, <2>0, LastPushed
  <2>5. \A f : stack # <<>> /\ (f \in A => Top \in A) => LastOnly(<<f>> \o Tail(stack), A)
      BY <2>0, <2>3, LastPushed
  <2>6. \A f \in GoodFrame : f.op = "Waitformsg" => (f \in A <=> f.msg # Startup)
      BY DEF Disposers, Waits
  <2>7. \A f, g \in GoodFrame : f.op = g.op /\ f.msg = g.msg => (f \in A <=> g \in A)
      BY DEF Disposers, Waits
  <2>8. Loop \notin A
      BY DEF Loop, Frame, Disposers, Waits
  <2> HIDE DEF A
  <2>9. CASE stack' = stack \/ (stack # <<>> /\ stack' = Tail(stack))
      BY <1>3, <2>3, <2>9
  <2>10. CASE stack = <<>> /\ (stack' = <<Loop>> \/ \E f : f \notin A /\ stack' = <<f>> \o <<Loop>>)
    <3>1. <<Loop>> \in Seq({Loop}) /\ LastOnly(<<Loop>>, A)
        BY <2>8 DEF LastOnly
    <3> QED BY <2>10, <3>1, LastPushed
  <2>11. CASE \E f : \/ (f \in A => stack = <<>>) /\ stack' = <<f>> \o stack
                     \/ stack # <<>> /\ (f \in A => Top \in A) /\ stack' = <<f>> \o Tail(stack)
      BY <2>4, <2>5, <2>11
  <2>12. CASE DisposesLate
    <3>1. Top.task \in Task /\ "MUSTDISPOSE" \in task[Top.task].flags
        BY <2>0, <2>12 DEF DisposesLate, On, MustDispose, GoodFrame
    <3> QED BY <1>3, <3>1 DEF Outermost
  <2>13. ASSUME NEW t \in Task, DisposesNow(t) PROVE stack = <<>> /\ \E f : stack' = <<f>> \o stack
      BY <2>1, <2>13 DEF DisposesNow, Pushes
  <2> QED BY <1>3, <2>0, <2>1, <2>2, <2>6, <2>7, <2>9, <2>10, <2>11, <2>12, <2>13, StackMoves DEF On
<1> HIDE DEF A
<1> QED
    BY <1>0, <1>00, <1>1, <1>2, <1>3, StepShape

\* The activations that wait for message m of t: their message exists.
WaitsFor(t, m) == {f \in Waits : f.task = t /\ f.msg = m}
Expected ==
    \A t \in Task : \A m \in GoodMsg : HoldsIn(stack, WaitsFor(t, m)) => m \in MessagesTo(t) /\ Exists(t, m)

\* A wait begins with the sending of its message.
LEMMA WaitsCome ==
    ASSUME TypeInv, MainShape, NEW t \in Task, NEW m \in GoodMsg,
           HoldsIn(stack', WaitsFor(t, m)), ~ HoldsIn(stack, WaitsFor(t, m))
    PROVE  Sends(t, m, TRUE, TRUE)
<1> DEFINE A == WaitsFor(t, m)
<1>0. /\ Typed /\ stack \in Seq(GoodFrame)
      /\ stack # <<>> => Top \in GoodFrame /\ Tail(stack) \in Seq(GoodFrame)
      /\ HoldsIn(stack', A) /\ ~ HoldsIn(stack, A)
    BY TopType DEF TypeInv, Typed, Top
<1>1. ~ (stack' = stack)
    BY <1>0
<1>2. stack # <<>> => Top \notin A /\ ~ HoldsIn(Tail(stack), A)
    BY <1>0, StackHolds
<1>3. \A f : Pushes(f) => f \in A
    BY <1>0, StackHolds DEF Pushes
<1>4. \A f : stack # <<>> /\ stack' = <<f>> \o Tail(stack) => f \in A
    BY <1>0, <1>2, StackHolds
<1>5. /\ \A f : f \in A => f.op = "Waitformsg" /\ f.msg = m /\ f.task = t /\ f.msg # Startup
      /\ \A f \in GoodFrame : f.op = "Waitformsg" /\ f.msg = m /\ f.task = t /\ f.msg # Startup => f \in A
    BY DEF WaitsFor, Waits
<1>6. Loop.op = "Processtask"
    BY DEF Loop, Frame
<1> HIDE DEF A
<1>7. ~ HoldsIn(<<Loop>>, A) /\ <<Loop>> \in Seq({Loop})
    BY <1>5, <1>6 DEF HoldsIn
<1>8. CASE \/ Rests \/ LoopsIdly \/ Leaves \/ FreesTask \/ \E u \in Task : Creates(u) \/ Defers(u)
    BY <1>0, <1>1, <1>2, <1>7, <1>8 DEF Rests, LoopsIdly, Leaves, FreesTask, On, Creates, Defers
<1>9. ASSUME NEW i \in DOMAIN port, NEW below \in Seq(GoodFrame), Takes(i, below) PROVE FALSE
  <2> DEFINE f == Frame("Processreply", port[i].task, port[i], "begin")
  <2>1. stack' = <<f>> \o below /\ f.op = "Processreply"
      BY <1>9 DEF Takes, TakeReply, Frame
  <2> HIDE DEF f
  <2>2. HoldsIn(below, A)
      BY <1>0, <1>5, <1>9, <2>1, InPushed
  <2> QED BY <1>0, <1>2, <1>7, <1>9, <2>2 DEF Takes, On
<1>10. ASSUME NEW pc, stack # <<>>, Turns(pc), Top.op = "Processreply" \/ Top.op = "Waitformsg" \/ Top.op = "Dodisposetask",
              pc \in {"scan", "blocked", "wait", "redrain", "final", "handler", "end"}
       PROVE  FALSE
  <2> DEFINE f == [Top EXCEPT !.pc = pc]
  <2>1. f.op = Top.op /\ f.task = Top.task /\ f.msg = Top.msg /\ stack' = <<f>> \o Tail(stack)
      BY <1>0, <1>10 DEF Turns, GoodFrame, Frames
  <2> HIDE DEF f
  <2> QED BY <1>0, <1>2, <1>4, <1>5, <1>10, <2>1
<1>11. CASE \/ CallsHandler \/ CallsNobody \/ LeavesHandler
            \/ \E pc \in {"scan", "blocked", "wait", "redrain", "final"} : GoesOn(pc)
    BY <1>10, <1>11 DEF CallsHandler, CallsNobody, LeavesHandler, GoesOn, On
<1>12. CASE DisposesLate
  <2>1. Frame("Dodisposetask", Top.task, NoMsg, "drain").op = "Dodisposetask"
      BY DEF Frame
  <2> QED BY <1>4, <1>5, <1>12, <2>1 DEF DisposesLate, On
<1>13. ASSUME NEW u \in Task, Starts(u) \/ DisposesNow(u) PROVE FALSE
  <2>1. /\ Frame("Dodisposetask", u, NoMsg, "drain").op = "Dodisposetask"
        /\ Frame("Waitformsg", u, Startup, "scan").msg = Startup
      BY DEF Frame
  <2> QED BY <1>3, <1>5, <1>13, <2>1 DEF Starts, DisposesNow
<1>14. ASSUME NEW u \in Task, NEW n \in GoodMsg, NEW possible \in BOOLEAN, NEW wait \in BOOLEAN,
              Sends(u, n, possible, wait)
       PROVE  Sends(t, m, TRUE, TRUE)
  <2>1. /\ Frame("Processreply", u, n, "begin").op = "Processreply"
        /\ Frame("Waitformsg", u, n, "scan").msg = n /\ Frame("Waitformsg", u, n, "scan").task = u
      BY DEF Frame
  <2>2. possible /\ wait
      BY <1>1, <1>3, <1>5, <1>14, <2>1 DEF Sends
  <2>3. Pushes(Frame("Waitformsg", u, n, "scan"))
      BY <1>14, <2>2 DEF Sends
  <2>4. u = t /\ n = m
      BY <1>3, <1>5, <2>1, <2>3
  <2>5. possible = TRUE /\ wait = TRUE
      BY <2>2
  <2> QED BY <1>14, <2>4, <2>5
<1> QED
    BY <1>8, <1>9, <1>11, <1>12, <1>13, <1>14 DEF MainShape

\* Main loses a message only to Processreply.
LEMMA MainHands ==
    ASSUME TypeInv, Carried, MainShape, NEW t \in Task, NEW m \in MessagesTo(t), Exists(t, m), ~ Exists(t, m)'
    PROVE  \E i \in DOMAIN port : \E below \in Seq(GoodFrame) : Takes(i, below) /\ port[i] = m
<1>0. /\ port \in Seq(Message) /\ m \in GoodMsg /\ m # Startup
    BY ConstantsAssumption DEF TypeInv, Typed, MessagesTo, GoodMsg, Startup, Msg
<1>1. ASSUME port' = port, proc'[t].held = proc[t].held, HoldsIn(proc[t].port, {m}) => HoldsIn(proc'[t].port, {m})
      PROVE  FALSE
    BY <1>1 DEF Exists
<1>2. ASSUME NEW i \in DOMAIN port, port' = Without(port, i), port[i] # m, ProcSame PROVE FALSE
  <2>1. HoldsIn(port, {m}) => HoldsIn(port', {m})
      BY <1>0, <1>2, InTaken
  <2> QED BY <1>2, <2>1 DEF Exists, ProcSame
<1>3. CASE ProcSame /\ port' = port
    BY <1>1, <1>3 DEF ProcSame
<1>4. ASSUME NEW n, Answered(n), port' = port PROVE FALSE
    BY <1>1, <1>4 DEF Answered
<1>5. ASSUME NEW u \in Task, Starts(u) PROVE FALSE
  <2>1. proc'[t].held = proc[t].held /\ proc'[t].port = proc[t].port /\ port' = port
      BY <1>5 DEF Starts
  <2> QED BY <1>1, <2>1
<1>6. ASSUME NEW u \in Task, NEW n \in GoodMsg, NEW possible \in BOOLEAN, NEW wait \in BOOLEAN,
             Sends(u, n, possible, wait)
      PROVE  FALSE
  <2>1. port' = port /\ proc'[t].held = proc[t].held
        /\ proc'[t].port \in {proc[t].port, Append(proc[t].port, n)}
      BY <1>6 DEF Sends
  <2>2. proc[t].port \in Seq(GoodMsg)
    <3>1. proc[t] \in GoodProc
        BY DEF TypeInv, Typed
    <3> QED BY <3>1 DEF GoodProc
  <2>3. HoldsIn(proc[t].port, {m}) => HoldsIn(proc'[t].port, {m})
    <3>1. HoldsIn(proc[t].port, {m}) => HoldsIn(Append(proc[t].port, n), {m})
        BY <2>2, InAdded
    <3> QED BY <2>1, <3>1
  <2> QED BY <1>1, <2>1, <2>3
<1>7. ASSUME NEW i \in DOMAIN port, NEW below \in Seq(GoodFrame), Takes(i, below) PROVE port[i] = m
    BY <1>2, <1>7 DEF Takes, TakeReply
<1>8. CASE Leaves
    BY <1>0, <1>2, <1>3, <1>8 DEF Leaves
<1> QED
    BY <1>3, <1>4, <1>5, <1>6, <1>7, <1>8
       DEF MainShape, Rests, LoopsIdly, FreesTask, GoesOn, CallsHandler, CallsNobody, LeavesHandler,
           DisposesLate, Creates, Defers, DisposesNow

\* The awaited messages exist while only the last activation waits.
LEMMA ExpectedInductive ==
    /\ Init => Expected
    /\ TypeInv /\ Carried /\ Bottom /\ Expected /\ [Next]_vars => Expected'
<1>1. Init => Expected
    BY InEmpty DEF Init, Expected
<1>2. ASSUME TypeInv, Carried, Expected, NEW u \in Task, SubtaskStep(u), NEW t \in Task, NEW m \in GoodMsg,
             HoldsIn(stack', WaitsFor(t, m))
      PROVE  m \in MessagesTo(t) /\ Exists(t, m)'
  <2>1. stack' = stack
      BY <1>2, SubtaskEffect DEF TypeInv
  <2>2. m \in MessagesTo(t) /\ Exists(t, m)
      BY <1>2, <2>1 DEF Expected
  <2> QED BY <1>2, <2>2, SubtaskHands
<1>3. ASSUME TypeInv, Carried, Bottom, Expected, MainShape, NEW t \in Task, NEW m \in GoodMsg,
             HoldsIn(stack', WaitsFor(t, m))
      PROVE  m \in MessagesTo(t) /\ Exists(t, m)'
  <2>0. /\ Typed /\ stack \in Seq(GoodFrame)
        /\ stack # <<>> => Top \in GoodFrame /\ Tail(stack) \in Seq(GoodFrame)
      BY <1>3, TopType DEF TypeInv, Typed, Top
  <2>1. CASE ~ HoldsIn(stack, WaitsFor(t, m))
    <3>1. Sends(t, m, TRUE, TRUE)
        BY <1>3, <2>1, WaitsCome
    <3>2. m \in MessagesTo(t) /\ proc'[t].port = Append(proc[t].port, m)
        BY <3>1 DEF Sends, MessagesTo
    <3>3. proc[t].port \in Seq(GoodMsg)
      <4>1. proc[t] \in GoodProc
          BY <2>0 DEF Typed
      <4> QED BY <4>1 DEF GoodProc
    <3>4. HoldsIn(proc'[t].port, {m})
        BY <3>2, <3>3, InAdded
    <3> QED BY <3>2, <3>4 DEF Exists
  <2>2. CASE HoldsIn(stack, WaitsFor(t, m))
    <3>1. m \in MessagesTo(t) /\ Exists(t, m)
        BY <1>3, <2>2 DEF Expected
    <3>2. ASSUME ~ Exists(t, m)' PROVE FALSE
      <4>1. PICK i \in DOMAIN port : \E below \in Seq(GoodFrame) : Takes(i, below) /\ port[i] = m
          BY <1>3, <3>1, <3>2, MainHands
      <4>2. PICK below \in Seq(GoodFrame) : Takes(i, below)
          BY <4>1
      <4> DEFINE f == Frame("Processreply", port[i].task, port[i], "begin")
      <4>3. stack' = <<f>> \o below /\ f \notin WaitsFor(t, m)
          BY <4>2 DEF Takes, TakeReply, Frame, WaitsFor, Waits
      <4> HIDE DEF f
      <4>4. HoldsIn(below, WaitsFor(t, m))
          BY <1>3, <4>3, InPushed
      <4>5. stack # <<>> /\ Top \in Disposers \cup Waits => ~ HoldsIn(Tail(stack), WaitsFor(t, m))
        <5>1. stack # <<>> /\ Top \in Disposers \cup Waits => Tail(stack) = <<>>
            BY <1>3, <2>0, LastPopped DEF Bottom, Top
        <5> QED BY <5>1, InEmpty
      <4>6. CASE below = <<Loop>>
        <5>1. Loop \notin WaitsFor(t, m)
            BY DEF Loop, Frame, WaitsFor, Waits
        <5> QED BY <4>4, <4>6, <5>1 DEF HoldsIn
      <4>7. CASE stack # <<>> /\ Top \in Disposers \cup Waits /\ below \in {stack, Tail(stack)}
        <5>1. HoldsIn(stack, WaitsFor(t, m)) <=> Top \in WaitsFor(t, m) \/ HoldsIn(Tail(stack), WaitsFor(t, m))
            BY <2>0, <4>7, StackHolds
        <5>2. below = stack /\ Top \in WaitsFor(t, m)
            BY <4>4, <4>5, <4>7, <5>1
        <5>3. Top.op = "Waitformsg" /\ Top.msg = m
            BY <5>2 DEF WaitsFor, Waits
        <5>4. Tail(stack) # stack
            BY <4>4, <4>5, <4>7, <5>2
        <5> QED BY <4>1, <4>2, <5>2, <5>3, <5>4, <4>7 DEF Takes, On
      <4> QED BY <2>0, <4>2, <4>6, <4>7 DEF Takes, On, Disposers, Waits
    <3> QED BY <3>1, <3>2
  <2> QED BY <2>1, <2>2
<1>4. (\A t \in Task : \A m \in GoodMsg : HoldsIn(stack', WaitsFor(t, m)) => m \in MessagesTo(t) /\ Exists(t, m)')
        => Expected'
    BY DEF Expected, WaitsFor, Waits, MessagesTo
<1> QED
    BY <1>1, <1>2, <1>3, <1>4, StepShape

\* The message that a Waitformsg waits for exists: if handlers neither wait nor
\* dispose, or if nobody waits for a message but Starttask for its startup message.
\* A handler that waits for, or disposes of, the task that its caller waits for takes
\* the caller's message.
THEOREM WaitIsForSomething ==
    ASSUME (DisposesOutside /\ WaitsOutside) \/ NoWaits
    PROVE  Spec => []AwaitedMessageExists
<1>0. ASSUME NEW s, NEW x, HoldsIn(s, {x}) PROVE x \in Range(s)
    BY <1>0 DEF HoldsIn, Range
<1>1. ASSUME TypeInv, Carried, StartupComes, NEW i \in DOMAIN stack, stack[i].op = "Waitformsg", stack[i].msg = Startup
      PROVE  Startup \in Range(port) \/ proc[stack[i].task].at = "created"
  <2>1. /\ stack \in Seq(GoodFrame) /\ stack[i] \in Starters /\ stack # <<>>
        /\ stack[1] = Head(stack) /\ \A j \in DOMAIN stack \ {1} : j - 1 \in DOMAIN Tail(stack) /\ stack[j] = Tail(stack)[j - 1]
    <3>1. stack \in Seq(GoodFrame) /\ stack # <<>>
        BY <1>1 DEF TypeInv, Typed
    <3>2. stack[i] \in Starters
        BY <1>1, <3>1 DEF Starters
    <3> QED BY <3>1, <3>2, Popped
  <2>2. i = 1
      BY <1>1, <2>1 DEF StartupComes, HoldsIn
  <2>3. stack[i] = Top
      BY <2>1, <2>2 DEF Top
  <2> QED BY <1>0, <1>1, <2>1, <2>3 DEF StartupComes
<1>2. ASSUME TypeInv, Carried, Expected, NEW i \in DOMAIN stack, stack[i].op = "Waitformsg", stack[i].msg # Startup
      PROVE  LET t == stack[i].task
                 m == stack[i].msg
             IN  \/ m \in Range(port)
                 \/ HasSubport(t) /\ m \in Range(proc[t].port)
                 \/ m = proc[t].held
  <2> DEFINE t == stack[i].task
             m == stack[i].msg
  <2>1. stack[i] \in GoodFrame /\ t \in Task /\ m \in GoodMsg
      BY <1>2 DEF TypeInv, Typed, GoodFrame
  <2>2. HoldsIn(stack, WaitsFor(t, m))
      BY <1>2, <2>1 DEF HoldsIn, WaitsFor, Waits
  <2>3. Exists(t, m)
      BY <1>2, <2>1, <2>2 DEF Expected
  <2>4. HoldsIn(proc[t].port, {m}) => HasSubport(t)
      BY <1>2, <2>1, InEmpty DEF Carried, Carries
  <2> QED BY <1>0, <2>3, <2>4 DEF Exists
<1>3. TypeInv /\ Carried /\ StartupComes /\ Expected => AwaitedMessageExists
    BY <1>1, <1>2 DEF AwaitedMessageExists
<1>4. TypeInv /\ Carried /\ StartupComes /\ Placed => AwaitedMessageExists
  <2>1. ASSUME Placed, NEW i \in DOMAIN stack, stack[i].op = "Waitformsg" PROVE stack[i].msg = Startup
      BY <2>1 DEF Placed
  <2> QED BY <1>1, <2>1 DEF AwaitedMessageExists
<1>5. CASE DisposesOutside /\ WaitsOutside
  <2>1. /\ Init => Outermost
        /\ TypeInv /\ Life /\ UnderWay /\ Outermost /\ [Next]_vars => Outermost'
      BY <1>5, OutermostInductive
  <2>2. /\ Init => Bottom
        /\ TypeInv /\ Outermost /\ Bottom /\ [Next]_vars => Bottom'
      BY <1>5, BottomInductive
  <2> QED
      BY <1>3, <2>1, <2>2, StartupInductive, ExpectedInductive, LifeInductive, StrayInductive,
         UnderWayInductive, InitTypeInv, NextTypeInv, PTL DEF Spec
<1>6. CASE NoWaits
  <2>1. /\ Init => Placed
        /\ TypeInv /\ Placed /\ [Next]_vars => Placed'
      BY <1>6, PlacedInductive
  <2> QED
      BY <1>4, <2>1, StartupInductive, LifeInductive, StrayInductive, InitTypeInv, NextTypeInv, PTL
         DEF Spec
<1> QED
    BY <1>5, <1>6

=============================================================================
