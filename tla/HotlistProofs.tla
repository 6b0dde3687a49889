--------------------------- MODULE HotlistProofs ---------------------------
(***************************************************************************)
(* Proofs about module Hotlist, for every number of calls and inputs:      *)
(* main answers the window that holds hotsema once it has begun to handle  *)
(* its update, no change of the list is forgotten, and a quiet window      *)
(* shows the list.                                                         *)
(*                                                                         *)
(* Main's stack todo is what matters: which steps can stand on which       *)
(* others is Ordered, and the rest says of each window how its process,    *)
(* its messages and its nodes go with the steps that are left.             *)
(***************************************************************************)
EXTENDS Hotlist, SequenceTheorems, FiniteSetTheorems, WellFoundedInduction, TLAPS

---------------------------------------------------------------------------
(* Types.                                                                  *)

Names == {None, "viewer", "manager", "Dispose", "Newlist", "Addentry", "Tofront"}
Global == Locks \cup {"screen", "screenoff", "changed", "savequit", "quit"}

\* A step of main; all but the global ones are about a window.
Steps == {s \in [do : Dos, w : Window \cup {None}, k : Names \cup Nat] :
             s.do \in Global \/ s.w \in Window}

Synced == {"Follow", "Manager", "Save", "Dimx"}
Messages == {m \in [from : Window, kind : Synced \cup {"Changed", "Restore", "Close", "reply"},
                    sync : BOOLEAN, id : Nat] :
                /\ m.sync <=> m.kind \in Synced
                /\ m.kind = "Manager" => m.from = "viewer"}

Notes == [kind : {"Dispose", "Newlist", "Addentry", "Tofront"}, id : Nat]

TypeInv ==
    /\ todo \in Seq(Steps)
    /\ hot \in [Window -> [exists : BOOLEAN, task : BOOLEAN, breaking : BOOLEAN, wasopen : BOOLEAN]]
    /\ port \in Seq(Messages)
    /\ inbox \in [Window -> Seq(Notes)]
    /\ proc \in [Window -> [at : Ats, then : Ats, break : BOOLEAN]]
    /\ hotsema \in Window \cup {None}
    /\ nodes \in [Window -> SUBSET {"current", "stale"}]
    /\ locked \in BOOLEAN /\ screen \in BOOLEAN
    /\ list \in [hotchanged : BOOLEAN, dirty : BOOLEAN]
    /\ left \in [calls : Nat, inputs : Nat, quit : BOOLEAN]
    /\ \A w \in Window : proc[w].at \in {"none", "dead"} => inbox[w] = <<>>

---------------------------------------------------------------------------
(* The order of main's steps.                                              *)

Elements(q) == {q[i] : i \in DOMAIN q}
After(q, i) == [j \in 1..(Len(q) - i) |-> q[i + j]]

\* What can be left below a step that is no answer to an update: what follows
\* it in a call of the user or the application.
Below == [do \in {"screen", "screenoff", "screenvalid", "stopped", "dispose", "gone",
                  "savequit", "quit"} |->
    CASE do \in {"screen", "screenoff", "dispose", "gone"} -> {"dispose", "savequit", "quit"}
      [] do \in {"screenvalid", "stopped"} -> {"screenvalid", "dispose", "savequit", "quit"}
      [] do = "savequit" -> {"quit"}
      [] do = "quit" -> {}]

Renews == {"Newlist", "Addentry"}
Tells(S, w) == \E e \in S : e.do = "tell" /\ e.w = w /\ e.k \in Renews

\* A step s can stand on the steps q: the end of a task is awaited once and
\* what depends on it follows at once; what is said of a window's end is done
\* first; each window has one answer to come; and whoever changes the list
\* tells the windows afterwards.
Fits(s, q) ==
    /\ \A e \in Elements(q) : e.do \notin {"stop", "close"}
    /\ q # <<>> /\ q[1].do \in {"gone", "stopped"} => s.do \in {"stop", "ended"} /\ s.w = q[1].w
    /\ s.do \in DOMAIN Below => \A e \in Elements(q) : e.do \in Below[s.do]
    /\ s.do \in {"stop", "ended"} => \A e \in Elements(q) : e.do = "ended" => e.w # s.w
    /\ s.do = "answer" => \A e \in Elements(q) : e.do = "answer" => e.w # s.w
    /\ s.do \in {"dispose", "gone"} /\ s.w = "manager" =>
          \A e \in Elements(q) : e.do = "dispose" => e.w # "viewer"
    /\ s.do = "sync" => Tells(Elements(q), s.w)
    /\ s.do \in {"reload", "rebuild", "add"} => \A w \in Window : Tells(Elements(q), w)
    /\ s.do = "changed" => Tells(Elements(q), "viewer")
    /\ s.do = "sync" => s.k = "Dispose"
    /\ s.do = "tell" => s.k \in {"Newlist", "Addentry", "Tofront"}
    /\ s.do = "await" => s.k \in Nat

Ordered(q) == \A i \in DOMAIN q : Fits(q[i], After(q, i))

---------------------------------------------------------------------------
(* The windows.                                                            *)

Todo == Elements(todo)
Has(do, w) == \E e \in Todo : e.do = do /\ e.w = w
Ending(w) == Has("stop", w) \/ Has("ended", w)
Over == {"end", "dead"}
Said(w) == {i \in DOMAIN port : port[i].from = w /\ port[i].kind # "reply"}

\* There is a process only while the object has the task or main waits for its
\* end; without the task main does nothing else than wait, and nothing more
\* comes from the process than replies.
HotInv == \A w \in Window :
    /\ proc[w].at # "none" => hot[w].task \/ Ending(w)
    /\ Ending(w) => hot[w].breaking \/ ~hot[w].task
    /\ Ending(w) /\ ~hot[w].task =>
          (Doing("stop") \/ Doing("ended")) /\ W = w /\ Said(w) = {} /\ proc[w].at \in Over
    /\ (Doing("gone") \/ Doing("stopped")) /\ W = w => proc[w].at = "none"
    /\ Has("close", w) => Said(w) = {} /\ proc[w].at \in Over

\* A message has a process that sent it; it is the last but for replies when it
\* says Close, and the only one that waits for an answer if it is a sync one.
PortInv == \A w \in Window : \A i \in DOMAIN port : port[i].from = w =>
    /\ proc[w].at # "none"
    /\ port[i].kind = "Close" => proc[w].at \in Over /\ \A j \in Said(w) : j <= i
    /\ port[i].sync =>
          /\ proc[w].at = "sync" /\ ~Has("answer", w)
          /\ \A j \in DOMAIN port : port[j].from = w /\ port[j].sync => j = i
          /\ hotsema = w => port[i].kind \in {"Follow", "Manager"}

\* Main has come to the answer, or to what it does just before.
Answers(w) ==
    /\ todo # <<>>
    /\ \/ Head(todo).do = "answer" /\ W = w
       \/ /\ Head(todo).do \in {"show", "tell"} /\ Tail(todo) # <<>>
          /\ Head(Tail(todo)).do = "answer" /\ Head(Tail(todo)).w = w

Unlocks == {"unlock", "unlockdone"}
AnswerInv == \A w \in Window :
    /\ Has("answer", w) => proc[w].at = "sync"
    /\ proc[w].at = "sync" => proc[w].then \in Unlocks \cup {"relock", "relockdone", "top", "done", "free"}
    /\ hotsema = w => \/ proc[w].at \in Unlocks
                      \/ proc[w].at = "sync" /\ proc[w].then \in Unlocks
    /\ hotsema = w /\ Has("answer", w) => Answers(w)

---------------------------------------------------------------------------
(* The list.                                                               *)

ChangeIsTold ==
    \/ \E i \in DOMAIN port : port[i].kind = "Changed"
    \/ \E e \in Todo : e.do = "changed"

SavedInv == list.dirty => list.hotchanged \/ ChangeIsTold

\* While AWeb quits a window has a process only as long as its disposal is to
\* come, and nothing starts one after it.
Disposing(w) == Has("dispose", w) \/ Has("gone", w)
Does(do) == \E e \in Todo : e.do = do
QuitInv == left.quit =>
    /\ \A w \in Window : proc[w].at # "none" => Disposing(w)
    /\ \A w \in Window : Disposing(w) => Does("savequit")
    /\ Disposing("viewer") => Has("dispose", "manager")
    /\ ~Has("show", "viewer")
    /\ Has("show", "manager") => Has("dispose", "manager")
    /\ \A w \in Window : Does("screen") \/ Does("screenoff") \/ Does("screenvalid") => Has("dispose", w)
    /\ ~Does("savequit") => ~list.dirty /\ \A e \in Todo : e.do = "quit"

Good(w) == "current" \in nodes[w] /\ (w = "manager" => nodes[w] = {"current"})

\* The window is to get a message that makes it rebuild its nodes, and that is
\* none of the first n in its port.
Renewed(w, n) ==
    \/ Tells(Todo, w)
    \/ w = "viewer" /\ ChangeIsTold
    \/ \E j \in DOMAIN inbox[w] : j > n /\ inbox[w][j].kind \in Renews

NodesInv == \A w \in Window :
    /\ proc[w].at \notin {"none", "build", "free", "end", "dead"} => Good(w) \/ Renewed(w, 0)
    /\ \A i \in DOMAIN inbox[w] : inbox[w][i].kind = "Dispose" => Renewed(w, i)

HInv == /\ TypeInv /\ Ordered(todo) /\ HotInv /\ PortInv /\ AnswerInv
        /\ SavedInv /\ QuitInv /\ NodesInv

---------------------------------------------------------------------------
(* Steps put before the others, and the first one taken.                   *)

LEMMA Put ==
    ASSUME NEW q \in Seq(Steps), NEW s \in Steps
    PROVE  /\ <<s>> \o q \in Seq(Steps) /\ <<s>> \o q # <<>>
           /\ Len(<<s>> \o q) = Len(q) + 1 /\ (<<s>> \o q)[1] = s
           /\ \A i \in DOMAIN q : (<<s>> \o q)[i + 1] = q[i]
           /\ DOMAIN (<<s>> \o q) = 1..(Len(q) + 1) /\ DOMAIN q = 1..Len(q) /\ Len(q) \in Nat
           /\ Head(<<s>> \o q) = s /\ Tail(<<s>> \o q) = q
<1>1. <<s>> \in Seq(Steps) /\ Len(<<s>>) = 1 /\ <<s>>[1] = s
    OBVIOUS
<1>2. /\ <<s>> \o q \in Seq(Steps) /\ Len(<<s>> \o q) = 1 + Len(q)
      /\ \A i \in 1..(1 + Len(q)) : (<<s>> \o q)[i] = IF i <= 1 THEN <<s>>[i] ELSE q[i - 1]
    BY <1>1, ConcatProperties
<1>3. DOMAIN q = 1..Len(q) /\ Len(q) \in Nat
    BY LenProperties
<1>4. DOMAIN (<<s>> \o q) = 1..(Len(q) + 1) /\ Len(<<s>> \o q) = Len(q) + 1
    BY <1>2, <1>3, LenProperties
<1>5. (<<s>> \o q)[1] = s
  <2>1. 1 \in 1..(1 + Len(q))
    BY <1>3
  <2> QED BY <1>1, <1>2, <2>1
<1>6. ASSUME NEW i \in DOMAIN q PROVE (<<s>> \o q)[i + 1] = q[i]
  <2>1. i + 1 \in 1..(1 + Len(q)) /\ ~(i + 1 <= 1) /\ (i + 1) - 1 = i
    BY <1>3
  <2> QED BY <1>2, <2>1
<1>7. <<s>> \o q # <<>>
    BY <1>2, <1>3, <1>4, EmptySeq
<1>8. Head(<<s>> \o q) = s
    BY <1>2, <1>5, <1>7, HeadTailProperties
<1>9. Tail(<<s>> \o q) = q
  <2> DEFINE p == <<s>> \o q
  <2>1. /\ Tail(p) \in Seq(Steps) /\ Len(Tail(p)) = Len(p) - 1
        /\ \A i \in 1..Len(p) - 1 : Tail(p)[i] = p[i + 1]
    BY <1>2, <1>7, HeadTailProperties
  <2>2. Len(p) = Len(q) + 1 /\ \A i \in DOMAIN q : p[i + 1] = q[i]
    BY <1>4, <1>6
  <2> HIDE DEF p
  <2>3. Len(Tail(p)) = Len(q) /\ \A i \in 1..Len(Tail(p)) : Tail(p)[i] = q[i]
    BY <1>3, <2>1, <2>2
  <2>4. Tail(p) = q
    BY <2>1, <2>3, SeqEqual
  <2> QED BY <2>4 DEF p
<1> QED
    BY <1>2, <1>3, <1>4, <1>5, <1>6, <1>7, <1>8, <1>9

LEMMA Taken ==
    ASSUME NEW q \in Seq(Steps), q # <<>>
    PROVE  /\ Tail(q) \in Seq(Steps) /\ Head(q) \in Steps /\ Head(q) = q[1] /\ 1 \in DOMAIN q
           /\ Len(Tail(q)) = Len(q) - 1 /\ DOMAIN Tail(q) = 1..(Len(q) - 1)
           /\ DOMAIN q = 1..Len(q) /\ Len(q) \in Nat \ {0}
           /\ \A i \in DOMAIN Tail(q) : Tail(q)[i] = q[i + 1]
           /\ q = <<Head(q)>> \o Tail(q)
<1>1. Len(q) \in Nat /\ Len(q) # 0 /\ DOMAIN q = 1..Len(q)
    BY EmptySeq, LenProperties
<1>2. /\ Tail(q) \in Seq(Steps) /\ Len(Tail(q)) = Len(q) - 1
      /\ \A i \in 1..Len(q) - 1 : Tail(q)[i] = q[i + 1]
    BY HeadTailProperties
<1>3. DOMAIN Tail(q) = 1..(Len(q) - 1)
    BY <1>2, LenProperties
<1>4. Head(q) \in Steps /\ Head(q) = q[1] /\ 1 \in DOMAIN q
    BY <1>1, HeadTailProperties
<1>5. q = <<Head(q)>> \o Tail(q)
    BY HeadTailProperties, <1>4
<1> QED
    BY <1>1, <1>2, <1>3, <1>4, <1>5

LEMMA NoElements == Elements(<<>>) = {}
<1>1. DOMAIN <<>> = {}
    BY EmptySeq, LenProperties
<1> QED
    BY <1>1 DEF Elements

LEMMA ElementsPut ==
    ASSUME NEW q \in Seq(Steps), NEW s \in Steps
    PROVE  Elements(<<s>> \o q) = {s} \cup Elements(q)
<1> DEFINE p == <<s>> \o q
<1>1. /\ Len(q) \in Nat /\ DOMAIN p = 1..(Len(q) + 1) /\ DOMAIN q = 1..Len(q) /\ p[1] = s
      /\ \A i \in DOMAIN q : p[i + 1] = q[i]
    BY Put
<1> HIDE DEF p
<1>2. ASSUME NEW i \in DOMAIN p PROVE p[i] = s \/ \E j \in DOMAIN q : p[i] = q[j]
  <2>1. CASE i # 1
    <3>1. i - 1 \in DOMAIN q /\ (i - 1) + 1 = i
        BY <1>1, <2>1
    <3> QED BY <1>1, <3>1
  <2> QED BY <1>1, <2>1
<1>3. 1 \in DOMAIN p /\ \A i \in DOMAIN q : i + 1 \in DOMAIN p
    BY <1>1
<1>4. Elements(p) = {s} \cup Elements(q)
    BY <1>1, <1>2, <1>3 DEF Elements
<1> QED
    BY <1>4 DEF p

LEMMA ElementsTaken ==
    ASSUME NEW q \in Seq(Steps), q # <<>>
    PROVE  /\ Elements(q) = {Head(q)} \cup Elements(Tail(q))
           /\ Elements(q) \subseteq Steps /\ Elements(Tail(q)) \subseteq Steps
<1>1. Tail(q) \in Seq(Steps) /\ Head(q) \in Steps /\ q = <<Head(q)>> \o Tail(q)
    BY Taken
<1>2. Elements(<<Head(q)>> \o Tail(q)) = {Head(q)} \cup Elements(Tail(q))
    BY <1>1, ElementsPut
<1>3. \A r \in Seq(Steps) : Elements(r) \subseteq Steps
    BY ElementOfSeq, LenProperties DEF Elements
<1> QED
    BY <1>1, <1>2, <1>3

LEMMA ElementsIn == \A q \in Seq(Steps) : Elements(q) \subseteq Steps
    BY ElementOfSeq, LenProperties DEF Elements

LEMMA AfterPut ==
    ASSUME NEW q \in Seq(Steps), NEW s \in Steps
    PROVE  /\ After(<<s>> \o q, 1) = q
           /\ \A i \in DOMAIN q : After(<<s>> \o q, i + 1) = After(q, i)
<1> DEFINE p == <<s>> \o q
<1>1. /\ Len(q) \in Nat /\ Len(p) = Len(q) + 1 /\ DOMAIN q = 1..Len(q)
      /\ \A i \in DOMAIN q : p[i + 1] = q[i]
    BY Put
<1> HIDE DEF p
<1>2. After(p, 1) = q
  <2>1. q = [j \in 1..Len(q) |-> q[j]]
    BY <1>1
  <2>2. Len(p) - 1 = Len(q)
    BY <1>1
  <2>3. \A j \in 1..Len(q) : p[1 + j] = q[j]
    <3>1. \A j \in 1..Len(q) : 1 + j = j + 1
        BY <1>1
    <3> QED BY <1>1, <3>1
  <2>4. [j \in 1..(Len(p) - 1) |-> p[1 + j]] = [j \in 1..Len(q) |-> q[j]]
    BY <2>2, <2>3
  <2> QED BY <2>1, <2>4 DEF After
<1>3. ASSUME NEW i \in DOMAIN q PROVE After(p, i + 1) = After(q, i)
  <2>1. Len(p) - (i + 1) = Len(q) - i
    BY <1>1
  <2>2. \A j \in 1..(Len(q) - i) : i + j \in DOMAIN q /\ (i + 1) + j = (i + j) + 1
    BY <1>1
  <2>3. \A j \in 1..(Len(q) - i) : p[(i + 1) + j] = q[i + j]
    BY <1>1, <2>2
  <2> QED BY <2>1, <2>3 DEF After
<1> QED
    BY <1>2, <1>3 DEF p

LEMMA OrderedPut ==
    ASSUME NEW q \in Seq(Steps), NEW s \in Steps
    PROVE  Ordered(<<s>> \o q) <=> Ordered(q) /\ Fits(s, q)
<1> DEFINE p == <<s>> \o q
<1>1. /\ Len(q) \in Nat /\ DOMAIN p = 1..(Len(q) + 1) /\ DOMAIN q = 1..Len(q) /\ p[1] = s
      /\ \A i \in DOMAIN q : p[i + 1] = q[i]
    BY Put
<1>2. After(p, 1) = q /\ \A i \in DOMAIN q : After(p, i + 1) = After(q, i)
    BY AfterPut
<1> HIDE DEF p
<1>3. ASSUME NEW i \in DOMAIN p PROVE i = 1 \/ (i - 1 \in DOMAIN q /\ i = (i - 1) + 1)
    BY <1>1
<1>4. 1 \in DOMAIN p /\ \A i \in DOMAIN q : i + 1 \in DOMAIN p
    BY <1>1
<1>5. ASSUME Ordered(p) PROVE Ordered(q) /\ Fits(s, q)
  <2>1. Fits(p[1], After(p, 1)) /\ \A i \in DOMAIN q : Fits(p[i + 1], After(p, i + 1))
    BY <1>4, <1>5 DEF Ordered
  <2> QED BY <1>1, <1>2, <2>1 DEF Ordered
<1>6. ASSUME Ordered(q), Fits(s, q) PROVE Ordered(p)
  <2>1. ASSUME NEW i \in DOMAIN p PROVE Fits(p[i], After(p, i))
    <3>1. CASE i = 1
        BY <1>1, <1>2, <1>6, <3>1
    <3>2. ASSUME NEW j \in DOMAIN q, i = j + 1 PROVE Fits(p[i], After(p, i))
        BY <1>1, <1>2, <1>6, <3>2 DEF Ordered
    <3> QED BY <1>3, <3>1, <3>2
  <2> QED BY <2>1 DEF Ordered
<1> QED
    BY <1>5, <1>6 DEF p

LEMMA OrderedTaken ==
    ASSUME NEW q \in Seq(Steps), q # <<>>, Ordered(q)
    PROVE  Ordered(Tail(q)) /\ Fits(Head(q), Tail(q))
<1>1. Tail(q) \in Seq(Steps) /\ Head(q) \in Steps /\ q = <<Head(q)>> \o Tail(q)
    BY Taken
<1> QED
    BY <1>1, OrderedPut

LEMMA HeadFirst ==
    ASSUME NEW t \in Seq(Steps), t # <<>>, NEW q \in Seq(Steps)
    PROVE  t \o q = <<Head(t)>> \o (Tail(t) \o q)
<1>1. Tail(t) \in Seq(Steps) /\ Head(t) \in Steps /\ t = <<Head(t)>> \o Tail(t)
    BY Taken
<1>2. <<Head(t)>> \in Seq(Steps)
    BY <1>1
<1>3. (<<Head(t)>> \o Tail(t)) \o q = <<Head(t)>> \o (Tail(t) \o q)
    BY <1>1, <1>2, ConcatAssociative
<1> QED
    BY <1>1, <1>3

LEMMA Two ==
    ASSUME NEW q \in Seq(Steps), NEW a \in Steps, NEW b \in Steps
    PROVE  <<a, b>> \o q = <<a>> \o (<<b>> \o q)
<1>1. <<a, b>> \in Seq(Steps) /\ <<a, b>> # <<>> /\ Head(<<a, b>>) = a /\ Tail(<<a, b>>) = <<b>>
    OBVIOUS
<1> QED
    BY <1>1, HeadFirst

LEMMA Alone ==
    ASSUME NEW t \in Seq(Steps)
    PROVE  t \o <<>> = t
    BY ConcatEmptySeq

---------------------------------------------------------------------------
(* What becomes of main's steps.                                           *)

\* The first step is done.
Popped ==
    /\ todo' = Tail(todo) /\ todo' \in Seq(Steps) /\ Ordered(todo') /\ Fits(Head(todo), todo')
    /\ Todo = {Head(todo)} \cup Todo' /\ Todo \subseteq Steps /\ Head(todo) \in Todo
    /\ todo' # <<>> => Head(todo') = todo'[1] /\ Head(todo') \in Todo'

\* Main goes on with a, and has got the steps N in place of the first one.
Pushed(a, N) ==
    /\ todo' # <<>> /\ todo' \in Seq(Steps) /\ Ordered(todo') /\ Head(todo') = a
    /\ Todo' = N \cup Elements(Tail(todo)) /\ Todo = {Head(todo)} \cup Elements(Tail(todo))
    /\ Fits(Head(todo), Tail(todo)) /\ Todo \subseteq Steps /\ Head(todo) \in Todo

LEMMA PopTodo ==
    ASSUME todo \in Seq(Steps), todo # <<>>, Ordered(todo), Then(<<>>)
    PROVE  Popped
<1>1. Tail(todo) \in Seq(Steps)
    BY Taken
<1>2. todo' = Tail(todo)
    BY <1>1, ConcatEmptySeq DEF Then
<1>3. Ordered(Tail(todo)) /\ Fits(Head(todo), Tail(todo))
    BY OrderedTaken
<1>4. Elements(todo) = {Head(todo)} \cup Elements(Tail(todo)) /\ Elements(todo) \subseteq Steps
    BY ElementsTaken
<1>5. Tail(todo) # <<>> => Head(Tail(todo)) = Tail(todo)[1]
    BY <1>1, Taken
<1>6. Tail(todo) # <<>> => Head(Tail(todo)) \in Elements(Tail(todo))
    BY <1>1, ElementsTaken
<1>7. Todo' = Elements(Tail(todo)) /\ Todo = Elements(todo)
    BY <1>2 DEF Todo
<1> QED
    BY <1>1, <1>2, <1>3, <1>4, <1>5, <1>6, <1>7 DEF Popped

LEMMA PushOne ==
    ASSUME todo \in Seq(Steps), todo # <<>>, Ordered(todo), NEW a \in Steps,
           Fits(Head(todo), Tail(todo)) => Fits(a, Tail(todo)), Then(<<a>>)
    PROVE  Pushed(a, {a})
<1> DEFINE T == Tail(todo)
<1>1. T \in Seq(Steps) /\ Ordered(T) /\ Fits(Head(todo), T) /\ Fits(a, T)
    BY Taken, OrderedTaken
<1>2. todo' = <<a>> \o T
    BY DEF Then
<1>3. Elements(todo) = {Head(todo)} \cup Elements(T) /\ Elements(todo) \subseteq Steps
    BY ElementsTaken
<1> HIDE DEF T
<1>4. Ordered(<<a>> \o T)
    BY <1>1, OrderedPut
<1>5. Elements(<<a>> \o T) = {a} \cup Elements(T)
    BY <1>1, ElementsPut
<1>6. <<a>> \o T # <<>> /\ Head(<<a>> \o T) = a /\ <<a>> \o T \in Seq(Steps)
    BY <1>1, Put
<1>7. Todo' = Elements(<<a>> \o T) /\ Todo = Elements(todo)
    BY <1>2 DEF Todo
<1> QED
    BY <1>1, <1>2, <1>3, <1>4, <1>5, <1>6, <1>7 DEF Pushed, T

LEMMA PushTwo ==
    ASSUME todo \in Seq(Steps), todo # <<>>, Ordered(todo), NEW a \in Steps, NEW b \in Steps,
           Fits(Head(todo), Tail(todo)) => Fits(b, Tail(todo)) /\ Fits(a, <<b>> \o Tail(todo)),
           Then(<<a, b>>)
    PROVE  Pushed(a, {a, b})
<1> DEFINE T == Tail(todo)
           U == <<b>> \o T
<1>1. T \in Seq(Steps) /\ Ordered(T) /\ Fits(Head(todo), T) /\ Fits(b, T) /\ Fits(a, U)
    BY Taken, OrderedTaken
<1>2. todo' = <<a>> \o U
    BY <1>1, Two DEF Then
<1>3. Elements(todo) = {Head(todo)} \cup Elements(T) /\ Elements(todo) \subseteq Steps
    BY ElementsTaken
<1>4. U \in Seq(Steps) /\ Ordered(U) /\ Elements(U) = {b} \cup Elements(T)
    BY <1>1, Put, OrderedPut, ElementsPut
<1> HIDE DEF T, U
<1>5. Ordered(<<a>> \o U)
    BY <1>1, <1>4, OrderedPut
<1>6. Elements(<<a>> \o U) = {a} \cup Elements(U)
    BY <1>4, ElementsPut
<1>7. <<a>> \o U # <<>> /\ Head(<<a>> \o U) = a /\ <<a>> \o U \in Seq(Steps)
    BY <1>4, Put
<1>8. Todo' = Elements(<<a>> \o U) /\ Todo = Elements(todo)
    BY <1>2 DEF Todo
<1> QED
    BY <1>1, <1>2, <1>3, <1>4, <1>5, <1>6, <1>7, <1>8 DEF Pushed, T

---------------------------------------------------------------------------
(* The steps of main's calls and of the updates it serves.                 *)

LEMMA StepIn ==
    ASSUME NEW do \in Dos, NEW w \in Window \cup {None}, NEW k \in Names \cup Nat,
           do \in Global \/ w \in Window
    PROVE  /\ Step(do, w, k) \in Steps /\ Step(do, w, k).do = do
           /\ Step(do, w, k).w = w /\ Step(do, w, k).k = k
    BY DEF Step, Steps

LEMMA GlobalIn ==
    \A do \in Global : /\ Step(do, None, None) \in Steps /\ Step(do, None, None).do = do
                       /\ Step(do, None, None).w = None /\ Step(do, None, None).k = None
    BY DEF Step, Steps, Global, Dos, Names, Locks

LEMMA OfWindowIn ==
    \A do \in {"sync", "tell", "show", "stop", "ended", "close", "dispose", "gone", "screenvalid",
               "stopped", "answer"} :
        \A w \in Window : \A k \in Names :
            /\ Step(do, w, k) \in Steps /\ Step(do, w, k).do = do
            /\ Step(do, w, k).w = w /\ Step(do, w, k).k = k
    BY DEF Step, Steps, Dos

\* Anything may be put before q, as far as what comes first in q goes.
Free(q) ==
    /\ \A e \in Elements(q) : e.do \notin {"stop", "close"}
    /\ q # <<>> => q[1].do \notin {"gone", "stopped"}

\* The steps p begin with a, and are the steps S.
Built(p, a, S) ==
    p \in Seq(Steps) /\ Ordered(p) /\ Free(p) /\ p # <<>> /\ Head(p) = a /\ Elements(p) = S

LEMMA PutBuilds ==
    ASSUME NEW q \in Seq(Steps), Ordered(q), NEW s \in Steps, Fits(s, q),
           s.do \notin {"stop", "close", "gone", "stopped"}
    PROVE  Built(<<s>> \o q, s, {s} \cup Elements(q))
<1> DEFINE p == <<s>> \o q
<1>1. p \in Seq(Steps) /\ p # <<>> /\ Head(p) = s /\ p[1] = s
    BY Put
<1>2. Ordered(p)
    BY OrderedPut
<1>3. Elements(p) = {s} \cup Elements(q)
    BY ElementsPut
<1> HIDE DEF p
<1>4. Free(p)
    BY <1>1, <1>3 DEF Free, Fits
<1> QED
    BY <1>1, <1>2, <1>3, <1>4 DEF Built, p

Special == DOMAIN Below \cup {"stop", "ended", "answer", "sync", "reload", "rebuild", "add", "changed",
                              "tell", "await", "close"}
LEMMA PlainFits ==
    ASSUME NEW q, Free(q), NEW s, s.do \notin Special
    PROVE  Fits(s, q)
    BY DEF Fits, Free, Special, Below

LEMMA TellFits ==
    ASSUME NEW q, Free(q), NEW w, NEW k \in {"Newlist", "Addentry", "Tofront"}
    PROVE  Fits(Step("tell", w, k), q)
    BY DEF Fits, Free, Step, Below

\* What tells both windows of the list.
LEMMA TellsBuilt ==
    ASSUME NEW q \in Seq(Steps), Ordered(q), Free(q), NEW k \in Renews
    PROVE  LET v == Step("tell", "viewer", k)
               m == Step("tell", "manager", k)
           IN Built(<<v>> \o (<<m>> \o q), v, {v, m} \cup Elements(q))
<1> DEFINE v == Step("tell", "viewer", k)
           m == Step("tell", "manager", k)
           p == <<m>> \o q
<1>1. v \in Steps /\ v.do = "tell" /\ m \in Steps /\ m.do = "tell"
    BY OfWindowIn DEF Window, Names, Renews
<1>2. Fits(m, q)
    BY TellFits DEF Renews
<1>3. Built(p, m, {m} \cup Elements(q))
    BY <1>1, <1>2, PutBuilds
<1>4. p \in Seq(Steps) /\ Ordered(p) /\ Free(p) /\ Elements(p) = {m} \cup Elements(q)
    BY <1>3 DEF Built
<1> HIDE DEF p
<1>5. Fits(v, p)
    BY <1>4, TellFits DEF Renews
<1>6. Built(<<v>> \o p, v, {v} \cup Elements(p))
    BY <1>1, <1>4, <1>5, PutBuilds
<1>7. {v} \cup Elements(p) = {v, m} \cup Elements(q)
    BY <1>4
<1>8. Built(<<v>> \o p, v, {v, m} \cup Elements(q))
    BY <1>6, <1>7
<1> QED
    BY <1>8 DEF p

\* Restorehotlist and Sethotlistcontents.
Restored(do) == {
    Step("sync", "viewer", "Dispose"), Step("sync", "manager", "Dispose"), Step(do, None, None),
    Step("tell", "viewer", "Newlist"), Step("tell", "manager", "Newlist")}

LEMMA RestoreBuilt ==
    ASSUME NEW q \in Seq(Steps), Ordered(q), Free(q), NEW do \in {"reload", "rebuild"}
    PROVE  LET p == <<Step("sync", "viewer", "Dispose"), Step("sync", "manager", "Dispose"),
                      Step(do, None, None),
                      Step("tell", "viewer", "Newlist"), Step("tell", "manager", "Newlist")>> \o q
           IN Built(p, Step("sync", "viewer", "Dispose"), Restored(do) \cup Elements(q))
<1> DEFINE a == Step("sync", "viewer", "Dispose")
           b == Step("sync", "manager", "Dispose")
           c == Step(do, None, None)
           v == Step("tell", "viewer", "Newlist")
           m == Step("tell", "manager", "Newlist")
           r == <<v>> \o (<<m>> \o q)
           s == <<c>> \o r
           t == <<b>> \o s
<1>1. /\ a \in Steps /\ b \in Steps /\ a.do = "sync" /\ b.do = "sync" /\ a.w = "viewer" /\ b.w = "manager"
      /\ a.k = "Dispose" /\ b.k = "Dispose"
      /\ v \in Steps /\ m \in Steps /\ v.do = "tell" /\ m.do = "tell" /\ v.w = "viewer" /\ m.w = "manager"
      /\ v.k = "Newlist" /\ m.k = "Newlist"
    BY OfWindowIn DEF Window, Names
<1>2. c \in Steps /\ c.do = do
    BY GlobalIn DEF Global, Locks
<1>3. Built(r, v, {v, m} \cup Elements(q))
    BY TellsBuilt DEF Renews
<1>4. r \in Seq(Steps) /\ Ordered(r) /\ Free(r) /\ Elements(r) = {v, m} \cup Elements(q)
    BY <1>3 DEF Built
<1> HIDE DEF a, b, c, v, m
<1>5. <<a, b, c, v, m>> \o q = <<a>> \o t
  <2>1. <<a, b, c, v, m>> \in Seq(Steps) /\ <<a, b, c, v, m>> # <<>> /\ Head(<<a, b, c, v, m>>) = a
    BY <1>1, <1>2
  <2>2. Tail(<<a, b, c, v, m>>) = <<b, c, v, m>>
    BY <1>1, <1>2
  <2>3. <<a, b, c, v, m>> \o q = <<a>> \o (<<b, c, v, m>> \o q)
    BY <2>1, <2>2, HeadFirst
  <2>4. <<b, c, v, m>> \in Seq(Steps) /\ <<b, c, v, m>> # <<>> /\ Head(<<b, c, v, m>>) = b
    BY <1>1, <1>2
  <2>5. Tail(<<b, c, v, m>>) = <<c, v, m>>
    BY <1>1, <1>2
  <2>6. <<b, c, v, m>> \o q = <<b>> \o (<<c, v, m>> \o q)
    BY <2>4, <2>5, HeadFirst
  <2>7. <<c, v, m>> \in Seq(Steps) /\ <<c, v, m>> # <<>> /\ Head(<<c, v, m>>) = c
    BY <1>1, <1>2
  <2>8. Tail(<<c, v, m>>) = <<v, m>>
    BY <1>1, <1>2
  <2>9. <<c, v, m>> \o q = <<c>> \o (<<v, m>> \o q)
    BY <2>7, <2>8, HeadFirst
  <2>10. <<v, m>> \o q = r
    BY <1>1, Two
  <2> QED BY <2>3, <2>6, <2>9, <2>10
<1> HIDE DEF r
<1>6. Fits(c, r)
  <2>1. \A w \in Window : Tells(Elements(r), w)
    BY <1>1, <1>4 DEF Tells, Renews, Window
  <2> QED BY <1>2, <1>4, <2>1 DEF Fits, Free, Below
<1>7. Built(s, c, {c} \cup Elements(r))
    BY <1>2, <1>4, <1>6, PutBuilds
<1>8. s \in Seq(Steps) /\ Ordered(s) /\ Free(s) /\ Elements(s) = {c} \cup Elements(r)
    BY <1>7 DEF Built
<1> HIDE DEF s
<1>9. Fits(b, s)
  <2>1. Tells(Elements(s), "manager")
    BY <1>1, <1>4, <1>8 DEF Tells, Renews
  <2> QED BY <1>1, <1>8, <2>1 DEF Fits, Free, Below
<1>10. Built(t, b, {b} \cup Elements(s))
    BY <1>1, <1>8, <1>9, PutBuilds
<1>11. t \in Seq(Steps) /\ Ordered(t) /\ Free(t) /\ Elements(t) = {b} \cup Elements(s)
    BY <1>10 DEF Built
<1> HIDE DEF t
<1>12. Fits(a, t)
  <2>1. Tells(Elements(t), "viewer")
    BY <1>1, <1>4, <1>8, <1>11 DEF Tells, Renews
  <2> QED BY <1>1, <1>11, <2>1 DEF Fits, Free, Below
<1>13. Built(<<a>> \o t, a, {a} \cup Elements(t))
    BY <1>1, <1>11, <1>12, PutBuilds
<1>14. {a} \cup Elements(t) = {a, b, c, v, m} \cup Elements(q)
    BY <1>4, <1>8, <1>11
<1>15. Built(<<a, b, c, v, m>> \o q, a, {a, b, c, v, m} \cup Elements(q))
    BY <1>5, <1>13, <1>14
<1> QED
    BY <1>15 DEF Restored, a, b, c, v, m

LEMMA EmptyFits == <<>> \in Seq(Steps) /\ Ordered(<<>>) /\ Free(<<>>) /\ Elements(<<>>) = {}
<1>1. DOMAIN <<>> = {} /\ <<>> \in Seq(Steps)
    BY EmptySeq, LenProperties
<1> QED
    BY <1>1, NoElements DEF Ordered, Free

LEMMA OneBuilt ==
    ASSUME NEW s \in Steps, Fits(s, <<>>), s.do \notin {"stop", "close", "gone", "stopped"}
    PROVE  Built(<<s>>, s, {s})
<1>1. Built(<<s>> \o <<>>, s, {s} \cup Elements(<<>>))
    BY EmptyFits, PutBuilds
<1>2. <<s>> \o <<>> = <<s>>
    BY Alone
<1> QED
    BY <1>1, <1>2, NoElements

LEMMA SaveFits ==
    ASSUME NEW do \in {"save", "html", "screen", "screenoff"}
    PROVE  Fits(Step(do, None, None), <<>>)
    BY NoElements DEF Fits, Step, Below

LEMMA AddBuilt ==
    ASSUME NEW k \in Renews
    PROVE  Built(Addtohotlist(k), Step("add", None, None),
                 {Step("add", None, None), Step("tell", "viewer", k), Step("tell", "manager", k),
                  Step("save", None, None)})
<1> DEFINE a == Step("add", None, None)
           v == Step("tell", "viewer", k)
           m == Step("tell", "manager", k)
           s == Step("save", None, None)
           r == <<v>> \o (<<m>> \o <<s>>)
<1>1. /\ v \in Steps /\ m \in Steps /\ v.do = "tell" /\ m.do = "tell" /\ v.w = "viewer" /\ m.w = "manager"
      /\ v.k = k /\ m.k = k
    BY OfWindowIn DEF Window, Names, Renews
<1>2. a \in Steps /\ a.do = "add" /\ s \in Steps /\ s.do = "save"
    BY GlobalIn DEF Global, Locks
<1>3. Built(<<s>>, s, {s})
    BY <1>2, SaveFits, OneBuilt
<1>4. <<s>> \in Seq(Steps) /\ Ordered(<<s>>) /\ Free(<<s>>) /\ Elements(<<s>>) = {s}
    BY <1>3 DEF Built
<1>5. Built(r, v, {v, m} \cup Elements(<<s>>))
    BY <1>4, TellsBuilt
<1> HIDE DEF a, v, m, s
<1>6. r \in Seq(Steps) /\ Ordered(r) /\ Free(r) /\ Elements(r) = {v, m, s}
    BY <1>4, <1>5 DEF Built
<1>7. <<a, v, m>> \o <<s>> = <<a>> \o r
  <2>1. <<a, v, m>> \in Seq(Steps) /\ <<a, v, m>> # <<>> /\ Head(<<a, v, m>>) = a
    BY <1>1, <1>2
  <2>2. Tail(<<a, v, m>>) = <<v, m>>
    BY <1>1, <1>2
  <2>3. <<a, v, m>> \o <<s>> = <<a>> \o (<<v, m>> \o <<s>>)
    BY <1>4, <2>1, <2>2, HeadFirst
  <2>4. <<v, m>> \o <<s>> = r
    BY <1>1, <1>4, Two
  <2> QED BY <2>3, <2>4
<1> HIDE DEF r
<1>8. Fits(a, r)
  <2>1. \A w \in Window : Tells(Elements(r), w)
    BY <1>1, <1>6 DEF Tells, Window
  <2> QED BY <1>2, <1>6, <2>1 DEF Fits, Free, Below
<1>9. Built(<<a>> \o r, a, {a} \cup Elements(r))
    BY <1>2, <1>6, <1>8, PutBuilds
<1>10. {a} \cup Elements(r) = {a, v, m, s}
    BY <1>6
<1>11. Built(<<a, v, m>> \o <<s>>, a, {a, v, m, s})
    BY <1>7, <1>9, <1>10
<1> QED
    BY <1>11 DEF Addtohotlist, Savehotlist, a, v, m, s

QuitSteps == {
    Step("screenoff", None, None), Step("dispose", "viewer", None), Step("dispose", "manager", None),
    Step("savequit", None, None), Step("quit", None, None)}

LEMMA QuitBuilt == Built(Quits, Step("screenoff", None, None), QuitSteps)
<1> DEFINE a == Step("screenoff", None, None)
           b == Step("dispose", "viewer", None)
           c == Step("dispose", "manager", None)
           d == Step("savequit", None, None)
           e == Step("quit", None, None)
           r == <<d>> \o <<e>>
           s == <<c>> \o r
           t == <<b>> \o s
<1>1. /\ b \in Steps /\ c \in Steps /\ b.do = "dispose" /\ c.do = "dispose"
      /\ b.w = "viewer" /\ c.w = "manager"
    BY OfWindowIn DEF Window, Names, None
<1>2. /\ a \in Steps /\ a.do = "screenoff" /\ d \in Steps /\ d.do = "savequit"
      /\ e \in Steps /\ e.do = "quit"
    BY GlobalIn DEF Global
<1> HIDE DEF a, b, c, d, e
<1>3. Built(<<e>>, e, {e})
  <2>1. Fits(e, <<>>) BY <1>2, NoElements DEF Fits, Below
  <2> QED BY <1>2, <2>1, OneBuilt
<1>4. <<e>> \in Seq(Steps) /\ Ordered(<<e>>) /\ Free(<<e>>) /\ Elements(<<e>>) = {e}
    BY <1>3 DEF Built
<1>5. <<a, b, c, d, e>> = <<a>> \o t
  <2>1. <<d, e>> = r
    <3>1. <<d, e>> \o <<>> = <<d>> \o (<<e>> \o <<>>)
        BY <1>2, EmptyFits, Two
    <3>2. <<d, e>> \in Seq(Steps) /\ <<e>> \in Seq(Steps)
        BY <1>2
    <3>3. <<d, e>> \o <<>> = <<d, e>> /\ <<e>> \o <<>> = <<e>>
        BY <3>2, Alone
    <3> QED BY <3>1, <3>3
  <2>2. <<c, d, e>> = <<c>> \o <<d, e>>
    BY <1>1, <1>2
  <2>3. <<b, c, d, e>> = <<b>> \o <<c, d, e>>
    BY <1>1, <1>2
  <2>4. <<a, b, c, d, e>> = <<a>> \o <<b, c, d, e>>
    BY <1>1, <1>2
  <2> QED BY <2>1, <2>2, <2>3, <2>4
<1>6. Fits(d, <<e>>)
    BY <1>2, <1>4 DEF Fits, Free, Below
<1>7. Built(r, d, {d} \cup Elements(<<e>>))
    BY <1>2, <1>4, <1>6, PutBuilds
<1>8. r \in Seq(Steps) /\ Ordered(r) /\ Free(r) /\ Elements(r) = {d, e}
    BY <1>4, <1>7 DEF Built
<1> HIDE DEF r
<1>9. Fits(c, r)
    BY <1>1, <1>2, <1>8 DEF Fits, Free, Below
<1>10. Built(s, c, {c} \cup Elements(r))
    BY <1>1, <1>8, <1>9, PutBuilds
<1>11. s \in Seq(Steps) /\ Ordered(s) /\ Free(s) /\ Elements(s) = {c, d, e}
    BY <1>8, <1>10 DEF Built
<1> HIDE DEF s
<1>12. Fits(b, s)
    BY <1>1, <1>2, <1>11 DEF Fits, Free, Below
<1>13. Built(t, b, {b} \cup Elements(s))
    BY <1>1, <1>11, <1>12, PutBuilds
<1>14. t \in Seq(Steps) /\ Ordered(t) /\ Free(t) /\ Elements(t) = {b, c, d, e}
    BY <1>11, <1>13 DEF Built
<1> HIDE DEF t
<1>15. Fits(a, t)
    BY <1>1, <1>2, <1>14 DEF Fits, Free, Below
<1>16. Built(<<a>> \o t, a, {a} \cup Elements(t))
    BY <1>2, <1>14, <1>15, PutBuilds
<1>17. {a} \cup Elements(t) = {a, b, c, d, e}
    BY <1>14
<1>18. Built(<<a, b, c, d, e>>, a, {a, b, c, d, e})
    BY <1>5, <1>16, <1>17
<1> QED
    BY <1>18 DEF Quits, QuitSteps, a, b, c, d, e

LEMMA CallSteps ==
    ASSUME NEW c \in Calls
    PROVE  /\ Stepsof(c) \in Seq(Steps) /\ Ordered(Stepsof(c)) /\ Stepsof(c) # <<>>
           /\ Head(Stepsof(c)) \in Elements(Stepsof(c))
           /\ \A e \in Elements(Stepsof(c)) :
                 e.do \notin {"stop", "ended", "close", "answer", "gone", "stopped", "changed"}
           /\ c = "quit" => Elements(Stepsof(c)) = QuitSteps
<1> DEFINE Goal(p) ==
        /\ p \in Seq(Steps) /\ Ordered(p) /\ p # <<>> /\ Head(p) \in Elements(p)
        /\ \A e \in Elements(p) :
              e.do \notin {"stop", "ended", "close", "answer", "gone", "stopped", "changed"}
<1>1. ASSUME NEW p, NEW a, NEW S, Built(p, a, S),
             \A e \in S : e.do \notin {"stop", "ended", "close", "answer", "gone", "stopped", "changed"}
      PROVE  Goal(p)
  <2>1. p \in Seq(Steps) /\ Ordered(p) /\ p # <<>> /\ Elements(p) = S
    BY <1>1 DEF Built
  <2>2. Head(p) \in Elements(p)
    BY <2>1, ElementsTaken
  <2> QED BY <1>1, <2>1, <2>2
<1> HIDE DEF Goal
<1>2. ASSUME NEW s \in Steps, Fits(s, <<>>),
             s.do \notin {"stop", "ended", "close", "answer", "gone", "stopped", "changed"}
      PROVE  Goal(<<s>>)
  <2>1. Built(<<s>>, s, {s})
    BY <1>2, OneBuilt
  <2> QED BY <1>1, <1>2, <2>1
<1>3. ASSUME NEW w \in Window, NEW do \in {"show", "dispose"}
      PROVE  Goal(<<Step(do, w, None)>>)
  <2>1. Step(do, w, None) \in Steps /\ Step(do, w, None).do = do
    BY OfWindowIn DEF Names
  <2>2. Fits(Step(do, w, None), <<>>)
    BY <2>1, NoElements DEF Fits, Below
  <2> QED BY <1>2, <2>1, <2>2
<1>4. ASSUME NEW do \in {"save", "html", "screen"}
      PROVE  Goal(<<Step(do, None, None)>>)
  <2>1. Step(do, None, None) \in Steps /\ Step(do, None, None).do = do
    BY GlobalIn DEF Global, Locks
  <2> QED BY <1>2, <2>1, SaveFits
<1>5. ASSUME NEW k \in Renews
      PROVE  Goal(Addtohotlist(k))
  <2> DEFINE S == {Step("add", None, None), Step("tell", "viewer", k), Step("tell", "manager", k),
                   Step("save", None, None)}
  <2>1. Built(Addtohotlist(k), Step("add", None, None), S)
    BY AddBuilt
  <2>2. \A e \in S : e.do \notin {"stop", "ended", "close", "answer", "gone", "stopped", "changed"}
    BY DEF Step
  <2> HIDE DEF S
  <2> QED BY <1>1, <2>1, <2>2
<1>6. Goal(Restorehotlist) /\ Goal(Sethotlistcontents)
  <2>1. ASSUME NEW do \in {"reload", "rebuild"}
        PROVE  Goal(<<Step("sync", "viewer", "Dispose"), Step("sync", "manager", "Dispose"),
                      Step(do, None, None),
                      Step("tell", "viewer", "Newlist"), Step("tell", "manager", "Newlist")>>)
    <3> DEFINE p == <<Step("sync", "viewer", "Dispose"), Step("sync", "manager", "Dispose"),
                      Step(do, None, None),
                      Step("tell", "viewer", "Newlist"), Step("tell", "manager", "Newlist")>>
    <3>1. Built(p \o <<>>, Step("sync", "viewer", "Dispose"), Restored(do) \cup Elements(<<>>))
        BY EmptyFits, RestoreBuilt
    <3>2. p \in Seq(Steps)
        BY OfWindowIn, GlobalIn DEF Window, Names, Global, Locks
    <3>3. p \o <<>> = p
        BY <3>2, Alone
    <3> HIDE DEF p
    <3>4. Built(p, Step("sync", "viewer", "Dispose"), Restored(do))
        BY <3>1, <3>3, NoElements
    <3>5. \A e \in Restored(do) :
             e.do \notin {"stop", "ended", "close", "answer", "gone", "stopped", "changed"}
        BY DEF Restored, Step
    <3>6. Goal(p)
        BY <1>1, <3>4, <3>5
    <3> QED BY <3>6 DEF p
  <2> QED BY <2>1 DEF Restorehotlist, Sethotlistcontents
<1>7. Goal(Quits) /\ Elements(Quits) = QuitSteps
  <2>1. \A e \in QuitSteps :
             e.do \notin {"stop", "ended", "close", "answer", "gone", "stopped", "changed"}
    BY DEF QuitSteps, Step
  <2> QED BY <1>1, <2>1, QuitBuilt DEF Built
<1>8. Goal(Stepsof(c))
  <2>1. c \in {"viewer", "manager", "closeviewer", "closemanager", "add", "addgroup", "save",
               "restore", "set", "html", "screen", "quit"}
    BY Named
  <2>2. CASE c = "viewer" BY <1>3, <2>2 DEF Stepsof, Window
  <2>3. CASE c = "manager" BY <1>3, <2>3 DEF Stepsof, Window
  <2>4. CASE c = "closeviewer" BY <1>3, <2>4 DEF Stepsof, Window
  <2>5. CASE c = "closemanager" BY <1>3, <2>5 DEF Stepsof, Window
  <2>6. CASE c = "add" BY <1>5, <2>6 DEF Stepsof, Renews
  <2>7. CASE c = "addgroup" BY <1>5, <2>7 DEF Stepsof, Renews
  <2>8. CASE c = "save" BY <1>4, <2>8 DEF Stepsof, Savehotlist
  <2>9. CASE c = "restore" BY <1>6, <2>9 DEF Stepsof
  <2>10. CASE c = "set" BY <1>6, <2>10 DEF Stepsof
  <2>11. CASE c = "html" BY <1>4, <2>11 DEF Stepsof
  <2>12. CASE c = "screen" BY <1>4, <2>12 DEF Stepsof
  <2>13. CASE c = "quit" BY <1>7, <2>13 DEF Stepsof
  <2> QED BY <2>1, <2>2, <2>3, <2>4, <2>5, <2>6, <2>7, <2>8, <2>9, <2>10, <2>11, <2>12, <2>13
<1>9. c = "quit" => Elements(Stepsof(c)) = QuitSteps
    BY <1>7 DEF Stepsof
<1> QED
    BY <1>8, <1>9 DEF Goal

\* What an update makes main do.
Asked(m) ==
    CASE m.kind = "Changed" -> {Step("changed", None, None), Step("tell", "viewer", "Addentry")}
      [] m.kind = "Save" -> {Step("save", None, None), Step("answer", m.from, None)}
      [] m.kind = "Restore" -> Restored("reload")
      [] m.kind = "Manager" -> {Step("show", "manager", None), Step("answer", m.from, None)}
      [] m.kind = "Close" -> {Step("close", m.from, None)}
      [] m.kind \in {"Dimx", "Follow"} -> {Step("answer", m.from, None)}
      [] m.kind = "reply" -> {}

Served(m) ==
    /\ todo' \in Seq(Steps) /\ Ordered(todo') /\ Todo' = Asked(m) \cup Todo /\ Todo \subseteq Steps
    /\ m.kind = "reply" => todo' = todo
    /\ m.kind # "reply" => todo' # <<>> /\ Head(todo') \in Asked(m)
    /\ m.kind \in {"Follow", "Manager"} => Answers(m.from)'

LEMMA ServeTodo ==
    ASSUME todo \in Seq(Steps), Ordered(todo), NEW m \in Messages,
           todo = <<>> \/ Head(todo).do \in {"await", "ended"},
           m.sync => ~Has("answer", m.from), todo' = Updatehotwindow(m) \o todo
    PROVE  Served(m)
<1> DEFINE r == Step("answer", m.from, None)
<1>1. /\ m.from \in Window /\ m.kind \in Synced \cup {"Changed", "Restore", "Close", "reply"}
      /\ m.sync \in BOOLEAN /\ m.sync <=> m.kind \in Synced
    BY DEF Messages
<1>2. Free(todo) /\ Todo \subseteq Steps /\ Todo = Elements(todo)
  <2>1. CASE todo = <<>>
    BY <2>1, EmptyFits DEF Todo
  <2>2. CASE todo # <<>>
    <3>1. Fits(Head(todo), Tail(todo)) /\ todo[1] = Head(todo)
        BY <2>2, OrderedTaken, Taken
    <3>2. Elements(todo) = {Head(todo)} \cup Elements(Tail(todo)) /\ Elements(todo) \subseteq Steps
        BY <2>2, ElementsTaken
    <3> QED BY <2>2, <3>1, <3>2 DEF Fits, Free, Todo
  <2> QED BY <2>1, <2>2
<1>3. r \in Steps /\ r.do = "answer" /\ r.w = m.from
    BY <1>1, OfWindowIn DEF Names
<1>4. ASSUME NEW p, NEW a, NEW S, Built(p, a, S \cup Elements(todo)), S = Asked(m), a \in S,
             m.kind \in {"Follow", "Manager"} => Answers(m.from)', todo' = p, m.kind # "reply"
      PROVE  Served(m)
    BY <1>2, <1>4 DEF Built, Served, Todo
<1>5. ASSUME m.sync PROVE Built(<<r>> \o todo, r, {r} \cup Elements(todo))
  <2>1. Fits(r, todo)
    BY <1>2, <1>3, <1>5 DEF Fits, Free, Has, Below
  <2> HIDE DEF r
  <2> QED BY <1>3, <2>1, PutBuilds
<1>6. ASSUME m.sync, NEW s \in Steps, s.do \notin Special, s.do \notin {"gone", "stopped"},
             Asked(m) = {s, r}, Updatehotwindow(m) = <<s>> \o <<r>>,
             m.kind = "Manager" => s.do = "show", m.kind # "Follow", m.kind # "reply"
      PROVE  Served(m)
  <2> DEFINE q == <<r>> \o todo
  <2>1. q \in Seq(Steps) /\ Ordered(q) /\ Free(q) /\ q # <<>> /\ Head(q) = r /\ Elements(q) = {r} \cup Elements(todo)
    BY <1>5, <1>6 DEF Built
  <2> HIDE DEF r
  <2>2. todo' = <<s>> \o q
    <3>1. <<s>> \in Seq(Steps) /\ <<r>> \in Seq(Steps)
        BY <1>3
    <3>2. (<<s>> \o <<r>>) \o todo = <<s>> \o (<<r>> \o todo)
        BY <3>1, ConcatAssociative
    <3> QED BY <1>6, <3>2
  <2> HIDE DEF q
  <2>3. Fits(s, q)
    BY <1>6, <2>1, PlainFits
  <2>4. Built(<<s>> \o q, s, {s} \cup Elements(q))
    BY <1>6, <2>1, <2>3, PutBuilds DEF Special
  <2>5. {s} \cup Elements(q) = {s, r} \cup Elements(todo)
    BY <2>1
  <2>6. Built(<<s>> \o q, s, {s, r} \cup Elements(todo))
    BY <2>4, <2>5
  <2>7. m.kind = "Manager" => Answers(m.from)'
    <3>1. Head(<<s>> \o q) = s /\ Tail(<<s>> \o q) = q /\ <<s>> \o q # <<>>
        BY <2>1, Put
    <3> QED BY <1>3, <1>6, <2>1, <2>2, <3>1 DEF Answers
  <2> QED BY <1>4, <1>6, <2>2, <2>6, <2>7
<1>7. CASE m.kind = "Changed"
  <2> DEFINE c == Step("changed", None, None)
             v == Step("tell", "viewer", "Addentry")
             q == <<v>> \o todo
  <2>1. v \in Steps /\ v.do = "tell" /\ v.w = "viewer" /\ v.k = "Addentry" /\ c \in Steps /\ c.do = "changed"
    BY OfWindowIn, GlobalIn DEF Window, Names, Global
  <2>2. todo' = <<c, v>> \o todo
    <3>1. Updatehotwindow(m) = <<c, v>> \o <<>>
        BY <1>1, <1>7 DEF Updatehotwindow, Body, Synced
    <3> HIDE DEF c, v
    <3>2. <<c, v>> \in Seq(Steps)
        BY <2>1
    <3> QED BY <3>1, <3>2, Alone
  <2>3. Fits(v, todo)
    BY <1>2, TellFits
  <2>4. Asked(m) = {c, v}
    BY <1>7 DEF Asked
  <2> HIDE DEF c, v
  <2>5. Built(q, v, {v} \cup Elements(todo))
    BY <2>1, <2>3, PutBuilds
  <2>6. q \in Seq(Steps) /\ Ordered(q) /\ Free(q) /\ Elements(q) = {v} \cup Elements(todo)
    BY <2>5 DEF Built
  <2>7. todo' = <<c>> \o q
    BY <2>1, <2>2, Two
  <2> HIDE DEF q
  <2>8. Fits(c, q)
    <3>1. Tells(Elements(q), "viewer")
        BY <2>1, <2>6 DEF Tells, Renews
    <3> QED BY <2>1, <2>6, <3>1 DEF Fits, Free, Below
  <2>9. Built(<<c>> \o q, c, {c} \cup Elements(q))
    BY <2>1, <2>6, <2>8, PutBuilds
  <2>10. {c} \cup Elements(q) = {c, v} \cup Elements(todo)
    BY <2>6
  <2>11. Built(<<c>> \o q, c, {c, v} \cup Elements(todo))
    BY <2>9, <2>10
  <2> QED BY <1>4, <1>7, <2>4, <2>7, <2>11
<1>8. CASE m.kind = "Save"
  <2>1. Step("save", None, None) \in Steps /\ Step("save", None, None).do = "save"
    BY GlobalIn DEF Global, Locks
  <2>2. Updatehotwindow(m) = <<Step("save", None, None)>> \o <<r>>
    BY <1>1, <1>8 DEF Updatehotwindow, Body, Synced, Savehotlist
  <2>3. Asked(m) = {Step("save", None, None), r}
    BY <1>8 DEF Asked
  <2>4. m.sync
    BY <1>1, <1>8 DEF Synced
  <2> QED BY <1>6, <1>8, <2>1, <2>2, <2>3, <2>4 DEF Special, Below
<1>9. CASE m.kind = "Manager"
  <2>1. Step("show", "manager", None) \in Steps /\ Step("show", "manager", None).do = "show"
    BY OfWindowIn DEF Names, Window
  <2>2. Updatehotwindow(m) = <<Step("show", "manager", None)>> \o <<r>>
    BY <1>1, <1>9 DEF Updatehotwindow, Body, Synced
  <2>3. Asked(m) = {Step("show", "manager", None), r}
    BY <1>9 DEF Asked
  <2>4. m.sync
    BY <1>1, <1>9 DEF Synced
  <2> QED BY <1>6, <1>9, <2>1, <2>2, <2>3, <2>4 DEF Special, Below
<1>10. CASE m.kind = "Restore"
  <2> DEFINE p == <<Step("sync", "viewer", "Dispose"), Step("sync", "manager", "Dispose"),
                    Step("reload", None, None),
                    Step("tell", "viewer", "Newlist"), Step("tell", "manager", "Newlist")>>
  <2>1. Built(p \o todo, Step("sync", "viewer", "Dispose"), Restored("reload") \cup Elements(todo))
    BY <1>2, RestoreBuilt
  <2>2. todo' = p \o todo
    <3>1. p \in Seq(Steps)
        BY OfWindowIn, GlobalIn DEF Window, Names, Global, Locks
    <3>2. Updatehotwindow(m) = p \o <<>>
        BY <1>1, <1>10 DEF Updatehotwindow, Body, Synced, Restorehotlist
    <3> HIDE DEF p
    <3> QED BY <3>1, <3>2, Alone
  <2> HIDE DEF p
  <2>3. Asked(m) = Restored("reload")
    BY <1>10 DEF Asked
  <2>4. Step("sync", "viewer", "Dispose") \in Restored("reload")
    BY DEF Restored
  <2> QED BY <1>4, <1>10, <2>1, <2>2, <2>3, <2>4
<1>11. CASE m.kind = "Close"
  <2> DEFINE c == Step("close", m.from, None)
  <2>1. c \in Steps /\ c.do = "close"
    BY <1>1, OfWindowIn DEF Names
  <2>2. todo' = <<c>> \o todo
    <3>1. Updatehotwindow(m) = <<c>> \o <<>>
        BY <1>1, <1>11 DEF Updatehotwindow, Body, Synced
    <3>2. <<c>> \in Seq(Steps)
        BY <2>1
    <3> QED BY <3>1, <3>2, Alone
  <2>3. Asked(m) = {c}
    BY <1>11 DEF Asked
  <2> HIDE DEF c
  <2>4. Fits(c, todo)
    BY <1>2, <2>1 DEF Fits, Free, Below
  <2>5. Ordered(<<c>> \o todo) /\ Elements(<<c>> \o todo) = {c} \cup Elements(todo)
    BY <2>1, <2>4, OrderedPut, ElementsPut
  <2>6. <<c>> \o todo \in Seq(Steps) /\ <<c>> \o todo # <<>> /\ Head(<<c>> \o todo) = c
    BY <2>1, Put
  <2> QED BY <1>2, <1>11, <2>2, <2>3, <2>5, <2>6 DEF Served, Todo
<1>12. CASE m.kind \in {"Dimx", "Follow"}
  <2>1. todo' = <<r>> \o todo
    <3>1. Updatehotwindow(m) = <<>> \o <<r>>
        BY <1>1, <1>12 DEF Updatehotwindow, Body, Synced
    <3> HIDE DEF r
    <3>2. <<r>> \in Seq(Steps)
        BY <1>3
    <3>3. <<>> \o <<r>> = <<r>>
        BY <3>2, ConcatEmptySeq
    <3> QED BY <3>1, <3>3
  <2>2. Asked(m) = {r}
    BY <1>12 DEF Asked
  <2>3. m.sync
    BY <1>1, <1>12 DEF Synced
  <2>4. Answers(m.from)'
    <3> HIDE DEF r
    <3>1. <<r>> \o todo # <<>> /\ Head(<<r>> \o todo) = r
        BY <1>3, Put
    <3> QED BY <1>3, <2>1, <3>1 DEF Answers, W
  <2> HIDE DEF r
  <2> QED BY <1>4, <1>5, <1>12, <2>1, <2>2, <2>3, <2>4
<1>13. CASE m.kind = "reply"
  <2>1. Updatehotwindow(m) = <<>> \o <<>>
    BY <1>1, <1>13 DEF Updatehotwindow, Body, Synced
  <2>2. todo' = todo
    BY <2>1, ConcatEmptySeq, EmptyFits
  <2>3. Asked(m) = {}
    BY <1>13 DEF Asked
  <2> QED BY <1>2, <1>13, <2>2, <2>3 DEF Served, Todo
<1> QED
    BY <1>1, <1>7, <1>8, <1>9, <1>10, <1>11, <1>12, <1>13 DEF Synced

---------------------------------------------------------------------------
(* What becomes of the messages in port.                                   *)

LEMMA Smallest ==
    ASSUME NEW S \in SUBSET Nat, S # {}
    PROVE  \E n \in S : \A m \in S : n <= m
<1>1. OpToRel(<, Nat) = {ss \in Nat \X Nat : ss[1] < ss[2]}
    BY DEF OpToRel
<1>2. IsWellFoundedOn({ss \in Nat \X Nat : ss[1] < ss[2]}, Nat)
    BY <1>1, NatLessThanWellFounded
<1>3. PICK n \in S : \A m \in S : <<m, n>> \notin {ss \in Nat \X Nat : ss[1] < ss[2]}
    BY <1>2, WFMin
<1>4. \A m \in S : ~ (m < n)
    BY <1>3
<1> QED
    BY <1>4

\* The k-th message is taken, the first one of its sender.
Took(k) ==
    /\ k \in DOMAIN port /\ port' \in Seq(Messages) /\ DOMAIN port \subseteq Nat
    /\ DOMAIN port' \subseteq Nat
    /\ \A i \in DOMAIN port' : port'[i] = port[IF i < k THEN i ELSE i + 1]
                               /\ (IF i < k THEN i ELSE i + 1) \in DOMAIN port
    /\ \A j \in DOMAIN port : /\ j < k => j \in DOMAIN port' /\ port'[j] = port[j]
                              /\ j > k => j - 1 \in DOMAIN port' /\ port'[j - 1] = port[j]
    /\ \A j \in DOMAIN port : j < k => port[j].from # port[k].from

LEMMA RemoveAtElements ==
    ASSUME NEW S, NEW s \in Seq(S), NEW i \in 1..Len(s)
    PROVE  /\ RemoveAt(s, i) \in Seq(S)
           /\ Len(RemoveAt(s, i)) = Len(s) - 1
           /\ \A j \in 1..Len(s) - 1 : RemoveAt(s, i)[j] = s[IF j < i THEN j ELSE j + 1]
<1> DEFINE a == SubSeq(s, 1, i - 1)
           b == SubSeq(s, i + 1, Len(s))
<1>1. Len(s) \in Nat /\ \A k \in 1..Len(s) : s[k] \in S
    BY LenProperties, ElementOfSeq
<1>2. a \in Seq(S) /\ Len(a) = i - 1 /\ \A j \in 1..i - 1 : a[j] = s[j]
    BY <1>1, SubSeqProperties
<1>3. b \in Seq(S) /\ Len(b) = Len(s) - i /\ \A j \in 1..Len(s) - i : b[j] = s[i + j]
    BY <1>1, SubSeqProperties
<1> HIDE DEF a, b
<1>4. a \o b \in Seq(S) /\ Len(a \o b) = Len(s) - 1
  <2>1. a \o b \in Seq(S) /\ Len(a \o b) = Len(a) + Len(b)
    BY <1>2, <1>3, ConcatProperties
  <2>2. i \in Nat
    OBVIOUS
  <2> QED
    BY <1>1, <1>2, <1>3, <2>1, <2>2
<1>5. ASSUME NEW j \in 1..Len(s) - 1
      PROVE  (a \o b)[j] = s[IF j < i THEN j ELSE j + 1]
    BY <1>1, <1>2, <1>3, <1>5, ConcatProperties
<1> QED
    BY <1>4, <1>5 DEF RemoveAt, a, b

LEMMA TookHead ==
    ASSUME port \in Seq(Messages), port # <<>>, port' = Tail(port)
    PROVE  Took(1) /\ port[1] = Head(port) /\ Head(port) \in Messages
<1>1. Len(port) \in Nat /\ Len(port) # 0 /\ DOMAIN port = 1..Len(port)
    BY EmptySeq, LenProperties
<1>2. /\ Tail(port) \in Seq(Messages) /\ Len(Tail(port)) = Len(port) - 1
      /\ \A i \in 1..Len(port) - 1 : Tail(port)[i] = port[i + 1]
    BY HeadTailProperties
<1>3. DOMAIN port' = 1..(Len(port) - 1) /\ port' \in Seq(Messages)
    BY <1>2, LenProperties
<1>4. Head(port) \in Messages /\ Head(port) = port[1] /\ 1 \in DOMAIN port
    BY <1>1, HeadTailProperties
<1>5. \A i \in DOMAIN port' : ~(i < 1) /\ i + 1 \in DOMAIN port /\ port'[i] = port[i + 1]
    BY <1>1, <1>2, <1>3
<1>6. \A j \in DOMAIN port : ~(j < 1) /\ (j > 1 => j - 1 \in DOMAIN port' /\ (j - 1) + 1 = j)
    BY <1>1, <1>3
<1>7. \A j \in DOMAIN port : j > 1 => port'[j - 1] = port[j]
    BY <1>5, <1>6
<1>8. DOMAIN port \subseteq Nat /\ DOMAIN port' \subseteq Nat
    BY <1>1, <1>3
<1> QED
    BY <1>3, <1>4, <1>5, <1>6, <1>7, <1>8 DEF Took

LEMMA TookFirst ==
    ASSUME port \in Seq(Messages), NEW w, Of(w) # {}, port' = RemoveAt(port, First(w))
    PROVE  Took(First(w)) /\ port[First(w)].from = w /\ port[First(w)] \in Messages
<1> DEFINE k == First(w)
<1>1. Len(port) \in Nat /\ DOMAIN port = 1..Len(port) /\ \A i \in 1..Len(port) : port[i] \in Messages
    BY LenProperties, ElementOfSeq
<1>2. Of(w) \in SUBSET Nat
    BY <1>1 DEF Of
<1>3. \E i \in Of(w) : \A j \in Of(w) : i <= j
    BY <1>2, Smallest
<1>4. k \in Of(w) /\ \A j \in Of(w) : k <= j
    BY <1>3 DEF First
<1> HIDE DEF k
<1>5. k \in 1..Len(port) /\ port[k].from = w
    BY <1>1, <1>4 DEF Of
<1>6. port' = RemoveAt(port, k)
    BY DEF k
<1>7. /\ port' \in Seq(Messages) /\ Len(port') = Len(port) - 1
      /\ \A j \in 1..Len(port) - 1 : port'[j] = port[IF j < k THEN j ELSE j + 1]
    BY <1>5, <1>6, RemoveAtElements
<1>8. DOMAIN port' = 1..(Len(port) - 1)
    BY <1>7, LenProperties
<1>9. \A i \in DOMAIN port' : (IF i < k THEN i ELSE i + 1) \in DOMAIN port
    BY <1>1, <1>5, <1>8
<1>10. ASSUME NEW j \in DOMAIN port
       PROVE  /\ j < k => j \in DOMAIN port' /\ port'[j] = port[j]
              /\ j > k => j - 1 \in DOMAIN port' /\ port'[j - 1] = port[j]
  <2>1. j < k => j \in DOMAIN port'
    BY <1>1, <1>5, <1>8
  <2>2. j > k => j - 1 \in DOMAIN port' /\ ~(j - 1 < k) /\ (j - 1) + 1 = j
    BY <1>1, <1>5, <1>8
  <2> QED BY <1>7, <1>8, <2>1, <2>2
<1>11. \A j \in DOMAIN port : j < k => port[j].from # w
    BY <1>1, <1>4, <1>5 DEF Of
<1>12. DOMAIN port \subseteq Nat /\ DOMAIN port' \subseteq Nat
    BY <1>1, <1>8
<1>13. Took(k)
    BY <1>1, <1>5, <1>7, <1>8, <1>9, <1>10, <1>11, <1>12 DEF Took
<1> QED
    BY <1>1, <1>5, <1>13 DEF k

\* A message m is put to the others.
Appended(m) ==
    /\ port' \in Seq(Messages) /\ DOMAIN port \subseteq Nat
    /\ \E n \in Nat : /\ DOMAIN port = 1..n /\ DOMAIN port' = 1..(n + 1) /\ port'[n + 1] = m
                      /\ \A i \in DOMAIN port : port'[i] = port[i]

LEMMA Appending ==
    ASSUME port \in Seq(Messages), NEW m \in Messages, port' = Append(port, m)
    PROVE  Appended(m)
<1>1. Len(port) \in Nat /\ DOMAIN port = 1..Len(port)
    BY LenProperties
<1>2. /\ port' \in Seq(Messages) /\ Len(port') = Len(port) + 1
      /\ \A i \in 1..Len(port) : port'[i] = port[i]
      /\ port'[Len(port) + 1] = m
    BY AppendProperties
<1>3. DOMAIN port' = 1..(Len(port) + 1)
    BY <1>2, LenProperties
<1>4. DOMAIN port \subseteq Nat
    BY <1>1
<1>5. /\ DOMAIN port = 1..Len(port) /\ DOMAIN port' = 1..(Len(port) + 1) /\ port'[Len(port) + 1] = m
      /\ \A i \in DOMAIN port : port'[i] = port[i]
    BY <1>1, <1>2, <1>3
<1> QED
    BY <1>1, <1>2, <1>4, <1>5 DEF Appended

---------------------------------------------------------------------------
(* What keeps each part of the invariant.                                  *)

\* The steps of these kinds stay what they were.
Same(D) == \A e \in Steps : e.do \in D => (e \in Todo' <=> e \in Todo)

LEMMA HasSame ==
    ASSUME Todo \subseteq Steps, Todo' \subseteq Steps, NEW D, Same(D), NEW do \in D
    PROVE  /\ \A w : Has(do, w)' <=> Has(do, w)
           /\ Does(do)' <=> Does(do)
    BY DEF Same, Has, Does

LEMMA TellsSame ==
    ASSUME Todo \subseteq Steps, NEW D, Same(D), "tell" \in D
    PROVE  \A w : Tells(Todo, w) => Tells(Todo', w)
    BY DEF Same, Tells

LEMMA PoppedSame ==
    ASSUME Popped, NEW D, Head(todo).do \notin D
    PROVE  Same(D) /\ Todo' \subseteq Steps
    BY DEF Same, Popped

LEMMA PushedSame ==
    ASSUME NEW a, NEW N, Pushed(a, N), N \subseteq Steps, NEW D, Head(todo).do \notin D,
           \A e \in N : e.do \notin D
    PROVE  Same(D) /\ Todo' \subseteq Steps
    BY DEF Same, Pushed

LEMMA SaidSame ==
    ASSUME port' = port
    PROVE  \A w : Said(w)' = Said(w)
    BY DEF Said

LEMMA HotFrame ==
    ASSUME HotInv, hot' = hot,
           \A w \in Window : /\ proc'[w].at = "none" <=> proc[w].at = "none"
                             /\ proc[w].at \in Over => proc'[w].at \in Over,
           \A w \in Window : proc[w].at \in Over /\ Said(w) = {} => Said(w)' = {},
           \A w \in Window : Ending(w)' <=> Ending(w),
           \A w \in Window : Has("close", w)' => Has("close", w),
           \A w \in Window : Ending(w) /\ ~hot[w].task => (Doing("stop")' \/ Doing("ended")') /\ W' = w,
           \A w \in Window : (Doing("gone")' \/ Doing("stopped")') /\ W' = w => proc'[w].at = "none"
    PROVE  HotInv'
<1> SUFFICES ASSUME NEW w \in Window
    PROVE  /\ proc'[w].at # "none" => hot'[w].task \/ Ending(w)'
           /\ Ending(w)' => hot'[w].breaking \/ ~hot'[w].task
           /\ Ending(w)' /\ ~hot'[w].task =>
                 (Doing("stop")' \/ Doing("ended")') /\ W' = w /\ Said(w)' = {} /\ proc'[w].at \in Over
           /\ (Doing("gone")' \/ Doing("stopped")') /\ W' = w => proc'[w].at = "none"
           /\ Has("close", w)' => Said(w)' = {} /\ proc'[w].at \in Over
    BY DEF HotInv
<1>1. /\ proc[w].at # "none" => hot[w].task \/ Ending(w)
      /\ Ending(w) => hot[w].breaking \/ ~hot[w].task
      /\ Ending(w) /\ ~hot[w].task =>
            (Doing("stop") \/ Doing("ended")) /\ W = w /\ Said(w) = {} /\ proc[w].at \in Over
      /\ Has("close", w) => Said(w) = {} /\ proc[w].at \in Over
    BY DEF HotInv
<1> QED
    BY <1>1

LEMMA PortStays ==
    ASSUME PortInv, port \in Seq(Messages), port' = port,
           \A w \in Window :
              \/ proc'[w].at = proc[w].at
              \/ /\ proc'[w].at # "none" /\ proc[w].at \notin Over
                 /\ \A i \in DOMAIN port : port[i].from = w => ~port[i].sync,
           \A w \in Window : Has("answer", w)' => Has("answer", w),
           hotsema' \in {hotsema, None} \/ \A i \in DOMAIN port : port[i].from = hotsema' => ~port[i].sync
    PROVE  PortInv'
<1> SUFFICES ASSUME NEW w \in Window, NEW i \in DOMAIN port, port[i].from = w
    PROVE  /\ proc'[w].at # "none"
           /\ port[i].kind = "Close" => proc'[w].at \in Over /\ \A j \in Said(w) : j <= i
           /\ port[i].sync =>
                 /\ proc'[w].at = "sync" /\ ~Has("answer", w)'
                 /\ \A j \in DOMAIN port : port[j].from = w /\ port[j].sync => j = i
                 /\ hotsema' = w => port[i].kind \in {"Follow", "Manager"}
    BY SaidSame DEF PortInv
<1>1. /\ proc[w].at # "none"
      /\ port[i].kind = "Close" => proc[w].at \in Over /\ \A j \in Said(w) : j <= i
      /\ port[i].sync =>
            /\ proc[w].at = "sync" /\ ~Has("answer", w)
            /\ \A j \in DOMAIN port : port[j].from = w /\ port[j].sync => j = i
            /\ hotsema = w => port[i].kind \in {"Follow", "Manager"}
    BY DEF PortInv
<1>2. w # None
    BY DEF Window, None
<1> QED
    BY <1>1, <1>2

LEMMA PortTook ==
    ASSUME PortInv, port \in Seq(Messages), NEW k, Took(k),
           \A w \in Window : proc'[w].at = proc[w].at, hotsema' = hotsema,
           \A w \in Window : Has("answer", w)' => Has("answer", w) \/ (w = port[k].from /\ port[k].sync)
    PROVE  PortInv' /\ \A w \in Window : Said(w) = {} => Said(w)' = {}
<1> DEFINE Old(i) == IF i < k THEN i ELSE i + 1
<1>1. ASSUME NEW i \in DOMAIN port'
      PROVE  Old(i) \in DOMAIN port /\ port'[i] = port[Old(i)] /\ i \in Nat /\ Old(i) # k
    BY DEF Took
<1>2. k \in Nat
    BY DEF Took
<1>3. \A w \in Window : Said(w) = {} => Said(w)' = {}
    BY <1>1 DEF Said
<1>4. \A i, j \in DOMAIN port' : Old(j) <= Old(i) => j <= i
    BY <1>1, <1>2
<1>5. \A i, j \in DOMAIN port' : Old(j) = Old(i) => j = i
    BY <1>1, <1>2
<1> HIDE DEF Old
<1>6. ASSUME NEW w \in Window, NEW i \in DOMAIN port', port'[i].from = w
      PROVE  /\ proc'[w].at # "none"
             /\ port'[i].kind = "Close" => proc'[w].at \in Over /\ \A j \in Said(w)' : j <= i
             /\ port'[i].sync =>
                   /\ proc'[w].at = "sync" /\ ~Has("answer", w)'
                   /\ \A j \in DOMAIN port' : port'[j].from = w /\ port'[j].sync => j = i
                   /\ hotsema' = w => port'[i].kind \in {"Follow", "Manager"}
  <2> DEFINE o == Old(i)
  <2>1. port'[i] = port[o] /\ o \in DOMAIN port /\ o # k
    BY <1>1
  <2>2. /\ proc[w].at # "none"
        /\ port[o].kind = "Close" => proc[w].at \in Over /\ \A j \in Said(w) : j <= o
        /\ port[o].sync =>
              /\ proc[w].at = "sync" /\ ~Has("answer", w)
              /\ \A j \in DOMAIN port : port[j].from = w /\ port[j].sync => j = o
              /\ hotsema = w => port[o].kind \in {"Follow", "Manager"}
    BY <1>6, <2>1 DEF PortInv
  <2> HIDE DEF o
  <2>3. ASSUME port[o].kind = "Close", NEW j \in Said(w)' PROVE j <= i
    <3>1. j \in DOMAIN port' /\ port'[j].from = w /\ port'[j].kind # "reply"
        BY DEF Said
    <3>2. Old(j) \in DOMAIN port /\ port'[j] = port[Old(j)]
        BY <1>1, <3>1
    <3>3. Old(j) \in Said(w)
        BY <3>1, <3>2 DEF Said
    <3>4. Old(j) <= Old(i)
        BY <2>2, <2>3, <3>3 DEF o
    <3> QED BY <1>4, <3>1, <3>4
  <2>4. ASSUME port[o].sync
        PROVE  /\ ~Has("answer", w)'
               /\ \A j \in DOMAIN port' : port'[j].from = w /\ port'[j].sync => j = i
    <3>1. ~(w = port[k].from /\ port[k].sync)
        BY <2>1, <2>2, <2>4 DEF Took
    <3>2. ~Has("answer", w)'
        BY <2>2, <2>4, <3>1
    <3>3. ASSUME NEW j \in DOMAIN port', port'[j].from = w, port'[j].sync PROVE j = i
        <4>1. Old(j) \in DOMAIN port /\ port'[j] = port[Old(j)]
            BY <1>1
        <4>2. Old(j) = Old(i)
            BY <2>2, <2>4, <3>3, <4>1 DEF o
        <4> QED BY <1>5, <4>2
    <3> QED BY <3>2, <3>3
  <2> QED BY <2>1, <2>2, <2>3, <2>4
<1>7. PortInv'
    BY <1>6 DEF PortInv
<1> QED
    BY <1>3, <1>7

LEMMA AnswerFrame ==
    ASSUME AnswerInv, hotsema' = hotsema,
           \A w \in Window : \/ proc'[w].at = proc[w].at /\ proc'[w].then = proc[w].then
                             \/ proc[w].at \in {"none", "dead"} /\ proc'[w].at \in {"none", "build"},
           \A w \in Window : Has("answer", w)' => Has("answer", w),
           \A w \in Window : Answers(w) /\ Has("answer", w)' => Answers(w)'
    PROVE  AnswerInv'
<1> SUFFICES ASSUME NEW w \in Window
    PROVE  /\ Has("answer", w)' => proc'[w].at = "sync"
           /\ proc'[w].at = "sync" =>
                 proc'[w].then \in Unlocks \cup {"relock", "relockdone", "top", "done", "free"}
           /\ hotsema' = w => \/ proc'[w].at \in Unlocks
                              \/ proc'[w].at = "sync" /\ proc'[w].then \in Unlocks
           /\ hotsema' = w /\ Has("answer", w)' => Answers(w)'
    BY DEF AnswerInv
<1>1. /\ Has("answer", w) => proc[w].at = "sync"
      /\ proc[w].at = "sync" => proc[w].then \in Unlocks \cup {"relock", "relockdone", "top", "done", "free"}
      /\ hotsema = w => \/ proc[w].at \in Unlocks
                        \/ proc[w].at = "sync" /\ proc[w].then \in Unlocks
      /\ hotsema = w /\ Has("answer", w) => Answers(w)
    BY DEF AnswerInv
<1> QED
    BY <1>1 DEF Unlocks

LEMMA NodesFrame ==
    ASSUME NodesInv, nodes' = nodes, inbox' = inbox,
           \A w \in Window : proc'[w].at \notin {"none", "build", "free", "end", "dead"} =>
                                proc[w].at \notin {"none", "build", "free", "end", "dead"},
           \A w \in Window : Tells(Todo, w) => Tells(Todo', w),
           ChangeIsTold => ChangeIsTold' \/ Tells(Todo', "viewer")
    PROVE  NodesInv'
<1>1. \A w \in Window : \A n : Renewed(w, n) => Renewed(w, n)'
    BY DEF Renewed
<1>2. \A w \in Window : Good(w)' <=> Good(w)
    BY DEF Good
<1> QED
    BY <1>1, <1>2 DEF NodesInv

LEMMA QuitFrame ==
    ASSUME QuitInv, left'.quit = left.quit,
           \A w \in Window : proc'[w].at # "none" => proc[w].at # "none",
           \A w \in Window : /\ Has("dispose", w)' <=> Has("dispose", w)
                             /\ Has("gone", w)' <=> Has("gone", w)
                             /\ Has("show", w)' => Has("show", w),
           Does("savequit")' <=> Does("savequit"),
           Does("screen")' \/ Does("screenoff")' \/ Does("screenvalid")' =>
              Does("screen") \/ Does("screenoff") \/ Does("screenvalid"),
           left.quit /\ ~Does("savequit") => ~list'.dirty /\ \A e \in Todo' : e.do = "quit"
    PROVE  QuitInv'
<1>1. SUFFICES ASSUME left.quit
    PROVE  /\ \A w \in Window : proc'[w].at # "none" => Disposing(w)'
           /\ \A w \in Window : Disposing(w)' => Does("savequit")'
           /\ Disposing("viewer")' => Has("dispose", "manager")'
           /\ ~Has("show", "viewer")'
           /\ Has("show", "manager")' => Has("dispose", "manager")'
           /\ \A w \in Window : Does("screen")' \/ Does("screenoff")' \/ Does("screenvalid")' => Has("dispose", w)'
           /\ ~Does("savequit")' => ~list'.dirty /\ \A e \in Todo' : e.do = "quit"
    BY DEF QuitInv
<1>2. \A w \in Window : Disposing(w)' <=> Disposing(w)
    BY DEF Disposing
<1>3. "viewer" \in Window /\ "manager" \in Window
    BY DEF Window
<1> QED
    BY <1>1, <1>2, <1>3 DEF QuitInv


---------------------------------------------------------------------------
(* Main goes on with what it has to do.                                    *)

LEMMA HeadStep ==
    ASSUME todo \in Seq(Steps), todo # <<>>
    PROVE  /\ Head(todo) \in Steps /\ Head(todo) \in Todo /\ Todo \subseteq Steps
           /\ Head(todo).do \notin Global => W \in Window
           /\ Todo = {Head(todo)} \cup Elements(Tail(todo))
<1>1. Head(todo) \in Todo /\ Todo \subseteq Steps /\ Todo = {Head(todo)} \cup Elements(Tail(todo))
    BY ElementsTaken DEF Todo
<1> QED
    BY <1>1 DEF Steps, W

LEMMA HotGoesOn ==
    ASSUME HotInv, hot' = hot, port' = port,
           \A w \in Window : /\ proc'[w].at = "none" <=> proc[w].at = "none"
                             /\ proc[w].at \in Over => proc'[w].at \in Over,
           todo # <<>>, Head(todo).do \notin {"stop", "ended"}, Todo \subseteq Steps, Todo' \subseteq Steps,
           Same({"stop", "ended"}), \A w \in Window : Has("close", w)' => Has("close", w),
           todo' # <<>> => Head(todo').do \notin {"gone", "stopped"}
    PROVE  HotInv'
<1>1. \A w \in Window : Ending(w)' <=> Ending(w)
    BY HasSame DEF Ending
<1>2. \A w \in Window : ~(Ending(w) /\ ~hot[w].task)
    BY DEF HotInv, Doing
<1>3. ~Doing("gone")' /\ ~Doing("stopped")'
    BY DEF Doing
<1> QED
    BY <1>1, <1>2, <1>3, HotFrame, SaidSame

LEMMA QuitGoesOn ==
    ASSUME QuitInv, Head(todo) \in Todo, Head(todo).do # "quit", Todo \subseteq Steps, Todo' \subseteq Steps,
           Same({"dispose", "gone", "savequit"}), left'.quit = left.quit,
           \A w \in Window : proc'[w].at # "none" => proc[w].at # "none",
           \A w \in Window : Has("show", w)' => Has("show", w),
           Does("screen")' \/ Does("screenoff")' \/ Does("screenvalid")' =>
              Does("screen") \/ Does("screenoff") \/ Does("screenvalid")
    PROVE  QuitInv'
<1>1. left.quit => Does("savequit")
    BY DEF QuitInv
<1>2. Does("savequit")' <=> Does("savequit")
    BY HasSame
<1>3. \A w \in Window : /\ Has("dispose", w)' <=> Has("dispose", w)
                        /\ Has("gone", w)' <=> Has("gone", w)
    BY HasSame
<1> QED
    BY <1>1, <1>2, <1>3, QuitFrame

LEMMA NoAnswers ==
    ASSUME todo # <<>> => Head(todo).do \notin {"answer", "show", "tell"}
    PROVE  \A w : ~Answers(w)
    BY DEF Answers

\* What a step that is done leaves.
LEMMA PopLeaves ==
    ASSUME Popped
    PROVE  /\ Todo' \subseteq Todo /\ \A do : \A w : Has(do, w)' => Has(do, w)
           /\ \A do : Does(do)' => Does(do)
    BY DEF Popped, Has, Does

LEMMA PopHot ==
    ASSUME HotInv, Popped, todo # <<>>, Head(todo).do \notin {"stop", "ended"}, hot' = hot, port' = port,
           \A w \in Window : /\ proc'[w].at = "none" <=> proc[w].at = "none"
                             /\ proc[w].at \in Over => proc'[w].at \in Over
    PROVE  HotInv'
<1>1. Same({"stop", "ended"}) /\ Todo \subseteq Steps /\ Todo' \subseteq Steps
    BY PoppedSame DEF Popped
<1>2. todo' # <<>> => Head(todo').do \notin {"gone", "stopped"}
    BY DEF Popped, Fits
<1> QED
    BY <1>1, <1>2, PopLeaves, HotGoesOn

LEMMA PopQuit ==
    ASSUME QuitInv, Popped, Head(todo).do \notin {"dispose", "gone", "savequit", "quit"},
           left'.quit = left.quit, \A w \in Window : proc'[w].at # "none" => proc[w].at # "none"
    PROVE  QuitInv'
<1>1. Same({"dispose", "gone", "savequit"}) /\ Head(todo) \in Todo /\ Todo \subseteq Steps /\ Todo' \subseteq Steps
    BY PoppedSame DEF Popped
<1> QED
    BY <1>1, PopLeaves, QuitGoesOn

LEMMA PopAnswers ==
    ASSUME todo \in Seq(Steps), Popped, Head(todo).do # "answer"
    PROVE  \A w \in Window : Answers(w) /\ Has("answer", w)' => Answers(w)'
<1>1. SUFFICES ASSUME NEW w \in Window, Answers(w) PROVE Answers(w)'
    OBVIOUS
<1>2. Tail(todo) # <<>> /\ Head(Tail(todo)).do = "answer" /\ Head(Tail(todo)).w = w
    BY <1>1 DEF Answers
<1>3. todo' = Tail(todo)
    BY DEF Popped
<1>4. todo' # <<>> /\ Head(todo').do = "answer" /\ Head(todo').w = w
    BY <1>2, <1>3
<1> QED
    BY <1>4 DEF Answers, W

LEMMA ChangedKeeps ==
    ASSUME HInv, Changed
    PROVE  HInv'
<1> USE DEF HInv
<1>1. todo # <<>> /\ Head(todo).do = "changed" /\ todo \in Seq(Steps)
    BY DEF Changed, Doing, TypeInv
<1>2. Popped
    BY <1>1, PopTodo DEF Changed
<1>3. /\ hot' = hot /\ hotsema' = hotsema /\ locked' = locked /\ screen' = screen /\ port' = port
      /\ inbox' = inbox /\ proc' = proc /\ nodes' = nodes /\ left' = left
      /\ list' = [list EXCEPT !.hotchanged = TRUE]
    BY DEF Changed, winvars
<1>4. TypeInv'
    BY <1>2, <1>3 DEF TypeInv, Popped
<1>5. Ordered(todo)' /\ port \in Seq(Messages) /\ list'.hotchanged = TRUE
    BY <1>2, <1>3 DEF Popped, TypeInv
<1>6. HotInv' /\ QuitInv'
    BY <1>1, <1>2, <1>3, PopHot, PopQuit
<1>7. PortInv'
    BY <1>2, <1>3, <1>5, PopLeaves, PortStays
<1>8. AnswerInv'
    BY <1>1, <1>2, <1>3, PopLeaves, PopAnswers, AnswerFrame
<1>9. NodesInv'
  <2>1. Tells(Todo', "viewer")
    BY <1>1, <1>2 DEF Popped, Fits, Todo
  <2>2. \A w \in Window : Tells(Todo, w) => Tells(Todo', w)
    BY <1>1, <1>2, PoppedSame, TellsSame DEF Popped
  <2> QED BY <1>3, <2>1, <2>2, NodesFrame
<1>10. SavedInv'
    BY <1>5 DEF SavedInv
<1> QED
    BY <1>4, <1>5, <1>6, <1>7, <1>8, <1>9, <1>10

LEMMA AnswerKeeps ==
    ASSUME HInv, Answer
    PROVE  HInv'
<1> USE DEF HInv
<1>1. todo # <<>> /\ Head(todo).do = "answer" /\ todo \in Seq(Steps)
    BY DEF Answer, Doing, TypeInv
<1>2. Popped
    BY <1>1, PopTodo DEF Answer
<1>3. /\ hot' = hot /\ hotsema' = hotsema /\ locked' = locked /\ screen' = screen /\ port' = port
      /\ inbox' = inbox /\ nodes' = nodes /\ left' = left /\ list' = list
      /\ proc' = [proc EXCEPT ![W].at = proc[W].then, ![W].then = "none"]
    BY DEF Answer, winvars
<1>4. Head(todo) \in Todo /\ W \in Window
    BY <1>1, HeadStep DEF Global, Locks
<1> PICK w0 \in Window : w0 = W
    BY <1>4
<1>5. proc[w0].at = "sync" /\ proc[w0].then \in Unlocks \cup {"relock", "relockdone", "top", "done", "free"}
    BY <1>1, <1>4 DEF AnswerInv, Has, W
<1>6. /\ proc \in [Window -> [at : Ats, then : Ats, break : BOOLEAN]]
      /\ \A w \in Window : w # w0 => proc'[w] = proc[w]
      /\ proc'[w0].at = proc[w0].then /\ proc'[w0].then = "none"
      /\ proc' \in [Window -> [at : Ats, then : Ats, break : BOOLEAN]]
  <2>1. proc \in [Window -> [at : Ats, then : Ats, break : BOOLEAN]] /\ "none" \in Ats
    BY DEF TypeInv, Ats
  <2> QED BY <1>3, <1>4, <2>1
<1>7. /\ proc'[w0].at \in {"unlock", "unlockdone", "relock", "relockdone", "top", "done", "free"}
      /\ \A w \in Window : /\ proc'[w].at = "none" <=> proc[w].at = "none"
                           /\ proc[w].at \in Over => proc'[w].at \in Over
    BY <1>5, <1>6 DEF Unlocks, Over
<1>8. TypeInv'
    BY <1>2, <1>3, <1>5, <1>6, <1>7 DEF TypeInv, Popped
<1>9. Ordered(todo)' /\ port \in Seq(Messages)
    BY <1>2 DEF Popped, TypeInv
<1>10. HotInv' /\ QuitInv'
    BY <1>1, <1>2, <1>3, <1>7, PopHot, PopQuit
<1>11. Has("answer", w0)
    BY <1>1, <1>4 DEF Has, W
<1>12. PortInv'
  <2>1. \A i \in DOMAIN port : port[i].from = w0 => ~port[i].sync
    BY <1>4, <1>11 DEF PortInv
  <2> QED BY <1>2, <1>3, <1>4, <1>5, <1>6, <1>7, <1>9, <2>1, PopLeaves, PortStays DEF Over
<1>13. AnswerInv'
  <2>1. ~Has("answer", w0)'
    <3>1. Fits(Head(todo), todo') /\ Todo' = Elements(todo')
        BY <1>2 DEF Popped, Todo
    <3>2. \A e \in Todo' : e.do = "answer" => e.w # w0
        BY <1>1, <3>1 DEF Fits, W
    <3> QED BY <3>2 DEF Has
  <2>2. ASSUME NEW w \in Window
        PROVE  /\ Has("answer", w)' => proc'[w].at = "sync"
               /\ proc'[w].at = "sync" =>
                     proc'[w].then \in Unlocks \cup {"relock", "relockdone", "top", "done", "free"}
               /\ hotsema' = w => \/ proc'[w].at \in Unlocks
                                  \/ proc'[w].at = "sync" /\ proc'[w].then \in Unlocks
               /\ hotsema' = w /\ Has("answer", w)' => Answers(w)'
    <3>1. /\ Has("answer", w) => proc[w].at = "sync"
          /\ proc[w].at = "sync" => proc[w].then \in Unlocks \cup {"relock", "relockdone", "top", "done", "free"}
          /\ hotsema = w => \/ proc[w].at \in Unlocks
                            \/ proc[w].at = "sync" /\ proc[w].then \in Unlocks
          /\ hotsema = w /\ Has("answer", w) => Answers(w)
        BY DEF AnswerInv
    <3>2. Has("answer", w)' => Has("answer", w)
        BY <1>2, PopLeaves
    <3>3. CASE w = w0
        BY <1>3, <1>5, <1>6, <1>7, <2>1, <3>1, <3>3 DEF Unlocks
    <3>4. CASE w # w0
        <4>1. ~Answers(w)
            BY <1>1, <3>4 DEF Answers
        <4> QED BY <1>3, <1>6, <3>1, <3>2, <3>4, <4>1
    <3> QED BY <3>3, <3>4
  <2> QED BY <2>2 DEF AnswerInv
<1>14. Tells(Todo, w0) => Tells(Todo', w0)
    BY <1>1, <1>2, PoppedSame, TellsSame DEF Popped
<1>15. (ChangeIsTold => ChangeIsTold') /\ \A w : Tells(Todo, w) => Tells(Todo', w)
  <2>1. Same({"changed", "tell"}) /\ Todo \subseteq Steps /\ Todo' \subseteq Steps
    BY <1>1, <1>2, PoppedSame DEF Popped
  <2> QED BY <1>3, <2>1, TellsSame DEF ChangeIsTold, Same
<1>16. SavedInv'
    BY <1>3, <1>15 DEF SavedInv
<1>17. NodesInv'
    BY <1>3, <1>5, <1>6, <1>15, NodesFrame
<1> QED
    BY <1>8, <1>9, <1>10, <1>12, <1>13, <1>16, <1>17

LEMMA PopTold ==
    ASSUME Popped, Head(todo).do \notin {"changed", "tell"}, port' = port
    PROVE  (ChangeIsTold => ChangeIsTold') /\ \A w : Tells(Todo, w) => Tells(Todo', w)
<1>1. Same({"changed", "tell"}) /\ Todo \subseteq Steps /\ Todo' \subseteq Steps
    BY PoppedSame DEF Popped
<1> QED
    BY <1>1, TellsSame DEF ChangeIsTold, Same

LEMMA ListStepKeeps ==
    ASSUME HInv, ListStep
    PROVE  HInv'
<1> USE DEF HInv
<1>1. todo # <<>> /\ Head(todo).do \in Locks /\ todo \in Seq(Steps)
    BY DEF ListStep, TypeInv
<1>2. Popped
    BY <1>1, PopTodo DEF ListStep
<1>3. /\ hot' = hot /\ hotsema' = hotsema /\ locked' = locked /\ screen' = screen /\ port' = port
      /\ inbox' = inbox /\ proc' = proc /\ left' = left
    BY DEF ListStep, winvars
<1> DEFINE do == Head(todo).do
<1>4. /\ do \in {"save", "reload", "rebuild", "add", "html"}
      /\ list' = CASE do = "save" -> Saved(list)
                   [] do = "reload" -> [hotchanged |-> FALSE, dirty |-> FALSE]
                   [] do \in {"rebuild", "add"} -> [hotchanged |-> TRUE, dirty |-> TRUE]
                   [] do = "html" -> list
      /\ nodes' = IF do \in {"reload", "rebuild", "add"}
                  THEN [w \in Window |-> Outdated(nodes[w])] ELSE nodes
    BY <1>1 DEF ListStep, Locks
<1>5. /\ list \in [hotchanged : BOOLEAN, dirty : BOOLEAN]
      /\ list' \in [hotchanged : BOOLEAN, dirty : BOOLEAN]
      /\ list'.dirty => list'.hotchanged \/ (list.dirty /\ ~list.hotchanged)
  <2>1. list \in [hotchanged : BOOLEAN, dirty : BOOLEAN]
    BY DEF TypeInv
  <2>2. CASE do = "save"
    <3>1. list' = [hotchanged |-> FALSE, dirty |-> list.dirty /\ ~list.hotchanged]
        BY <1>4, <2>2 DEF Saved
    <3> QED BY <2>1, <3>1
  <2>3. CASE do = "reload"
    <3>1. list' = [hotchanged |-> FALSE, dirty |-> FALSE]
        BY <1>4, <2>3
    <3> QED BY <2>1, <3>1
  <2>4. CASE do \in {"rebuild", "add"}
    <3>1. list' = [hotchanged |-> TRUE, dirty |-> TRUE]
        BY <1>4, <2>4
    <3> QED BY <2>1, <3>1
  <2>5. CASE do = "html"
    <3>1. list' = list
        BY <1>4, <2>5
    <3> QED BY <2>1, <3>1
  <2> QED BY <1>4, <2>2, <2>3, <2>4, <2>5
<1>6. nodes' \in [Window -> SUBSET {"current", "stale"}]
    BY <1>4 DEF TypeInv, Outdated
<1>7. TypeInv'
    BY <1>2, <1>3, <1>5, <1>6 DEF TypeInv, Popped
<1>8. Ordered(todo)' /\ port \in Seq(Messages)
    BY <1>2 DEF Popped, TypeInv
<1>9. HotInv' /\ QuitInv'
    BY <1>1, <1>2, <1>3, <1>4, PopHot, PopQuit
<1>10. PortInv'
    BY <1>2, <1>3, <1>8, PopLeaves, PortStays
<1>11. AnswerInv'
    BY <1>1, <1>2, <1>3, <1>4, PopLeaves, PopAnswers, AnswerFrame
<1>12. (ChangeIsTold => ChangeIsTold') /\ \A w : Tells(Todo, w) => Tells(Todo', w)
    BY <1>2, <1>3, <1>4, PopTold
<1>13. SavedInv'
    BY <1>5, <1>12 DEF SavedInv
<1>14. NodesInv'
  <2>1. CASE do \in {"reload", "rebuild", "add"}
    <3>1. \A w \in Window : Tells(Todo', w)
        BY <1>2, <2>1 DEF Popped, Fits, Todo
    <3>2. \A w \in Window : \A n : Renewed(w, n)'
        BY <3>1 DEF Renewed
    <3> QED BY <3>2 DEF NodesInv
  <2>2. CASE do \in {"save", "html"}
    BY <1>3, <1>4, <1>12, <2>2, NodesFrame
  <2> QED BY <1>4, <2>1, <2>2
<1> QED
    BY <1>7, <1>8, <1>9, <1>10, <1>11, <1>13, <1>14

LEMMA DeinstallsKeeps ==
    ASSUME HInv, Deinstalls
    PROVE  HInv'
<1> USE DEF HInv
<1>1. todo # <<>> /\ Head(todo).do \in {"savequit", "quit"} /\ todo \in Seq(Steps)
    BY DEF Deinstalls, TypeInv
<1>2. Popped
    BY <1>1, PopTodo DEF Deinstalls
<1>3. /\ hot' = hot /\ hotsema' = hotsema /\ locked' = locked /\ screen' = screen /\ port' = port
      /\ inbox' = inbox /\ proc' = proc /\ left' = left /\ nodes' = nodes
    BY DEF Deinstalls, winvars
<1>4. /\ list \in [hotchanged : BOOLEAN, dirty : BOOLEAN]
      /\ list' \in [hotchanged : BOOLEAN, dirty : BOOLEAN]
      /\ list'.dirty => list.dirty /\ (list.hotchanged => list'.hotchanged)
      /\ Head(todo).do = "savequit" /\ list.hotchanged => ~list'.dirty
  <2>1. list \in [hotchanged : BOOLEAN, dirty : BOOLEAN]
    BY DEF TypeInv
  <2>2. CASE Head(todo).do = "savequit"
    <3>1. list' = [hotchanged |-> FALSE, dirty |-> list.dirty /\ ~list.hotchanged]
        BY <1>1, <2>2 DEF Deinstalls, Saved, Doing
    <3> QED BY <2>1, <3>1
  <2>3. CASE Head(todo).do = "quit"
    <3>1. list' = list
        BY <2>3 DEF Deinstalls, Doing
    <3> QED BY <2>1, <2>3, <3>1
  <2> QED BY <1>1, <2>2, <2>3
<1>5. TypeInv'
    BY <1>2, <1>3, <1>4 DEF TypeInv, Popped
<1>6. Ordered(todo)' /\ port \in Seq(Messages)
    BY <1>2 DEF Popped, TypeInv
<1>7. HotInv' /\ PortInv' /\ AnswerInv'
    BY <1>1, <1>2, <1>3, <1>6, PopHot, PopLeaves, PortStays, PopAnswers, AnswerFrame
<1>8. (ChangeIsTold => ChangeIsTold') /\ \A w : Tells(Todo, w) => Tells(Todo', w)
    BY <1>1, <1>2, <1>3, PopTold
<1>9. SavedInv'
    BY <1>4, <1>8 DEF SavedInv
<1>10. NodesInv'
    BY <1>3, <1>8, NodesFrame
<1>11. \A e \in Todo' : e.do = "quit"
  <2>1. Todo' = Elements(todo') /\ Fits(Head(todo), todo')
    BY <1>2 DEF Popped, Todo
  <2>2. Head(todo).do \in DOMAIN Below /\ Below[Head(todo).do] \subseteq {"quit"}
    BY <1>1 DEF Below
  <2> QED BY <2>1, <2>2 DEF Fits
<1>12. ASSUME left.quit
       PROVE  (\A w \in Window : proc[w].at = "none") /\ ~list'.dirty
  <2>1. Todo = {Head(todo)} \cup Todo'
    BY <1>2 DEF Popped
  <2>2. \A w \in Window : ~Disposing(w)
    BY <1>1, <1>11, <2>1 DEF Disposing, Has
  <2>3. \A w \in Window : proc[w].at = "none"
    BY <1>12, <2>2 DEF QuitInv
  <2>4. \A i \in DOMAIN port : port[i].from \in Window
    BY <1>6, ElementOfSeq, LenProperties DEF Messages
  <2>5. ~ChangeIsTold
    <3>1. \A i \in DOMAIN port : FALSE
        BY <2>3, <2>4 DEF PortInv
    <3>2. \A e \in Todo : e.do # "changed"
        BY <1>1, <1>11, <2>1
    <3> QED BY <3>1, <3>2 DEF ChangeIsTold
  <2>6. CASE Head(todo).do = "savequit"
    BY <1>4, <2>3, <2>5, <2>6 DEF SavedInv
  <2>7. CASE Head(todo).do = "quit"
    <3>1. ~Does("savequit")
        BY <1>11, <2>1, <2>7 DEF Does
    <3> QED BY <1>4, <1>12, <2>3, <3>1 DEF QuitInv
  <2> QED BY <1>1, <2>6, <2>7
<1>13. QuitInv'
  <2>1. \A do : \A w : do # "quit" => ~Has(do, w)' /\ ~Does(do)'
    BY <1>11 DEF Has, Does
  <2>2. \A w : ~Disposing(w)'
    BY <2>1 DEF Disposing
  <2> QED BY <1>3, <1>11, <1>12, <2>1, <2>2 DEF QuitInv
<1> QED
    BY <1>5, <1>6, <1>7, <1>9, <1>10, <1>13

---------------------------------------------------------------------------
(* Main tells a window something.                                          *)

\* The message m is put to those of w.
Noted(w, m) ==
    /\ inbox' \in [Window -> Seq(Notes)] /\ \A v \in Window : v # w => inbox'[v] = inbox[v]
    /\ \E n \in Nat : /\ DOMAIN inbox[w] = 1..n /\ DOMAIN inbox'[w] = 1..(n + 1)
                      /\ inbox'[w][n + 1] = m /\ \A i \in 1..n : inbox'[w][i] = inbox[w][i]

LEMMA Noting ==
    ASSUME inbox \in [Window -> Seq(Notes)], NEW w \in Window, NEW m \in Notes,
           inbox' = [inbox EXCEPT ![w] = Append(@, m)]
    PROVE  Noted(w, m)
<1> DEFINE q == inbox[w]
<1>1. q \in Seq(Notes)
    OBVIOUS
<1>2. inbox'[w] = Append(q, m) /\ \A v \in Window : v # w => inbox'[v] = inbox[v]
    OBVIOUS
<1>3. /\ Append(q, m) \in Seq(Notes) /\ Len(Append(q, m)) = Len(q) + 1
      /\ \A i \in 1..Len(q) : Append(q, m)[i] = q[i]
      /\ Append(q, m)[Len(q) + 1] = m
    BY <1>1, AppendProperties
<1>4. inbox' \in [Window -> Seq(Notes)]
    BY <1>1, <1>3
<1>5. Len(q) \in Nat /\ DOMAIN q = 1..Len(q)
    BY <1>1, LenProperties
<1>6. DOMAIN Append(q, m) = 1..(Len(q) + 1)
    BY <1>3, LenProperties
<1> HIDE DEF q
<1>7. /\ Len(q) \in Nat /\ DOMAIN q = 1..Len(q) /\ DOMAIN inbox'[w] = 1..(Len(q) + 1)
      /\ inbox'[w][Len(q) + 1] = m /\ \A i \in 1..Len(q) : inbox'[w][i] = q[i]
    BY <1>2, <1>3, <1>5, <1>6
<1> QED
    BY <1>2, <1>4, <1>7 DEF Noted, q

\* Nothing of a window that main waits for is left to be told of.
LEMMA HasTask ==
    ASSUME HotInv, NEW w \in Window, proc[w].at # "none", todo # <<>>,
           Head(todo).do \notin {"stop", "ended"}
    PROVE  hot[w].task
    BY DEF HotInv, Doing

LEMMA AsetattrsasyncKeeps ==
    ASSUME HInv, Asetattrsasync
    PROVE  HInv'
<1> USE DEF HInv
<1>1. todo # <<>> /\ Head(todo).do = "tell" /\ todo \in Seq(Steps)
    BY DEF Asetattrsasync, Doing, TypeInv
<1>2. Popped
    BY <1>1, PopTodo DEF Asetattrsasync
<1>3. /\ hot' = hot /\ hotsema' = hotsema /\ locked' = locked /\ screen' = screen /\ port' = port
      /\ proc' = proc /\ nodes' = nodes /\ left' = left /\ list' = list
    BY DEF Asetattrsasync, winvars
<1>4. Head(todo) \in Todo /\ W \in Window
    BY <1>1, HeadStep DEF Global, Locks
<1> PICK w0 \in Window : w0 = W
    BY <1>4
<1> DEFINE k == Head(todo).k
           note == [kind |-> k, id |-> 0]
           told == hot[w0].task /\ Alive(w0)
<1>5. k \in {"Newlist", "Addentry", "Tofront"}
    BY <1>1, <1>2 DEF Popped, Fits
<1>6. note \in Notes /\ note.kind = k
    BY <1>5 DEF Notes
<1>7. inbox \in [Window -> Seq(Notes)]
    BY DEF TypeInv
<1>8. inbox' = IF told THEN [inbox EXCEPT ![w0] = Append(@, note)] ELSE inbox
    BY DEF Asetattrsasync
<1> HIDE DEF note, k
<1>9. IF told THEN Noted(w0, note) ELSE inbox' = inbox
    BY <1>6, <1>7, <1>8, Noting
<1>10. TypeInv'
    BY <1>2, <1>3, <1>7, <1>9 DEF TypeInv, Popped, Noted, Alive
<1>11. Ordered(todo)' /\ port \in Seq(Messages)
    BY <1>2 DEF Popped, TypeInv
<1>12. HotInv' /\ QuitInv' /\ PortInv' /\ AnswerInv'
    BY <1>1, <1>2, <1>3, <1>11, PopHot, PopQuit, PopLeaves, PortStays, PopAnswers, AnswerFrame
<1>13. ChangeIsTold => ChangeIsTold'
    BY <1>1, <1>2, <1>3, PoppedSame DEF ChangeIsTold, Same, Popped
<1>14. SavedInv'
    BY <1>3, <1>13 DEF SavedInv
<1>15. ASSUME NEW w \in Window, proc[w].at \notin {"none", "dead"}, NEW n \in {0} \cup DOMAIN inbox[w], Renewed(w, n)
       PROVE  Renewed(w, n)'
  <2>1. ASSUME Tells(Todo, w) PROVE Renewed(w, n)'
    <3>1. PICK e \in Todo : e.do = "tell" /\ e.w = w /\ e.k \in Renews
        BY <2>1 DEF Tells
    <3>2. CASE e \in Todo'
        BY <3>1, <3>2 DEF Renewed, Tells
    <3>3. CASE e \notin Todo'
        <4>1. e = Head(todo)
            BY <1>2, <3>3 DEF Popped
        <4>2. w = w0 /\ k \in Renews
            BY <3>1, <4>1 DEF W, k
        <4>3. told
            BY <1>1, <1>15, <4>2, HasTask DEF Alive
        <4>4. Noted(w0, note)
            BY <1>9, <4>3
        <4>5. \E j \in DOMAIN inbox'[w] : j > n /\ inbox'[w][j].kind \in Renews
            BY <1>6, <1>15, <4>2, <4>4 DEF Noted
        <4> QED BY <4>5 DEF Renewed
    <3> QED BY <3>2, <3>3
  <2>2. CASE w = "viewer" /\ ChangeIsTold
    BY <1>13, <2>2 DEF Renewed
  <2>3. ASSUME \E j \in DOMAIN inbox[w] : j > n /\ inbox[w][j].kind \in Renews PROVE Renewed(w, n)'
    <3>1. \E j \in DOMAIN inbox'[w] : j > n /\ inbox'[w][j].kind \in Renews
        BY <1>9, <2>3 DEF Noted
    <3> QED BY <3>1 DEF Renewed
  <2> QED BY <1>15, <2>1, <2>2, <2>3 DEF Renewed
<1>16. NodesInv'
  <2>1. ASSUME NEW w \in Window, proc[w].at \notin {"none", "build", "free", "end", "dead"}
        PROVE  Good(w)' \/ Renewed(w, 0)'
    BY <1>3, <1>15, <2>1 DEF NodesInv, Good
  <2>2. ASSUME NEW w \in Window, NEW i \in DOMAIN inbox'[w], inbox'[w][i].kind = "Dispose"
        PROVE  Renewed(w, i)'
    <3>1. i \in DOMAIN inbox[w] /\ inbox[w][i].kind = "Dispose"
        <4>1. CASE told /\ w = w0
            <5>1. PICK n \in Nat :
                     /\ DOMAIN inbox[w0] = 1..n /\ DOMAIN inbox'[w0] = 1..(n + 1)
                     /\ inbox'[w0][n + 1] = note /\ \A j \in 1..n : inbox'[w0][j] = inbox[w0][j]
                BY <1>9, <4>1 DEF Noted
            <5>2. i # n + 1
                BY <1>5, <1>6, <2>2, <4>1, <5>1
            <5> QED BY <2>2, <4>1, <5>1, <5>2
        <4>2. CASE ~(told /\ w = w0)
            <5>1. inbox'[w] = inbox[w]
                BY <1>9, <4>2 DEF Noted
            <5> QED BY <2>2, <5>1
        <4> QED BY <4>1, <4>2
    <3>2. proc[w].at \notin {"none", "dead"}
        BY <3>1 DEF TypeInv
    <3> QED BY <1>15, <3>1, <3>2 DEF NodesInv
  <2> QED BY <1>3, <2>1, <2>2 DEF NodesInv
<1> QED
    BY <1>10, <1>11, <1>12, <1>14, <1>16

LEMMA PushGoesOn ==
    ASSUME NEW a, NEW N, Pushed(a, N), N \subseteq Steps, NEW D,
           \A e \in N : e.do \notin D, Head(todo).do \notin D
    PROVE  \A do \in D : (\A w : Has(do, w)' <=> Has(do, w)) /\ (Does(do)' <=> Does(do))
<1>1. Same(D) /\ Todo' \subseteq Steps /\ Todo \subseteq Steps
    BY PushedSame DEF Pushed
<1> QED
    BY <1>1, HasSame

LEMMA AsetattrssyncKeeps ==
    ASSUME HInv, Asetattrssync
    PROVE  HInv'
<1> USE DEF HInv
<1>1. todo # <<>> /\ Head(todo).do = "sync" /\ todo \in Seq(Steps)
    BY DEF Asetattrssync, Doing, TypeInv
<1>2. /\ hot' = hot /\ hotsema' = hotsema /\ locked' = locked /\ screen' = screen /\ port' = port
      /\ proc' = proc /\ nodes' = nodes /\ left' = left /\ list' = list
    BY DEF Asetattrssync, winvars
<1>3. Head(todo) \in Todo /\ W \in Window
    BY <1>1, HeadStep DEF Global, Locks
<1> PICK w0 \in Window : w0 = W
    BY <1>3
<1>4. port \in Seq(Messages) /\ inbox \in [Window -> Seq(Notes)]
    BY DEF TypeInv
<1>5. ASSUME todo' \in Seq(Steps), Ordered(todo'), Todo \subseteq Steps, Todo' \subseteq Steps,
             todo' # <<>> => Head(todo').do \notin {"gone", "stopped"},
             Same({"changed", "tell"}), Same({"stop", "ended"}), Same({"close"}), Same({"answer"}),
             Same({"dispose", "gone", "savequit"}), Same({"show", "screen", "screenoff", "screenvalid"})
      PROVE  Ordered(todo)' /\ HotInv' /\ PortInv' /\ AnswerInv' /\ QuitInv' /\ SavedInv'
  <2>1. HotInv'
    BY <1>1, <1>2, <1>5, HasSame, HotGoesOn
  <2>2. PortInv'
    BY <1>2, <1>4, <1>5, HasSame, PortStays
  <2>3. AnswerInv'
    BY <1>1, <1>2, <1>5, NoAnswers, HasSame, AnswerFrame
  <2>4. QuitInv'
    <3>1. \A w \in Window : Has("show", w)' <=> Has("show", w)
        BY <1>5, HasSame
    <3>2. Does("screen")' \/ Does("screenoff")' \/ Does("screenvalid")' =>
              Does("screen") \/ Does("screenoff") \/ Does("screenvalid")
        BY <1>5, HasSame
    <3> QED BY <1>1, <1>2, <1>3, <1>5, <3>1, <3>2, QuitGoesOn
  <2>5. SavedInv'
    BY <1>2, <1>5 DEF SavedInv, ChangeIsTold, Same
  <2> QED BY <1>5, <2>1, <2>2, <2>3, <2>4, <2>5
<1>6. CASE hot[w0].task /\ Alive(w0)
  <2> DEFINE n == Cardinality({i \in DOMAIN todo : todo[i].do = "await"})
             a == Step("await", w0, n + 1)
             note == [kind |-> Head(todo).k, id |-> n + 1]
  <2>1. n \in Nat
    <3>1. DOMAIN todo = 1..Len(todo) /\ Len(todo) \in Nat
        BY <1>1, LenProperties
    <3>2. IsFiniteSet(DOMAIN todo)
        BY <3>1, FS_Interval
    <3>3. IsFiniteSet({i \in DOMAIN todo : todo[i].do = "await"})
        BY <3>2, FS_Subset
    <3> QED BY <3>3, FS_CardinalityType
  <2>2. inbox' = [inbox EXCEPT ![w0] = Append(@, note)] /\ Then(<<a>>)
    BY <1>6 DEF Asetattrssync
  <2> HIDE DEF n
  <2>3. a \in Steps /\ a.do = "await" /\ a.w = w0 /\ a.k \in Nat
    <3>1. "await" \in Dos /\ w0 \in Window \cup {None} /\ n + 1 \in Names \cup Nat /\ n + 1 \in Nat
        BY <2>1 DEF Dos
    <3> QED BY <3>1, StepIn
  <2>4. Fits(Head(todo), Tail(todo))
    BY <1>1, OrderedTaken
  <2>5. Head(todo).k = "Dispose" /\ Tells(Elements(Tail(todo)), w0)
    BY <1>1, <2>4 DEF Fits, W
  <2>6. note \in Notes /\ note.kind = "Dispose"
    BY <2>1, <2>5 DEF Notes
  <2> HIDE DEF a, note
  <2>7. Fits(a, Tail(todo))
    BY <1>1, <2>3, <2>4 DEF Fits, Below
  <2>8. Pushed(a, {a})
    BY <1>1, <2>2, <2>3, <2>7, PushOne
  <2>9. Noted(w0, note)
    BY <1>4, <2>2, <2>6, Noting
  <2>10. \A D : D \subseteq Dos \ {"sync", "await"} => Same(D) /\ Todo' \subseteq Steps
    BY <1>1, <2>3, <2>8, PushedSame
  <2>11. /\ todo' \in Seq(Steps) /\ Ordered(todo') /\ Todo \subseteq Steps /\ Head(todo') = a
         /\ Elements(Tail(todo)) \subseteq Todo'
    BY <2>8 DEF Pushed
  <2>12. /\ Todo' \subseteq Steps
         /\ Same({"changed", "tell"}) /\ Same({"stop", "ended"}) /\ Same({"close"}) /\ Same({"answer"})
         /\ Same({"dispose", "gone", "savequit"}) /\ Same({"show", "screen", "screenoff", "screenvalid"})
    BY <2>10 DEF Dos
  <2>13. Ordered(todo)' /\ HotInv' /\ PortInv' /\ AnswerInv' /\ QuitInv' /\ SavedInv'
    BY <1>5, <2>3, <2>11, <2>12
  <2>14. TypeInv'
    BY <1>2, <1>6, <2>9, <2>11 DEF TypeInv, Noted, Alive
  <2>15. ASSUME NEW w \in Window, NEW m \in {0} \cup DOMAIN inbox[w], Renewed(w, m)
         PROVE  Renewed(w, m)'
    <3>1. Tells(Todo, w) => Tells(Todo', w)
        BY <2>11, <2>12, TellsSame
    <3>2. ChangeIsTold => ChangeIsTold'
        BY <1>2, <2>11, <2>12 DEF ChangeIsTold, Same
    <3>3. (\E j \in DOMAIN inbox[w] : j > m /\ inbox[w][j].kind \in Renews) =>
              \E j \in DOMAIN inbox'[w] : j > m /\ inbox'[w][j].kind \in Renews
        BY <2>9 DEF Noted
    <3> QED BY <2>15, <3>1, <3>2, <3>3 DEF Renewed
  <2>16. \A m : Renewed(w0, m)'
    BY <2>5, <2>11 DEF Tells, Renewed
  <2>17. NodesInv'
    <3>1. ASSUME NEW w \in Window, proc[w].at \notin {"none", "build", "free", "end", "dead"}
          PROVE  Good(w)' \/ Renewed(w, 0)'
        BY <1>2, <2>15, <3>1 DEF NodesInv, Good
    <3>2. ASSUME NEW w \in Window, NEW i \in DOMAIN inbox'[w], inbox'[w][i].kind = "Dispose"
          PROVE  Renewed(w, i)'
        <4>1. CASE w = w0
            BY <2>16, <4>1
        <4>2. CASE w # w0
            <5>1. inbox'[w] = inbox[w]
                BY <2>9, <4>2 DEF Noted
            <5> QED BY <2>15, <3>2, <5>1 DEF NodesInv
        <4> QED BY <4>1, <4>2
    <3> QED BY <1>2, <3>1, <3>2 DEF NodesInv
  <2> QED BY <2>13, <2>14, <2>17
<1>7. CASE ~(hot[w0].task /\ Alive(w0))
  <2>1. inbox' = inbox /\ Then(<<>>)
    BY <1>7 DEF Asetattrssync
  <2>2. Popped
    BY <1>1, <2>1, PopTodo
  <2>3. \A D : D \subseteq Dos \ {"sync"} => Same(D) /\ Todo' \subseteq Steps
    BY <1>1, <2>2, PoppedSame
  <2>4. /\ todo' \in Seq(Steps) /\ Ordered(todo') /\ Todo \subseteq Steps
        /\ todo' # <<>> => Head(todo').do \notin {"gone", "stopped"}
    BY <1>1, <2>2 DEF Popped, Fits
  <2>5. /\ Todo' \subseteq Steps
        /\ Same({"changed", "tell"}) /\ Same({"stop", "ended"}) /\ Same({"close"}) /\ Same({"answer"})
        /\ Same({"dispose", "gone", "savequit"}) /\ Same({"show", "screen", "screenoff", "screenvalid"})
    BY <2>3 DEF Dos
  <2>6. Ordered(todo)' /\ HotInv' /\ PortInv' /\ AnswerInv' /\ QuitInv' /\ SavedInv'
    BY <1>5, <2>4, <2>5
  <2>7. TypeInv'
    BY <1>2, <2>1, <2>4 DEF TypeInv
  <2>8. NodesInv'
    <3>1. (ChangeIsTold => ChangeIsTold') /\ \A w : Tells(Todo, w) => Tells(Todo', w)
        BY <1>1, <1>2, <2>2, PopTold
    <3> QED BY <1>2, <2>1, <3>1, NodesFrame
  <2> QED BY <2>6, <2>7, <2>8
<1> QED
    BY <1>6, <1>7

---------------------------------------------------------------------------
(* Main serves an update.                                                  *)

LEMMA AskedSteps ==
    ASSUME NEW m \in Messages
    PROVE  /\ \A e \in Asked(m) :
                 /\ e.do \in {"changed", "tell", "save", "answer", "sync", "reload", "show", "close"}
                 /\ e.do = "answer" => e.w = m.from /\ m.sync
                 /\ e.do = "close" => e.w = m.from /\ m.kind = "Close"
                 /\ e.do = "show" => e.w = "manager" /\ m.kind = "Manager"
           /\ m.kind = "Changed" => \E e \in Asked(m) : e.do = "changed"
           /\ m.kind = "reply" => Asked(m) = {}
<1>1. m.from \in Window /\ m.kind \in Synced \cup {"Changed", "Restore", "Close", "reply"}
    BY DEF Messages
<1>2. m.sync <=> m.kind \in Synced
    BY DEF Messages
<1>3. CASE m.kind = "Changed"
  <2>1. Asked(m) = {Step("changed", None, None), Step("tell", "viewer", "Addentry")}
    BY <1>3 DEF Asked
  <2> QED BY <1>3, <2>1 DEF Step
<1>4. CASE m.kind = "Save"
    BY <1>2, <1>4 DEF Asked, Step, Synced
<1>5. CASE m.kind = "Restore"
    BY <1>5 DEF Asked, Restored, Step
<1>6. CASE m.kind = "Manager"
    BY <1>2, <1>6 DEF Asked, Step, Synced
<1>7. CASE m.kind = "Close"
    BY <1>7 DEF Asked, Step
<1>8. CASE m.kind \in {"Dimx", "Follow"}
    BY <1>2, <1>8 DEF Asked, Step, Synced
<1>9. CASE m.kind = "reply"
    BY <1>9 DEF Asked
<1> QED
    BY <1>1, <1>3, <1>4, <1>5, <1>6, <1>7, <1>8, <1>9 DEF Synced

LEMMA TookTold ==
    ASSUME NEW k, Took(k), port[k].kind = "Changed" => \E e \in Todo' : e.do = "changed",
           \A e \in Todo : e.do = "changed" => e \in Todo', ChangeIsTold
    PROVE  ChangeIsTold'
<1>1. CASE \E e \in Todo : e.do = "changed"
    BY <1>1 DEF ChangeIsTold
<1>2. CASE \E i \in DOMAIN port : port[i].kind = "Changed"
  <2>1. PICK i \in DOMAIN port : port[i].kind = "Changed"
    BY <1>2
  <2>2. CASE i = k
    BY <2>1, <2>2 DEF ChangeIsTold
  <2>3. CASE i # k
    <3>1. \E j \in DOMAIN port' : port'[j] = port[i]
        BY <2>3 DEF Took
    <3> QED BY <2>1, <3>1 DEF ChangeIsTold
  <2> QED BY <2>2, <2>3
<1> QED
    BY <1>1, <1>2 DEF ChangeIsTold

LEMMA Serving ==
    ASSUME HInv, NEW k, Took(k), NEW m \in Messages, m = port[k],
           todo = <<>> \/ Head(todo).do \in {"await", "ended"},
           todo # <<>> /\ Head(todo).do = "ended" => m.from = W,
           todo' = Updatehotwindow(m) \o todo,
           UNCHANGED <<winvars, inbox, proc, nodes, list, left>>
    PROVE  HInv'
<1> USE DEF HInv
<1>1. /\ hot' = hot /\ hotsema' = hotsema /\ locked' = locked /\ screen' = screen
      /\ proc' = proc /\ nodes' = nodes /\ left' = left /\ list' = list /\ inbox' = inbox
    BY DEF winvars
<1>2. port \in Seq(Messages) /\ k \in DOMAIN port /\ port' \in Seq(Messages) /\ m.from \in Window
    BY DEF TypeInv, Took, Messages
<1>3. /\ proc[m.from].at # "none"
      /\ m.kind = "Close" => proc[m.from].at \in Over /\ \A j \in Said(m.from) : j <= k
      /\ m.sync =>
            /\ proc[m.from].at = "sync" /\ ~Has("answer", m.from)
            /\ hotsema = m.from => m.kind \in {"Follow", "Manager"}
    BY <1>2 DEF PortInv
<1>4. Served(m)
    BY <1>3, ServeTodo DEF TypeInv
<1>5. /\ todo' \in Seq(Steps) /\ Ordered(todo)' /\ Todo' = Asked(m) \cup Todo
      /\ Todo \subseteq Steps
      /\ m.kind = "reply" => todo' = todo
      /\ m.kind # "reply" => todo' # <<>> /\ Head(todo') \in Asked(m)
    BY <1>4 DEF Served
<1>6. /\ \A e \in Asked(m) :
            /\ e.do \in {"changed", "tell", "save", "answer", "sync", "reload", "show", "close"}
            /\ e.do = "answer" => e.w = m.from /\ m.sync
            /\ e.do = "close" => e.w = m.from /\ m.kind = "Close"
            /\ e.do = "show" => e.w = "manager" /\ m.kind = "Manager"
      /\ m.kind = "Changed" => \E e \in Asked(m) : e.do = "changed"
    BY AskedSteps
<1>7. TypeInv'
    BY <1>1, <1>2, <1>5 DEF TypeInv
<1>8. /\ \A do \in {"stop", "ended", "dispose", "gone"} : \A w : Has(do, w)' <=> Has(do, w)
      /\ \A do \in {"savequit", "screen", "screenoff", "screenvalid"} : Does(do)' <=> Does(do)
      /\ \A w : Has("answer", w)' => Has("answer", w) \/ (w = m.from /\ m.sync)
      /\ \A w : Has("close", w)' => Has("close", w) \/ (w = m.from /\ m.kind = "Close")
      /\ \A w : Has("show", w)' => Has("show", w) \/ (w = "manager" /\ m.kind = "Manager")
    BY <1>5, <1>6 DEF Has, Does
<1>9. PortInv' /\ \A w \in Window : Said(w) = {} => Said(w)' = {}
    BY <1>1, <1>2, <1>8, PortTook
<1>10. HotInv'
  <2> SUFFICES ASSUME NEW w \in Window
      PROVE  /\ proc'[w].at # "none" => hot'[w].task \/ Ending(w)'
             /\ Ending(w)' => hot'[w].breaking \/ ~hot'[w].task
             /\ Ending(w)' /\ ~hot'[w].task =>
                   (Doing("stop")' \/ Doing("ended")') /\ W' = w /\ Said(w)' = {} /\ proc'[w].at \in Over
             /\ (Doing("gone")' \/ Doing("stopped")') /\ W' = w => proc'[w].at = "none"
             /\ Has("close", w)' => Said(w)' = {} /\ proc'[w].at \in Over
      BY DEF HotInv
  <2>1. /\ proc[w].at # "none" => hot[w].task \/ Ending(w)
        /\ Ending(w) => hot[w].breaking \/ ~hot[w].task
        /\ Ending(w) /\ ~hot[w].task =>
              (Doing("stop") \/ Doing("ended")) /\ W = w /\ Said(w) = {} /\ proc[w].at \in Over
        /\ Has("close", w) => Said(w) = {} /\ proc[w].at \in Over
    BY DEF HotInv
  <2>2. Ending(w)' <=> Ending(w)
    BY <1>8 DEF Ending
  <2>3. ~Doing("gone")' /\ ~Doing("stopped")'
    <3>1. CASE m.kind = "reply"
        BY <1>5, <3>1 DEF Doing
    <3>2. CASE m.kind # "reply"
        BY <1>5, <1>6, <3>2 DEF Doing
    <3> QED BY <3>1, <3>2
  <2>4. ASSUME Ending(w), ~hot[w].task
        PROVE  (Doing("stop")' \/ Doing("ended")') /\ W' = w
    <3>1. Doing("ended") /\ W = w /\ Said(w) = {}
        BY <2>1, <2>4 DEF Doing
    <3>2. m.kind = "reply"
        BY <1>2, <3>1 DEF Said, Doing
    <3> QED BY <1>5, <3>1, <3>2 DEF Doing, W
  <2>5. ASSUME w = m.from, m.kind = "Close" PROVE Said(w)' = {}
    <3>1. \A j \in Said(w) : j <= k
        BY <1>3, <2>5
    <3>2. \A j \in DOMAIN port : j < k => port[j].from # w
        BY <2>5 DEF Took
    <3>3. Said(w) \subseteq {k}
        BY <1>2, <3>1, <3>2 DEF Said, Took
    <3>4. \A i \in DOMAIN port' : (IF i < k THEN i ELSE i + 1) # k
        BY DEF Took
    <3>5. \A i \in DOMAIN port' : (IF i < k THEN i ELSE i + 1) \in DOMAIN port
                                  /\ port'[i] = port[IF i < k THEN i ELSE i + 1]
        BY DEF Took
    <3> QED BY <3>3, <3>4, <3>5 DEF Said
  <2> QED BY <1>1, <1>3, <1>8, <1>9, <2>1, <2>2, <2>3, <2>4, <2>5
<1>11. AnswerInv'
  <2> SUFFICES ASSUME NEW w \in Window
      PROVE  /\ Has("answer", w)' => proc'[w].at = "sync"
             /\ proc'[w].at = "sync" =>
                   proc'[w].then \in Unlocks \cup {"relock", "relockdone", "top", "done", "free"}
             /\ hotsema' = w => \/ proc'[w].at \in Unlocks
                                \/ proc'[w].at = "sync" /\ proc'[w].then \in Unlocks
             /\ hotsema' = w /\ Has("answer", w)' => Answers(w)'
      BY DEF AnswerInv
  <2>1. /\ Has("answer", w) => proc[w].at = "sync"
        /\ proc[w].at = "sync" => proc[w].then \in Unlocks \cup {"relock", "relockdone", "top", "done", "free"}
        /\ hotsema = w => \/ proc[w].at \in Unlocks
                          \/ proc[w].at = "sync" /\ proc[w].then \in Unlocks
        /\ hotsema = w /\ Has("answer", w) => Answers(w)
    BY DEF AnswerInv
  <2>2. ~Answers(w)
    BY NoAnswers
  <2>3. m.kind \in {"Follow", "Manager"} /\ w = m.from => Answers(w)'
    BY <1>4 DEF Served
  <2> QED BY <1>1, <1>3, <1>8, <2>1, <2>2, <2>3
<1>12. ChangeIsTold => ChangeIsTold'
    BY <1>5, <1>6, TookTold
<1>13. SavedInv'
    BY <1>1, <1>12 DEF SavedInv
<1>14. NodesInv'
    BY <1>1, <1>5, <1>12, NodesFrame DEF Tells
<1>15. QuitInv'
  <2> SUFFICES ASSUME left.quit
      PROVE  /\ \A w \in Window : proc[w].at # "none" => Disposing(w)'
             /\ \A w \in Window : Disposing(w)' => Does("savequit")'
             /\ Disposing("viewer")' => Has("dispose", "manager")'
             /\ ~Has("show", "viewer")'
             /\ Has("show", "manager")' => Has("dispose", "manager")'
             /\ \A w \in Window : Does("screen")' \/ Does("screenoff")' \/ Does("screenvalid")' => Has("dispose", w)'
             /\ Does("savequit")'
      BY <1>1 DEF QuitInv
  <2>1. \A w : Disposing(w)' <=> Disposing(w)
    BY <1>8 DEF Disposing
  <2>2. Does("savequit")
    BY <1>2, <1>3 DEF QuitInv
  <2>3. m.kind = "Manager" => Has("dispose", "manager")
    <3>1. m.kind = "Manager" => m.from = "viewer"
        BY DEF Messages
    <3> QED BY <1>2, <1>3, <3>1 DEF QuitInv
  <2> QED BY <1>8, <2>1, <2>2, <2>3 DEF QuitInv
<1> QED
    BY <1>5, <1>7, <1>9, <1>10, <1>11, <1>13, <1>14, <1>15

LEMMA ProcesstaskKeeps ==
    ASSUME HInv, Processtask
    PROVE  HInv'
<1>1. todo = <<>> /\ port # <<>> /\ port' = Tail(port) /\ port \in Seq(Messages)
    BY DEF Processtask, HInv, TypeInv
<1>2. Took(1) /\ port[1] = Head(port) /\ Head(port) \in Messages
    BY <1>1, TookHead
<1> DEFINE m == Head(port)
<1>3. todo' = Updatehotwindow(m) \o todo
  <2>1. m.from \in Window /\ m.kind \in Synced \cup {"Changed", "Restore", "Close", "reply"} /\ m.sync \in BOOLEAN
    BY <1>2 DEF Messages
  <2>2. Updatehotwindow(m) \in Seq(Steps)
    <3>1. Step("answer", m.from, None) \in Steps /\ Step("close", m.from, None) \in Steps
        BY <2>1, OfWindowIn DEF Names
    <3>2. Body(m) \in Seq(Steps)
        BY <2>1, <3>1, OfWindowIn, GlobalIn
           DEF Body, Synced, Savehotlist, Restorehotlist, Global, Locks, Names, Window
    <3>3. (IF m.sync THEN <<Step("answer", m.from, None)>> ELSE <<>>) \in Seq(Steps)
        BY <3>1
    <3> HIDE DEF m
    <3> QED BY <3>2, <3>3, ConcatProperties DEF Updatehotwindow
  <2>3. todo' = Updatehotwindow(m)
    BY DEF Processtask
  <2> HIDE DEF m
  <2> QED BY <1>1, <2>2, <2>3, Alone
<1>4. UNCHANGED <<winvars, inbox, proc, nodes, list, left>>
    BY DEF Processtask
<1> QED
    BY <1>1, <1>2, <1>3, <1>4, Serving

LEMMA WaitformsgKeeps ==
    ASSUME HInv, Waitformsg
    PROVE  HInv'
<1>1. todo # <<>> /\ Head(todo).do = "await" /\ todo \in Seq(Steps) /\ port \in Seq(Messages)
    BY DEF Waitformsg, Doing, HInv, TypeInv
<1>2. W \in Window
    BY <1>1, HeadStep DEF Global, Locks
<1> PICK w0 \in Window : w0 = W
    BY <1>2
<1>3. Of(w0) # {} /\ port' = RemoveAt(port, First(w0))
    BY DEF Waitformsg
<1> DEFINE k == First(w0)
           m == port[k]
<1>4. Took(k) /\ m.from = w0 /\ m \in Messages
    BY <1>1, <1>3, TookFirst
<1>5. /\ IF m.kind = "reply" /\ m.id = Head(todo).k
         THEN Then(<<>>)
         ELSE todo' = Updatehotwindow(m) \o todo
      /\ UNCHANGED <<winvars, inbox, proc, nodes, list, left>>
    BY DEF Waitformsg
<1>6. CASE todo' = Updatehotwindow(m) \o todo
    BY <1>1, <1>4, <1>5, <1>6, Serving
<1>7. CASE m.kind = "reply" /\ Then(<<>>)
  <2> USE DEF HInv
  <2>1. Popped
    BY <1>1, <1>7, PopTodo
  <2>2. /\ hot' = hot /\ hotsema' = hotsema /\ locked' = locked /\ screen' = screen
        /\ proc' = proc /\ nodes' = nodes /\ left' = left /\ list' = list /\ inbox' = inbox
    BY <1>5 DEF winvars
  <2> HIDE DEF k
  <2>3. TypeInv'
    BY <1>4, <2>1, <2>2 DEF TypeInv, Popped, Took
  <2>4. Ordered(todo)'
    BY <2>1 DEF Popped
  <2>5. PortInv' /\ \A w \in Window : Said(w) = {} => Said(w)' = {}
    BY <1>1, <1>4, <2>1, <2>2, PopLeaves, PortTook
  <2>6. HotInv'
    <3>1. Same({"stop", "ended"}) /\ Todo \subseteq Steps /\ Todo' \subseteq Steps
        BY <1>1, <2>1, PoppedSame DEF Popped
    <3>2. \A w \in Window : (Ending(w)' <=> Ending(w)) /\ (Has("close", w)' => Has("close", w))
        BY <2>1, <3>1, HasSame, PopLeaves DEF Ending
    <3>3. \A w \in Window : ~(Ending(w) /\ ~hot[w].task)
        BY <1>1 DEF HotInv, Doing
    <3>4. ~Doing("gone")' /\ ~Doing("stopped")'
        BY <1>1, <2>1 DEF Doing, Popped, Fits
    <3> QED BY <2>2, <2>5, <3>2, <3>3, <3>4, HotFrame
  <2>7. AnswerInv'
    BY <1>1, <2>1, <2>2, PopLeaves, PopAnswers, AnswerFrame
  <2>8. QuitInv'
    BY <1>1, <2>1, <2>2, PopQuit
  <2>9. Same({"tell", "changed"}) /\ Todo \subseteq Steps /\ Todo' \subseteq Steps
    BY <1>1, <2>1, PoppedSame DEF Popped
  <2>10. ChangeIsTold => ChangeIsTold'
    BY <1>4, <1>7, <2>9, TookTold DEF Same
  <2>11. SavedInv' /\ NodesInv'
    BY <2>2, <2>9, <2>10, TellsSame, NodesFrame DEF SavedInv
  <2> QED BY <2>3, <2>4, <2>5, <2>6, <2>7, <2>8, <2>11
<1> QED
    BY <1>5, <1>6, <1>7

LEMMA DodisposetaskKeeps ==
    ASSUME HInv, Dodisposetask
    PROVE  HInv'
<1>1. todo # <<>> /\ Head(todo).do = "ended" /\ todo \in Seq(Steps) /\ port \in Seq(Messages)
    BY DEF Dodisposetask, Doing, HInv, TypeInv
<1>2. W \in Window
    BY <1>1, HeadStep DEF Global, Locks
<1> PICK w0 \in Window : w0 = W
    BY <1>2
<1>3. /\ hot' = hot /\ hotsema' = hotsema /\ locked' = locked /\ screen' = screen
      /\ nodes' = nodes /\ left' = left /\ list' = list /\ inbox' = inbox
    BY DEF Dodisposetask, winvars
<1>4. CASE /\ Of(w0) # {} /\ port' = RemoveAt(port, First(w0)) /\ proc' = proc
           /\ todo' = Updatehotwindow(port[First(w0)]) \o todo
  <2>1. Took(First(w0)) /\ port[First(w0)].from = w0 /\ port[First(w0)] \in Messages
    BY <1>1, <1>4, TookFirst
  <2>2. UNCHANGED <<winvars, inbox, proc, nodes, list, left>>
    BY <1>3, <1>4 DEF winvars
  <2> QED BY <1>1, <1>4, <2>1, <2>2, Serving
<1>5. CASE /\ Of(w0) = {} /\ proc[w0].at = "dead" /\ port' = port
           /\ proc' = [proc EXCEPT ![w0] = Gone] /\ Then(<<>>)
  <2> USE DEF HInv
  <2>1. Popped
    BY <1>1, <1>5, PopTodo
  <2>2. /\ proc' \in [Window -> [at : Ats, then : Ats, break : BOOLEAN]]
        /\ proc'[w0].at = "none" /\ \A w \in Window : w # w0 => proc'[w] = proc[w]
    <3>1. Gone \in [at : Ats, then : Ats, break : BOOLEAN] /\ Gone.at = "none"
        BY DEF Gone, Ats
    <3> QED BY <1>5, <3>1 DEF TypeInv
  <2>3. TypeInv'
    BY <1>3, <1>5, <2>1, <2>2 DEF TypeInv, Popped
  <2>4. Ordered(todo)'
    BY <2>1 DEF Popped
  <2>5. PortInv'
    <3>1. ASSUME NEW w \in Window, NEW i \in DOMAIN port, port[i].from = w
          PROVE  /\ proc'[w].at # "none"
                 /\ port[i].kind = "Close" => proc'[w].at \in Over /\ \A j \in Said(w)' : j <= i
                 /\ port[i].sync =>
                       /\ proc'[w].at = "sync" /\ ~Has("answer", w)'
                       /\ \A j \in DOMAIN port : port[j].from = w /\ port[j].sync => j = i
                       /\ hotsema' = w => port[i].kind \in {"Follow", "Manager"}
        <4>1. w # w0
            BY <1>5, <3>1 DEF Of
        <4>2. Has("answer", w)' => Has("answer", w)
            BY <2>1, PopLeaves
        <4>3. Said(w)' = Said(w)
            BY <1>5 DEF Said
        <4> QED BY <1>3, <2>2, <3>1, <4>1, <4>2, <4>3 DEF PortInv
    <3> QED BY <1>5, <3>1 DEF PortInv
  <2>6. HotInv'
    <3>1. Todo' = Elements(todo') /\ Fits(Head(todo), todo') /\ Todo = {Head(todo)} \cup Todo'
        BY <2>1 DEF Popped, Todo
    <3>2. \A e \in Todo' : e.do \notin {"stop", "close"} /\ (e.do = "ended" => e.w # w0)
        BY <1>1, <3>1 DEF Fits, W
    <3>3. (Doing("gone")' \/ Doing("stopped")') => W' = w0
        BY <1>1, <2>1, <3>1 DEF Fits, W, Doing, Popped
    <3> SUFFICES ASSUME NEW w \in Window
        PROVE  /\ proc'[w].at # "none" => hot'[w].task \/ Ending(w)'
               /\ Ending(w)' => hot'[w].breaking \/ ~hot'[w].task
               /\ Ending(w)' /\ ~hot'[w].task =>
                     (Doing("stop")' \/ Doing("ended")') /\ W' = w /\ Said(w)' = {} /\ proc'[w].at \in Over
               /\ (Doing("gone")' \/ Doing("stopped")') /\ W' = w => proc'[w].at = "none"
               /\ Has("close", w)' => Said(w)' = {} /\ proc'[w].at \in Over
        BY DEF HotInv
    <3>4. ~Has("close", w)'
        BY <3>2 DEF Has
    <3>5. CASE w = w0
        <4>1. ~Ending(w)'
            BY <3>2, <3>5 DEF Ending, Has
        <4> QED BY <2>2, <3>4, <3>5, <4>1
    <3>6. CASE w # w0
        <4>1. Ending(w)' <=> Ending(w)
            BY <1>1, <3>1, <3>6 DEF Ending, Has, W
        <4>2. ~(Ending(w) /\ ~hot[w].task)
            BY <3>6 DEF HotInv
        <4> QED BY <1>3, <2>2, <3>3, <3>4, <3>6, <4>1, <4>2 DEF HotInv
    <3> QED BY <3>5, <3>6
  <2>7. AnswerInv'
    <3>1. \A w \in Window : \/ proc'[w].at = proc[w].at /\ proc'[w].then = proc[w].then
                            \/ proc[w].at \in {"none", "dead"} /\ proc'[w].at \in {"none", "build"}
        BY <1>5, <2>2
    <3>2. \A w : ~Answers(w)
        BY <1>1, NoAnswers
    <3> QED BY <1>3, <2>1, <3>1, <3>2, PopLeaves, AnswerFrame
  <2>8. QuitInv'
    BY <1>1, <1>3, <2>1, <2>2, PopQuit
  <2>9. (ChangeIsTold => ChangeIsTold') /\ \A w : Tells(Todo, w) => Tells(Todo', w)
    BY <1>1, <1>5, <2>1, PopTold
  <2>10. SavedInv' /\ NodesInv'
    BY <1>3, <2>2, <2>9, NodesFrame DEF SavedInv
  <2> QED BY <2>3, <2>4, <2>5, <2>6, <2>7, <2>8, <2>10
<1> QED
    BY <1>4, <1>5 DEF Dodisposetask

---------------------------------------------------------------------------
(* Main ends a window.                                                     *)

LEMMA OthersStay ==
    ASSUME PortInv, AnswerInv, SavedInv, NodesInv, todo # <<>>, port \in Seq(Messages),
           Head(todo).do \notin {"answer", "show", "tell"}, Todo \subseteq Steps, Todo' \subseteq Steps,
           Same({"answer", "tell", "changed"}), port' = port, inbox' = inbox, nodes' = nodes,
           list' = list, hotsema' = hotsema,
           \A w \in Window : proc'[w].at = proc[w].at /\ proc'[w].then = proc[w].then
    PROVE  PortInv' /\ AnswerInv' /\ SavedInv' /\ NodesInv'
<1>1. \A w : Has("answer", w)' <=> Has("answer", w)
    BY HasSame
<1>2. PortInv'
    BY <1>1, PortStays
<1>3. AnswerInv'
    BY <1>1, NoAnswers, AnswerFrame
<1>4. (ChangeIsTold => ChangeIsTold') /\ \A w : Tells(Todo, w) => Tells(Todo', w)
    BY TellsSame DEF ChangeIsTold, Same
<1>5. SavedInv'
    BY <1>4 DEF SavedInv
<1>6. NodesInv'
    BY <1>4, NodesFrame
<1> QED
    BY <1>2, <1>3, <1>5, <1>6

LEMMA QuitStays ==
    ASSUME QuitInv, Head(todo) \in Todo, Head(todo).do # "quit", Todo \subseteq Steps, Todo' \subseteq Steps,
           Same({"dispose", "gone", "savequit", "show", "screen", "screenoff", "screenvalid"}),
           left' = left, \A w \in Window : proc'[w].at # "none" => proc[w].at # "none"
    PROVE  QuitInv'
<1>1. Same({"dispose", "gone", "savequit"})
    BY DEF Same
<1>2. /\ \A w : Has("show", w)' <=> Has("show", w)
      /\ \A do \in {"screen", "screenoff", "screenvalid"} : Does(do)' <=> Does(do)
    BY HasSame
<1> QED
    BY <1>1, <1>2, QuitGoesOn

LEMMA StoptaskKeeps ==
    ASSUME HInv, Stoptask
    PROVE  HInv'
<1> USE DEF HInv
<1>1. todo # <<>> /\ Head(todo).do = "stop" /\ todo \in Seq(Steps) /\ port \in Seq(Messages)
    BY DEF Stoptask, Doing, TypeInv
<1>2. W \in Window /\ Head(todo) \in Todo
    BY <1>1, HeadStep DEF Global, Locks
<1> PICK w0 \in Window : w0 = W
    BY <1>2
<1>3. /\ hot' = hot /\ hotsema' = hotsema /\ locked' = locked /\ screen' = screen /\ port' = port
      /\ nodes' = nodes /\ left' = left /\ list' = list /\ inbox' = inbox
    BY DEF Stoptask, winvars
<1> DEFINE a == Step("ended", w0, None)
<1>4. a \in Steps /\ a.do = "ended" /\ a.w = w0
    BY OfWindowIn DEF Names
<1>5. proc' = [proc EXCEPT ![w0].break = Alive(w0)] /\ Then(<<a>>)
    BY DEF Stoptask
<1> HIDE DEF a
<1>6. Fits(Head(todo), Tail(todo)) => Fits(a, Tail(todo))
    BY <1>1, <1>4 DEF Fits, Below, W
<1>7. Pushed(a, {a})
    BY <1>1, <1>4, <1>5, <1>6, PushOne
<1>8. /\ todo' \in Seq(Steps) /\ todo' # <<>> /\ Ordered(todo)' /\ Todo \subseteq Steps /\ Head(todo') = a
      /\ Todo' = {a} \cup Elements(Tail(todo)) /\ Todo = {Head(todo)} \cup Elements(Tail(todo))
    BY <1>7 DEF Pushed
<1>9. /\ proc' \in [Window -> [at : Ats, then : Ats, break : BOOLEAN]]
      /\ \A w \in Window : proc'[w].at = proc[w].at /\ proc'[w].then = proc[w].then
  <2>1. proc \in [Window -> [at : Ats, then : Ats, break : BOOLEAN]] /\ Alive(w0) \in BOOLEAN
    BY DEF TypeInv, Alive
  <2> QED BY <1>5, <2>1
<1>10. TypeInv'
    BY <1>3, <1>8, <1>9 DEF TypeInv
<1>11. \A D : D \subseteq Dos \ {"stop", "ended"} => Same(D) /\ Todo' \subseteq Steps
    BY <1>1, <1>4, <1>7, PushedSame
<1>12. /\ Todo' \subseteq Steps /\ Same({"answer", "tell", "changed"}) /\ Same({"close"})
       /\ Same({"dispose", "gone", "savequit", "show", "screen", "screenoff", "screenvalid"})
    BY <1>11 DEF Dos
<1>13. PortInv' /\ AnswerInv' /\ SavedInv' /\ NodesInv'
    BY <1>1, <1>3, <1>8, <1>9, <1>12, OthersStay
<1>14. QuitInv'
    BY <1>1, <1>2, <1>3, <1>8, <1>9, <1>12, QuitStays
<1>15. HotInv'
  <2>1. \A w \in Window : Ending(w)' <=> Ending(w)
    BY <1>1, <1>4, <1>8 DEF Ending, Has, W
  <2>2. \A w \in Window : Has("close", w)' => Has("close", w)
    BY <1>8, <1>12, HasSame
  <2>3. Doing("ended")' /\ W' = w0 /\ ~Doing("gone")' /\ ~Doing("stopped")'
    BY <1>4, <1>8 DEF Doing, W
  <2>4. \A w \in Window : Ending(w) /\ ~hot[w].task => w = w0
    BY DEF HotInv
  <2> QED BY <1>3, <1>9, <2>1, <2>2, <2>3, <2>4, HotFrame, SaidSame
<1> QED
    BY <1>8, <1>10, <1>13, <1>14, <1>15

LEMMA CloseUpdateKeeps ==
    ASSUME HInv, CloseUpdate
    PROVE  HInv'
<1> USE DEF HInv
<1>1. todo # <<>> /\ Head(todo).do = "close" /\ todo \in Seq(Steps) /\ port \in Seq(Messages)
    BY DEF CloseUpdate, Doing, TypeInv
<1>2. W \in Window /\ Head(todo) \in Todo
    BY <1>1, HeadStep DEF Global, Locks
<1> PICK w0 \in Window : w0 = W
    BY <1>2
<1>3. /\ hotsema' = hotsema /\ locked' = locked /\ screen' = screen /\ port' = port /\ proc' = proc
      /\ nodes' = nodes /\ left' = left /\ list' = list /\ inbox' = inbox
    BY DEF CloseUpdate
<1>4. CASE hot[w0].breaking \/ ~hot[w0].task
  <2>1. Popped /\ hot' = hot
    BY <1>1, <1>4, PopTodo DEF CloseUpdate
  <2>2. TypeInv' /\ Ordered(todo)' /\ Todo \subseteq Steps
    BY <1>3, <2>1 DEF TypeInv, Popped
  <2>3. HotInv' /\ QuitInv'
    BY <1>1, <1>3, <2>1, PopHot, PopQuit
  <2>4. Same({"answer", "tell", "changed"}) /\ Todo' \subseteq Steps
    BY <1>1, <2>1, PoppedSame
  <2>5. PortInv' /\ AnswerInv' /\ SavedInv' /\ NodesInv'
    BY <1>1, <1>3, <2>2, <2>4, OthersStay
  <2> QED BY <2>2, <2>3, <2>5
<1>5. CASE ~(hot[w0].breaking \/ ~hot[w0].task)
  <2> DEFINE a == Step("stop", w0, None)
  <2>1. a \in Steps /\ a.do = "stop" /\ a.w = w0
    BY OfWindowIn DEF Names
  <2>2. hot' = [hot EXCEPT ![w0].task = FALSE] /\ Then(<<a>>)
    BY <1>5 DEF CloseUpdate
  <2> HIDE DEF a
  <2>3. ~Ending(w0)
    BY <1>5 DEF HotInv
  <2>4. Elements(Tail(todo)) \subseteq Todo
    BY <1>1, HeadStep
  <2>5. Fits(Head(todo), Tail(todo)) => Fits(a, Tail(todo))
    BY <1>1, <2>1, <2>3, <2>4 DEF Fits, Below, Ending, Has
  <2>6. Pushed(a, {a})
    BY <1>1, <2>1, <2>2, <2>5, PushOne
  <2>7. /\ todo' \in Seq(Steps) /\ todo' # <<>> /\ Ordered(todo)' /\ Todo \subseteq Steps /\ Head(todo') = a
        /\ Todo' = {a} \cup Elements(Tail(todo)) /\ Todo = {Head(todo)} \cup Elements(Tail(todo))
    BY <2>6 DEF Pushed
  <2>8. /\ hot' \in [Window -> [exists : BOOLEAN, task : BOOLEAN, breaking : BOOLEAN, wasopen : BOOLEAN]]
        /\ hot'[w0].task = FALSE /\ \A w \in Window : w # w0 => hot'[w] = hot[w]
    <3>1. hot \in [Window -> [exists : BOOLEAN, task : BOOLEAN, breaking : BOOLEAN, wasopen : BOOLEAN]]
        BY DEF TypeInv
    <3> QED BY <2>2, <3>1
  <2>9. TypeInv'
    BY <1>3, <2>7, <2>8 DEF TypeInv
  <2>10. \A D : D \subseteq Dos \ {"stop", "close"} => Same(D) /\ Todo' \subseteq Steps
    BY <1>1, <2>1, <2>6, PushedSame
  <2>11. /\ Todo' \subseteq Steps /\ Same({"answer", "tell", "changed"})
         /\ Same({"dispose", "gone", "savequit", "show", "screen", "screenoff", "screenvalid"})
    BY <2>10 DEF Dos
  <2>12. PortInv' /\ AnswerInv' /\ SavedInv' /\ NodesInv'
    BY <1>1, <1>3, <2>7, <2>11, OthersStay
  <2>13. QuitInv'
    BY <1>1, <1>2, <1>3, <2>7, <2>11, QuitStays
  <2>14. Doing("stop")' /\ W' = w0 /\ ~Doing("gone")' /\ ~Doing("stopped")'
    BY <2>1, <2>7 DEF Doing, W
  <2>15. Said(w0) = {} /\ proc[w0].at \in Over /\ \A w : Said(w)' = Said(w)
    <3>1. Has("close", w0)
        BY <1>1, <1>2 DEF Has, W
    <3> QED BY <1>3, <3>1, SaidSame DEF HotInv
  <2>16. HotInv'
    <3> SUFFICES ASSUME NEW w \in Window
        PROVE  /\ proc'[w].at # "none" => hot'[w].task \/ Ending(w)'
               /\ Ending(w)' => hot'[w].breaking \/ ~hot'[w].task
               /\ Ending(w)' /\ ~hot'[w].task =>
                     (Doing("stop")' \/ Doing("ended")') /\ W' = w /\ Said(w)' = {} /\ proc'[w].at \in Over
               /\ (Doing("gone")' \/ Doing("stopped")') /\ W' = w => proc'[w].at = "none"
               /\ Has("close", w)' => Said(w)' = {} /\ proc'[w].at \in Over
        BY DEF HotInv
    <3>1. Has("close", w)' => Has("close", w)
        BY <2>1, <2>7 DEF Has
    <3>2. CASE w = w0
        <4>1. Ending(w)'
            BY <2>1, <2>7, <3>2 DEF Ending, Has
        <4> QED BY <1>3, <2>8, <2>14, <2>15, <3>2, <4>1
    <3>3. CASE w # w0
        <4>1. Ending(w)' <=> Ending(w)
            BY <1>1, <2>1, <2>7, <3>3 DEF Ending, Has
        <4>2. ~(Ending(w) /\ ~hot[w].task)
            BY <1>1 DEF HotInv, Doing
        <4> QED BY <1>3, <2>8, <2>14, <2>15, <3>1, <3>3, <4>1, <4>2 DEF HotInv
    <3> QED BY <3>2, <3>3
  <2> QED BY <2>7, <2>9, <2>12, <2>13, <2>16
<1> QED
    BY <1>4, <1>5

LEMMA DisposehotwindowKeeps ==
    ASSUME HInv, Disposehotwindow
    PROVE  HInv'
<1> USE DEF HInv
<1>1. todo # <<>> /\ Head(todo).do = "dispose" /\ todo \in Seq(Steps) /\ port \in Seq(Messages)
    BY DEF Disposehotwindow, Doing, TypeInv
<1>2. W \in Window /\ Head(todo) \in Todo
    BY <1>1, HeadStep DEF Global, Locks
<1> PICK w0 \in Window : w0 = W
    BY <1>2
<1>3. /\ hotsema' = hotsema /\ locked' = locked /\ screen' = screen /\ port' = port /\ proc' = proc
      /\ nodes' = nodes /\ left' = left /\ list' = list /\ inbox' = inbox
    BY DEF Disposehotwindow
<1> DEFINE a == Step("stop", w0, None)
           b == Step("gone", w0, None)
           T == Elements(Tail(todo))
<1>4. a \in Steps /\ a.do = "stop" /\ a.w = w0 /\ b \in Steps /\ b.do = "gone" /\ b.w = w0
    BY OfWindowIn DEF Names
<1>5. /\ hot' = [hot EXCEPT ![w0].breaking = hot[w0].task]
      /\ hot[w0].task => Then(<<a, b>>)
      /\ ~hot[w0].task => Then(<<b>>)
    BY DEF Disposehotwindow
<1> HIDE DEF a, b
<1>6. Tail(todo) \in Seq(Steps) /\ Fits(Head(todo), Tail(todo))
    BY <1>1, OrderedTaken, HeadTailProperties
<1>7. \A e \in T : e.do \in {"dispose", "savequit", "quit"} /\ (w0 = "manager" /\ e.do = "dispose" => e.w # "viewer")
    BY <1>1, <1>6 DEF Fits, Below, W
<1>8. Tail(todo) # <<>> => Tail(todo)[1] \in T
  <2>1. Tail(todo) # <<>> => 1 \in DOMAIN Tail(todo)
    BY <1>6, EmptySeq, LenProperties
  <2> QED BY <2>1 DEF Elements
<1>9. Fits(b, Tail(todo))
    BY <1>4, <1>7, <1>8 DEF Fits, Below
<1>10. Fits(a, <<b>> \o Tail(todo))
  <2>1. Elements(<<b>> \o Tail(todo)) = {b} \cup T
    BY <1>4, <1>6, ElementsPut
  <2>2. (<<b>> \o Tail(todo))[1] = b
    BY <1>4, <1>6, Put
  <2> QED BY <1>4, <1>7, <2>1, <2>2 DEF Fits, Below
<1> DEFINE N == IF hot[w0].task THEN {a, b} ELSE {b}
           f == IF hot[w0].task THEN a ELSE b
<1>11. Pushed(f, N)
  <2>1. CASE hot[w0].task
    <3>1. Pushed(a, {a, b})
        BY <1>1, <1>4, <1>5, <1>9, <1>10, <2>1, PushTwo
    <3> QED BY <2>1, <3>1
  <2>2. CASE ~hot[w0].task
    <3>1. Pushed(b, {b})
        BY <1>1, <1>4, <1>5, <1>9, <2>2, PushOne
    <3> QED BY <2>2, <3>1
  <2> QED BY <2>1, <2>2
<1>12. /\ todo' \in Seq(Steps) /\ todo' # <<>> /\ Ordered(todo)' /\ Todo \subseteq Steps /\ Head(todo') = f
       /\ Todo' = N \cup T /\ Todo = {Head(todo)} \cup T
    BY <1>11 DEF Pushed
<1>13. /\ hot' \in [Window -> [exists : BOOLEAN, task : BOOLEAN, breaking : BOOLEAN, wasopen : BOOLEAN]]
       /\ hot'[w0].breaking = hot[w0].task /\ hot'[w0].task = hot[w0].task
       /\ \A w \in Window : w # w0 => hot'[w] = hot[w]
  <2>1. hot \in [Window -> [exists : BOOLEAN, task : BOOLEAN, breaking : BOOLEAN, wasopen : BOOLEAN]]
    BY DEF TypeInv
  <2> QED BY <1>5, <2>1
<1>14. TypeInv'
    BY <1>3, <1>12, <1>13 DEF TypeInv
<1>15. N \subseteq Steps /\ \A e \in N : e.do \in {"stop", "gone"} /\ e.w = w0
    BY <1>4
<1> HIDE DEF T
<1>16. b \in N /\ (hot[w0].task => a \in N)
    BY DEF N
<1>17. f.w = w0 /\ IF hot[w0].task THEN f.do = "stop" ELSE f.do = "gone"
    BY <1>4
<1> HIDE DEF N, f
<1>18. Same({"answer", "tell", "changed"}) /\ Todo' \subseteq Steps
    BY <1>1, <1>11, <1>15, PushedSame
<1>19. PortInv' /\ AnswerInv' /\ SavedInv' /\ NodesInv'
    BY <1>1, <1>3, <1>12, <1>18, OthersStay
<1>20. \A w : ~Ending(w) /\ ~Has("close", w)' /\ (Ending(w)' => w = w0 /\ hot[w0].task)
  <2>1. \A w : ~Ending(w) /\ ~Has("close", w)'
    BY <1>1, <1>7, <1>12, <1>15 DEF Ending, Has
  <2>2. ASSUME NEW w, Ending(w)' PROVE w = w0 /\ hot[w0].task
    <3>1. PICK e \in Todo' : e.do \in {"stop", "ended"} /\ e.w = w
        BY <2>2 DEF Ending, Has
    <3>2. e \in N /\ e.do = "stop"
        BY <1>7, <1>12, <1>15, <3>1
    <3> QED BY <1>4, <1>15, <3>1, <3>2 DEF N
  <2> QED BY <2>1, <2>2
<1>21. HotInv'
  <2>1. W' = w0 /\ ~Doing("stopped")' /\ (Doing("gone")' => ~hot[w0].task)
    BY <1>12, <1>17 DEF Doing, W
  <2>2. hot[w0].task => Ending(w0)'
    BY <1>4, <1>12, <1>16 DEF Ending, Has
  <2>3. \A w \in Window : proc[w].at # "none" => hot[w].task
    BY <1>20 DEF HotInv
  <2> QED BY <1>3, <1>13, <1>20, <2>1, <2>2, <2>3 DEF HotInv
<1>22. QuitInv'
  <2>1. \A w : Has("gone", w)' <=> (w = w0 \/ Has("gone", w))
    BY <1>1, <1>4, <1>7, <1>12, <1>15, <1>16 DEF Has
  <2>2. \A w : Has("dispose", w) => Has("dispose", w)' \/ w = w0
    BY <1>2, <1>12 DEF Has, W
  <2>3. \A w : Has("dispose", w)' => Has("dispose", w)
    BY <1>12, <1>15 DEF Has
  <2>4. Has("dispose", w0)
    BY <1>1, <1>2 DEF Has, W
  <2>5. \A w : Disposing(w)' <=> Disposing(w)
    BY <2>1, <2>2, <2>3, <2>4 DEF Disposing
  <2>6. Does("savequit")' <=> Does("savequit")
    BY <1>1, <1>12, <1>15 DEF Does
  <2>7. /\ \A w : ~Has("show", w)' /\ ~Has("gone", w)
        /\ ~Does("screen")' /\ ~Does("screenoff")' /\ ~Does("screenvalid")'
    BY <1>1, <1>7, <1>12, <1>15 DEF Has, Does
  <2> SUFFICES ASSUME left.quit
      PROVE  /\ \A w \in Window : proc[w].at # "none" => Disposing(w)'
             /\ \A w \in Window : Disposing(w)' => Does("savequit")'
             /\ Disposing("viewer")' => Has("dispose", "manager")'
             /\ Does("savequit")'
      BY <1>3, <2>7 DEF QuitInv
  <2>8. Does("savequit")
    BY <1>1, <1>2 DEF QuitInv
  <2>9. Disposing("viewer")' => Has("dispose", "manager")'
    <3>1. CASE w0 = "manager"
        <4>1. ~Has("dispose", "viewer")
            BY <1>2, <1>7, <1>12, <3>1 DEF Has, W
        <4> QED BY <2>5, <2>7, <4>1 DEF Disposing
    <3>2. CASE w0 # "manager"
        BY <2>2, <2>5, <3>2 DEF QuitInv
    <3> QED BY <3>1, <3>2
  <2> QED BY <2>5, <2>6, <2>8, <2>9 DEF QuitInv
<1> QED
    BY <1>12, <1>14, <1>19, <1>21, <1>22

LEMMA DisposedKeeps ==
    ASSUME HInv, Disposed
    PROVE  HInv'
<1> USE DEF HInv
<1>1. todo # <<>> /\ Head(todo).do = "gone" /\ todo \in Seq(Steps) /\ port \in Seq(Messages)
    BY DEF Disposed, Doing, TypeInv
<1>2. W \in Window /\ Head(todo) \in Todo
    BY <1>1, HeadStep DEF Global, Locks
<1> PICK w0 \in Window : w0 = W
    BY <1>2
<1>3. /\ hotsema' = hotsema /\ locked' = locked /\ screen' = screen /\ port' = port /\ proc' = proc
      /\ nodes' = nodes /\ left' = left /\ list' = list /\ inbox' = inbox
      /\ hot' = [hot EXCEPT ![w0] = Closed]
    BY DEF Disposed
<1>4. Popped
    BY <1>1, PopTodo DEF Disposed
<1>5. /\ hot' \in [Window -> [exists : BOOLEAN, task : BOOLEAN, breaking : BOOLEAN, wasopen : BOOLEAN]]
      /\ \A w \in Window : w # w0 => hot'[w] = hot[w]
    BY <1>3 DEF TypeInv, Closed
<1>6. TypeInv' /\ Ordered(todo)' /\ Todo \subseteq Steps
    BY <1>3, <1>4, <1>5 DEF TypeInv, Popped
<1>7. Same({"answer", "tell", "changed"}) /\ Todo' \subseteq Steps
    BY <1>1, <1>4, PoppedSame
<1>8. PortInv' /\ AnswerInv' /\ SavedInv' /\ NodesInv'
    BY <1>1, <1>3, <1>6, <1>7, OthersStay
<1>9. proc[w0].at = "none"
    BY <1>1 DEF HotInv, Doing
<1>10. Todo = {Head(todo)} \cup Todo' /\ \A e \in Todo' : e.do \in {"dispose", "savequit", "quit"}
    BY <1>1, <1>4 DEF Popped, Fits, Below, Todo
<1>11. HotInv'
  <2>1. \A w : ~Ending(w) /\ ~Ending(w)' /\ ~Has("close", w)'
    BY <1>1, <1>10 DEF Ending, Has
  <2>2. ~Doing("gone")' /\ ~Doing("stopped")'
    BY <1>4, <1>10 DEF Doing, Popped
  <2>3. \A w \in Window : proc[w].at # "none" => hot[w].task
    BY <2>1 DEF HotInv
  <2> QED BY <1>3, <1>5, <1>9, <2>1, <2>2, <2>3 DEF HotInv
<1>12. QuitInv'
  <2>1. \A w : Has("dispose", w)' <=> Has("dispose", w)
    BY <1>1, <1>10 DEF Has
  <2>2. \A w : Disposing(w)' => Disposing(w)
    BY <1>4, PopLeaves DEF Disposing
  <2>3. \A w : Disposing(w) /\ w # w0 => Disposing(w)'
    BY <1>1, <1>10, <2>1 DEF Disposing, Has, W
  <2>4. (Does("savequit")' <=> Does("savequit")) /\ \A w : Has("show", w)' => Has("show", w)
    BY <1>1, <1>10 DEF Does, Has
  <2>5. ~Does("screen")' /\ ~Does("screenoff")' /\ ~Does("screenvalid")'
    BY <1>10 DEF Does
  <2> SUFFICES ASSUME left.quit
      PROVE  /\ \A w \in Window : proc[w].at # "none" => Disposing(w)'
             /\ \A w \in Window : Disposing(w)' => Does("savequit")'
             /\ Disposing("viewer")' => Has("dispose", "manager")'
             /\ ~Has("show", "viewer")'
             /\ Has("show", "manager")' => Has("dispose", "manager")'
             /\ Does("savequit")'
      BY <1>3, <2>5 DEF QuitInv
  <2>6. Does("savequit")
    BY <1>1, <1>2 DEF QuitInv
  <2> QED BY <1>9, <2>1, <2>2, <2>3, <2>4, <2>6 DEF QuitInv
<1> QED
    BY <1>6, <1>8, <1>11, <1>12

---------------------------------------------------------------------------
(* Main starts a window.                                                   *)

LEMMA Starting ==
    ASSUME TypeInv, NEW w0 \in Window, Starttask(w0)
    PROVE  /\ proc' \in [Window -> [at : Ats, then : Ats, break : BOOLEAN]]
           /\ proc'[w0].at = "build" /\ \A w \in Window : w # w0 => proc'[w] = proc[w]
<1> DEFINE b == [Gone EXCEPT !.at = "build"]
<1>1. b \in [at : Ats, then : Ats, break : BOOLEAN] /\ b.at = "build"
    BY DEF Gone, Ats
<1>2. proc' = [proc EXCEPT ![w0] = b] /\ proc \in [Window -> [at : Ats, then : Ats, break : BOOLEAN]]
    BY DEF Starttask, TypeInv
<1> HIDE DEF b
<1> QED
    BY <1>1, <1>2

\* Without its task a window has no process, unless main waits for its end.
LEMMA NoTask ==
    ASSUME HotInv, NEW w \in Window, ~hot[w].task, todo # <<>>, Head(todo).do \notin {"stop", "ended"}
    PROVE  proc[w].at = "none" /\ ~Ending(w) /\ ~Has("close", w)
<1>1. proc[w].at = "none" /\ ~Ending(w)
    BY DEF HotInv, Doing
<1> QED
    BY <1>1 DEF HotInv, Over

LEMMA StartStays ==
    ASSUME PortInv, AnswerInv, SavedInv, NodesInv, HotInv, todo \in Seq(Steps), todo # <<>>,
           port \in Seq(Messages), Popped, Head(todo).do \notin {"stop", "ended", "answer", "tell", "changed"},
           port' = port, inbox' = inbox, nodes' = nodes, list' = list, hotsema' = hotsema,
           NEW w0 \in Window, ~hot[w0].task,
           proc'[w0].at \in {"none", "build"}, \A w \in Window : w # w0 => proc'[w] = proc[w],
           hot' \in [Window -> [exists : BOOLEAN, task : BOOLEAN, breaking : BOOLEAN, wasopen : BOOLEAN]],
           proc'[w0].at = "build" => hot'[w0].task, \A w \in Window : w # w0 => hot'[w] = hot[w]
    PROVE  PortInv' /\ AnswerInv' /\ SavedInv' /\ NodesInv' /\ HotInv'
<1>1. proc[w0].at = "none" /\ ~Ending(w0) /\ ~Has("close", w0)
    BY NoTask
<1>2. PortInv'
  <2>1. \A i \in DOMAIN port : port[i].from # w0
    BY <1>1 DEF PortInv
  <2>2. ASSUME NEW w \in Window, NEW i \in DOMAIN port, port[i].from = w
        PROVE  /\ proc'[w].at # "none"
               /\ port[i].kind = "Close" => proc'[w].at \in Over /\ \A j \in Said(w)' : j <= i
               /\ port[i].sync =>
                     /\ proc'[w].at = "sync" /\ ~Has("answer", w)'
                     /\ \A j \in DOMAIN port : port[j].from = w /\ port[j].sync => j = i
                     /\ hotsema' = w => port[i].kind \in {"Follow", "Manager"}
    <3>1. w # w0 /\ Said(w)' = Said(w)
        BY <2>1, <2>2, SaidSame
    <3>2. Has("answer", w)' => Has("answer", w)
        BY PopLeaves
    <3> QED BY <2>2, <3>1, <3>2 DEF PortInv
  <2> QED BY <2>2 DEF PortInv
<1>3. AnswerInv'
  <2>1. \A w \in Window : \/ proc'[w].at = proc[w].at /\ proc'[w].then = proc[w].then
                          \/ proc[w].at \in {"none", "dead"} /\ proc'[w].at \in {"none", "build"}
    BY <1>1
  <2> QED BY <2>1, PopLeaves, PopAnswers, AnswerFrame
<1>4. (ChangeIsTold => ChangeIsTold') /\ \A w : Tells(Todo, w) => Tells(Todo', w)
    BY PopTold
<1>5. SavedInv' /\ NodesInv'
  <2>1. \A w \in Window : proc'[w].at \notin {"none", "build", "free", "end", "dead"} =>
                              proc[w].at \notin {"none", "build", "free", "end", "dead"}
    OBVIOUS
  <2> QED BY <1>4, <2>1, NodesFrame DEF SavedInv
<1>6. HotInv'
  <2>1. \A w \in Window : Ending(w)' <=> Ending(w)
    <3>1. Same({"stop", "ended"}) /\ Todo \subseteq Steps /\ Todo' \subseteq Steps
        BY PoppedSame DEF Popped
    <3>2. \A do \in {"stop", "ended"} : \A w : Has(do, w)' <=> Has(do, w)
        BY <3>1, HasSame
    <3> QED BY <3>2 DEF Ending
  <2>2. ~Doing("gone")' /\ ~Doing("stopped")'
    BY DEF Doing, Popped, Fits
  <2>3. \A w \in Window : Has("close", w)' => Has("close", w)
    BY PopLeaves
  <2>4. \A w : Said(w)' = Said(w)
    BY SaidSame
  <2>5. ASSUME NEW w \in Window
        PROVE  /\ proc'[w].at # "none" => hot'[w].task \/ Ending(w)'
               /\ Ending(w)' => hot'[w].breaking \/ ~hot'[w].task
               /\ ~(Ending(w)' /\ ~hot'[w].task)
               /\ Has("close", w)' => Said(w)' = {} /\ proc'[w].at \in Over
    <3>1. CASE w = w0
        BY <1>1, <2>1, <2>3, <3>1
    <3>2. CASE w # w0
        <4>1. ~(Ending(w) /\ ~hot[w].task)
            BY DEF HotInv, Doing
        <4> QED BY <2>1, <2>3, <2>4, <3>2, <4>1 DEF HotInv
    <3> QED BY <3>1, <3>2
  <2> QED BY <2>2, <2>5 DEF HotInv
<1> QED
    BY <1>2, <1>3, <1>5, <1>6

LEMMA ShowKeeps ==
    ASSUME HInv, Show
    PROVE  HInv'
<1> USE DEF HInv
<1>1. todo # <<>> /\ Head(todo).do = "show" /\ todo \in Seq(Steps) /\ port \in Seq(Messages)
    BY DEF Show, Doing, TypeInv
<1>2. W \in Window /\ Head(todo) \in Todo
    BY <1>1, HeadStep DEF Global, Locks
<1> PICK w0 \in Window : w0 = W
    BY <1>2
<1>3. /\ hotsema' = hotsema /\ locked' = locked /\ screen' = screen /\ port' = port
      /\ nodes' = nodes /\ left' = left /\ list' = list /\ inbox' = inbox
    BY DEF Show
<1>4. CASE hot[w0].task
  <2> DEFINE a == Step("tell", w0, "Tofront")
  <2>1. a \in Steps /\ a.do = "tell" /\ a.w = w0 /\ a.k = "Tofront"
    BY OfWindowIn DEF Names
  <2>2. Then(<<a>>) /\ hot' = hot /\ proc' = proc
    BY <1>4 DEF Show
  <2> HIDE DEF a
  <2>3. Fits(Head(todo), Tail(todo)) => Fits(a, Tail(todo))
    BY <1>1, <2>1 DEF Fits, Below
  <2>4. Pushed(a, {a})
    BY <1>1, <2>1, <2>2, <2>3, PushOne
  <2>5. /\ todo' \in Seq(Steps) /\ todo' # <<>> /\ Ordered(todo)' /\ Todo \subseteq Steps /\ Head(todo') = a
        /\ Todo' = {a} \cup Elements(Tail(todo)) /\ Todo = {Head(todo)} \cup Elements(Tail(todo))
    BY <2>4 DEF Pushed
  <2>6. TypeInv'
    BY <1>3, <2>2, <2>5 DEF TypeInv
  <2>7. \A D : D \subseteq Dos \ {"tell", "show"} => Same(D) /\ Todo' \subseteq Steps
    BY <1>1, <2>1, <2>4, PushedSame
  <2>8. /\ Todo' \subseteq Steps /\ Same({"answer", "changed", "close"}) /\ Same({"stop", "ended"})
        /\ Same({"dispose", "gone", "savequit"}) /\ Same({"screen", "screenoff", "screenvalid"})
    BY <2>7 DEF Dos
  <2>9. HotInv'
    BY <1>1, <1>3, <2>1, <2>2, <2>5, <2>8, HasSame, HotGoesOn
  <2>10. PortInv'
    BY <1>1, <1>3, <2>2, <2>5, <2>8, HasSame, PortStays
  <2>11. AnswerInv'
    <3>1. ASSUME NEW w \in Window, Answers(w) PROVE Answers(w)'
        <4>1. Tail(todo) # <<>> /\ Head(Tail(todo)).do = "answer" /\ Head(Tail(todo)).w = w
            BY <1>1, <3>1 DEF Answers
        <4>2. Tail(todo') = Tail(todo)
            <5>1. Tail(todo) \in Seq(Steps) /\ todo' = <<a>> \o Tail(todo)
                BY <1>1, <2>2, HeadTailProperties DEF Then
            <5> QED BY <2>1, <5>1, Put
        <4> QED BY <2>1, <2>5, <4>1, <4>2 DEF Answers
    <3>2. \A w : Has("answer", w)' <=> Has("answer", w)
        BY <2>5, <2>8, HasSame
    <3> QED BY <1>3, <2>2, <3>1, <3>2, AnswerFrame
  <2>12. (ChangeIsTold => ChangeIsTold') /\ \A w : Tells(Todo, w) => Tells(Todo', w)
    <3>1. ChangeIsTold => ChangeIsTold'
        BY <1>3, <2>5, <2>8 DEF ChangeIsTold, Same
    <3> QED BY <1>1, <2>5, <3>1 DEF Tells
  <2>13. SavedInv' /\ NodesInv'
    BY <1>3, <2>2, <2>12, NodesFrame DEF SavedInv
  <2>14. QuitInv'
    <3>1. \A w : Has("show", w)' => Has("show", w)
        BY <2>1, <2>5 DEF Has
    <3>2. \A do \in {"screen", "screenoff", "screenvalid"} : Does(do)' <=> Does(do)
        BY <2>5, <2>8, HasSame
    <3> QED BY <1>1, <1>2, <1>3, <2>2, <2>5, <2>8, <3>1, <3>2, QuitGoesOn
  <2> QED BY <2>5, <2>6, <2>9, <2>10, <2>11, <2>13, <2>14
<1>5. CASE ~hot[w0].task
  <2> DEFINE h == [Closed EXCEPT !.exists = TRUE, !.task = screen]
  <2>1. /\ hot' = [hot EXCEPT ![w0] = h] /\ Then(<<>>)
        /\ IF screen THEN Starttask(w0) ELSE proc' = proc
    BY <1>5 DEF Show
  <2>2. /\ hot \in [Window -> [exists : BOOLEAN, task : BOOLEAN, breaking : BOOLEAN, wasopen : BOOLEAN]]
        /\ h \in [exists : BOOLEAN, task : BOOLEAN, breaking : BOOLEAN, wasopen : BOOLEAN]
        /\ h.task = screen
    BY DEF TypeInv, Closed
  <2> HIDE DEF h
  <2>3. /\ hot' \in [Window -> [exists : BOOLEAN, task : BOOLEAN, breaking : BOOLEAN, wasopen : BOOLEAN]]
        /\ hot'[w0].task = screen /\ \A w \in Window : w # w0 => hot'[w] = hot[w]
    BY <2>1, <2>2
  <2>4. Popped
    BY <1>1, <2>1, PopTodo
  <2>5. proc[w0].at = "none"
    BY <1>1, <1>5, NoTask
  <2>6. /\ proc' \in [Window -> [at : Ats, then : Ats, break : BOOLEAN]]
        /\ proc'[w0].at \in {"none", "build"} /\ \A w \in Window : w # w0 => proc'[w] = proc[w]
        /\ proc'[w0].at = "build" => screen
    BY <2>1, <2>5, Starting DEF TypeInv
  <2>7. TypeInv' /\ Ordered(todo)'
    BY <1>3, <2>3, <2>4, <2>5, <2>6 DEF TypeInv, Popped
  <2>8. PortInv' /\ AnswerInv' /\ SavedInv' /\ NodesInv' /\ HotInv'
    BY <1>1, <1>3, <1>5, <2>3, <2>4, <2>6, StartStays
  <2>9. QuitInv'
    <3>1. Same({"dispose", "gone", "savequit"}) /\ Todo \subseteq Steps /\ Todo' \subseteq Steps
        BY <1>1, <2>4, PoppedSame DEF Popped
    <3>2. \A w : /\ Has("dispose", w)' <=> Has("dispose", w)
                 /\ Has("gone", w)' <=> Has("gone", w)
        BY <3>1, HasSame
    <3>3. \A w : Disposing(w)' <=> Disposing(w)
        BY <3>2 DEF Disposing
    <3>4. Does("savequit")' <=> Does("savequit")
        BY <3>1, HasSame
    <3>5. Has("show", w0)
        BY <1>1, <1>2 DEF Has, W
    <3> SUFFICES ASSUME left.quit
        PROVE  /\ \A w \in Window : proc'[w].at # "none" => Disposing(w)'
               /\ \A w \in Window : Disposing(w)' => Does("savequit")'
               /\ Disposing("viewer")' => Has("dispose", "manager")'
               /\ ~Has("show", "viewer")'
               /\ Has("show", "manager")' => Has("dispose", "manager")'
               /\ \A w \in Window : Does("screen")' \/ Does("screenoff")' \/ Does("screenvalid")' => Has("dispose", w)'
               /\ Does("savequit")'
        BY <1>3 DEF QuitInv
    <3>6. Disposing(w0)
        BY <3>5 DEF QuitInv, Disposing, Window
    <3>7. Does("savequit")
        BY <3>6 DEF QuitInv
    <3>8. \A w \in Window : proc'[w].at # "none" => Disposing(w)'
        BY <2>6, <3>3, <3>6 DEF QuitInv
    <3> QED BY <2>4, <3>2, <3>3, <3>4, <3>7, <3>8, PopLeaves DEF QuitInv
  <2> QED BY <2>7, <2>8, <2>9
<1> QED
    BY <1>4, <1>5

LEMMA ScreenKeeps ==
    ASSUME HInv, Screen
    PROVE  HInv'
<1> USE DEF HInv
<1>1. todo # <<>> /\ Head(todo).do \in {"screen", "screenoff"} /\ todo \in Seq(Steps) /\ port \in Seq(Messages)
    BY DEF Screen, Doing, TypeInv
<1>2. Head(todo) \in Todo /\ Todo \subseteq Steps
    BY <1>1, HeadStep
<1>3. /\ hotsema' = hotsema /\ locked' = locked /\ hot' = hot /\ port' = port /\ proc' = proc
      /\ nodes' = nodes /\ left' = left /\ list' = list /\ inbox' = inbox /\ screen' \in BOOLEAN
    BY DEF Screen
<1>4. ASSUME todo' \in Seq(Steps), Ordered(todo'), Todo' \subseteq Steps,
             todo' # <<>> => Head(todo').do \notin {"gone", "stopped"},
             \A D : D \subseteq Dos \ {"screen", "screenoff", "screenvalid"} => Same(D)
      PROVE  HInv'
  <2>1. TypeInv'
    BY <1>3, <1>4 DEF TypeInv
  <2>2. /\ Same({"answer", "tell", "changed"}) /\ Same({"stop", "ended"}) /\ Same({"close", "show"})
        /\ Same({"dispose", "gone", "savequit"})
    BY <1>4 DEF Dos
  <2>3. PortInv' /\ AnswerInv' /\ SavedInv' /\ NodesInv'
    BY <1>1, <1>2, <1>3, <1>4, <2>2, OthersStay
  <2>4. HotInv'
    <3>1. \A w : Has("close", w)' <=> Has("close", w)
        BY <1>2, <1>4, <2>2, HasSame
    <3>2. Head(todo).do \notin {"stop", "ended"}
        BY <1>1
    <3> QED BY <1>1, <1>2, <1>3, <1>4, <2>2, <3>1, <3>2, HotGoesOn
  <2>5. QuitInv'
    <3>1. \A w : Has("show", w)' <=> Has("show", w)
        BY <1>2, <1>4, <2>2, HasSame
    <3>2. Does("screen") \/ Does("screenoff")
        BY <1>1, <1>2 DEF Does
    <3> QED BY <1>1, <1>2, <1>3, <1>4, <2>2, <3>1, <3>2, QuitGoesOn
  <2> QED BY <1>4, <2>1, <2>3, <2>4, <2>5
<1>5. CASE Then(<<>>)
  <2>1. Popped
    BY <1>1, <1>5, PopTodo
  <2>2. \A D : D \subseteq Dos \ {"screen", "screenoff", "screenvalid"} => Same(D) /\ Todo' \subseteq Steps
    BY <1>1, <2>1, PoppedSame
  <2>3. Todo' \subseteq Steps
    BY <2>2
  <2>4. /\ todo' \in Seq(Steps) /\ Ordered(todo')
        /\ todo' # <<>> => Head(todo').do \notin {"gone", "stopped"}
    BY <1>1, <2>1 DEF Popped, Fits
  <2> QED BY <1>4, <2>2, <2>3, <2>4
<1>6. CASE \E v, w \in Window :
              v # w /\ Then(<<Step("screenvalid", v, None), Step("screenvalid", w, None)>>)
  <2> PICK v \in Window, w \in Window :
           v # w /\ Then(<<Step("screenvalid", v, None), Step("screenvalid", w, None)>>)
    BY <1>6
  <2> DEFINE a == Step("screenvalid", v, None)
             b == Step("screenvalid", w, None)
             T == Elements(Tail(todo))
  <2>1. a \in Steps /\ a.do = "screenvalid" /\ b \in Steps /\ b.do = "screenvalid"
    BY OfWindowIn DEF Names
  <2>2. Then(<<a, b>>)
    OBVIOUS
  <2> HIDE DEF a, b
  <2>3. Tail(todo) \in Seq(Steps) /\ Fits(Head(todo), Tail(todo))
    BY <1>1, OrderedTaken, HeadTailProperties
  <2>4. \A e \in T : e.do \in {"dispose", "savequit", "quit"}
    BY <1>1, <2>3 DEF Fits, Below
  <2>5. Tail(todo) # <<>> => Tail(todo)[1].do \notin {"gone", "stopped"}
    BY <1>1, <2>3 DEF Fits
  <2>6. Fits(b, Tail(todo))
    BY <2>1, <2>4, <2>5 DEF Fits, Below
  <2>7. Fits(a, <<b>> \o Tail(todo))
    <3>1. Elements(<<b>> \o Tail(todo)) = {b} \cup T
        BY <2>1, <2>3, ElementsPut
    <3>2. (<<b>> \o Tail(todo))[1] = b
        BY <2>1, <2>3, Put
    <3> QED BY <2>1, <2>4, <3>1, <3>2 DEF Fits, Below
  <2>8. Pushed(a, {a, b})
    BY <1>1, <2>1, <2>2, <2>6, <2>7, PushTwo
  <2>9. \A D : D \subseteq Dos \ {"screen", "screenoff", "screenvalid"} => Same(D) /\ Todo' \subseteq Steps
    BY <1>1, <2>1, <2>8, PushedSame
  <2>10. Todo' \subseteq Steps
    BY <2>9
  <2>11. /\ todo' \in Seq(Steps) /\ Ordered(todo')
         /\ todo' # <<>> => Head(todo').do \notin {"gone", "stopped"}
    BY <2>1, <2>8 DEF Pushed
  <2> QED BY <1>4, <2>9, <2>10, <2>11
<1> QED
    BY <1>5, <1>6 DEF Screen

LEMMA SethotwindowKeeps ==
    ASSUME HInv, Sethotwindow
    PROVE  HInv'
<1> USE DEF HInv
<1>1. todo # <<>> /\ Head(todo).do = "screenvalid" /\ todo \in Seq(Steps) /\ port \in Seq(Messages)
    BY DEF Sethotwindow, Doing, TypeInv
<1>2. W \in Window /\ Head(todo) \in Todo
    BY <1>1, HeadStep DEF Global, Locks
<1> PICK w0 \in Window : w0 = W
    BY <1>2
<1>3. /\ hotsema' = hotsema /\ locked' = locked /\ screen' = screen /\ port' = port
      /\ nodes' = nodes /\ left' = left /\ list' = list /\ inbox' = inbox
      /\ hot \in [Window -> [exists : BOOLEAN, task : BOOLEAN, breaking : BOOLEAN, wasopen : BOOLEAN]]
    BY DEF Sethotwindow, TypeInv
<1>4. CASE /\ hot[w0].task /\ hot' = [hot EXCEPT ![w0].breaking = TRUE, ![w0].wasopen = TRUE]
           /\ Then(<<Step("stop", w0, None), Step("stopped", w0, None)>>) /\ proc' = proc
  <2> DEFINE a == Step("stop", w0, None)
             b == Step("stopped", w0, None)
             T == Elements(Tail(todo))
  <2>1. a \in Steps /\ a.do = "stop" /\ a.w = w0 /\ b \in Steps /\ b.do = "stopped" /\ b.w = w0
    BY OfWindowIn DEF Names
  <2>2. Then(<<a, b>>)
    BY <1>4
  <2> HIDE DEF a, b
  <2>3. Tail(todo) \in Seq(Steps) /\ Fits(Head(todo), Tail(todo))
    BY <1>1, OrderedTaken, HeadTailProperties
  <2>4. \A e \in T : e.do \in {"screenvalid", "dispose", "savequit", "quit"}
    BY <1>1, <2>3 DEF Fits, Below
  <2>5. Tail(todo) # <<>> => Tail(todo)[1].do \notin {"gone", "stopped"}
    BY <1>1, <2>3 DEF Fits
  <2>6. Fits(b, Tail(todo))
    BY <2>1, <2>4, <2>5 DEF Fits, Below
  <2>7. Fits(a, <<b>> \o Tail(todo))
    <3>1. Elements(<<b>> \o Tail(todo)) = {b} \cup T
        BY <2>1, <2>3, ElementsPut
    <3>2. (<<b>> \o Tail(todo))[1] = b
        BY <2>1, <2>3, Put
    <3> QED BY <2>1, <2>4, <3>1, <3>2 DEF Fits, Below
  <2>8. Pushed(a, {a, b})
    BY <1>1, <2>1, <2>2, <2>6, <2>7, PushTwo
  <2>9. /\ todo' \in Seq(Steps) /\ todo' # <<>> /\ Ordered(todo)' /\ Todo \subseteq Steps /\ Head(todo') = a
        /\ Todo' = {a, b} \cup T /\ Todo = {Head(todo)} \cup T
    BY <2>8 DEF Pushed
  <2>10. /\ hot' \in [Window -> [exists : BOOLEAN, task : BOOLEAN, breaking : BOOLEAN, wasopen : BOOLEAN]]
         /\ \A w \in Window : hot'[w].task = hot[w].task
         /\ hot'[w0].breaking
    <3> DEFINE h == [hot EXCEPT ![w0].breaking = TRUE]
    <3>1. /\ h \in [Window -> [exists : BOOLEAN, task : BOOLEAN, breaking : BOOLEAN, wasopen : BOOLEAN]]
          /\ \A w \in Window : h[w].task = hot[w].task
          /\ h[w0].breaking
        BY <1>3
    <3>2. hot' = [h EXCEPT ![w0].wasopen = TRUE]
        BY <1>4
    <3> HIDE DEF h
    <3> QED BY <3>1, <3>2
  <2>11. TypeInv'
    BY <1>3, <1>4, <2>9, <2>10 DEF TypeInv
  <2>12. \A D : D \subseteq Dos \ {"stop", "stopped", "screenvalid"} => Same(D) /\ Todo' \subseteq Steps
    BY <1>1, <2>1, <2>8, PushedSame
  <2>13. /\ Todo' \subseteq Steps /\ Same({"answer", "tell", "changed"}) /\ Same({"close", "show"})
         /\ Same({"dispose", "gone", "savequit"})
    BY <2>12 DEF Dos
  <2>14. PortInv' /\ AnswerInv' /\ SavedInv' /\ NodesInv'
    BY <1>1, <1>3, <1>4, <2>9, <2>13, OthersStay
  <2>15. HotInv'
    <3>1. \A w : ~Ending(w) /\ ~Has("close", w)' /\ (Ending(w)' => w = w0)
        BY <1>1, <2>1, <2>4, <2>9 DEF Ending, Has
    <3>2. ~Doing("gone")' /\ ~Doing("stopped")'
        BY <2>1, <2>9 DEF Doing
    <3>3. \A w \in Window : proc[w].at # "none" => hot[w].task
        BY <3>1 DEF HotInv
    <3> QED BY <1>4, <2>10, <3>1, <3>2, <3>3 DEF HotInv
  <2>16. QuitInv'
    <3>1. \A w : Has("show", w)' <=> Has("show", w)
        BY <2>9, <2>13, HasSame
    <3>2. Does("screenvalid")
        BY <1>1, <1>2 DEF Does
    <3> QED BY <1>1, <1>2, <1>3, <1>4, <2>9, <2>13, <3>1, <3>2, QuitGoesOn
  <2> QED BY <2>9, <2>11, <2>14, <2>15, <2>16
<1>5. CASE /\ ~hot[w0].task /\ hot' = [hot EXCEPT ![w0].task = TRUE]
           /\ Starttask(w0) /\ Then(<<>>)
  <2>1. /\ hot' \in [Window -> [exists : BOOLEAN, task : BOOLEAN, breaking : BOOLEAN, wasopen : BOOLEAN]]
        /\ hot'[w0].task /\ \A w \in Window : w # w0 => hot'[w] = hot[w]
    BY <1>3, <1>5
  <2>2. Popped
    BY <1>1, <1>5, PopTodo
  <2>3. proc[w0].at = "none"
    BY <1>1, <1>5, NoTask
  <2>4. /\ proc' \in [Window -> [at : Ats, then : Ats, break : BOOLEAN]]
        /\ proc'[w0].at = "build" /\ \A w \in Window : w # w0 => proc'[w] = proc[w]
    BY <1>5, Starting
  <2>5. TypeInv' /\ Ordered(todo)'
    BY <1>3, <2>1, <2>2, <2>3, <2>4 DEF TypeInv, Popped
  <2>6. PortInv' /\ AnswerInv' /\ SavedInv' /\ NodesInv' /\ HotInv'
    BY <1>1, <1>3, <1>5, <2>1, <2>2, <2>4, StartStays
  <2>7. QuitInv'
    <3>1. Same({"dispose", "gone", "savequit"}) /\ Todo \subseteq Steps /\ Todo' \subseteq Steps
        BY <1>1, <2>2, PoppedSame DEF Popped
    <3>2. \A w : /\ Has("dispose", w)' <=> Has("dispose", w)
                 /\ Has("gone", w)' <=> Has("gone", w)
        BY <3>1, HasSame
    <3>3. \A w : Disposing(w)' <=> Disposing(w)
        BY <3>2 DEF Disposing
    <3>4. Does("savequit")' <=> Does("savequit")
        BY <3>1, HasSame
    <3>5. Does("screenvalid")
        BY <1>1, <1>2 DEF Does
    <3> SUFFICES ASSUME left.quit
        PROVE  /\ \A w \in Window : proc'[w].at # "none" => Disposing(w)'
               /\ \A w \in Window : Disposing(w)' => Does("savequit")'
               /\ Disposing("viewer")' => Has("dispose", "manager")'
               /\ ~Has("show", "viewer")'
               /\ Has("show", "manager")' => Has("dispose", "manager")'
               /\ \A w \in Window : Does("screen")' \/ Does("screenoff")' \/ Does("screenvalid")' => Has("dispose", w)'
               /\ Does("savequit")'
        BY <1>3 DEF QuitInv
    <3>6. Disposing(w0)
        BY <3>5 DEF QuitInv, Disposing
    <3>7. Does("savequit")
        BY <3>6 DEF QuitInv
    <3>8. \A w \in Window : proc'[w].at # "none" => Disposing(w)'
        BY <2>4, <3>3, <3>6 DEF QuitInv
    <3> QED BY <2>2, <3>2, <3>3, <3>4, <3>7, <3>8, PopLeaves DEF QuitInv
  <2> QED BY <2>5, <2>6, <2>7
<1>6. CASE Then(<<>>) /\ hot' = hot /\ proc' = proc
  <2>1. Popped
    BY <1>1, <1>6, PopTodo
  <2>2. TypeInv' /\ Ordered(todo)' /\ Todo \subseteq Steps
    BY <1>3, <1>6, <2>1 DEF TypeInv, Popped
  <2>3. HotInv' /\ QuitInv'
    BY <1>1, <1>3, <1>6, <2>1, PopHot, PopQuit
  <2>4. Same({"answer", "tell", "changed"}) /\ Todo' \subseteq Steps
    BY <1>1, <2>1, PoppedSame
  <2>5. PortInv' /\ AnswerInv' /\ SavedInv' /\ NodesInv'
    BY <1>1, <1>3, <1>6, <2>2, <2>4, OthersStay
  <2> QED BY <2>2, <2>3, <2>5
<1> QED
    BY <1>4, <1>5, <1>6 DEF Sethotwindow

LEMMA StoppedKeeps ==
    ASSUME HInv, Stopped
    PROVE  HInv'
<1> USE DEF HInv
<1>1. todo # <<>> /\ Head(todo).do = "stopped" /\ todo \in Seq(Steps) /\ port \in Seq(Messages)
    BY DEF Stopped, Doing, TypeInv
<1>2. W \in Window /\ Head(todo) \in Todo
    BY <1>1, HeadStep DEF Global, Locks
<1> PICK w0 \in Window : w0 = W
    BY <1>2
<1>3. /\ hotsema' = hotsema /\ locked' = locked /\ screen' = screen /\ port' = port /\ proc' = proc
      /\ nodes' = nodes /\ left' = left /\ list' = list /\ inbox' = inbox
      /\ hot' = [hot EXCEPT ![w0].task = FALSE, ![w0].breaking = FALSE]
    BY DEF Stopped
<1>4. Popped
    BY <1>1, PopTodo DEF Stopped
<1>5. /\ hot' \in [Window -> [exists : BOOLEAN, task : BOOLEAN, breaking : BOOLEAN, wasopen : BOOLEAN]]
      /\ \A w \in Window : w # w0 => hot'[w] = hot[w]
  <2> DEFINE h == [hot EXCEPT ![w0].task = FALSE]
  <2>1. h \in [Window -> [exists : BOOLEAN, task : BOOLEAN, breaking : BOOLEAN, wasopen : BOOLEAN]] /\ \A w \in Window : w # w0 => h[w] = hot[w]
    <3>1. hot \in [Window -> [exists : BOOLEAN, task : BOOLEAN, breaking : BOOLEAN, wasopen : BOOLEAN]]
        BY DEF TypeInv
    <3> QED BY <3>1
  <2>2. hot' = [h EXCEPT ![w0].breaking = FALSE]
    BY <1>3
  <2> HIDE DEF h
  <2> QED BY <2>1, <2>2
<1>6. TypeInv' /\ Ordered(todo)' /\ Todo \subseteq Steps
    BY <1>3, <1>4, <1>5 DEF TypeInv, Popped
<1>7. Same({"answer", "tell", "changed"}) /\ Todo' \subseteq Steps
    BY <1>1, <1>4, PoppedSame
<1>8. PortInv' /\ AnswerInv' /\ SavedInv' /\ NodesInv'
    BY <1>1, <1>3, <1>6, <1>7, OthersStay
<1>9. proc[w0].at = "none"
    BY <1>1 DEF HotInv, Doing
<1>10. Todo = {Head(todo)} \cup Todo' /\ \A e \in Todo' : e.do \in {"screenvalid", "dispose", "savequit", "quit"}
    BY <1>1, <1>4 DEF Popped, Fits, Below, Todo
<1>11. HotInv'
  <2>1. \A w : ~Ending(w) /\ ~Ending(w)' /\ ~Has("close", w)'
    BY <1>1, <1>10 DEF Ending, Has
  <2>2. ~Doing("gone")' /\ ~Doing("stopped")'
    BY <1>4, <1>10 DEF Doing, Popped
  <2>3. \A w \in Window : proc[w].at # "none" => hot[w].task
    BY <2>1 DEF HotInv
  <2> QED BY <1>3, <1>5, <1>9, <2>1, <2>2, <2>3 DEF HotInv
<1>12. QuitInv'
    BY <1>1, <1>3, <1>4, PopQuit
<1> QED
    BY <1>6, <1>8, <1>11, <1>12

LEMMA CallKeeps ==
    ASSUME HInv, Call
    PROVE  HInv'
<1> USE DEF HInv
<1>1. todo = <<>> /\ left.calls > 0 /\ ~left.quit /\ port \in Seq(Messages)
    BY DEF Call, TypeInv
<1>2. PICK c \in Calls :
         /\ todo' = Stepsof(c)
         /\ left' = [left EXCEPT !.calls = @ - 1, !.quit = c = "quit"]
    BY DEF Call
<1>3. /\ hot' = hot /\ hotsema' = hotsema /\ locked' = locked /\ screen' = screen /\ port' = port
      /\ inbox' = inbox /\ proc' = proc /\ nodes' = nodes /\ list' = list
    BY DEF Call
<1>4. /\ todo' \in Seq(Steps) /\ Ordered(todo)' /\ todo' # <<>> /\ Head(todo') \in Todo'
      /\ \A e \in Todo' : e.do \notin {"stop", "ended", "close", "answer", "gone", "stopped", "changed"}
      /\ c = "quit" => Todo' = QuitSteps
    BY <1>2, CallSteps DEF Todo
<1>5. Todo = {}
    BY <1>1, EmptyFits DEF Todo
<1>6. TypeInv'
  <2>1. left' \in [calls : Nat, inputs : Nat, quit : BOOLEAN]
    <3> DEFINE l == [left EXCEPT !.calls = @ - 1]
               b == (c = "quit")
    <3>1. left \in [calls : Nat, inputs : Nat, quit : BOOLEAN]
        BY DEF TypeInv
    <3>2. l \in [calls : Nat, inputs : Nat, quit : BOOLEAN]
        BY <1>1, <3>1
    <3>3. b \in BOOLEAN /\ left' = [l EXCEPT !.quit = b]
        BY <1>2
    <3> HIDE DEF l, b
    <3> QED BY <3>2, <3>3
  <2> QED BY <1>3, <1>4, <2>1 DEF TypeInv
<1>7. \A do \in {"stop", "ended", "close", "answer"} : \A w : ~Has(do, w)' /\ ~Has(do, w)
    BY <1>4, <1>5 DEF Has
<1>8. HotInv'
  <2>1. ~Doing("gone")' /\ ~Doing("stopped")'
    BY <1>4 DEF Doing
  <2>2. \A w : ~Ending(w)' /\ ~Ending(w)
    BY <1>7 DEF Ending
  <2> QED BY <1>3, <1>7, <2>1, <2>2 DEF HotInv
<1>9. PortInv'
    BY <1>1, <1>3, <1>7, PortStays
<1>10. AnswerInv'
    BY <1>3, <1>7, AnswerFrame
<1>11. (ChangeIsTold => ChangeIsTold') /\ \A w : Tells(Todo, w) => Tells(Todo', w)
    BY <1>3, <1>5 DEF ChangeIsTold, Tells
<1>12. SavedInv' /\ NodesInv'
    BY <1>3, <1>11, NodesFrame DEF SavedInv
<1>13. QuitInv'
  <2> SUFFICES ASSUME left'.quit
      PROVE  /\ \A w \in Window : Has("dispose", w)' /\ Disposing(w)'
             /\ Does("savequit")' /\ \A w : ~Has("show", w)'
      BY DEF QuitInv, Window
  <2>1. left'.quit = (c = "quit")
    <3>1. left \in [calls : Nat, inputs : Nat, quit : BOOLEAN]
        BY DEF TypeInv
    <3> QED BY <1>2, <3>1
  <2>2. Todo' = QuitSteps
    BY <1>4, <2>1
  <2> QED BY <2>2 DEF QuitSteps, Step, Has, Does, Disposing, Window
<1> QED
    BY <1>4, <1>6, <1>8, <1>9, <1>10, <1>12, <1>13

---------------------------------------------------------------------------
(* The windows: main's steps stay what they are.                           *)

LEMMA TodoStays ==
    ASSUME todo' = todo
    PROVE  /\ Todo' = Todo /\ (todo \in Seq(Steps) => todo' \in Seq(Steps))
           /\ \A do : \A w : Has(do, w)' <=> Has(do, w)
           /\ \A w : (Ending(w)' <=> Ending(w)) /\ (Answers(w)' <=> Answers(w)) /\ (Disposing(w)' <=> Disposing(w))
           /\ \A do : (Does(do)' <=> Does(do)) /\ (Doing(do)' <=> Doing(do))
           /\ todo # <<>> => W' = W
           /\ (Ordered(todo)' <=> Ordered(todo))
<1>1. Todo' = Todo
    BY DEF Todo
<1> QED
    BY <1>1 DEF Has, Ending, Answers, Disposing, Does, Doing, W

LEMMA QuitSame ==
    ASSUME QuitInv, todo' = todo, left'.quit = left.quit, list'.dirty => list.dirty \/ \E w \in Window : proc[w].at # "none",
           \A w \in Window : proc'[w].at # "none" => proc[w].at # "none"
    PROVE  QuitInv'
<1>1. /\ Todo' = Todo /\ \A do : (Does(do)' <=> Does(do)) /\ \A w : Has(do, w)' <=> Has(do, w)
      /\ \A w : Disposing(w)' <=> Disposing(w)
    BY TodoStays
<1>2. left.quit /\ ~Does("savequit") => \A w \in Window : proc[w].at = "none"
    BY DEF QuitInv
<1> QED
    BY <1>1, <1>2 DEF QuitInv

\* What w0 puts to the messages of port are replies.
Replied(w0) ==
    /\ port' \in Seq(Messages)
    /\ \A i \in DOMAIN port : i \in DOMAIN port' /\ port'[i] = port[i]
    /\ \A i \in DOMAIN port' \ DOMAIN port :
          port'[i].from = w0 /\ port'[i].kind = "reply" /\ ~port'[i].sync

LEMMA WindowGoesOn ==
    ASSUME HInv, NEW w0 \in Window, todo' = todo, Replied(w0), hot' = hot, list' = list,
           hotsema' \in {hotsema, None}, left'.quit = left.quit,
           \A w \in Window : w # w0 => proc'[w] = proc[w],
           proc[w0].at \notin {"none", "sync"}, proc'[w0].at \notin {"none", "sync"},
           proc[w0].at \in Over => proc'[w0].at \in Over,
           hotsema' = w0 => proc'[w0].at \in Unlocks
    PROVE  /\ Ordered(todo)' /\ HotInv' /\ PortInv' /\ AnswerInv' /\ SavedInv' /\ QuitInv'
           /\ ChangeIsTold => ChangeIsTold'
           /\ \A w : Tells(Todo, w) => Tells(Todo', w)
<1> USE DEF HInv
<1>1. /\ Todo' = Todo /\ \A do : (Does(do)' <=> Does(do)) /\ \A w : Has(do, w)' <=> Has(do, w)
      /\ \A w : (Ending(w)' <=> Ending(w)) /\ (Answers(w)' <=> Answers(w))
      /\ \A do : Doing(do)' <=> Doing(do)
      /\ todo # <<>> => W' = W
      /\ Ordered(todo)'
    BY TodoStays
<1>2. \A w : Said(w)' = Said(w)
    BY DEF Said, Replied
<1>3. HotInv'
  <2>1. \A w \in Window : /\ proc'[w].at = "none" <=> proc[w].at = "none"
                          /\ proc[w].at \in Over => proc'[w].at \in Over
    OBVIOUS
  <2> QED BY <1>1, <1>2, <2>1 DEF HotInv, Doing
<1>4. PortInv'
  <2>1. \A i \in DOMAIN port : port[i].from = w0 => ~port[i].sync
    BY DEF PortInv
  <2>2. ASSUME NEW w \in Window, NEW i \in DOMAIN port', port'[i].from = w
        PROVE  /\ proc'[w].at # "none"
               /\ port'[i].kind = "Close" => proc'[w].at \in Over /\ \A j \in Said(w)' : j <= i
               /\ port'[i].sync =>
                     /\ proc'[w].at = "sync" /\ ~Has("answer", w)'
                     /\ \A j \in DOMAIN port' : port'[j].from = w /\ port'[j].sync => j = i
                     /\ hotsema' = w => port'[i].kind \in {"Follow", "Manager"}
    <3>1. w # None
        BY DEF Window, None
    <3>2. CASE i \in DOMAIN port
        <4>1. port'[i] = port[i]
            BY <3>2 DEF Replied
        <4>2. /\ proc[w].at # "none"
              /\ port[i].kind = "Close" => proc[w].at \in Over /\ \A j \in Said(w) : j <= i
              /\ port[i].sync =>
                    /\ proc[w].at = "sync" /\ ~Has("answer", w)
                    /\ \A j \in DOMAIN port : port[j].from = w /\ port[j].sync => j = i
                    /\ hotsema = w => port[i].kind \in {"Follow", "Manager"}
            BY <2>2, <3>2, <4>1 DEF PortInv
        <4>3. \A j \in DOMAIN port' : port'[j].sync => j \in DOMAIN port /\ port'[j] = port[j]
            BY DEF Replied
        <4>4. port[i].sync => w # w0
            BY <2>1, <2>2, <3>2, <4>1
        <4> QED BY <1>1, <1>2, <3>1, <4>1, <4>2, <4>3, <4>4
    <3>3. CASE i \notin DOMAIN port
        BY <2>2, <3>3 DEF Replied
    <3> QED BY <3>2, <3>3
  <2> QED BY <2>2 DEF PortInv
<1>5. AnswerInv'
  <2> SUFFICES ASSUME NEW w \in Window
      PROVE  /\ Has("answer", w)' => proc'[w].at = "sync"
             /\ proc'[w].at = "sync" =>
                   proc'[w].then \in Unlocks \cup {"relock", "relockdone", "top", "done", "free"}
             /\ hotsema' = w => \/ proc'[w].at \in Unlocks
                                \/ proc'[w].at = "sync" /\ proc'[w].then \in Unlocks
             /\ hotsema' = w /\ Has("answer", w)' => Answers(w)'
      BY DEF AnswerInv
  <2>1. w # None
    BY DEF Window, None
  <2>2. CASE w = w0
    <3>1. ~Has("answer", w)
        BY <2>2 DEF AnswerInv
    <3> QED BY <1>1, <2>2, <3>1
  <2>3. CASE w # w0
    BY <1>1, <2>1, <2>3 DEF AnswerInv
  <2> QED BY <2>2, <2>3
<1>6. ChangeIsTold => ChangeIsTold'
    BY <1>1 DEF ChangeIsTold, Replied
<1>7. SavedInv'
    BY <1>6 DEF SavedInv
<1>8. QuitInv'
  <2>1. \A w \in Window : proc'[w].at # "none" => proc[w].at # "none"
    OBVIOUS
  <2> QED BY <2>1, QuitSame
<1> QED
    BY <1>1, <1>3, <1>4, <1>5, <1>6, <1>7, <1>8

\* A sync update is sent, with hotsema held or not.
LEMMA WindowAsks ==
    ASSUME HInv, NEW w0 \in Window, NEW k \in Synced, k = "Manager" => w0 = "viewer",
           NEW then \in Unlocks \cup {"relock", "relockdone", "top", "done", "free"},
           todo' = todo, hot' = hot, list' = list, nodes' = nodes, inbox' = inbox,
           left' \in [calls : Nat, inputs : Nat, quit : BOOLEAN], left'.quit = left.quit,
           locked' \in BOOLEAN, screen' \in BOOLEAN, Updatetaskattrs(w0, k, then),
           proc[w0].at \in {"top", "done", "closing"}, hotsema' \in {hotsema, w0, None},
           hotsema' = w0 => then \in Unlocks /\ k \in {"Follow", "Manager"}
    PROVE  HInv'
<1> USE DEF HInv
<1> DEFINE m == Update(w0, k, TRUE)
<1>1. m \in Messages /\ m.from = w0 /\ m.kind = k /\ m.sync
    BY DEF Update, Messages, Synced
<1>2. port \in Seq(Messages) /\ port' = Append(port, m)
    BY DEF TypeInv, Updatetaskattrs
<1> HIDE DEF m
<1>3. Appended(m)
    BY <1>1, <1>2, Appending
<1>4. PICK n \in Nat : /\ DOMAIN port = 1..n /\ DOMAIN port' = 1..(n + 1) /\ port'[n + 1] = m
                       /\ \A i \in DOMAIN port : port'[i] = port[i]
    BY <1>3 DEF Appended
<1>5. /\ proc' \in [Window -> [at : Ats, then : Ats, break : BOOLEAN]]
      /\ proc'[w0].at = "sync" /\ proc'[w0].then = then /\ \A w \in Window : w # w0 => proc'[w] = proc[w]
  <2> DEFINE p == [proc EXCEPT ![w0].at = "sync"]
  <2>1. then \in Ats /\ "sync" \in Ats
    BY DEF Ats, Unlocks
  <2>2. proc \in [Window -> [at : Ats, then : Ats, break : BOOLEAN]]
    BY DEF TypeInv
  <2>3. /\ p \in [Window -> [at : Ats, then : Ats, break : BOOLEAN]]
        /\ p[w0].at = "sync" /\ \A w \in Window : w # w0 => p[w] = proc[w]
    BY <2>1, <2>2
  <2>4. proc' = [p EXCEPT ![w0].then = then]
    BY DEF Updatetaskattrs
  <2> HIDE DEF p
  <2> QED BY <2>1, <2>3, <2>4
<1>6. /\ Todo' = Todo /\ \A do : (Does(do)' <=> Does(do)) /\ \A w : Has(do, w)' <=> Has(do, w)
      /\ \A w : (Ending(w)' <=> Ending(w)) /\ (Answers(w)' <=> Answers(w))
      /\ \A do : Doing(do)' <=> Doing(do)
      /\ todo # <<>> => W' = W
      /\ Ordered(todo)' /\ todo' \in Seq(Steps)
    BY TodoStays DEF TypeInv
<1>7. TypeInv'
    BY <1>3, <1>5, <1>6 DEF TypeInv, Appended
<1>8. \A w \in Window : w # w0 => Said(w)' = Said(w)
    BY <1>1, <1>4 DEF Said
<1>9. HotInv'
  <2>1. ~(Ending(w0) /\ ~hot[w0].task) /\ ~Has("close", w0)
    BY DEF HotInv, Over
  <2>2. \A w \in Window : /\ proc'[w].at = "none" <=> proc[w].at = "none"
                          /\ proc[w].at \in Over => proc'[w].at \in Over
    BY <1>5 DEF Over
  <2> QED BY <1>5, <1>6, <1>8, <2>1, <2>2 DEF HotInv, Doing
<1>10. PortInv'
  <2>1. \A i \in DOMAIN port : port[i].from = w0 => ~port[i].sync /\ port[i].kind # "Close"
    BY DEF PortInv, Over
  <2>2. ~Has("answer", w0)
    BY DEF AnswerInv
  <2>3. ASSUME NEW w \in Window, NEW i \in DOMAIN port', port'[i].from = w
        PROVE  /\ proc'[w].at # "none"
               /\ port'[i].kind = "Close" => proc'[w].at \in Over /\ \A j \in Said(w)' : j <= i
               /\ port'[i].sync =>
                     /\ proc'[w].at = "sync" /\ ~Has("answer", w)'
                     /\ \A j \in DOMAIN port' : port'[j].from = w /\ port'[j].sync => j = i
                     /\ hotsema' = w => port'[i].kind \in {"Follow", "Manager"}
    <3>1. \A j \in DOMAIN port' : j # n + 1 => j \in DOMAIN port /\ port'[j] = port[j]
        BY <1>4
    <3>2. CASE w = w0
        <4>1. port'[i].sync => i = n + 1 /\ port'[i] = m
            BY <1>4, <2>1, <2>3, <3>1, <3>2
        <4>2. port'[i].kind # "Close"
            BY <1>1, <1>4, <2>1, <2>3, <3>1, <3>2 DEF Synced
        <4>3. \A j \in DOMAIN port' : port'[j].from = w /\ port'[j].sync => j = n + 1
            BY <2>1, <3>1, <3>2
        <4> QED BY <1>1, <1>5, <1>6, <2>2, <3>2, <4>1, <4>2, <4>3
    <3>3. CASE w # w0
        <4>1. i # n + 1 /\ i \in DOMAIN port /\ port'[i] = port[i]
            BY <1>1, <1>4, <2>3, <3>1, <3>3
        <4>2. /\ proc[w].at # "none"
              /\ port[i].kind = "Close" => proc[w].at \in Over /\ \A j \in Said(w) : j <= i
              /\ port[i].sync =>
                    /\ proc[w].at = "sync" /\ ~Has("answer", w)
                    /\ \A j \in DOMAIN port : port[j].from = w /\ port[j].sync => j = i
                    /\ hotsema = w => port[i].kind \in {"Follow", "Manager"}
            BY <2>3, <4>1 DEF PortInv
        <4>3. \A j \in DOMAIN port' : port'[j].from = w => j \in DOMAIN port /\ port'[j] = port[j]
            BY <1>1, <1>4, <3>1, <3>3
        <4>4. hotsema' = w => hotsema = w
            BY <3>3 DEF Window, None
        <4> QED BY <1>5, <1>6, <1>8, <3>3, <4>1, <4>2, <4>3, <4>4
    <3> QED BY <3>2, <3>3
  <2> QED BY <2>3 DEF PortInv
<1>11. AnswerInv'
  <2> SUFFICES ASSUME NEW w \in Window
      PROVE  /\ Has("answer", w)' => proc'[w].at = "sync"
             /\ proc'[w].at = "sync" =>
                   proc'[w].then \in Unlocks \cup {"relock", "relockdone", "top", "done", "free"}
             /\ hotsema' = w => \/ proc'[w].at \in Unlocks
                                \/ proc'[w].at = "sync" /\ proc'[w].then \in Unlocks
             /\ hotsema' = w /\ Has("answer", w)' => Answers(w)'
      BY DEF AnswerInv
  <2>1. w # None
    BY DEF Window, None
  <2>2. CASE w = w0
    <3>1. ~Has("answer", w)
        BY <2>2 DEF AnswerInv
    <3> QED BY <1>5, <1>6, <2>2, <3>1
  <2>3. CASE w # w0
    BY <1>5, <1>6, <2>1, <2>3 DEF AnswerInv
  <2> QED BY <2>2, <2>3
<1>12. (ChangeIsTold => ChangeIsTold') /\ \A w : Tells(Todo, w) => Tells(Todo', w)
    BY <1>4, <1>6 DEF ChangeIsTold
<1>13. SavedInv' /\ NodesInv'
  <2>1. \A w \in Window : proc'[w].at \notin {"none", "build", "free", "end", "dead"} =>
                              proc[w].at \notin {"none", "build", "free", "end", "dead"}
    BY <1>5
  <2> QED BY <1>12, <2>1, NodesFrame DEF SavedInv
<1>14. QuitInv'
  <2>1. \A w \in Window : proc'[w].at # "none" => proc[w].at # "none"
    BY <1>5
  <2> QED BY <2>1, QuitSame
<1> QED
    BY <1>6, <1>7, <1>9, <1>10, <1>11, <1>13, <1>14

\* An update is sent that main does not answer; Close is the last.
LEMMA WindowTells ==
    ASSUME HInv, NEW w0 \in Window, NEW k \in {"Changed", "Restore", "Close"},
           todo' = todo, hot' = hot, hotsema' = hotsema, left'.quit = left.quit, UpdateAsync(w0, k),
           list'.dirty => list.dirty \/ k = "Changed", list'.hotchanged = list.hotchanged,
           \A w \in Window : /\ w # w0 => proc'[w] = proc[w]
                             /\ w = w0 /\ k # "Close" => proc'[w] = proc[w] /\ proc[w].at \notin Over,
           proc[w0].at \notin Over \cup Unlocks \cup {"none", "sync"},
           k = "Close" => proc'[w0].at = "end"
    PROVE  /\ Ordered(todo)' /\ HotInv' /\ PortInv' /\ AnswerInv' /\ SavedInv' /\ QuitInv'
           /\ port' \in Seq(Messages) /\ todo' \in Seq(Steps)
           /\ ChangeIsTold \/ k = "Changed" => ChangeIsTold'
           /\ \A w : Tells(Todo, w) => Tells(Todo', w)
<1> USE DEF HInv
<1> DEFINE m == Update(w0, k, FALSE)
<1>1. m \in Messages /\ m.from = w0 /\ m.kind = k /\ ~m.sync
    BY DEF Update, Messages, Synced
<1>2. port \in Seq(Messages) /\ port' = Append(port, m)
    BY DEF TypeInv, UpdateAsync
<1> HIDE DEF m
<1>3. Appended(m)
    BY <1>1, <1>2, Appending
<1>4. PICK n \in Nat : /\ DOMAIN port = 1..n /\ DOMAIN port' = 1..(n + 1) /\ port'[n + 1] = m
                       /\ \A i \in DOMAIN port : port'[i] = port[i]
    BY <1>3 DEF Appended
<1>5. /\ proc'[w0].at \notin {"none", "sync"}
      /\ proc'[w0].at \in Over <=> k = "Close"
    BY DEF Over
<1>6. /\ Todo' = Todo /\ \A do : (Does(do)' <=> Does(do)) /\ \A w : Has(do, w)' <=> Has(do, w)
      /\ \A w : (Ending(w)' <=> Ending(w)) /\ (Answers(w)' <=> Answers(w))
      /\ \A do : Doing(do)' <=> Doing(do)
      /\ todo # <<>> => W' = W
      /\ Ordered(todo)' /\ todo' \in Seq(Steps)
    BY TodoStays DEF TypeInv
<1>7. \A w \in Window : w # w0 => Said(w)' = Said(w)
    BY <1>1, <1>4 DEF Said
<1>8. HotInv'
  <2>1. ~(Ending(w0) /\ ~hot[w0].task) /\ ~Has("close", w0)
    BY DEF HotInv
  <2>2. \A w \in Window : /\ proc'[w].at = "none" <=> proc[w].at = "none"
                          /\ proc[w].at \in Over => proc'[w].at \in Over
    BY <1>5
  <2> QED BY <1>6, <1>7, <2>1, <2>2 DEF HotInv, Doing
<1>9. PortInv'
  <2>1. \A i \in DOMAIN port : port[i].from = w0 => ~port[i].sync /\ port[i].kind # "Close"
    BY DEF PortInv
  <2>2. ASSUME NEW w \in Window, NEW i \in DOMAIN port', port'[i].from = w
        PROVE  /\ proc'[w].at # "none"
               /\ port'[i].kind = "Close" => proc'[w].at \in Over /\ \A j \in Said(w)' : j <= i
               /\ port'[i].sync =>
                     /\ proc'[w].at = "sync" /\ ~Has("answer", w)'
                     /\ \A j \in DOMAIN port' : port'[j].from = w /\ port'[j].sync => j = i
                     /\ hotsema' = w => port'[i].kind \in {"Follow", "Manager"}
    <3>1. \A j \in DOMAIN port' : j # n + 1 => j \in DOMAIN port /\ port'[j] = port[j]
        BY <1>4
    <3>2. CASE w = w0
        <4>1. ~port'[i].sync
            BY <1>1, <1>4, <2>1, <2>2, <3>1, <3>2
        <4>2. ASSUME port'[i].kind = "Close" PROVE proc'[w].at \in Over /\ \A j \in Said(w)' : j <= i
            <5>1. i = n + 1 /\ k = "Close"
                BY <1>1, <1>4, <2>1, <2>2, <3>1, <3>2, <4>2
            <5>2. Said(w)' \subseteq 1..(n + 1)
                BY <1>4 DEF Said
            <5>3. \A j \in 1..(n + 1) : j <= n + 1
                OBVIOUS
            <5> QED BY <1>5, <3>2, <5>1, <5>2, <5>3
        <4> QED BY <1>5, <3>2, <4>1, <4>2
    <3>3. CASE w # w0
        <4>1. i # n + 1 /\ i \in DOMAIN port /\ port'[i] = port[i]
            BY <1>1, <1>4, <2>2, <3>1, <3>3
        <4>2. /\ proc[w].at # "none"
              /\ port[i].kind = "Close" => proc[w].at \in Over /\ \A j \in Said(w) : j <= i
              /\ port[i].sync =>
                    /\ proc[w].at = "sync" /\ ~Has("answer", w)
                    /\ \A j \in DOMAIN port : port[j].from = w /\ port[j].sync => j = i
                    /\ hotsema = w => port[i].kind \in {"Follow", "Manager"}
            BY <2>2, <4>1 DEF PortInv
        <4>3. \A j \in DOMAIN port' : port'[j].from = w => j \in DOMAIN port /\ port'[j] = port[j]
            BY <1>1, <1>4, <3>1, <3>3
        <4> QED BY <1>6, <1>7, <3>3, <4>1, <4>2, <4>3
    <3> QED BY <3>2, <3>3
  <2> QED BY <2>2 DEF PortInv
<1>10. AnswerInv'
  <2> SUFFICES ASSUME NEW w \in Window
      PROVE  /\ Has("answer", w)' => proc'[w].at = "sync"
             /\ proc'[w].at = "sync" =>
                   proc'[w].then \in Unlocks \cup {"relock", "relockdone", "top", "done", "free"}
             /\ hotsema' = w => \/ proc'[w].at \in Unlocks
                                \/ proc'[w].at = "sync" /\ proc'[w].then \in Unlocks
             /\ hotsema' = w /\ Has("answer", w)' => Answers(w)'
      BY DEF AnswerInv
  <2>1. CASE w = w0
    <3>1. ~Has("answer", w) /\ hotsema # w
        BY <2>1 DEF AnswerInv
    <3> QED BY <1>5, <1>6, <2>1, <3>1
  <2>2. CASE w # w0
    BY <1>6, <2>2 DEF AnswerInv
  <2> QED BY <2>1, <2>2
<1>11. (ChangeIsTold \/ k = "Changed" => ChangeIsTold') /\ \A w : Tells(Todo, w) => Tells(Todo', w)
  <2>1. ChangeIsTold => ChangeIsTold'
    BY <1>4, <1>6 DEF ChangeIsTold
  <2>2. k = "Changed" => ChangeIsTold'
    BY <1>1, <1>4 DEF ChangeIsTold
  <2> QED BY <1>6, <2>1, <2>2
<1>12. SavedInv'
    BY <1>11 DEF SavedInv
<1>13. QuitInv'
  <2>1. \A w \in Window : proc'[w].at # "none" => proc[w].at # "none"
    OBVIOUS
  <2>2. list'.dirty => list.dirty \/ \E w \in Window : proc[w].at # "none"
    OBVIOUS
  <2> QED BY <2>1, <2>2, QuitSame
<1>14. port' \in Seq(Messages)
    BY <1>3 DEF Appended
<1> QED
    BY <1>6, <1>8, <1>9, <1>10, <1>11, <1>12, <1>13, <1>14

LEMMA AtSets ==
    ASSUME TypeInv, NEW w0 \in Window, NEW at \in Ats, At(w0, at)
    PROVE  /\ proc' \in [Window -> [at : Ats, then : Ats, break : BOOLEAN]]
           /\ proc'[w0].at = at /\ \A w \in Window : w # w0 => proc'[w] = proc[w]
<1>1. proc \in [Window -> [at : Ats, then : Ats, break : BOOLEAN]]
    BY DEF TypeInv
<1> QED
    BY <1>1 DEF At

LEMMA InputLeft ==
    ASSUME TypeInv, left.inputs > 0, left' = [left EXCEPT !.inputs = @ - 1]
    PROVE  left' \in [calls : Nat, inputs : Nat, quit : BOOLEAN] /\ left'.quit = left.quit
<1>1. left \in [calls : Nat, inputs : Nat, quit : BOOLEAN]
    BY DEF TypeInv
<1> QED
    BY <1>1

LEMMA NodesGo ==
    ASSUME NodesInv, inbox' = inbox, ChangeIsTold => ChangeIsTold',
           \A w : Tells(Todo, w) => Tells(Todo', w), NEW w0 \in Window,
           \A w \in Window : w # w0 => nodes'[w] = nodes[w] /\ proc'[w] = proc[w],
           proc'[w0].at \notin {"none", "build", "free", "end", "dead"} => Good(w0)' \/ Renewed(w0, 0)'
    PROVE  NodesInv'
<1>1. \A w \in Window : \A n : Renewed(w, n) => Renewed(w, n)'
    BY DEF Renewed
<1>2. \A w \in Window : w # w0 => (Good(w)' <=> Good(w))
    BY DEF Good
<1> QED
    BY <1>1, <1>2 DEF NodesInv

LEMMA PortSame ==
    ASSUME port' = port, port \in Seq(Messages)
    PROVE  \A w : Replied(w)
    BY DEF Replied

LEMMA BuildKeeps ==
    ASSUME HInv, NEW w0 \in Window, Build(w0)
    PROVE  HInv'
<1> USE DEF HInv
<1>1. /\ hot' = hot /\ hotsema' = hotsema /\ locked' = locked /\ screen' = screen
      /\ todo' = todo /\ inbox' = inbox /\ list' = list /\ left' = left /\ proc[w0].at = "build"
    BY DEF Build, winvars
<1>2. port \in Seq(Messages) /\ todo \in Seq(Steps)
    BY DEF TypeInv
<1>3. hotsema # w0
    BY <1>1 DEF AnswerInv, Unlocks
<1>4. CASE nodes' = [nodes EXCEPT ![w0] = {"current"}] /\ At(w0, "top") /\ port' = port
  <2>1. /\ proc' \in [Window -> [at : Ats, then : Ats, break : BOOLEAN]]
        /\ proc'[w0].at = "top" /\ \A w \in Window : w # w0 => proc'[w] = proc[w]
    BY <1>4, AtSets DEF Ats
  <2>2. Replied(w0)
    BY <1>2, <1>4, PortSame
  <2>3. /\ Ordered(todo)' /\ HotInv' /\ PortInv' /\ AnswerInv' /\ SavedInv' /\ QuitInv'
        /\ ChangeIsTold => ChangeIsTold'
        /\ \A w : Tells(Todo, w) => Tells(Todo', w)
    BY <1>1, <1>3, <2>1, <2>2, WindowGoesOn DEF Over
  <2>4. TypeInv'
    BY <1>1, <1>4, <2>1 DEF TypeInv
  <2>5. Good(w0)' /\ \A w \in Window : w # w0 => nodes'[w] = nodes[w]
    BY <1>4 DEF TypeInv, Good
  <2>6. NodesInv'
    BY <1>1, <2>1, <2>3, <2>5, NodesGo
  <2> QED BY <2>3, <2>4, <2>6
<1>5. CASE nodes' = nodes /\ At(w0, "end") /\ UpdateAsync(w0, "Close")
  <2>1. /\ proc' \in [Window -> [at : Ats, then : Ats, break : BOOLEAN]]
        /\ proc'[w0].at = "end" /\ \A w \in Window : w # w0 => proc'[w] = proc[w]
    BY <1>5, AtSets DEF Ats
  <2>2. /\ Ordered(todo)' /\ HotInv' /\ PortInv' /\ AnswerInv' /\ SavedInv' /\ QuitInv'
        /\ port' \in Seq(Messages) /\ todo' \in Seq(Steps)
        /\ ChangeIsTold => ChangeIsTold'
        /\ \A w : Tells(Todo, w) => Tells(Todo', w)
    BY <1>1, <1>5, <2>1, WindowTells DEF Over, Unlocks
  <2>3. TypeInv'
    BY <1>1, <1>5, <2>1, <2>2 DEF TypeInv
  <2>4. NodesInv'
    BY <1>1, <1>5, <2>1, <2>2, NodesGo
  <2> QED BY <2>2, <2>3, <2>4
<1> QED
    BY <1>4, <1>5 DEF Build

\* The window goes on without a message.
LEMMA SilentKeeps ==
    ASSUME HInv, NEW w0 \in Window, NEW at \in {"top", "done", "closing"}, At(w0, at),
           proc[w0].at \in {"top", "drain", "done", "unlock", "unlockdone", "relock", "relockdone"},
           todo' = todo, port' = port, hot' = hot, list' = list, inbox' = inbox, nodes' = nodes,
           hotsema' \in {hotsema, None}, hotsema' # w0, locked' = locked, screen' = screen,
           left' \in [calls : Nat, inputs : Nat, quit : BOOLEAN], left'.quit = left.quit
    PROVE  HInv'
<1> USE DEF HInv
<1>1. /\ proc' \in [Window -> [at : Ats, then : Ats, break : BOOLEAN]]
      /\ proc'[w0].at = at /\ \A w \in Window : w # w0 => proc'[w] = proc[w]
    BY AtSets DEF Ats
<1>2. Replied(w0)
    BY PortSame DEF TypeInv
<1>3. /\ Ordered(todo)' /\ HotInv' /\ PortInv' /\ AnswerInv' /\ SavedInv' /\ QuitInv'
      /\ ChangeIsTold => ChangeIsTold'
      /\ \A w : Tells(Todo, w) => Tells(Todo', w)
    BY <1>1, <1>2, WindowGoesOn DEF Over
<1>4. TypeInv'
    BY <1>1 DEF TypeInv
<1>5. NodesInv'
  <2>1. \A w \in Window : proc'[w].at \notin {"none", "build", "free", "end", "dead"} =>
                              proc[w].at \notin {"none", "build", "free", "end", "dead"}
    BY <1>1
  <2> QED BY <1>3, <2>1, NodesFrame
<1> QED
    BY <1>3, <1>4, <1>5

LEMMA StopsKeeps ==
    ASSUME HInv, NEW w0 \in Window, Stops(w0)
    PROVE  HInv'
<1>1. /\ At(w0, "closing") /\ proc[w0].at \in {"top", "drain"}
      /\ hot' = hot /\ hotsema' = hotsema /\ locked' = locked /\ screen' = screen
      /\ todo' = todo /\ port' = port /\ inbox' = inbox /\ nodes' = nodes /\ list' = list /\ left' = left
    BY DEF Stops, winvars
<1>2. hotsema # w0
    BY <1>1 DEF HInv, AnswerInv, Unlocks
<1>3. left \in [calls : Nat, inputs : Nat, quit : BOOLEAN]
    BY DEF HInv, TypeInv
<1> QED
    BY <1>1, <1>2, <1>3, SilentKeeps

LEMMA ReturnsKeeps ==
    ASSUME HInv, NEW w0 \in Window, Returns(w0)
    PROVE  HInv'
<1> DEFINE at == IF proc[w0].at \in {"unlockdone", "relockdone"} THEN "done" ELSE "top"
<1>1. /\ At(w0, at) /\ proc[w0].at \in {"unlock", "unlockdone", "relock", "relockdone"}
      /\ hot' = hot /\ hotsema' = None /\ locked' = locked /\ screen' = screen
      /\ todo' = todo /\ port' = port /\ inbox' = inbox /\ nodes' = nodes /\ list' = list /\ left' = left
    BY DEF Returns
<1>2. at \in {"top", "done", "closing"}
    OBVIOUS
<1>3. left \in [calls : Nat, inputs : Nat, quit : BOOLEAN]
    BY DEF HInv, TypeInv
<1>4. None # w0
    BY DEF Window, None
<1> HIDE DEF at
<1> QED
    BY <1>1, <1>2, <1>3, <1>4, SilentKeeps

LEMMA ClosesKeeps ==
    ASSUME HInv, NEW w0 \in Window, Closes(w0)
    PROVE  HInv'
<1>1. /\ At(w0, "done") /\ proc[w0].at \in {"top", "done"} /\ hotsema = None
      /\ left.inputs > 0 /\ left' = [left EXCEPT !.inputs = @ - 1]
      /\ hot' = hot /\ hotsema' = hotsema /\ locked' = locked /\ screen' = screen
      /\ todo' = todo /\ port' = port /\ inbox' = inbox /\ nodes' = nodes /\ list' = list
    BY DEF Closes, Input, winvars
<1>2. left' \in [calls : Nat, inputs : Nat, quit : BOOLEAN] /\ left'.quit = left.quit
    BY <1>1, InputLeft DEF HInv
<1>3. None # w0
    BY DEF Window, None
<1> QED
    BY <1>1, <1>2, <1>3, SilentKeeps

LEMMA ClosingKeeps ==
    ASSUME HInv, NEW w0 \in Window, Closing(w0)
    PROVE  HInv'
<1>1. /\ Updatetaskattrs(w0, "Dimx", "free") /\ proc[w0].at \in {"done", "closing"}
      /\ hot' = hot /\ hotsema' = hotsema /\ locked' = locked /\ screen' = screen
      /\ todo' = todo /\ inbox' = inbox /\ nodes' = nodes /\ list' = list /\ left' = left
    BY DEF Closing, winvars
<1>2. hotsema # w0
    BY <1>1 DEF HInv, AnswerInv, Unlocks
<1>3. left \in [calls : Nat, inputs : Nat, quit : BOOLEAN] /\ locked \in BOOLEAN /\ screen \in BOOLEAN
    BY DEF HInv, TypeInv
<1>4. "Dimx" \in Synced
    BY DEF Synced
<1> QED
    BY <1>1, <1>2, <1>3, <1>4, WindowAsks

LEMMA IdcmphookKeeps ==
    ASSUME HInv, NEW w0 \in Window, Idcmphook(w0)
    PROVE  HInv'
<1>1. /\ Updatetaskattrs(w0, "Dimx", proc[w0].at) /\ proc[w0].at \in {"top", "done"}
      /\ left.inputs > 0 /\ left' = [left EXCEPT !.inputs = @ - 1]
      /\ hot' = hot /\ hotsema' = hotsema /\ locked' = locked /\ screen' = screen
      /\ todo' = todo /\ inbox' = inbox /\ nodes' = nodes /\ list' = list
    BY DEF Idcmphook, winvars
<1>2. hotsema # w0
    BY <1>1 DEF HInv, AnswerInv, Unlocks
<1>3. locked \in BOOLEAN /\ screen \in BOOLEAN
    BY DEF HInv, TypeInv
<1>4. "Dimx" \in Synced
    BY DEF Synced
<1>5. left' \in [calls : Nat, inputs : Nat, quit : BOOLEAN] /\ left'.quit = left.quit
    BY <1>1, InputLeft DEF HInv
<1> QED
    BY <1>1, <1>2, <1>3, <1>4, <1>5, WindowAsks

\* An input that makes the window ask main.
LEMMA InputAsks ==
    ASSUME HInv, NEW w0 \in Window, Input(w0), NEW k \in Synced, k = "Manager" => w0 = "viewer",
           NEW then \in Unlocks \cup {"relock", "relockdone"}, Updatetaskattrs(w0, k, then),
           hotsema' \in {w0, None}, hotsema' = w0 => then \in Unlocks /\ k \in {"Follow", "Manager"},
           UNCHANGED <<hot, locked, screen, todo, inbox, nodes, list>>
    PROVE  HInv'
<1>1. /\ proc[w0].at \in {"top", "done"} /\ left.inputs > 0 /\ left' = [left EXCEPT !.inputs = @ - 1]
      /\ hot' = hot /\ locked' = locked /\ screen' = screen
      /\ todo' = todo /\ inbox' = inbox /\ nodes' = nodes /\ list' = list
    BY DEF Input
<1>2. locked \in BOOLEAN /\ screen \in BOOLEAN
    BY DEF HInv, TypeInv
<1>3. left' \in [calls : Nat, inputs : Nat, quit : BOOLEAN] /\ left'.quit = left.quit
    BY <1>1, InputLeft DEF HInv
<1> QED
    BY <1>1, <1>2, <1>3, WindowAsks

LEMMA AskingKeeps ==
    ASSUME HInv, Enternode \/ ManagerButton \/ Follow \/ Save
    PROVE  HInv'
<1>1. "viewer" \in Window /\ "manager" \in Window /\ "viewer" # None /\ "manager" # None
      /\ {"Follow", "Manager", "Save"} \subseteq Synced
    BY DEF Window, None, Synced
<1>2. \A w : Unlock(w) \in Unlocks
    BY DEF Unlock, Unlocks
<1>3. CASE Enternode
  <2>1. PICK then \in Unlocks : Updatetaskattrs("viewer", "Follow", then)
    BY <1>3 DEF Enternode, Unlocks
  <2> QED BY <1>1, <1>3, <2>1, InputAsks DEF Enternode
<1>4. CASE ManagerButton
    BY <1>1, <1>2, <1>4, InputAsks DEF ManagerButton
<1>5. CASE Follow
    BY <1>1, <1>2, <1>5, InputAsks DEF Follow
<1>6. CASE Save
  <2>1. (IF proc["manager"].at = "done" THEN "relockdone" ELSE "relock") \in {"relock", "relockdone"}
    OBVIOUS
  <2> QED BY <1>1, <1>6, <2>1, InputAsks DEF Save, SemaForSave
<1> QED
    BY <1>3, <1>4, <1>5, <1>6

LEMMA FreesKeeps ==
    ASSUME HInv, NEW w0 \in Window, Frees(w0)
    PROVE  HInv'
<1> USE DEF HInv
<1>1. /\ hot' = hot /\ hotsema' = hotsema /\ locked' = locked /\ screen' = screen
      /\ todo' = todo /\ inbox' = inbox /\ list' = list /\ left' = left /\ proc[w0].at = "free"
      /\ nodes' = [nodes EXCEPT ![w0] = {}] /\ UpdateAsync(w0, "Close") /\ At(w0, "end")
    BY DEF Frees, winvars
<1>2. /\ proc' \in [Window -> [at : Ats, then : Ats, break : BOOLEAN]]
      /\ proc'[w0].at = "end" /\ \A w \in Window : w # w0 => proc'[w] = proc[w]
    BY <1>1, AtSets DEF Ats
<1>3. /\ Ordered(todo)' /\ HotInv' /\ PortInv' /\ AnswerInv' /\ SavedInv' /\ QuitInv'
      /\ port' \in Seq(Messages) /\ todo' \in Seq(Steps)
      /\ ChangeIsTold => ChangeIsTold'
      /\ \A w : Tells(Todo, w) => Tells(Todo', w)
    BY <1>1, <1>2, WindowTells DEF Over, Unlocks
<1>4. nodes' \in [Window -> SUBSET {"current", "stale"}] /\ \A w \in Window : w # w0 => nodes'[w] = nodes[w]
    BY <1>1 DEF TypeInv
<1>5. TypeInv'
    BY <1>1, <1>2, <1>3, <1>4 DEF TypeInv
<1>6. NodesInv'
    BY <1>1, <1>2, <1>3, <1>4, NodesGo
<1> QED
    BY <1>3, <1>5, <1>6

\* An input that changes the list, or the nodes.
LEMMA EditingKeeps ==
    ASSUME HInv, Showhide \/ Edit \/ Revert \/ Seturls
    PROVE  HInv'
<1> USE DEF HInv
<1>1. "viewer" \in Window /\ "manager" \in Window
    BY DEF Window
<1>2. ASSUME NEW w0 \in Window, Input(w0)
      PROVE  /\ proc[w0].at \in {"top", "done"} /\ hotsema = None
             /\ left' \in [calls : Nat, inputs : Nat, quit : BOOLEAN] /\ left'.quit = left.quit
  <2>1. /\ proc[w0].at \in {"top", "done"} /\ hotsema = None
        /\ left.inputs > 0 /\ left' = [left EXCEPT !.inputs = @ - 1]
    BY <1>2 DEF Input
  <2> QED BY <2>1, InputLeft
<1>3. list \in [hotchanged : BOOLEAN, dirty : BOOLEAN]
    BY DEF TypeInv
<1>4. ASSUME NEW w0 \in Window, Input(w0), NEW k \in {"Changed", "Restore"}, UpdateAsync(w0, k),
             UNCHANGED <<winvars, todo, inbox, proc>>,
             list' = list \/ (k = "Changed" /\ list' = [list EXCEPT !.dirty = TRUE]),
             nodes' = nodes \/ (k = "Changed" /\ nodes' = [nodes EXCEPT !["viewer"] = Outdated(@)])
      PROVE  HInv'
  <2>1. /\ hot' = hot /\ hotsema' = hotsema /\ locked' = locked /\ screen' = screen
        /\ todo' = todo /\ inbox' = inbox /\ proc' = proc
    BY <1>4 DEF winvars
  <2>2. /\ list' \in [hotchanged : BOOLEAN, dirty : BOOLEAN] /\ list'.hotchanged = list.hotchanged
        /\ list'.dirty => list.dirty \/ k = "Changed"
    BY <1>3, <1>4
  <2>3. proc[w0].at \notin Over \cup Unlocks \cup {"none", "sync"}
    BY <1>2, <1>4 DEF Over, Unlocks
  <2>4. left'.quit = left.quit /\ left' \in [calls : Nat, inputs : Nat, quit : BOOLEAN]
    BY <1>2, <1>4
  <2>5. /\ Ordered(todo)' /\ HotInv' /\ PortInv' /\ AnswerInv' /\ SavedInv' /\ QuitInv'
        /\ port' \in Seq(Messages) /\ todo' \in Seq(Steps)
        /\ ChangeIsTold \/ k = "Changed" => ChangeIsTold'
        /\ \A w : Tells(Todo, w) => Tells(Todo', w)
    BY <1>4, <2>1, <2>2, <2>3, <2>4, WindowTells
  <2>6. nodes' \in [Window -> SUBSET {"current", "stale"}] /\ \A w \in Window : w # "viewer" => nodes'[w] = nodes[w]
    <3>1. nodes \in [Window -> SUBSET {"current", "stale"}]
        BY DEF TypeInv
    <3>2. Outdated(nodes["viewer"]) \in SUBSET {"current", "stale"}
        BY DEF Outdated
    <3> QED BY <1>1, <1>4, <3>1, <3>2
  <2>7. TypeInv'
    BY <2>1, <2>2, <2>4, <2>5, <2>6 DEF TypeInv
  <2>8. NodesInv'
    <3>1. CASE nodes' = nodes
        BY <2>1, <2>5, <3>1, NodesFrame
    <3>2. CASE k = "Changed"
        <4>1. Renewed("viewer", 0)'
            BY <2>5, <3>2 DEF Renewed
        <4> QED BY <1>1, <2>1, <2>5, <2>6, <4>1, NodesGo
    <3> QED BY <1>4, <3>1, <3>2
  <2> QED BY <2>5, <2>7, <2>8
<1>5. CASE Showhide
  <2>1. UNCHANGED <<winvars, todo, inbox, proc>> /\ nodes' = nodes
    BY <1>5 DEF Showhide
  <2> QED BY <1>1, <1>4, <1>5, <2>1 DEF Showhide
<1>6. CASE Edit
    BY <1>1, <1>4, <1>6 DEF Edit
<1>7. CASE Revert
  <2>1. UNCHANGED <<winvars, todo, inbox, proc>> /\ nodes' = nodes /\ list' = list
    BY <1>7 DEF Revert
  <2> QED BY <1>1, <1>4, <1>7, <2>1 DEF Revert
<1>8. CASE Seturls
  <2>1. /\ hot' = hot /\ hotsema' = hotsema /\ locked' = locked /\ screen' = screen /\ list' = list
        /\ todo' = todo /\ inbox' = inbox /\ proc' = proc /\ port' = port /\ Input("viewer")
        /\ nodes' = [nodes EXCEPT !["viewer"] = {"current"}]
    BY <1>8 DEF Seturls, winvars
  <2>2. /\ proc["viewer"].at \in {"top", "done"} /\ hotsema = None
        /\ left' \in [calls : Nat, inputs : Nat, quit : BOOLEAN] /\ left'.quit = left.quit
    BY <1>1, <1>2, <2>1
  <2>3. Replied("viewer") /\ None # "viewer"
    BY <2>1, PortSame DEF TypeInv, None
  <2>4. /\ Ordered(todo)' /\ HotInv' /\ PortInv' /\ AnswerInv' /\ SavedInv' /\ QuitInv'
        /\ ChangeIsTold => ChangeIsTold'
        /\ \A w : Tells(Todo, w) => Tells(Todo', w)
    BY <1>1, <2>1, <2>2, <2>3, WindowGoesOn DEF Over
  <2>5. /\ nodes' \in [Window -> SUBSET {"current", "stale"}] /\ Good("viewer")'
        /\ \A w \in Window : w # "viewer" => nodes'[w] = nodes[w]
    BY <1>1, <2>1 DEF TypeInv, Good
  <2>6. TypeInv'
    BY <2>1, <2>2, <2>5 DEF TypeInv
  <2>7. NodesInv'
    BY <1>1, <2>1, <2>4, <2>5, NodesGo
  <2> QED BY <2>4, <2>6, <2>7
<1> QED
    BY <1>5, <1>6, <1>7, <1>8

LEMMA MessageKeeps ==
    ASSUME HInv, NEW w0 \in Window, Message(w0)
    PROVE  HInv'
<1> USE DEF HInv
<1> DEFINE q == inbox[w0]
           m == Head(q)
           at == IF Len(q) > 1 THEN "drain" ELSE "top"
<1>1. /\ hot' = hot /\ hotsema' = hotsema /\ screen' = screen
      /\ todo' = todo /\ list' = list /\ left' = left /\ At(w0, at)
      /\ proc[w0].at \in {"top", "drain"} /\ q # <<>>
      /\ inbox' = [inbox EXCEPT ![w0] = Tail(@)]
      /\ nodes' = [nodes EXCEPT ![w0] = Rebuilt(w0, m.kind)]
      /\ locked' = IF w0 = "manager" /\ m.kind \in {"Dispose", "Newlist"}
                   THEN m.kind = "Dispose" ELSE locked
      /\ port' = IF m.id > 0 THEN Append(port, ReplyTo(w0, m.id)) ELSE port
    BY DEF Message
<1>2. /\ inbox \in [Window -> Seq(Notes)] /\ port \in Seq(Messages)
      /\ nodes \in [Window -> SUBSET {"current", "stale"}] /\ locked \in BOOLEAN
    BY DEF TypeInv
<1>3. q \in Seq(Notes)
    BY <1>2
<1>4. inbox'[w0] = Tail(q) /\ \A w \in Window : w # w0 => inbox'[w] = inbox[w]
    BY <1>1, <1>2
<1> HIDE DEF q
<1>5. /\ m \in Notes /\ m = q[1] /\ Tail(q) \in Seq(Notes) /\ Len(q) \in Nat /\ Len(q) # 0
      /\ DOMAIN q = 1..Len(q) /\ DOMAIN Tail(q) = 1..(Len(q) - 1)
      /\ \A i \in 1..(Len(q) - 1) : Tail(q)[i] = q[i + 1]
  <2>1. Len(q) \in Nat /\ Len(q) # 0 /\ DOMAIN q = 1..Len(q)
    BY <1>1, <1>3, EmptySeq, LenProperties
  <2>2. /\ Head(q) \in Notes /\ Tail(q) \in Seq(Notes) /\ Len(Tail(q)) = Len(q) - 1
        /\ \A i \in 1..(Len(q) - 1) : Tail(q)[i] = q[i + 1] /\ Head(q) = q[1]
    BY <1>1, <1>3, HeadTailProperties
  <2>3. DOMAIN Tail(q) = 1..(Len(q) - 1) /\ Head(q) = q[1]
    BY <1>1, <1>3, <2>2, LenProperties, HeadTailProperties
  <2> QED BY <2>1, <2>2, <2>3
<1> HIDE DEF m
<1>6. m.kind \in {"Dispose", "Newlist", "Addentry", "Tofront"} /\ m.id \in Nat
    BY <1>5 DEF Notes
<1>7. /\ proc' \in [Window -> [at : Ats, then : Ats, break : BOOLEAN]]
      /\ proc'[w0].at \in {"drain", "top"} /\ \A w \in Window : w # w0 => proc'[w] = proc[w]
  <2>1. at \in {"drain", "top"} /\ at \in Ats
    BY DEF Ats
  <2> HIDE DEF at
  <2> QED BY <1>1, <2>1, AtSets
<1>8. inbox' \in [Window -> Seq(Notes)]
    BY <1>1, <1>2, <1>4, <1>5
<1>9. Replied(w0)
  <2>1. CASE m.id > 0
    <3> DEFINE r == ReplyTo(w0, m.id)
    <3>1. r \in Messages /\ r.from = w0 /\ r.kind = "reply" /\ ~r.sync
        BY <1>6 DEF ReplyTo, Messages, Synced
    <3>2. port' = Append(port, r)
        BY <1>1, <2>1
    <3> HIDE DEF r
    <3>3. Appended(r)
        BY <1>2, <3>1, <3>2, Appending
    <3> QED BY <3>1, <3>3 DEF Appended, Replied
  <2>2. CASE ~(m.id > 0)
    BY <1>1, <1>2, <2>2, PortSame
  <2> QED BY <2>1, <2>2
<1>10. hotsema # w0
    BY <1>1 DEF AnswerInv, Unlocks
<1>11. /\ Ordered(todo)' /\ HotInv' /\ PortInv' /\ AnswerInv' /\ SavedInv' /\ QuitInv'
       /\ ChangeIsTold => ChangeIsTold'
       /\ \A w : Tells(Todo, w) => Tells(Todo', w)
  <2>1. /\ proc[w0].at \notin {"none", "sync"} /\ proc'[w0].at \notin {"none", "sync"}
        /\ proc[w0].at \notin Over /\ hotsema' # w0 /\ hotsema' \in {hotsema, None} /\ left'.quit = left.quit
    BY <1>1, <1>7, <1>10 DEF Over
  <2> QED BY <1>1, <1>7, <1>9, <2>1, WindowGoesOn
<1>12. locked' \in BOOLEAN
  <2>1. CASE w0 = "manager" /\ m.kind \in {"Dispose", "Newlist"}
    <3>1. locked' = (m.kind = "Dispose")
        BY <1>1, <2>1
    <3> QED BY <3>1
  <2>2. CASE ~(w0 = "manager" /\ m.kind \in {"Dispose", "Newlist"})
    BY <1>1, <1>2, <2>2
  <2> QED BY <2>1, <2>2
<1>13. /\ nodes'[w0] = Rebuilt(w0, m.kind) /\ nodes' \in [Window -> SUBSET {"current", "stale"}]
       /\ \A w \in Window : w # w0 => nodes'[w] = nodes[w]
  <2>1. nodes[w0] \in SUBSET {"current", "stale"}
    BY <1>2
  <2>2. Rebuilt(w0, m.kind) \in SUBSET {"current", "stale"}
    <3>1. CASE m.kind = "Dispose"
        BY <3>1 DEF Rebuilt
    <3>2. CASE m.kind = "Addentry"
        BY <3>2 DEF Rebuilt
    <3>3. CASE m.kind = "Newlist"
        BY <2>1, <3>3 DEF Rebuilt
    <3>4. CASE m.kind = "Tofront"
        BY <2>1, <3>4 DEF Rebuilt
    <3> QED BY <1>6, <3>1, <3>2, <3>3, <3>4
  <2> QED BY <1>1, <1>2, <2>2
<1>14. TypeInv'
  <2>1. \A w \in Window : proc'[w].at \in {"none", "dead"} => inbox'[w] = <<>>
    BY <1>4, <1>7 DEF TypeInv
  <2>2. todo' \in Seq(Steps) /\ port' \in Seq(Messages)
    BY <1>1, <1>9 DEF TypeInv, Replied
  <2> QED BY <1>1, <1>7, <1>8, <1>12, <1>13, <2>1, <2>2 DEF TypeInv
<1>15. ASSUME NEW n \in Nat, Renewed(w0, n + 1)
       PROVE  Renewed(w0, n)'
  <2>1. ASSUME NEW j \in DOMAIN q, j > n + 1, q[j].kind \in Renews
        PROVE  \E i \in DOMAIN inbox'[w0] : i > n /\ inbox'[w0][i].kind \in Renews
    <3>1. j - 1 \in 1..(Len(q) - 1) /\ (j - 1) + 1 = j /\ j - 1 > n
        BY <1>5, <2>1
    <3>2. Tail(q)[j - 1] = q[j]
        BY <1>5, <3>1
    <3> QED BY <1>4, <1>5, <2>1, <3>1, <3>2
  <2> QED BY <1>11, <1>15, <2>1 DEF Renewed, q
<1>16. ASSUME NEW w \in Window, w # w0, NEW n, Renewed(w, n)
       PROVE  Renewed(w, n)'
    BY <1>4, <1>11, <1>16 DEF Renewed
<1>17. Good(w0)' \/ Renewed(w0, 0)'
  <2>1. CASE m.kind = "Dispose"
    <3>1. 1 \in DOMAIN inbox[w0] /\ inbox[w0][1].kind = "Dispose"
        BY <1>5, <2>1 DEF q
    <3>2. Renewed(w0, 1)
        BY <3>1 DEF NodesInv
    <3>3. 0 + 1 = 1 /\ 0 \in Nat
        OBVIOUS
    <3> QED BY <1>15, <3>2, <3>3
  <2>2. CASE m.kind = "Addentry"
    BY <1>13, <2>2 DEF Rebuilt, Good
  <2>3. CASE m.kind = "Newlist"
    BY <1>13, <2>3 DEF Rebuilt, Good, Window
  <2>4. CASE m.kind = "Tofront"
    <3>1. nodes'[w0] = nodes[w0]
        BY <1>13, <2>4 DEF Rebuilt
    <3>2. Good(w0) \/ Renewed(w0, 0)
        BY <1>1 DEF NodesInv
    <3>3. Renewed(w0, 0) => Renewed(w0, 0 + 1)
        <4>1. \A j \in DOMAIN q : j > 0 /\ q[j].kind \in Renews => j > 0 + 1
            BY <1>5, <2>4 DEF Renews
        <4> QED BY <4>1 DEF Renewed, q
    <3>4. Renewed(w0, 0) => Renewed(w0, 0)'
        BY <1>15, <3>3
    <3> QED BY <3>1, <3>2, <3>4 DEF Good
  <2> QED BY <1>6, <2>1, <2>2, <2>3, <2>4
<1>18. ASSUME NEW i \in DOMAIN inbox'[w0], inbox'[w0][i].kind = "Dispose" PROVE Renewed(w0, i)'
  <2>1. i \in Nat /\ i + 1 \in DOMAIN q /\ q[i + 1].kind = "Dispose"
    BY <1>4, <1>5, <1>18
  <2>2. Renewed(w0, i + 1)
    BY <2>1 DEF NodesInv, q
  <2> QED BY <1>15, <2>1, <2>2
<1>19. NodesInv'
  <2>1. \A w \in Window : w # w0 => (Good(w)' <=> Good(w))
    BY <1>13 DEF Good
  <2>2. ASSUME NEW w \in Window, w # w0
        PROVE  /\ proc'[w].at \notin {"none", "build", "free", "end", "dead"} => Good(w)' \/ Renewed(w, 0)'
               /\ \A i \in DOMAIN inbox'[w] : inbox'[w][i].kind = "Dispose" => Renewed(w, i)'
    BY <1>4, <1>7, <1>16, <2>1, <2>2 DEF NodesInv
  <2> QED BY <1>17, <1>18, <2>2 DEF NodesInv
<1> QED
    BY <1>11, <1>14, <1>19

LEMMA EndsKeeps ==
    ASSUME HInv, NEW w0 \in Window, Ends(w0)
    PROVE  HInv'
<1> USE DEF HInv
<1> DEFINE r == [i \in DOMAIN inbox[w0] |-> ReplyTo(w0, inbox[w0][i].id)]
<1>1. /\ hot' = hot /\ hotsema' = hotsema /\ screen' = screen /\ locked' = locked
      /\ todo' = todo /\ list' = list /\ left' = left /\ nodes' = nodes
      /\ proc[w0].at = "end" /\ port' = port \o r /\ inbox' = [inbox EXCEPT ![w0] = <<>>]
      /\ proc' = [proc EXCEPT ![w0].at = "dead", ![w0].break = FALSE]
    BY DEF Ends, winvars
<1>2. /\ inbox \in [Window -> Seq(Notes)] /\ port \in Seq(Messages)
      /\ proc \in [Window -> [at : Ats, then : Ats, break : BOOLEAN]]
    BY DEF TypeInv
<1>3. /\ proc' \in [Window -> [at : Ats, then : Ats, break : BOOLEAN]]
      /\ proc'[w0].at = "dead" /\ \A w \in Window : w # w0 => proc'[w] = proc[w]
  <2> DEFINE p == [proc EXCEPT ![w0].at = "dead"]
  <2>1. "dead" \in Ats
    BY DEF Ats
  <2>2. /\ p \in [Window -> [at : Ats, then : Ats, break : BOOLEAN]]
        /\ p[w0].at = "dead" /\ \A w \in Window : w # w0 => p[w] = proc[w]
    BY <1>2, <2>1
  <2>3. proc' = [p EXCEPT ![w0].break = FALSE]
    BY <1>1
  <2> HIDE DEF p
  <2> QED BY <2>2, <2>3
<1>4. inbox' \in [Window -> Seq(Notes)] /\ inbox'[w0] = <<>> /\ \A w \in Window : w # w0 => inbox'[w] = inbox[w]
    BY <1>1, <1>2
<1>5. PICK n \in Nat : DOMAIN inbox[w0] = 1..n /\ \A i \in 1..n : inbox[w0][i] \in Notes
  <2>1. inbox[w0] \in Seq(Notes)
    BY <1>2
  <2>2. Len(inbox[w0]) \in Nat /\ DOMAIN inbox[w0] = 1..Len(inbox[w0])
    BY <2>1, LenProperties
  <2> QED BY <2>1, <2>2, ElementOfSeq
<1>6. \A i \in 1..n : r[i] \in Messages /\ r[i].from = w0 /\ r[i].kind = "reply" /\ ~r[i].sync
  <2> SUFFICES ASSUME NEW i \in 1..n
      PROVE  r[i] \in Messages /\ r[i].from = w0 /\ r[i].kind = "reply" /\ ~r[i].sync
      OBVIOUS
  <2> DEFINE id == inbox[w0][i].id
  <2>1. id \in Nat
    BY <1>5 DEF Notes
  <2>2. r[i] = ReplyTo(w0, id)
    BY <1>5
  <2> HIDE DEF id, r
  <2> QED BY <2>1, <2>2 DEF ReplyTo, Messages, Synced
<1>7. r \in [1..n -> Messages]
    BY <1>5, <1>6
<1> HIDE DEF r
<1>8. r \in Seq(Messages) /\ Len(r) = n
  <2>1. r \in Seq(Messages)
    BY <1>7
  <2> QED BY <1>7, <2>1, LenProperties
<1>9. Replied(w0)
  <2>1. /\ port \o r \in Seq(Messages) /\ Len(port \o r) = Len(port) + Len(r)
        /\ \A i \in 1..(Len(port) + Len(r)) :
              (port \o r)[i] = IF i <= Len(port) THEN port[i] ELSE r[i - Len(port)]
    BY <1>2, <1>8, ConcatProperties
  <2>2. Len(port) \in Nat /\ DOMAIN port = 1..Len(port) /\ DOMAIN (port \o r) = 1..(Len(port) + Len(r))
    BY <1>2, <2>1, LenProperties
  <2>3. \A i \in DOMAIN port : i \in DOMAIN port' /\ port'[i] = port[i]
    BY <1>1, <1>8, <2>1, <2>2
  <2>4. ASSUME NEW i \in DOMAIN port' \ DOMAIN port
        PROVE  port'[i].from = w0 /\ port'[i].kind = "reply" /\ ~port'[i].sync
    <3>1. i - Len(port) \in 1..n /\ port'[i] = r[i - Len(port)]
        BY <1>1, <1>8, <2>1, <2>2
    <3> QED BY <1>6, <3>1
  <2> QED BY <1>1, <2>1, <2>3, <2>4 DEF Replied
<1>10. hotsema # w0
    BY <1>1 DEF AnswerInv, Unlocks
<1>11. /\ Ordered(todo)' /\ HotInv' /\ PortInv' /\ AnswerInv' /\ SavedInv' /\ QuitInv'
       /\ ChangeIsTold => ChangeIsTold'
       /\ \A w : Tells(Todo, w) => Tells(Todo', w)
  <2>1. /\ proc[w0].at \notin {"none", "sync"} /\ proc'[w0].at \notin {"none", "sync"}
        /\ proc'[w0].at \in Over /\ hotsema' # w0 /\ hotsema' \in {hotsema, None} /\ left'.quit = left.quit
    BY <1>1, <1>3, <1>10 DEF Over
  <2> QED BY <1>1, <1>3, <1>9, <2>1, WindowGoesOn
<1>12. TypeInv'
  <2>1. \A w \in Window : proc'[w].at \in {"none", "dead"} => inbox'[w] = <<>>
    BY <1>3, <1>4 DEF TypeInv
  <2>2. todo' \in Seq(Steps) /\ port' \in Seq(Messages)
    BY <1>1, <1>9 DEF TypeInv, Replied
  <2> QED BY <1>1, <1>3, <1>4, <2>1, <2>2 DEF TypeInv
<1>13. NodesInv'
  <2>1. \A w \in Window : w # w0 => (Good(w)' <=> Good(w))
    BY <1>1 DEF Good
  <2>2. \A w \in Window : w # w0 => \A n1 : Renewed(w, n1) => Renewed(w, n1)'
    BY <1>4, <1>11 DEF Renewed
  <2>3. DOMAIN inbox'[w0] = {}
    BY <1>4
  <2> QED BY <1>3, <1>4, <2>1, <2>2, <2>3 DEF NodesInv
<1> QED
    BY <1>11, <1>12, <1>13

---------------------------------------------------------------------------
(* The invariant, and what it is for.                                      *)

LEMMA InitHolds == Init => HInv
<1> SUFFICES ASSUME Init PROVE HInv
    OBVIOUS
<1>1. /\ todo = <<>> /\ port = <<>> /\ hot = [w \in Window |-> Closed] /\ inbox = [w \in Window |-> <<>>]
      /\ proc = [w \in Window |-> Gone] /\ hotsema = None /\ nodes = [w \in Window |-> {}]
      /\ locked = FALSE /\ list = [hotchanged |-> FALSE, dirty |-> FALSE] /\ screen = TRUE
      /\ left = [calls |-> MaxCalls, inputs |-> MaxInputs, quit |-> FALSE]
    BY DEF Init
<1>2. todo \in Seq(Steps) /\ Ordered(todo) /\ Todo = {} /\ port \in Seq(Messages)
    BY <1>1, EmptyFits DEF Todo
<1>3. /\ \A w \in Window : proc[w].at = "none" /\ inbox[w] = <<>> /\ inbox[w] \in Seq(Notes)
      /\ proc \in [Window -> [at : Ats, then : Ats, break : BOOLEAN]]
    BY <1>1 DEF Gone, Ats
<1>4. TypeInv
  <2>1. inbox \in [Window -> Seq(Notes)]
    BY <1>1, <1>3
  <2> QED BY <1>1, <1>2, <1>3, <2>1, Bounds DEF TypeInv, Closed
<1>5. \A do : \A w : ~Has(do, w)
    BY <1>2 DEF Has
<1>6. HotInv
    BY <1>1, <1>3, <1>5 DEF HotInv, Ending, Doing
<1>7. PortInv /\ SavedInv /\ QuitInv
    BY <1>1 DEF PortInv, SavedInv, QuitInv
<1>8. AnswerInv
  <2>1. \A w \in Window : w # None
    BY DEF Window, None
  <2> QED BY <1>1, <1>3, <1>5, <2>1 DEF AnswerInv
<1>9. NodesInv
  <2>1. \A w \in Window : DOMAIN inbox[w] = {}
    BY <1>3
  <2> QED BY <1>3, <2>1 DEF NodesInv
<1> QED
    BY <1>2, <1>4, <1>6, <1>7, <1>8, <1>9 DEF HInv

LEMMA StutterKeeps == HInv /\ UNCHANGED vars => HInv'
<1> SUFFICES ASSUME HInv, UNCHANGED vars PROVE HInv'
    OBVIOUS
<1>1. /\ todo' = todo /\ hot' = hot /\ port' = port /\ inbox' = inbox /\ proc' = proc /\ hotsema' = hotsema
      /\ nodes' = nodes /\ locked' = locked /\ list' = list /\ screen' = screen /\ left' = left
    BY DEF vars
<1>2. /\ Todo' = Todo /\ \A do : (Does(do)' <=> Does(do)) /\ \A w : Has(do, w)' <=> Has(do, w)
      /\ \A w : (Ending(w)' <=> Ending(w)) /\ (Answers(w)' <=> Answers(w)) /\ (Disposing(w)' <=> Disposing(w))
      /\ \A do : Doing(do)' <=> Doing(do)
      /\ todo # <<>> => W' = W
      /\ Ordered(todo)' <=> Ordered(todo)
    BY <1>1, TodoStays
<1>3. \A w : Said(w)' = Said(w)
    BY <1>1, SaidSame
<1>4. ChangeIsTold' <=> ChangeIsTold
    BY <1>1, <1>2 DEF ChangeIsTold
<1>5. TypeInv' /\ Ordered(todo)'
    BY <1>1, <1>2 DEF HInv, TypeInv
<1>6. HotInv'
    BY <1>1, <1>2, <1>3 DEF HInv, HotInv, Doing
<1>7. PortInv'
    BY <1>1, <1>2, <1>3 DEF HInv, PortInv
<1>8. AnswerInv' /\ SavedInv' /\ QuitInv'
    BY <1>1, <1>2, <1>4 DEF HInv, AnswerInv, SavedInv, QuitInv
<1>9. NodesInv'
  <2>1. \A w \in Window : \A n : Renewed(w, n) => Renewed(w, n)'
    BY <1>1, <1>2, <1>4 DEF Renewed
  <2>2. \A w \in Window : Good(w) => Good(w)'
    BY <1>1 DEF Good
  <2> QED BY <1>1, <2>1, <2>2 DEF HInv, NodesInv
<1> QED
    BY <1>5, <1>6, <1>7, <1>8, <1>9 DEF HInv

LEMMA MainKeeps ==
    ASSUME HInv, MainStep
    PROVE  HInv'
    BY ProcesstaskKeeps, AsetattrssyncKeeps, AsetattrsasyncKeeps, WaitformsgKeeps, DodisposetaskKeeps,
       StoptaskKeeps, CloseUpdateKeeps, DisposehotwindowKeeps, DisposedKeeps, ShowKeeps, ScreenKeeps,
       SethotwindowKeeps, StoppedKeeps, ChangedKeeps, AnswerKeeps, ListStepKeeps, DeinstallsKeeps
    DEF MainStep

LEMMA WindowKeeps ==
    ASSUME HInv, User \/ \E w \in Window : TaskStep(w)
    PROVE  HInv'
<1>1. ASSUME NEW w \in Window, TaskStep(w) PROVE HInv'
    BY <1>1, BuildKeeps, StopsKeeps, MessageKeeps, ReturnsKeeps, ClosingKeeps, FreesKeeps, EndsKeeps
    DEF TaskStep
<1>2. CASE User
    BY <1>2, ClosesKeeps, IdcmphookKeeps, EditingKeeps, AskingKeeps DEF User
<1> QED
    BY <1>1, <1>2

\* Whatever main and the windows do, the invariant holds.
LEMMA HotlistInvariant == Spec => []HInv
<1>1. HInv /\ [Next]_vars => HInv'
    BY StutterKeeps, CallKeeps, MainKeeps, WindowKeeps DEF Next
<1> QED
    BY <1>1, InitHolds, PTL DEF Spec

LEMMA HeadIn ==
    ASSUME TypeInv, NEW i \in DOMAIN todo
    PROVE  todo[i] \in Todo /\ todo # <<>>
    BY DEF Todo, Elements, TypeInv

\* hotsema is held only by a window that waits for main or was just answered,
\* and once main has come to its update nothing that needs hotsema is left to
\* do before the answer (hotmanager.c:2111): the nesting of main's waits, of
\* the answers and of what the sender holds is Answers.
THEOREM HolderIsAnswered == Spec => []BegunIsAnswered
<1>1. ASSUME HInv PROVE BegunIsAnswered
  <2> SUFFICES ASSUME hotsema # None
      PROVE  /\ proc[hotsema].at \in {"sync", "unlock", "unlockdone"}
             /\ (\E i \in DOMAIN todo : todo[i] = Step("answer", hotsema, None)) =>
                   Head(todo).do \notin Locks
      BY DEF BegunIsAnswered
  <2>1. hotsema \in Window
    BY <1>1 DEF HInv, TypeInv
  <2>2. proc[hotsema].at \in {"sync", "unlock", "unlockdone"}
    BY <1>1, <2>1 DEF HInv, AnswerInv, Unlocks
  <2>3. ASSUME NEW i \in DOMAIN todo, todo[i] = Step("answer", hotsema, None)
        PROVE  Head(todo).do \notin Locks
    <3>1. todo[i] \in Todo
        BY <1>1, HeadIn DEF HInv
    <3>2. Has("answer", hotsema)
        BY <2>3, <3>1 DEF Has, Step
    <3>3. Answers(hotsema)
        BY <1>1, <2>1, <3>2 DEF HInv, AnswerInv
    <3> QED BY <3>3 DEF Answers, Locks
  <2> QED BY <2>2, <2>3
<1> QED
    BY <1>1, HotlistInvariant, PTL

\* No change of the hotlist is forgotten: until main knows of it, its update is
\* in the port or being served, and AWeb quits only after the list was saved
\* (hotlist.c:1211), when no window has a process that could still change it.
THEOREM NoChangeIsLost == Spec => []ChangesAreSaved
<1>1. ASSUME HInv PROVE ChangesAreSaved
  <2>1. list.dirty =>
            \/ list.hotchanged
            \/ \E i \in DOMAIN port : port[i].kind = "Changed"
            \/ \E i \in DOMAIN todo : todo[i].do = "changed"
    BY <1>1 DEF HInv, SavedInv, ChangeIsTold, Todo, Elements
  <2>2. left.quit /\ todo = <<>> => ~list.dirty
    <3>1. todo = <<>> => ~Does("savequit")
        BY EmptyFits DEF Todo, Does
    <3> QED BY <1>1, <3>1 DEF HInv, QuitInv
  <2> QED BY <2>1, <2>2 DEF ChangesAreSaved
<1> QED
    BY <1>1, HotlistInvariant, PTL

\* A window that has heard all main has to tell shows the list as it is: every
\* change of the list, and every Dispose, is followed by a message that makes
\* the window rebuild its nodes (hotlist.c:1067), also when the window was not
\* there or was about to close when main told it.
THEOREM QuietWindowShowsTheList == Spec => []QuietWindowIsCurrent
<1>1. ASSUME HInv PROVE QuietWindowIsCurrent
  <2> SUFFICES ASSUME todo = <<>>, port = <<>>, NEW w \in Window, proc[w].at = "top", inbox[w] = <<>>
      PROVE  "current" \in nodes[w] /\ (w = "manager" => nodes[w] = {"current"})
      BY DEF QuietWindowIsCurrent
  <2>1. Todo = {}
    BY EmptyFits DEF Todo
  <2>2. ~Tells(Todo, w) /\ ~ChangeIsTold
    BY <2>1 DEF Tells, ChangeIsTold
  <2>3. ~Renewed(w, 0)
    BY <2>2 DEF Renewed
  <2>4. Good(w)
    BY <1>1, <2>3 DEF HInv, NodesInv
  <2> QED BY <2>4 DEF Good
<1> QED
    BY <1>1, HotlistInvariant, PTL
=============================================================================
