----------------------------- MODULE UrlProofs -----------------------------
(***************************************************************************)
(* What is proved of Fetch and Url for all fetches, URLs, schemes and      *)
(* settings, and whatever the user does: slots are accounted for, a driver *)
(* has its fetch, no pointer and no pending call is to a fetch that was    *)
(* freed, a transfer is owned, and who waits for one is answered in time.  *)
(*                                                                         *)
(* The invariant is about the calls main has still to do: which state a    *)
(* call needs, which call may be pending before which, and that a fetch    *)
(* that its URL forgets has a call pending that ends it.                   *)
(***************************************************************************)
EXTENDS Url, FetchProofs

Running(f) == Has(f, "RUNNING")
Asked(f) == Has(f, "INCOMPLETE")
Drives(f) == driver[f].at # "none"
InQueue(f) == \E s \in Slots : f \in Range(lists[s])
Owned(f) == \E u \in Url, role \in Roles : url[u][role] = f

-----------------------------------------------------------------------------
(* The calls *)

FetchOps == {"updatefetch", "forward", "retryget", "finish", "reply", "cancel",
             "cancellocal", "stop", "dispose", "incompleteend", "srcupdate"}
UrlOps == {"load", "newfetch", "cancelfetch"}
LastOps == {"reply", "finish", "retryget", "incompleteend"}
EndTags == LastTags \cup {"reload"}

\* The calls that end a fetch, and those that first make its URL forget it.
Closing(c) ==
    c.op \in {"dispose", "finish"} \/ (c.op = "incompleteend" /\ c.arg = "done")
Clearing(c) == c.op = "forward" \/ (c.op = "srcupdate" /\ c.arg \in LastTags)

\* A call that is pending can be made.
CallOK(c) ==
    /\ c.fetch # NoFetch => Live(c.fetch)
    /\ c.op \in FetchOps => c.fetch \in Fetch
    /\ c.op \in UrlOps => c.url \in Url /\ c.fetch = NoFetch
    /\ c.op \in {"newfetch", "cancelfetch"} => c.arg \in Roles
    /\ c.op \in {"srcupdate", "updatefetch"} => c.arg \in Tags
    /\ c.op = "srcupdate" /\ c.arg # "terminate" => Running(c.fetch) \/ Asked(c.fetch)
    /\ c.op = "srcupdate" /\ c.arg \notin EndTags => Running(c.fetch)
    /\ c.op = "forward" => Running(c.fetch) /\ c.arg \in LastTags /\ ~ Has(c.fetch, "POSTNOGOOD")
    /\ c.op \in {"finish", "retryget"} => Running(c.fetch) /\ ~ Drives(c.fetch)
    /\ c.op = "incompleteend" => Asked(c.fetch) /\ c.arg \in {"kept", "done"}
    /\ c.op = "updatefetch" => Drives(c.fetch)
    /\ c.op = "newfetch" =>
          /\ url[c.url][c.arg] = NoFetch /\ url[c.url].fetch = NoFetch
          /\ c.arg = "fetch" => url[c.url].rfetch = NoFetch /\ url[c.url].vfetch = NoFetch
    /\ c.op = "cancelfrom" => c.arg \in Lists
    /\ c.op = "checkqueues" => c.fetch = NoFetch

\* The call c may be pending before d.
PairOK(c, d) ==
    /\ c.op \notin LastOps \cup {"cancelfrom"}
    /\ d.op # "updatefetch"
    /\ c.op = "cancelfetch" => d.op = "cancelfetch"
    /\ c.op = "updatefetch" => d.op = "reply" /\ d.fetch = c.fetch /\ c.arg \notin LastTags
    /\ d.op = "newfetch" =>
          \/ c.op = "dispose"
          \/ /\ c.op = "newfetch" /\ c.url = d.url /\ c.arg # d.arg
             /\ c.arg # "fetch" /\ d.arg # "fetch"
    /\ c.op = "dispose" /\ d.fetch = c.fetch => Running(c.fetch) \/ Asked(c.fetch)
    /\ c.op \in {"cancel", "cancellocal"} /\ d.fetch = c.fetch => Running(c.fetch)
    /\ c.op = "checkqueues" /\ d.fetch # NoFetch => ~ InQueue(d.fetch)
    /\ c.op = "srcupdate" /\ c.arg \notin EndTags \cup {"error"} =>
          d.op = "reply" /\ d.fetch = c.fetch
    /\ c.op = "load" /\ c.loadflags = "reload" =>
          d.op = "reply" /\ fetch[d.fetch].url # c.url
    /\ Closing(c) /\ Clearing(d) /\ c.fetch = d.fetch => ~ Owned(c.fetch)

StackOK ==
    /\ \A c \in Range(todo) : CallOK(c)
    /\ \A c, d \in Range(todo) : Before(todo, c, d) => PairOK(c, d)

-----------------------------------------------------------------------------
(* The fetches, their lists and the URLs *)

\* A fetch whose last update is pending, or that its URL has forgotten, will be
\* ended; and it is ended only once its URL has forgotten it.
ClosesSoon(f) == \E c \in Range(todo) : Closing(c) /\ c.fetch = f
ClearsSoon(f) == \E c \in Range(todo) : Clearing(c) /\ c.fetch = f
HandledOf(f) ==
    /\ ClosesSoon(f) /\ Owned(f) => ClearsSoon(f)
    /\ Live(f) /\ ~ Has(f, "DISPOSED") /\ (ClearsSoon(f) \/ ~ Owned(f)) => ClosesSoon(f)

\* The requester of f has been answered, or f does not run.
Answered(f) == \E c \in Range(todo) : c.op = "incompleteend" /\ c.fetch = f
AskedOf(f) == Asked(f) => Answered(f) \/ (~ Running(f) /\ ~ InQueue(f))

FlagsOf(f) ==
    /\ Live(f) => fetch[f].url \in Url
    /\ ~ Live(f) => fetch[f].flags = {}
    /\ Has(f, "USESLOT") <=> Drives(f)
    /\ Drives(f) => Running(f)
    /\ driver[f].at = "update" => driver[f].tag \notin LastTags

ForgottenOf(f) == Has(f, "DISPOSED") => ~ Owned(f)

ListsOK ==
    /\ \A l \in Lists : Once(lists[l])
    /\ \A l, m \in Lists : \A f \in Fetch : f \in Range(lists[l]) /\ f \in Range(lists[m]) => l = m
    /\ \A f \in Fetch : Live(f) <=> \E l \in Lists : f \in Range(lists[l])
    /\ \A s \in Slots : \A f \in Range(lists[s]) : Slot(f) = s /\ ~ Running(f)

PointersOf(u) ==
    /\ \A role \in Roles :
          url[u][role] # NoFetch => Live(url[u][role]) /\ fetch[url[u][role]].url = u
    /\ url[u].push \in {NoFetch, url[u].fetch, url[u].rfetch}
    /\ url[u].fetch # NoFetch => url[u].rfetch = NoFetch /\ url[u].vfetch = NoFetch
    /\ url[u].rfetch = url[u].vfetch => url[u].rfetch = NoFetch

Data ==
    /\ ListsOK /\ SlotsAccounted /\ WaitsForTransfer
    /\ \A f \in Fetch : FlagsOf(f)
EndsWell == \A f \in Fetch : ForgottenOf(f) /\ AskedOf(f) /\ HandledOf(f)
Pointers == \A u \in Url : PointersOf(u)

IInv == TypeOK /\ Data /\ Pointers /\ StackOK /\ EndsWell

-----------------------------------------------------------------------------
(* Pending calls that stay what they were *)

\* The step leaves what a pending call knows of f.
Same(f) ==
    /\ Live(f)' <=> Live(f)
    /\ fetch'[f].url = fetch[f].url
    /\ Running(f)' <=> Running(f)
    /\ Asked(f)' <=> Asked(f)
    /\ Drives(f)' <=> Drives(f)
    /\ InQueue(f)' <=> InQueue(f)
    /\ Owned(f)' => Owned(f)

LEMMA CallKept ==
    ASSUME NEW c, CallOK(c), c.fetch # NoFetch => Same(c.fetch),
           c.op = "forward" /\ Has(c.fetch, "POSTNOGOOD")' => Has(c.fetch, "POSTNOGOOD"),
           c.op # "newfetch"
    PROVE  CallOK(c)'
<1>1. c.op \in FetchOps => c.fetch # NoFetch
    BY FetchConstants DEF CallOK
<1>2. /\ "forward" \in FetchOps /\ "finish" \in FetchOps /\ "retryget" \in FetchOps
      /\ "incompleteend" \in FetchOps /\ "updatefetch" \in FetchOps /\ "srcupdate" \in FetchOps
    BY DEF FetchOps
<1> QED BY <1>1, <1>2 DEF CallOK, Same

LEMMA PairKept ==
    ASSUME NEW c, NEW d, CallOK(c), CallOK(d), PairOK(c, d),
           c.fetch # NoFetch => Same(c.fetch), d.fetch # NoFetch => Same(d.fetch)
    PROVE  PairOK(c, d)'
<1>1. /\ c.op \in FetchOps => c.fetch # NoFetch
      /\ d.op \in FetchOps => d.fetch # NoFetch
    BY FetchConstants DEF CallOK
<1>2. "dispose" \in FetchOps /\ "cancel" \in FetchOps /\ "cancellocal" \in FetchOps /\ "reply" \in FetchOps
    BY DEF FetchOps
<1>3. Closing(c) => c.fetch # NoFetch
    BY <1>1 DEF Closing, FetchOps
<1>4. c.op = "load" /\ c.loadflags = "reload" => d.op = "reply" /\ fetch'[d.fetch].url # c.url
    BY <1>1, <1>2 DEF PairOK, Same
<1>5. Closing(c) /\ Clearing(d) /\ c.fetch = d.fetch => ~ Owned(c.fetch)'
    BY <1>3 DEF PairOK, Same
<1>6. /\ c.op = "dispose" /\ d.fetch = c.fetch => Running(c.fetch)' \/ Asked(c.fetch)'
      /\ c.op \in {"cancel", "cancellocal"} /\ d.fetch = c.fetch => Running(c.fetch)'
    BY <1>1, <1>2 DEF PairOK, Same
<1>7. c.op = "checkqueues" /\ d.fetch # NoFetch => ~ InQueue(d.fetch)'
    BY DEF PairOK, Same
<1> QED BY <1>4, <1>5, <1>6, <1>7 DEF PairOK

\* The pending calls of which rest is left.
Below(rest) ==
    /\ rest \in Seq(CallRecord)
    /\ Range(rest) \subseteq Range(todo)
    /\ \A c, d \in Range(rest) : Before(rest, c, d) => Before(todo, c, d)

LEMMA Belows ==
    ASSUME todo \in Seq(CallRecord)
    PROVE  /\ Below(<<>>) /\ Below(todo)
           /\ todo # <<>> => Below(Tail(todo)) /\ Head(todo) \in CallRecord
<1>1. <<>> \in Seq(CallRecord) /\ Range(<<>>) = {}
    BY NoMembers
<1>2. todo # <<>> => /\ Head(todo) \in CallRecord /\ Tail(todo) \in Seq(CallRecord)
                     /\ Range(todo) = {Head(todo)} \cup Range(Tail(todo))
                     /\ \A c, d : Before(Tail(todo), c, d) => Before(todo, c, d)
    BY HeadAndTail
<1> QED BY <1>1, <1>2 DEF Below

\* What the calls that are pending say of the one that is made.
LEMMA HeadFacts ==
    ASSUME todo \in Seq(CallRecord), todo # <<>>, StackOK
    PROVE  /\ Head(todo) \in CallRecord /\ CallOK(Head(todo))
           /\ Head(todo) \in Range(todo)
           /\ Range(todo) = {Head(todo)} \cup Range(Tail(todo))
           /\ Range(Tail(todo)) \subseteq CallRecord
           /\ \A d \in Range(Tail(todo)) : CallOK(d) /\ PairOK(Head(todo), d)
<1>1. /\ Head(todo) \in CallRecord /\ Tail(todo) \in Seq(CallRecord)
      /\ Range(todo) = {Head(todo)} \cup Range(Tail(todo))
      /\ \A c, d : Before(todo, c, d) <=>
            Before(Tail(todo), c, d) \/ (c = Head(todo) /\ d \in Range(Tail(todo)))
    BY HeadAndTail
<1>2. Range(Tail(todo)) \subseteq CallRecord
    BY <1>1, Members
<1> QED BY <1>1, <1>2 DEF StackOK

LEMMA StackNext ==
    ASSUME todo \in Seq(CallRecord), StackOK,
           NEW calls \in Seq(CallRecord), NEW rest, Below(rest), todo' = calls \o rest,
           \A c \in Range(rest) : c.fetch # NoFetch => Same(c.fetch),
           \A c \in Range(rest) : c.op = "newfetch" => CallOK(c)',
           \A c \in Range(rest) : c.op = "forward" /\ Has(c.fetch, "POSTNOGOOD")'
                                      => Has(c.fetch, "POSTNOGOOD"),
           \A c \in Range(calls) : CallOK(c)',
           \A c, d \in Range(calls) : Before(calls, c, d) => PairOK(c, d)',
           \A c \in Range(calls), d \in Range(rest) : PairOK(c, d)'
    PROVE  StackOK' /\ todo' \in Seq(CallRecord)
<1>1. rest \in Seq(CallRecord)
    BY DEF Below
<1>2. /\ todo' \in Seq(CallRecord)
      /\ Range(todo') = Range(calls) \cup Range(rest)
      /\ \A c, d : Before(todo', c, d) <=>
            \/ Before(calls, c, d) \/ Before(rest, c, d)
            \/ c \in Range(calls) /\ d \in Range(rest)
    BY <1>1, Concatenation
<1>3. ASSUME NEW c \in Range(rest) PROVE CallOK(c) /\ CallOK(c)'
  <2>1. CallOK(c)
      BY <1>3 DEF StackOK, Below
  <2>2. CASE c.op = "newfetch"
      BY <1>3, <2>1, <2>2
  <2>3. CASE c.op # "newfetch"
      BY <1>3, <2>1, <2>3, CallKept
  <2> QED BY <2>1, <2>2, <2>3
<1>4. ASSUME NEW c \in Range(rest), NEW d \in Range(rest), Before(rest, c, d) PROVE PairOK(c, d)'
  <2>1. PairOK(c, d)
      BY <1>4 DEF StackOK, Below
  <2> QED BY <1>3, <1>4, <2>1, PairKept
<1>5. \A c \in Range(todo') : CallOK(c)'
    BY <1>2, <1>3
<1>6. ASSUME NEW c \in Range(todo'), NEW d \in Range(todo'), Before(todo', c, d) PROVE PairOK(c, d)'
  <2>1. CASE Before(calls, c, d)
    <3>1. c \in Range(calls) /\ d \in Range(calls)
        BY <2>1, Order
    <3> QED BY <2>1, <3>1
  <2>2. CASE Before(rest, c, d)
    <3>1. c \in Range(rest) /\ d \in Range(rest)
        BY <2>2, <1>1, Order
    <3> QED BY <2>2, <3>1, <1>4
  <2>3. CASE c \in Range(calls) /\ d \in Range(rest)
      BY <2>3
  <2> QED BY <2>1, <2>2, <2>3, <1>2, <1>6
<1>7. StackOK'
    BY <1>5, <1>6 DEF StackOK
<1> QED BY <1>2, <1>7

-----------------------------------------------------------------------------
(* Steps that leave the lists and the slots alone *)

\* The step leaves f where it is.
Alike(f) ==
    /\ fetch'[f].obj = fetch[f].obj
    /\ fetch'[f].url = fetch[f].url
    /\ fetch'[f].role = fetch[f].role
    /\ Running(f)' <=> Running(f)
    /\ Asked(f)' <=> Asked(f)
    /\ Has(f, "USESLOT")' <=> Has(f, "USESLOT")
    /\ Has(f, "DISPOSED")' <=> Has(f, "DISPOSED")
    /\ ~ Live(f) => fetch'[f].flags = fetch[f].flags
    /\ Drives(f)' <=> Drives(f)
    /\ driver'[f].at = "update" => driver'[f].tag \notin LastTags
Steady ==
    /\ UNCHANGED <<lists, slots>> /\ \A f \in Fetch : Alike(f)
    /\ \A w \in waits' : w \in waits \/ \E f \in Fetch : Awaits(w, f)

LEMMA SteadyData ==
    ASSUME TypeOK, Data, Steady
    PROVE  Data' /\ \A f \in Fetch : InQueue(f)' <=> InQueue(f)
<1>1. \A f \in Fetch : FlagsOf(f)'
    BY DEF Data, Steady, Alike, FlagsOf, Live
<1>2. \A f \in Fetch : InQueue(f)' <=> InQueue(f)
    BY DEF Steady, InQueue
<1>3. \A f \in Fetch : Slot(f)' = Slot(f) /\ (Live(f)' <=> Live(f)) /\ (Running(f)' <=> Running(f))
    BY DEF Steady, Alike, Slot, Live
<1>4. \A s \in Slots : Range(lists[s]) \subseteq Fetch
    BY Members DEF TypeOK, Lists
<1>5. ListsOK'
    BY <1>3, <1>4 DEF Data, ListsOK, Steady
<1>6. SlotsAccounted'
  <2>1. ASSUME NEW s \in Slots
        PROVE  slots'[s] = Cardinality({f \in Fetch : Live(f)' /\ Has(f, "USESLOT")' /\ Slot(f)' = s})
    <3>1. {f \in Fetch : Live(f)' /\ Has(f, "USESLOT")' /\ Slot(f)' = s}
             = {f \in Fetch : Live(f) /\ Has(f, "USESLOT") /\ Slot(f) = s}
        BY <1>3 DEF Steady, Alike
    <3> QED BY <3>1 DEF Data, SlotsAccounted, Steady
  <2> QED BY <2>1 DEF SlotsAccounted
<1>7. WaitsForTransfer'
  <2>1. ASSUME NEW w \in waits' PROVE \E f \in Fetch : Awaits(w, f)'
    <3>1. PICK f \in Fetch : Awaits(w, f)
        BY <2>1 DEF Data, WaitsForTransfer, Steady
    <3> QED BY <3>1, <1>3 DEF Awaits, Steady, Alike
  <2> QED BY <2>1 DEF WaitsForTransfer
<1> QED BY <1>1, <1>2, <1>5, <1>6, <1>7 DEF Data

-----------------------------------------------------------------------------
(* Steps that change one fetch *)

Only(f) == \A g \in Fetch \ {f} : fetch'[g] = fetch[g] /\ driver'[g] = driver[g]

\* f is in the list l afterwards, or in none; the others stay where they are.
Moves(f, l) ==
    /\ lists' \in [Lists -> Seq(Fetch)]
    /\ \A m \in Lists : /\ Once(lists'[m])
                        /\ \A g \in Fetch \ {f} : g \in Range(lists'[m]) <=> g \in Range(lists[m])
                        /\ f \in Range(lists'[m]) <=> m = l

LEMMA ListsNext ==
    ASSUME TypeOK, ListsOK, NEW f \in Fetch, NEW l, Only(f), Moves(f, l),
           Live(f)' <=> l \in Lists, l \in Slots => Slot(f)' = l /\ ~ Running(f)'
    PROVE  ListsOK' /\ \A g \in Fetch \ {f} : InQueue(g)' <=> InQueue(g)
<1>1. \A g \in Fetch \ {f} : /\ InQueue(g)' <=> InQueue(g)
                             /\ Slot(g)' = Slot(g) /\ (Live(g)' <=> Live(g)) /\ (Running(g)' <=> Running(g))
    BY DEF Only, Moves, InQueue, Slot, Live, Running, Has, Lists
<1>2. \A s \in Slots : Range(lists'[s]) \subseteq Fetch
    BY Members DEF Moves, Lists
<1>3. \A m \in Lists : Once(lists'[m])
    BY DEF Moves
<1>4. ASSUME NEW m \in Lists, NEW n \in Lists, NEW g \in Fetch,
             g \in Range(lists'[m]), g \in Range(lists'[n])
      PROVE  m = n
  <2>1. CASE g = f
      BY <2>1, <1>4 DEF Moves
  <2>2. CASE g # f
      BY <2>2, <1>4 DEF Moves, ListsOK
  <2> QED BY <2>1, <2>2
<1>5. ASSUME NEW g \in Fetch PROVE Live(g)' <=> \E m \in Lists : g \in Range(lists'[m])
  <2>1. CASE g = f
      BY <2>1 DEF Moves
  <2>2. CASE g # f
      BY <2>2, <1>1 DEF Moves, ListsOK
  <2> QED BY <2>1, <2>2
<1>6. ASSUME NEW s \in Slots, NEW g \in Range(lists'[s]) PROVE Slot(g)' = s /\ ~ Running(g)'
  <2>1. g \in Fetch
      BY <1>2, <1>6
  <2>2. CASE g = f
      BY <2>2, <1>6 DEF Moves, Lists
  <2>3. CASE g # f
      BY <2>1, <2>3, <1>1, <1>6 DEF Moves, ListsOK, Lists
  <2> QED BY <2>2, <2>3
<1>7. ListsOK'
    BY <1>3, <1>4, <1>5, <1>6 DEF ListsOK
<1> QED BY <1>1, <1>7

\* The slot that f holds, and the fetches that hold one of the kind s.
Holds(f, s) == Live(f) /\ Has(f, "USESLOT") /\ Slot(f) = s
Holders(s) == {f \in Fetch : Holds(f, s)}

LEMMA Holding ==
    /\ SlotsAccounted <=> \A s \in Slots : slots[s] = Cardinality(Holders(s))
    /\ SlotsAccounted' <=> \A s \in Slots : slots'[s] = Cardinality(Holders(s)')
    /\ \A s : IsFiniteSet(Holders(s)) /\ Cardinality(Holders(s)) \in Nat
<1>1. \A s : IsFiniteSet(Holders(s)) /\ Cardinality(Holders(s)) \in Nat
    BY FetchConstants, FS_Subset, FS_CardinalityType DEF Holders
<1>2. SlotsAccounted <=> \A s \in Slots : slots[s] = Cardinality(Holders(s))
    BY DEF SlotsAccounted, Holders, Holds
<1>3. SlotsAccounted' <=> \A s \in Slots : slots'[s] = Cardinality(Holders(s)')
    BY DEF SlotsAccounted, Holders, Holds
<1> QED BY <1>1, <1>2, <1>3

LEMMA SlotStays ==
    ASSUME SlotsAccounted, NEW f \in Fetch, Only(f), slots' = slots,
           \A s \in Slots : Holds(f, s)' <=> Holds(f, s)
    PROVE  SlotsAccounted'
<1>1. ASSUME NEW s \in Slots PROVE Holders(s)' = Holders(s)
    BY DEF Only, Holders, Holds, Live, Has, Slot
<1> QED BY <1>1, Holding

LEMMA SlotIsTaken ==
    ASSUME TypeOK, SlotsAccounted, NEW f \in Fetch, Only(f), NEW k, slots' = SlotTaken(k),
           \A s \in Slots : ~ Holds(f, s), \A s \in Slots : Holds(f, s)' <=> s = k
    PROVE  SlotsAccounted' /\ slots' \in [Slots -> Nat]
<1>0. slots \in [Slots -> Nat]
    BY DEF TypeOK
<1>1. \A s \in Slots : slots'[s] = IF s = k THEN slots[s] + 1 ELSE slots[s]
    BY <1>0 DEF SlotTaken, Slots
<1>2. slots' \in [Slots -> Nat]
  <2>1. CASE k \in Slots
      BY <2>1, <1>0 DEF SlotTaken, Slots
  <2>2. CASE k \notin Slots
    <3>1. slots' = slots
        BY <2>2, <1>0 DEF SlotTaken
    <3> QED BY <3>1, <1>0
  <2> QED BY <2>1, <2>2
<1>3. ASSUME NEW s \in Slots, s = k PROVE Cardinality(Holders(s)') = Cardinality(Holders(s)) + 1
  <2>1. Holders(s)' = Holders(s) \cup {f} /\ f \notin Holders(s)
      BY <1>3 DEF Only, Holders, Holds, Live, Has, Slot
  <2> QED BY <2>1, Holding, FS_AddElement
<1>4. ASSUME NEW s \in Slots, s # k PROVE Holders(s)' = Holders(s)
    BY <1>4 DEF Only, Holders, Holds, Live, Has, Slot
<1> QED BY <1>1, <1>2, <1>3, <1>4, Holding

LEMMA SlotIsFreed ==
    ASSUME TypeOK, SlotsAccounted, NEW f \in Fetch, Only(f), Live(f), slots' = SlotFreed(f),
           \A s \in Slots : ~ Holds(f, s)'
    PROVE  SlotsAccounted' /\ slots' \in [Slots -> Nat]
<1>1. \A s \in Slots : slots'[s] = IF Holds(f, s) THEN slots[s] - 1 ELSE slots[s]
    BY DEF SlotFreed, TypeOK, Slots, Holds
<1>2. ASSUME NEW s \in Slots, Holds(f, s)
      PROVE  /\ Cardinality(Holders(s)') = Cardinality(Holders(s)) - 1
             /\ Cardinality(Holders(s)) > 0
  <2>1. Holders(s)' = Holders(s) \ {f} /\ f \in Holders(s)
      BY <1>2 DEF Only, Holders, Holds, Live, Has, Slot
  <2>2. Cardinality(Holders(s) \ {f}) = Cardinality(Holders(s)) - 1
      BY <2>1, Holding, FS_RemoveElement
  <2>3. Cardinality(Holders(s) \ {f}) \in Nat
      BY Holding, FS_RemoveElement, FS_CardinalityType
  <2> QED BY <2>1, <2>2, <2>3, Holding
<1>3. ASSUME NEW s \in Slots, ~ Holds(f, s) PROVE Holders(s)' = Holders(s)
    BY <1>3 DEF Only, Holders, Holds, Live, Has, Slot
<1>4. ASSUME NEW s \in Slots PROVE slots'[s] = Cardinality(Holders(s)') /\ slots'[s] \in Nat
    BY <1>1, <1>2, <1>3, Holding DEF TypeOK
<1>5. DOMAIN slots' = Slots /\ slots' = [s \in Slots |-> slots'[s]]
    BY DEF SlotFreed, TypeOK
<1> QED BY <1>4, <1>5, Holding

-----------------------------------------------------------------------------
(* What the calls have still to do for a fetch *)

EndsOf(f) == ForgottenOf(f) /\ AskedOf(f) /\ HandledOf(f)
Plain(c) == ~ Closing(c) /\ ~ Clearing(c) /\ c.op # "incompleteend"

LEMMA EndsKept ==
    ASSUME NEW f \in Fetch, EndsOf(f),
           NEW calls \in Seq(CallRecord), NEW rest, Below(rest), todo' = calls \o rest,
           \A c \in Range(todo) : c.fetch = f /\ ~ Plain(c) => c \in Range(rest),
           \A c \in Range(calls) : c.fetch = f => Plain(c),
           Owned(f)' <=> Owned(f), InQueue(f)' <=> InQueue(f), Live(f)' <=> Live(f),
           Running(f)' <=> Running(f), Asked(f)' <=> Asked(f),
           Has(f, "DISPOSED")' <=> Has(f, "DISPOSED")
    PROVE  EndsOf(f)'
<1>1. rest \in Seq(CallRecord) /\ Range(rest) \subseteq Range(todo)
    BY DEF Below
<1>2. Range(todo') = Range(calls) \cup Range(rest)
    BY <1>1, Concatenation
<1>3. ClosesSoon(f)' <=> ClosesSoon(f)
    BY <1>1, <1>2 DEF ClosesSoon, Plain
<1>4. ClearsSoon(f)' <=> ClearsSoon(f)
    BY <1>1, <1>2 DEF ClearsSoon, Plain
<1>5. Answered(f) => Answered(f)'
    BY <1>1, <1>2 DEF Answered, Plain
<1> QED BY <1>3, <1>4, <1>5 DEF EndsOf, ForgottenOf, AskedOf, HandledOf

LEMMA PointersKept ==
    ASSUME Pointers, url' = url,
           \A f \in Fetch : Owned(f) => (Live(f) => Live(f)') /\ fetch'[f].url = fetch[f].url,
           TypeOK
    PROVE  Pointers' /\ \A f : Owned(f)' <=> Owned(f)
<1>1. \A f : Owned(f)' <=> Owned(f)
    BY DEF Owned
<1>2. ASSUME NEW u \in Url PROVE PointersOf(u)'
  <2>1. ASSUME NEW role \in Roles, url[u][role] # NoFetch
        PROVE  Live(url[u][role])' /\ fetch'[url[u][role]].url = u
    <3>1. url[u] \in UrlRecord
        BY DEF TypeOK
    <3>2. url[u][role] \in Fetch
        BY <2>1, <3>1 DEF UrlRecord, Roles
    <3>3. Owned(url[u][role])
        BY <2>1 DEF Owned
    <3> QED BY <2>1, <3>2, <3>3 DEF Pointers, PointersOf
  <2> QED BY <2>1 DEF Pointers, PointersOf
<1> QED BY <1>1, <1>2 DEF Pointers

LEMMA NewfetchKept ==
    ASSUME NEW c, CallOK(c), c.op = "newfetch", url' = url
    PROVE  CallOK(c)'
BY DEF CallOK, FetchOps, UrlOps

\* A step that keeps what is known of every fetch but those of X, and whose calls
\* end only those.
LEMMA StepNext ==
    ASSUME IInv, NEW calls \in Seq(CallRecord), NEW rest, Below(rest), todo' = calls \o rest, NEW X,
           \A g \in Fetch \ X : /\ Same(g)
                                /\ Owned(g) => Owned(g)'
                                /\ Has(g, "DISPOSED")' <=> Has(g, "DISPOSED"),
           \A g \in Fetch \cap X : EndsOf(g)',
           \A c \in Range(todo) : Plain(c) \/ c \in Range(rest) \/ c.fetch \in X,
           \A c \in Range(rest) : c.fetch \in Fetch \cap X => Same(c.fetch),
           \A c \in Range(rest) : c.op = "newfetch" => CallOK(c)',
           \A c \in Range(rest) : c.op = "forward" /\ Has(c.fetch, "POSTNOGOOD")'
                                      => Has(c.fetch, "POSTNOGOOD"),
           \A c \in Range(calls) : CallOK(c)' /\ (Plain(c) \/ c.fetch \in X),
           \A c, d \in Range(calls) : Before(calls, c, d) => PairOK(c, d)',
           \A c \in Range(calls), d \in Range(rest) : PairOK(c, d)'
    PROVE  StackOK' /\ EndsWell' /\ todo' \in Seq(CallRecord)
<1>1. \A g \in Fetch : EndsOf(g)
    BY DEF IInv, EndsWell, EndsOf
<1>2. ASSUME NEW g \in Fetch PROVE EndsOf(g)'
  <2>1. CASE g \in X
      BY <2>1
  <2>2. CASE g \notin X
    <3>1. /\ Owned(g)' <=> Owned(g)
          /\ InQueue(g)' <=> InQueue(g)
          /\ Live(g)' <=> Live(g)
          /\ Running(g)' <=> Running(g)
          /\ Asked(g)' <=> Asked(g)
          /\ Has(g, "DISPOSED")' <=> Has(g, "DISPOSED")
        BY <2>2 DEF Same
    <3>2. /\ \A c \in Range(todo) : c.fetch = g /\ ~ Plain(c) => c \in Range(rest)
          /\ \A c \in Range(calls) : c.fetch = g => Plain(c)
        BY <2>2
    <3> QED BY <3>1, <3>2, <1>1, EndsKept
  <2> QED BY <2>1, <2>2
<1>3. \A c \in Range(rest) : c.fetch # NoFetch => Same(c.fetch)
  <2>1. Range(rest) \subseteq CallRecord
      BY Members DEF Below
  <2> QED BY <2>1 DEF CallRecord
<1>4. StackOK' /\ todo' \in Seq(CallRecord)
    BY <1>3, StackNext DEF IInv, TypeOK
<1> QED BY <1>2, <1>4 DEF EndsWell, EndsOf

\* A step that moves no fetch, and whose calls end only those of X.
LEMMA SteadyNext ==
    ASSUME IInv, Steady, url' = url,
           NEW calls \in Seq(CallRecord), NEW rest, Below(rest), todo' = calls \o rest,
           NEW X, \A f \in Fetch \cap X : EndsOf(f)',
           \A c \in Range(todo) : Plain(c) \/ c \in Range(rest) \/ c.fetch \in X,
           \A c \in Range(rest) : c.op = "forward" /\ Has(c.fetch, "POSTNOGOOD")'
                                      => Has(c.fetch, "POSTNOGOOD"),
           \A c \in Range(calls) : CallOK(c)' /\ (Plain(c) \/ c.fetch \in X),
           \A c, d \in Range(calls) : Before(calls, c, d) => PairOK(c, d)',
           \A c \in Range(calls), d \in Range(rest) : PairOK(c, d)'
    PROVE  Data' /\ Pointers' /\ StackOK' /\ EndsWell' /\ todo' \in Seq(CallRecord)
<1>1. Data' /\ \A f \in Fetch : InQueue(f)' <=> InQueue(f)
    BY SteadyData DEF IInv
<1>2. Pointers' /\ \A f : Owned(f)' <=> Owned(f)
    BY PointersKept DEF IInv, Steady, Alike, Live
<1>3. \A f \in Fetch : Same(f) /\ (Has(f, "DISPOSED")' <=> Has(f, "DISPOSED"))
    BY <1>1, <1>2 DEF Same, Steady, Alike, Live
<1>4. \A c \in Range(rest) : c.op = "newfetch" => CallOK(c)'
  <2>1. Range(rest) \subseteq CallRecord
      BY Members DEF Below
  <2> QED BY <2>1, NewfetchKept DEF IInv, StackOK, Below, CallRecord
<1>5. StackOK' /\ EndsWell' /\ todo' \in Seq(CallRecord)
    BY <1>2, <1>3, <1>4, StepNext
<1> QED BY <1>1, <1>2, <1>5

-----------------------------------------------------------------------------
(* New calls *)

LEMMA Fields ==
    /\ \A op, f, arg :
          LET c == Call(op, f, arg)
          IN  c.op = op /\ c.fetch = f /\ c.url = NoUrl /\ c.arg = arg /\ c.loadflags = "plain"
    /\ \A op, u, arg, flags :
          LET c == CallUrl(op, u, arg, flags)
          IN  c.op = op /\ c.fetch = NoFetch /\ c.url = u /\ c.arg = arg /\ c.loadflags = flags
BY DEF Call, CallUrl

Args == Tags \cup Roles \cup Lists \cup {"kept", "done"}
LEMMA Typed ==
    /\ \A op \in Ops, f \in Fetch \cup {NoFetch}, arg \in Args : Call(op, f, arg) \in CallRecord
    /\ \A op \in Ops, u \in Url, arg \in Args, flags \in LoadFlags :
          CallUrl(op, u, arg, flags) \in CallRecord
BY DEF Call, CallUrl, CallRecord, Args, LoadFlags

LEMMA NewSrcupdate ==
    ASSUME NEW f \in Fetch, NEW tag \in Tags, Live(f)',
           tag # "terminate" => Running(f)' \/ Asked(f)', tag \notin EndTags => Running(f)'
    PROVE  LET c == Call("srcupdate", f, tag) IN
           /\ c \in CallRecord /\ CallOK(c)'
           /\ Plain(c) <=> tag \notin LastTags
           /\ ~ Closing(c)
           /\ \A d : /\ d.op \notin {"updatefetch", "newfetch"}
                     /\ tag \notin EndTags \cup {"error"} => d.op = "reply" /\ d.fetch = f
                     => PairOK(c, d)'
<1> DEFINE c == Call("srcupdate", f, tag)
<1>1. c.op = "srcupdate" /\ c.fetch = f /\ c.arg = tag
    BY Fields
<1>2. c \in CallRecord
    BY Typed DEF Ops, Args
<1> HIDE DEF c
<1>3. CallOK(c)'
    BY <1>1, FetchConstants DEF CallOK, FetchOps, UrlOps
<1>4. (Plain(c) <=> tag \notin LastTags) /\ ~ Closing(c)
    BY <1>1 DEF Plain, Clearing, Closing
<1>5. ASSUME NEW d, d.op \notin {"updatefetch", "newfetch"},
             tag \notin EndTags \cup {"error"} => d.op = "reply" /\ d.fetch = f
      PROVE  PairOK(c, d)'
    BY <1>1, <1>4, <1>5 DEF PairOK, LastOps
<1> QED BY <1>2, <1>3, <1>4, <1>5 DEF c

LEMMA NewDispose ==
    ASSUME NEW f \in Fetch, Live(f)'
    PROVE  LET c == Call("dispose", f, "none") IN
           /\ c \in CallRecord /\ CallOK(c)' /\ Closing(c) /\ ~ Clearing(c)
           /\ \A d : /\ d.op # "updatefetch"
                     /\ d.fetch = f => Running(f)' \/ Asked(f)'
                     /\ d.fetch = f /\ Clearing(d) => ~ Owned(f)'
                     => PairOK(c, d)'
<1> DEFINE c == Call("dispose", f, "none")
<1>1. c.op = "dispose" /\ c.fetch = f
    BY Fields
<1>2. c \in CallRecord
    BY Typed DEF Ops, Args, Tags
<1> HIDE DEF c
<1>3. CallOK(c)'
    BY <1>1, FetchConstants DEF CallOK, FetchOps, UrlOps
<1>4. Closing(c) /\ ~ Clearing(c)
    BY <1>1 DEF Clearing, Closing
<1>5. ASSUME NEW d, d.op # "updatefetch", d.fetch = f => Running(f)' \/ Asked(f)',
             d.fetch = f /\ Clearing(d) => ~ Owned(f)'
      PROVE  PairOK(c, d)'
    BY <1>1, <1>4, <1>5 DEF PairOK, LastOps
<1> QED BY <1>2, <1>3, <1>4, <1>5 DEF c

\* Calls that tell a fetch to end, but do not end it.
LEMMA NewStop ==
    ASSUME NEW f \in Fetch, Live(f)', NEW op \in {"stop", "cancel", "cancellocal", "overflow"}
    PROVE  LET c == Call(op, f, "none") IN
           /\ c \in CallRecord /\ CallOK(c)' /\ Plain(c)
           /\ \A d : /\ d.op \notin {"updatefetch", "newfetch"}
                     /\ op \in {"cancel", "cancellocal"} /\ d.fetch = f => Running(f)'
                     => PairOK(c, d)'
<1> DEFINE c == Call(op, f, "none")
<1>1. c.op = op /\ c.fetch = f
    BY Fields
<1>2. c \in CallRecord
    BY Typed DEF Ops, Args, Tags
<1> HIDE DEF c
<1>3. CallOK(c)'
    BY <1>1, FetchConstants DEF CallOK, FetchOps, UrlOps
<1>4. Plain(c)
    BY <1>1 DEF Plain, Clearing, Closing
<1>5. ASSUME NEW d, d.op \notin {"updatefetch", "newfetch"},
             op \in {"cancel", "cancellocal"} /\ d.fetch = f => Running(f)'
      PROVE  PairOK(c, d)'
    BY <1>1, <1>4, <1>5 DEF PairOK, LastOps, Plain
<1> QED BY <1>2, <1>3, <1>4, <1>5 DEF c

LEMMA NewCheckqueues ==
    LET c == Call("checkqueues", NoFetch, "none") IN
    /\ c \in CallRecord /\ CallOK(c)' /\ Plain(c)
    /\ \A d : /\ d.op \notin {"updatefetch", "newfetch"}
              /\ d.fetch # NoFetch => ~ InQueue(d.fetch)'
              => PairOK(c, d)'
<1> DEFINE c == Call("checkqueues", NoFetch, "none")
<1>1. c.op = "checkqueues" /\ c.fetch = NoFetch
    BY Fields
<1>2. c \in CallRecord
    BY Typed DEF Ops, Args, Tags
<1> HIDE DEF c
<1>3. CallOK(c)'
    BY <1>1 DEF CallOK, FetchOps, UrlOps
<1>4. Plain(c)
    BY <1>1 DEF Plain, Clearing, Closing
<1>5. ASSUME NEW d, d.op \notin {"updatefetch", "newfetch"}, d.fetch # NoFetch => ~ InQueue(d.fetch)'
      PROVE  PairOK(c, d)'
    BY <1>1, <1>4, <1>5 DEF PairOK, LastOps, Plain
<1> QED BY <1>2, <1>3, <1>4, <1>5 DEF c

LEMMA NewForward ==
    ASSUME NEW f \in Fetch, NEW tag \in LastTags, Live(f)', Running(f)', ~ Has(f, "POSTNOGOOD")'
    PROVE  LET c == Call("forward", f, tag) IN
           /\ c \in CallRecord /\ CallOK(c)' /\ ~ Closing(c) /\ Clearing(c)
           /\ \A d : d.op \notin {"updatefetch", "newfetch"} => PairOK(c, d)'
<1> DEFINE c == Call("forward", f, tag)
<1>1. c.op = "forward" /\ c.fetch = f /\ c.arg = tag
    BY Fields
<1>2. c \in CallRecord
    BY Typed DEF Ops, Args, Tags
<1> HIDE DEF c
<1>3. CallOK(c)'
    BY <1>1, FetchConstants DEF CallOK, FetchOps, UrlOps
<1>4. ~ Closing(c) /\ Clearing(c)
    BY <1>1 DEF Clearing, Closing
<1>5. ASSUME NEW d, d.op \notin {"updatefetch", "newfetch"}
      PROVE  PairOK(c, d)'
    BY <1>1, <1>4, <1>5 DEF PairOK, LastOps
<1> QED BY <1>2, <1>3, <1>4, <1>5 DEF c

\* The calls that are last in todo.
LEMMA NewLast ==
    ASSUME NEW f \in Fetch, NEW op \in LastOps, NEW arg \in {"none", "kept", "done"}, Live(f)',
           op \in {"finish", "retryget"} => Running(f)' /\ ~ Drives(f)',
           op = "incompleteend" => Asked(f)' /\ arg # "none"
    PROVE  LET c == Call(op, f, arg) IN
           /\ c \in CallRecord /\ CallOK(c)' /\ ~ Clearing(c)
           /\ Closing(c) <=> op = "finish" \/ (op = "incompleteend" /\ arg = "done")
<1> DEFINE c == Call(op, f, arg)
<1>1. c.op = op /\ c.fetch = f /\ c.arg = arg
    BY Fields
<1>2. c \in CallRecord
    BY Typed DEF Ops, Args, Tags, LastOps
<1> HIDE DEF c
<1>3. CallOK(c)'
    BY <1>1, FetchConstants DEF CallOK, FetchOps, UrlOps, LastOps
<1>4. ~ Clearing(c) /\ (Closing(c) <=> op = "finish" \/ (op = "incompleteend" /\ arg = "done"))
    BY <1>1 DEF Clearing, Closing, LastOps
<1> QED BY <1>2, <1>3, <1>4 DEF c

LEMMA NewCancelfrom ==
    ASSUME NEW f \in Fetch \cup {NoFetch}, NEW l \in Lists, f # NoFetch => Live(f)'
    PROVE  LET c == Call("cancelfrom", f, l) IN
           c \in CallRecord /\ CallOK(c)' /\ Plain(c)
<1> DEFINE c == Call("cancelfrom", f, l)
<1>1. c.op = "cancelfrom" /\ c.fetch = f /\ c.arg = l
    BY Fields
<1>2. c \in CallRecord
    BY Typed DEF Ops, Args
<1> HIDE DEF c
<1>3. CallOK(c)'
    BY <1>1 DEF CallOK, FetchOps, UrlOps
<1>4. Plain(c)
    BY <1>1 DEF Plain, Clearing, Closing
<1> QED BY <1>2, <1>3, <1>4 DEF c

LEMMA NewLoad ==
    ASSUME NEW u \in Url, NEW op \in {"load", "cancelfetch"}, NEW arg, NEW flags \in LoadFlags,
           op = "load" => arg = "none", op = "cancelfetch" => arg \in Roles
    PROVE  LET c == CallUrl(op, u, arg, flags) IN
           /\ c \in CallRecord /\ CallOK(c)' /\ Plain(c)
           /\ \A d : /\ d.op \notin {"updatefetch", "newfetch"}
                     /\ op = "cancelfetch" => d.op = "cancelfetch"
                     /\ op = "load" /\ flags = "reload" => d.op = "reply" /\ fetch'[d.fetch].url # u
                     => PairOK(c, d)'
<1> DEFINE c == CallUrl(op, u, arg, flags)
<1>1. c.op = op /\ c.fetch = NoFetch /\ c.arg = arg /\ c.url = u /\ c.loadflags = flags
    BY Fields
<1>2. c \in CallRecord
    BY Typed DEF Ops, Args, Tags
<1> HIDE DEF c
<1>3. CallOK(c)'
    BY <1>1 DEF CallOK, FetchOps, UrlOps
<1>4. Plain(c)
    BY <1>1 DEF Plain, Clearing, Closing
<1>5. ASSUME NEW d, d.op \notin {"updatefetch", "newfetch"},
             op = "cancelfetch" => d.op = "cancelfetch",
             op = "load" /\ flags = "reload" => d.op = "reply" /\ fetch'[d.fetch].url # u
      PROVE  PairOK(c, d)'
    BY <1>1, <1>4, <1>5 DEF PairOK, LastOps, Plain
<1> QED BY <1>2, <1>3, <1>4, <1>5 DEF c

LEMMA NewNewfetch ==
    ASSUME NEW u \in Url, NEW role \in Roles, NEW flags \in LoadFlags,
           url'[u][role] = NoFetch, url'[u].fetch = NoFetch,
           role = "fetch" => url'[u].rfetch = NoFetch /\ url'[u].vfetch = NoFetch
    PROVE  LET c == CallUrl("newfetch", u, role, flags) IN
           /\ c \in CallRecord /\ CallOK(c)' /\ Plain(c)
           /\ \A d : /\ d.op \notin {"updatefetch"}
                     /\ d.op = "newfetch" => d.url = u /\ role # "fetch" /\ d.arg \notin {"fetch", role}
                     => PairOK(c, d)'
<1> DEFINE c == CallUrl("newfetch", u, role, flags)
<1>1. c.op = "newfetch" /\ c.fetch = NoFetch /\ c.arg = role /\ c.url = u /\ c.loadflags = flags
    BY Fields
<1>2. c \in CallRecord
    BY Typed DEF Ops, Args, Tags
<1> HIDE DEF c
<1>3. CallOK(c)'
    BY <1>1 DEF CallOK, FetchOps, UrlOps
<1>4. Plain(c)
    BY <1>1 DEF Plain, Clearing, Closing
<1>5. ASSUME NEW d, d.op \notin {"updatefetch"},
             d.op = "newfetch" => d.url = u /\ role # "fetch" /\ d.arg \notin {"fetch", role}
      PROVE  PairOK(c, d)'
    BY <1>1, <1>4, <1>5 DEF PairOK, LastOps, Plain
<1> QED BY <1>2, <1>3, <1>4, <1>5 DEF c


LEMMA NoCalls ==
    <<>> \in Seq(CallRecord) /\ Range(<<>>) = {} /\ \A c, d : ~ Before(<<>>, c, d)
BY NoMembers, EmptySeq

LEMMA IfCalls ==
    ASSUME NEW cond \in BOOLEAN, NEW x, cond => x \in CallRecord
    PROVE  /\ If(cond, x) \in Seq(CallRecord)
           /\ \A c : c \in Range(If(cond, x)) <=> cond /\ c = x
           /\ \A c, d : ~ Before(If(cond, x), c, d)
<1>1. CASE cond
    BY <1>1, OneMember DEF If
<1>2. CASE ~ cond
    BY <1>2, NoCalls DEF If
<1> QED BY <1>1, <1>2

LEMMA OneCall ==
    ASSUME NEW a \in CallRecord
    PROVE  <<a>> \in Seq(CallRecord) /\ Range(<<a>>) = {a} /\ \A c, d : ~ Before(<<a>>, c, d)
BY OneMember

LEMMA TwoCalls ==
    ASSUME NEW a \in CallRecord, NEW b \in CallRecord
    PROVE  /\ <<a, b>> \in Seq(CallRecord) /\ Range(<<a, b>>) = {a, b}
           /\ \A c, d : Before(<<a, b>>, c, d) => c = a /\ d = b
<1> DEFINE s == <<a, b>>
<1>1. s \in Seq(CallRecord) /\ DOMAIN s = 1 .. 2 /\ s[1] = a /\ s[2] = b
    OBVIOUS
<1> HIDE DEF s
<1>2. 1 .. 2 = {1, 2}
    OBVIOUS
<1>3. Range(s) = {a, b}
    BY <1>1, <1>2 DEF Range
<1>4. \A c, d : Before(s, c, d) => c = a /\ d = b
    BY <1>1, <1>2 DEF Before
<1> QED BY <1>1, <1>3, <1>4 DEF s

LEMMA ThreeCalls ==
    ASSUME NEW a \in CallRecord, NEW b \in CallRecord, NEW e \in CallRecord
    PROVE  /\ <<a, b, e>> \in Seq(CallRecord) /\ Range(<<a, b, e>>) = {a, b, e}
           /\ \A c, d : Before(<<a, b, e>>, c, d) => (c = a /\ d \in {b, e}) \/ (c = b /\ d = e)
<1> DEFINE s == <<a, b, e>>
<1>1. s \in Seq(CallRecord) /\ DOMAIN s = 1 .. 3 /\ s[1] = a /\ s[2] = b /\ s[3] = e
    OBVIOUS
<1> HIDE DEF s
<1>2. 1 .. 3 = {1, 2, 3}
    OBVIOUS
<1>3. Range(s) = {a, b, e}
    BY <1>1, <1>2 DEF Range
<1>4. \A c, d : Before(s, c, d) => (c = a /\ d \in {b, e}) \/ (c = b /\ d = e)
    BY <1>1, <1>2 DEF Before
<1> QED BY <1>1, <1>3, <1>4 DEF s

-----------------------------------------------------------------------------
(* The drivers *)

LEMMA Made ==
    ASSUME IInv, todo # <<>>
    PROVE  /\ Head(todo) \in CallRecord /\ CallOK(Head(todo))
           /\ Below(Tail(todo)) /\ Below(todo)
           /\ Range(todo) = {Head(todo)} \cup Range(Tail(todo))
           /\ Range(Tail(todo)) \subseteq CallRecord
           /\ \A d \in Range(Tail(todo)) : CallOK(d) /\ PairOK(Head(todo), d)
BY HeadFacts, Belows DEF IInv, TypeOK

\* The step leaves main where it is.
LEMMA SteadyOnly ==
    ASSUME IInv, Steady, url' = url, todo' = todo,
           \A f \in Fetch : Has(f, "POSTNOGOOD")' <=> Has(f, "POSTNOGOOD")
    PROVE  Data' /\ Pointers' /\ StackOK' /\ EndsWell'
<1>1. todo \in Seq(CallRecord) /\ Below(todo)
    BY Belows DEF IInv, TypeOK
<1>2. todo' = <<>> \o todo
  <2>1. <<>> \o todo = todo
      BY <1>1, ConcatEmptySeq
  <2> QED BY <2>1
<1>3. \A c \in Range(todo) : c.op = "forward" => c.fetch \in Fetch
    BY DEF IInv, StackOK, CallOK, FetchOps
<1> QED BY <1>1, <1>2, <1>3, NoCalls, SteadyNext

LEMMA SendsNext ==
    ASSUME IInv, NEW f \in Fetch, NEW tag \in Tags, Sends(f, tag), url' = url
    PROVE  IInv'
<1>1. driver \in [Fetch -> DriverRecord] /\ driver[f] \in DriverRecord /\ MaxUpdates \in Nat
    BY FetchConstants DEF IInv, TypeOK
<1>2. /\ driver' = [driver EXCEPT ![f].at = "update", ![f].tag = tag, ![f].sent = driver[f].sent + 1]
      /\ driver[f].at = "run" /\ driver[f].sent < MaxUpdates /\ tag \in DriverTags(f)
      /\ UNCHANGED <<fetch, lists, slots, prefs, waits, todo>>
    BY DEF Sends
<1>3. driver' \in [Fetch -> DriverRecord]
    BY <1>1, <1>2 DEF DriverRecord
<1>4. TypeOK'
    BY <1>2, <1>3 DEF IInv, TypeOK
<1>5. tag \notin LastTags
    BY <1>2 DEF DriverTags, LastTags
<1>6. \A g \in Fetch : Alike(g)
  <2>1. ASSUME NEW g \in Fetch, g # f PROVE driver'[g] = driver[g]
      BY <2>1, <1>1, <1>2
  <2>2. driver'[f].at = "update" /\ driver'[f].tag = tag
      BY <1>1, <1>2 DEF DriverRecord
  <2> QED BY <1>2, <1>5, <2>1, <2>2 DEF Alike, Running, Asked, Has, Live, Drives, IInv, Data, FlagsOf
<1>7. Steady
    BY <1>2, <1>6 DEF Steady
<1>8. Data' /\ Pointers' /\ StackOK' /\ EndsWell'
    BY <1>2, <1>7, SteadyOnly DEF Has
<1> QED BY <1>4, <1>8 DEF IInv

LEMMA EndsNext ==
    ASSUME IInv, NEW f \in Fetch, NEW tag \in Tags, Ends(f, tag), url' = url
    PROVE  IInv'
<1>1. driver \in [Fetch -> DriverRecord] /\ driver[f] \in DriverRecord
    BY DEF IInv, TypeOK
<1>2. /\ driver' = [driver EXCEPT ![f] = [driver[f] EXCEPT
                       !.at = IF EndsSilently(f) THEN "ended" ELSE "last",
                       !.tag = IF EndsSilently(f) THEN driver[f].tag ELSE tag]]
      /\ driver[f].at = "run"
      /\ UNCHANGED <<fetch, lists, slots, prefs, waits, todo>>
    BY <1>1 DEF Ends, DriverRecord
<1>3. driver' \in [Fetch -> DriverRecord]
    BY <1>1, <1>2 DEF DriverRecord
<1>4. TypeOK'
    BY <1>2, <1>3 DEF IInv, TypeOK
<1>5. \A g \in Fetch : Alike(g)
  <2>1. ASSUME NEW g \in Fetch, g # f PROVE driver'[g] = driver[g]
      BY <2>1, <1>1, <1>2
  <2>2. driver'[f].at \in {"ended", "last"}
      BY <1>1, <1>2 DEF DriverRecord
  <2> QED BY <1>2, <2>1, <2>2 DEF Alike, Running, Asked, Has, Live, Drives, IInv, Data, FlagsOf
<1>6. Steady
    BY <1>2, <1>5 DEF Steady
<1>7. Data' /\ Pointers' /\ StackOK' /\ EndsWell'
    BY <1>2, <1>6, SteadyOnly DEF Has
<1> QED BY <1>4, <1>7 DEF IInv

LEMMA DriverFacts ==
    ASSUME IInv, NEW f \in Fetch, Drives(f)
    PROVE  Live(f) /\ Running(f) /\ Has(f, "USESLOT") /\ ~ InQueue(f)
<1>1. Running(f) /\ Has(f, "USESLOT")
    BY DEF IInv, Data, FlagsOf
<1>2. Live(f)
    BY <1>1 DEF IInv, Data, FlagsOf, Running, Has
<1>3. ~ InQueue(f)
    BY <1>1 DEF IInv, Data, ListsOK, InQueue
<1> QED BY <1>1, <1>2, <1>3

LEMMA TakesNext ==
    ASSUME IInv, NEW f \in Fetch, Takes(f), url' = url
    PROVE  IInv'
<1>1. driver \in [Fetch -> DriverRecord] /\ driver[f] \in DriverRecord
    BY DEF IInv, TypeOK
<1>2. PICK tag \in Tags : tag = driver[f].tag
    BY <1>1 DEF DriverRecord
<1>3. PICK update \in BOOLEAN : update <=> driver[f].at = "update"
    OBVIOUS
<1> DEFINE first == Call("updatefetch", f, tag)
           last == Call("reply", f, "none")
           calls == <<first>> \o If(update, last)
<1>4. /\ driver' = [driver EXCEPT ![f].at = IF driver[f].at = "last" THEN "ended" ELSE "served",
                                  ![f].tag = IF tag = "error" THEN tag ELSE "none"]
      /\ driver[f].at \in {"update", "last"} /\ Idle /\ todo' = calls
      /\ UNCHANGED <<fetch, lists, slots, prefs, waits>>
    BY <1>2, <1>3 DEF Takes, If
<1>5. driver' \in [Fetch -> DriverRecord]
    BY <1>1, <1>4 DEF DriverRecord, Tags
<1>6. driver'[f].at \in {"ended", "served"}
    BY <1>1, <1>4 DEF DriverRecord
<1>7. \A g \in Fetch : Alike(g)
  <2>1. ASSUME NEW g \in Fetch, g # f PROVE driver'[g] = driver[g]
      BY <2>1, <1>1, <1>4
  <2> QED BY <1>4, <1>6, <2>1 DEF Alike, Running, Asked, Has, Live, Drives, IInv, Data, FlagsOf
<1>8. Steady
    BY <1>4, <1>7 DEF Steady
<1>9. Live(f)' /\ Drives(f)'
  <2>1. Live(f)
      BY <1>4, DriverFacts DEF Drives
  <2> QED BY <2>1, <1>4, <1>6 DEF Live, Drives
<1>10. /\ first.op = "updatefetch" /\ first.fetch = f /\ first.arg = tag
       /\ last.op = "reply" /\ last.fetch = f
    BY Fields
<1>11. first \in CallRecord
    BY Typed DEF Ops, Args
<1>12. last \in CallRecord /\ CallOK(last)' /\ Plain(last)
    BY <1>9, <1>10, NewLast DEF LastOps, Plain
<1> HIDE DEF first, last
<1>13. CallOK(first)' /\ Plain(first)
  <2>1. CallOK(first)'
      BY <1>10, <1>9, FetchConstants DEF CallOK, FetchOps, UrlOps
  <2> QED BY <2>1, <1>10 DEF Plain, Closing, Clearing
<1>14. update => PairOK(first, last)'
  <2>1. tag \notin LastTags \/ ~ update
      BY <1>2, <1>3 DEF IInv, Data, FlagsOf
  <2> QED BY <2>1, <1>10 DEF PairOK, LastOps, Closing
<1>15. /\ calls \in Seq(CallRecord) /\ Range(calls) \subseteq {first, last}
       /\ \A c, d : Before(calls, c, d) => update /\ c = first /\ d = last
  <2>1. /\ If(update, last) \in Seq(CallRecord)
        /\ \A c : c \in Range(If(update, last)) <=> update /\ c = last
        /\ \A c, d : ~ Before(If(update, last), c, d)
      BY <1>12, IfCalls
  <2>2. <<first>> \in Seq(CallRecord) /\ Range(<<first>>) = {first} /\ \A c, d : ~ Before(<<first>>, c, d)
      BY <1>11, OneCall
  <2>3. /\ calls \in Seq(CallRecord) /\ Range(calls) = Range(<<first>>) \cup Range(If(update, last))
        /\ \A c, d : Before(calls, c, d) <=>
               \/ Before(<<first>>, c, d) \/ Before(If(update, last), c, d)
               \/ c \in Range(<<first>>) /\ d \in Range(If(update, last))
    <3>1. <<first>> \in Seq(CallRecord) /\ If(update, last) \in Seq(CallRecord)
        BY <2>1, <2>2
    <3> QED BY <3>1, Concatenation
  <2> HIDE DEF calls
  <2> QED BY <2>1, <2>2, <2>3
<1> HIDE DEF calls
<1>16. todo' = calls \o <<>> /\ Below(<<>>)
    BY <1>4, <1>15, ConcatEmptySeq, Belows DEF IInv, TypeOK
<1>17. Range(todo) = {} /\ Range(<<>>) = {}
    BY <1>4, NoCalls DEF Idle
<1>18. /\ \A c \in Range(calls) : CallOK(c)' /\ Plain(c)
       /\ \A c, d \in Range(calls) : Before(calls, c, d) => PairOK(c, d)'
    BY <1>12, <1>13, <1>14, <1>15
<1>19. Data' /\ Pointers' /\ StackOK' /\ EndsWell' /\ todo' \in Seq(CallRecord)
    BY <1>4, <1>8, <1>15, <1>16, <1>17, <1>18, SteadyNext
<1>20. TypeOK'
    BY <1>4, <1>5, <1>19 DEF IInv, TypeOK
<1> QED BY <1>19, <1>20 DEF IInv

-----------------------------------------------------------------------------
(* Calls that move no fetch *)

LEMMA SteadyCall ==
    ASSUME IInv, todo # <<>>, Plain(Head(todo)), Steady, url' = url,
           \A f \in Fetch : Has(f, "POSTNOGOOD")' <=> Has(f, "POSTNOGOOD"),
           NEW calls \in Seq(CallRecord), Becomes(calls),
           \A c \in Range(calls) : CallOK(c)' /\ Plain(c),
           \A c, d \in Range(calls) : Before(calls, c, d) => PairOK(c, d)',
           \A c \in Range(calls), d \in Range(Tail(todo)) : PairOK(c, d)'
    PROVE  Data' /\ Pointers' /\ StackOK' /\ EndsWell' /\ todo' \in Seq(CallRecord)
<1>1. /\ Below(Tail(todo)) /\ todo' = calls \o Tail(todo)
      /\ \A c \in Range(todo) : Plain(c) \/ c \in Range(Tail(todo)) \/ c.fetch \in {}
    BY Made DEF Becomes
<1>2. \A c \in Range(Tail(todo)) : c.op = "forward" => c.fetch \in Fetch
    BY Made DEF CallOK, FetchOps
<1>3. /\ \A c \in Range(Tail(todo)) : c.op = "forward" /\ Has(c.fetch, "POSTNOGOOD")'
                                           => Has(c.fetch, "POSTNOGOOD")
      /\ \A f \in Fetch \cap {} : EndsOf(f)'
      /\ \A c \in Range(calls) : CallOK(c)' /\ (Plain(c) \/ c.fetch \in {})
    BY <1>2
<1> QED BY <1>1, <1>3, SteadyNext

\* Nothing follows the calls that are last.
LEMMA LastIsLast ==
    ASSUME IInv, todo # <<>>, Head(todo).op \in LastOps \cup {"cancelfrom"}
    PROVE  Tail(todo) = <<>> /\ Range(Tail(todo)) = {} /\ Range(todo) = {Head(todo)}
<1>1. Range(Tail(todo)) = {}
    BY Made DEF PairOK
<1>2. Tail(todo) \in Seq(CallRecord)
    BY Made DEF Below
<1> QED BY <1>1, <1>2, Members, Made

LEMMA RestIsPlain ==
    ASSUME IInv, todo # <<>>, Head(todo).op \notin {"dispose", "newfetch"}
    PROVE  \A d \in Range(Tail(todo)) : d.op \notin {"updatefetch", "newfetch"}
BY Made DEF PairOK

LEMMA StopIsSteady ==
    ASSUME IInv, NEW f \in Fetch
    PROVE  /\ Stopped(f) \in [Fetch -> DriverRecord]
           /\ \A g \in Fetch : /\ Stopped(f)[g].at = driver[g].at
                               /\ Stopped(f)[g].tag = driver[g].tag
                               /\ g # f => Stopped(f)[g] = driver[g]
<1>1. driver \in [Fetch -> DriverRecord]
    BY DEF IInv, TypeOK
<1> QED BY <1>1 DEF Stopped, DriverRecord

LEMMA RepliesNext ==
    ASSUME IInv, Replies, url' = url
    PROVE  IInv'
<1>1. todo # <<>> /\ Head(todo).op = "reply"
    BY DEF Replies, Calls, Idle
<1>2. PICK f \in Fetch : f = This
    BY <1>1, Made DEF CallOK, FetchOps, This
<1>3. driver \in [Fetch -> DriverRecord] /\ driver[f] \in DriverRecord
    BY DEF IInv, TypeOK
<1>4. /\ driver' = [driver EXCEPT ![f].at = IF driver[f].at = "served" THEN "run" ELSE driver[f].at]
      /\ Becomes(<<>>) /\ UNCHANGED <<fetch, lists, slots, prefs, waits>>
    BY <1>2 DEF Replies
<1>5. driver' \in [Fetch -> DriverRecord]
    BY <1>3, <1>4 DEF DriverRecord
<1>6. \A g \in Fetch : Alike(g)
  <2>1. ASSUME NEW g \in Fetch, g # f PROVE driver'[g] = driver[g]
      BY <2>1, <1>3, <1>4
  <2>2. /\ driver'[f].at = "none" <=> driver[f].at = "none"
        /\ driver'[f].at = "update" <=> driver[f].at = "update"
        /\ driver'[f].tag = driver[f].tag
      BY <1>3, <1>4 DEF DriverRecord
  <2> QED BY <1>4, <2>1, <2>2 DEF Alike, Running, Asked, Has, Live, Drives, IInv, Data, FlagsOf
<1>7. Steady
    BY <1>4, <1>6 DEF Steady
<1>8. Plain(Head(todo))
    BY <1>1 DEF Plain, Closing, Clearing
<1>9. Data' /\ Pointers' /\ StackOK' /\ EndsWell' /\ todo' \in Seq(CallRecord)
    BY <1>1, <1>4, <1>7, <1>8, NoCalls, SteadyCall DEF Has
<1>10. TypeOK'
    BY <1>4, <1>5, <1>9 DEF IInv, TypeOK
<1> QED BY <1>9, <1>10 DEF IInv

LEMMA StopNext ==
    ASSUME IInv, Stop, url' = url
    PROVE  IInv'
<1>1. todo # <<>> /\ Head(todo).op = "stop"
    BY DEF Stop, Calls, Idle
<1>2. PICK f \in Fetch : f = This
    BY <1>1, Made DEF CallOK, FetchOps, This
<1>3. /\ driver' = Stopped(f)
      /\ Becomes(<<>>) /\ UNCHANGED <<fetch, lists, slots, prefs, waits>>
    BY <1>2 DEF Stop
<1>4. Steady
  <2>1. ASSUME NEW g \in Fetch PROVE Alike(g)
      BY <1>3, StopIsSteady DEF Alike, Running, Asked, Has, Live, Drives, IInv, Data, FlagsOf
  <2> QED BY <1>3, <2>1 DEF Steady
<1>5. Plain(Head(todo))
    BY <1>1 DEF Plain, Closing, Clearing
<1>6. Data' /\ Pointers' /\ StackOK' /\ EndsWell' /\ todo' \in Seq(CallRecord)
    BY <1>1, <1>3, <1>4, <1>5, NoCalls, SteadyCall DEF Has
<1>7. TypeOK'
    BY <1>3, <1>6, StopIsSteady DEF IInv, TypeOK
<1> QED BY <1>6, <1>7 DEF IInv

\* A step that changes nothing but what is still to do.
LEMMA NothingMoves ==
    ASSUME IInv, UNCHANGED <<fetch, driver, lists, slots, waits>>
    PROVE  Steady /\ \A f \in Fetch : Has(f, "POSTNOGOOD")' <=> Has(f, "POSTNOGOOD")
BY DEF Steady, Alike, Running, Asked, Has, Live, Drives, IInv, Data, FlagsOf

LEMMA AddwaitrequestNext ==
    ASSUME IInv, NEW u \in Url \cup {NoUrl}, Addwaitrequest(u), url' = url
    PROVE  IInv'
<1>1. /\ waits' = Checkwaitrequests(waits \cup {u}, Listed)
      /\ UNCHANGED <<fetch, driver, lists, slots, prefs, todo>>
    BY DEF Addwaitrequest
<1>2. ASSUME NEW w \in waits' PROVE \E f \in Fetch : Awaits(w, f)
  <2>1. PICK f \in Listed : w \in {NoUrl, fetch[f].url}
      BY <1>1, <1>2 DEF Checkwaitrequests, Matching
  <2>2. PICK l \in Lists : f \in Range(lists[l])
      BY <2>1, Zenon DEF Listed
  <2>3. f \in Fetch
    <3>1. lists[l] \in Seq(Fetch)
        BY DEF IInv, TypeOK
    <3> QED BY <2>2, <3>1, Members
  <2>4. Live(f)
      BY <2>2, <2>3 DEF IInv, Data, ListsOK
  <2> QED BY <2>1, <2>3, <2>4 DEF Awaits
<1>3. Steady /\ \A f \in Fetch : Has(f, "POSTNOGOOD")' <=> Has(f, "POSTNOGOOD")
    BY <1>1, <1>2 DEF Steady, Alike, Running, Asked, Has, Live, Drives, IInv, Data, FlagsOf
<1>4. Data' /\ Pointers' /\ StackOK' /\ EndsWell'
    BY <1>1, <1>3, SteadyOnly
<1>5. waits' \subseteq Url \cup {NoUrl}
    BY <1>1 DEF IInv, TypeOK, Checkwaitrequests
<1>6. TypeOK'
    BY <1>1, <1>5 DEF IInv, TypeOK
<1> QED BY <1>4, <1>6 DEF IInv

LEMMA SetprefsNext ==
    ASSUME IInv, NEW choice \in PrefsChoices, Setprefs(choice), url' = url
    PROVE  IInv'
<1>1. prefs' = choice /\ UNCHANGED <<fetch, driver, lists, slots, waits, todo>>
    BY DEF Setprefs
<1>2. Data' /\ Pointers' /\ StackOK' /\ EndsWell'
    BY <1>1, NothingMoves, SteadyOnly
<1>3. TypeOK'
    BY <1>1 DEF IInv, TypeOK
<1> QED BY <1>2, <1>3 DEF IInv

-----------------------------------------------------------------------------
(* Cancelling *)

LEMMA PointersAre ==
    ASSUME IInv, NEW u \in Url, NEW role \in Roles \cup {"push"}, url[u][role] # NoFetch
    PROVE  /\ url[u][role] \in Fetch /\ Live(url[u][role]) /\ fetch[url[u][role]].url = u
           /\ Owned(url[u][role])
<1>1. url[u] \in UrlRecord
    BY DEF IInv, TypeOK
<1>2. \A r \in Roles : url[u][r] \in Fetch \cup {NoFetch}
    BY <1>1 DEF UrlRecord, Roles
<1>3. \E r \in Roles : url[u][role] = url[u][r]
    BY DEF IInv, Pointers, PointersOf, Roles
<1> QED BY <1>2, <1>3 DEF Owned, IInv, Pointers, PointersOf

LEMMA CancelpointerNext ==
    ASSUME IInv, Cancelpointer
    PROVE  IInv'
<1>1. todo # <<>> /\ Head(todo).op = "cancelfetch" /\ UNCHANGED <<fetchvars, url>>
    BY DEF Cancelpointer, Calls, Idle
<1>2. PICK u \in Url, role \in Roles : u = Head(todo).url /\ role = Arg
    BY <1>1, Made DEF CallOK, UrlOps, Arg
<1>3. PICK p : p = url[u][role]
    OBVIOUS
<1>4. Becomes(CallIf(p, "cancel"))
    BY <1>2, <1>3 DEF Cancelpointer
<1>5. p # NoFetch => p \in Fetch /\ Live(p)
    BY <1>3, PointersAre
<1>6. Steady /\ \A f \in Fetch : Has(f, "POSTNOGOOD")' <=> Has(f, "POSTNOGOOD")
    BY <1>1, NothingMoves DEF fetchvars
<1>7. Plain(Head(todo))
    BY <1>1 DEF Plain, Closing, Clearing
<1> DEFINE c == Call("cancel", p, "none")
<1>8. p # NoFetch =>
         /\ c \in CallRecord /\ CallOK(c)' /\ Plain(c)
         /\ \A d : /\ d.op \notin {"updatefetch", "newfetch"}
                   /\ d.fetch = p => Running(p)'
                   => PairOK(c, d)'
  <2>1. SUFFICES ASSUME p # NoFetch, p \in Fetch, Live(p)
                 PROVE  /\ c \in CallRecord /\ CallOK(c)' /\ Plain(c)
                        /\ \A d : /\ d.op \notin {"updatefetch", "newfetch"}
                                  /\ d.fetch = p => Running(p)'
                                  => PairOK(c, d)'
      BY <1>5
  <2>2. Live(p)'
      BY <1>1, <2>1 DEF Live, fetchvars
  <2> HIDE DEF c
  <2> QED BY <2>1, <2>2, NewStop DEF c
<1>9. \A d \in Range(Tail(todo)) : p # NoFetch => PairOK(c, d)'
  <2>1. \A d \in Range(Tail(todo)) : d.op = "cancelfetch" /\ d.fetch = NoFetch
      BY <1>1, Made DEF PairOK, CallOK, UrlOps
  <2> HIDE DEF c
  <2> QED BY <2>1, <1>8
<1> HIDE DEF c
<1>10. PICK b \in BOOLEAN : b <=> p # NoFetch
    OBVIOUS
<1>11. CallIf(p, "cancel") = If(b, c)
    BY <1>10 DEF CallIf, c, If
<1>12. /\ If(b, c) \in Seq(CallRecord)
       /\ \A d : d \in Range(If(b, c)) <=> b /\ d = c
       /\ \A d, e : ~ Before(If(b, c), d, e)
    BY <1>8, <1>10, IfCalls
<1>13. Becomes(If(b, c))
    BY <1>4, <1>11
<1>14. Data' /\ Pointers' /\ StackOK' /\ EndsWell' /\ todo' \in Seq(CallRecord)
    BY <1>1, <1>6, <1>7, <1>8, <1>9, <1>10, <1>12, <1>13, SteadyCall
<1>15. TypeOK'
    BY <1>1, <1>14 DEF IInv, TypeOK, fetchvars
<1> QED BY <1>14, <1>15 DEF IInv

LEMMA ListFacts ==
    ASSUME IInv, NEW l \in Lists
    PROVE  /\ lists[l] \in Seq(Fetch) /\ Once(lists[l]) /\ Range(lists[l]) \subseteq Fetch
           /\ \A f \in Range(lists[l]) : Live(f)
<1>1. lists[l] \in Seq(Fetch) /\ Once(lists[l])
    BY DEF IInv, TypeOK, Data, ListsOK
<1>2. Range(lists[l]) \subseteq Fetch
    BY <1>1, Members
<1> QED BY <1>1, <1>2 DEF IInv, Data, ListsOK

\* The walk of Cancelwindowfetches goes on with a fetch that is live, and not
\* the one that it cancels first.
LEMMA WalkGoesOn ==
    ASSUME IInv, NEW f \in Fetch, Live(f)
    PROVE  Successor(f) = NoFetch \/ (Successor(f) \in Fetch \ {f} /\ Live(Successor(f)))
<1>1. \E l \in Lists : f \in Range(lists[l])
    BY DEF IInv, Data, ListsOK
<1>2. ListOf(f) \in Lists /\ f \in Range(lists[ListOf(f)])
    BY <1>1 DEF ListOf
<1>3. PICK l \in Lists : l = ListOf(f) /\ f \in Range(lists[l])
    BY <1>2
<1>4. PICK seq : seq = lists[l] /\ seq \in Seq(Fetch) /\ Once(seq) /\ f \in Range(seq)
    BY <1>3, ListFacts
<1>5. PICK i : i = Position(seq, f) /\ i \in DOMAIN seq /\ seq[i] = f
    BY <1>4 DEF Range, Position
<1>6. Successor(f) = IF i < Len(seq) THEN seq[i + 1] ELSE NoFetch
    BY <1>3, <1>4, <1>5 DEF Successor
<1>7. i < Len(seq) => i + 1 \in DOMAIN seq /\ i + 1 # i
    BY <1>4, <1>5
<1>8. i < Len(seq) => seq[i + 1] # f /\ seq[i + 1] \in Range(seq)
    BY <1>4, <1>5, <1>7 DEF Once, Range
<1> QED BY <1>3, <1>4, <1>6, <1>8, ListFacts

LEMMA ListIsCancelled ==
    ASSUME IInv, NEW l \in Lists, fetch' = fetch
    PROVE  \E c \in CallRecord : c = CancelList(l) /\ CallOK(c)' /\ Plain(c)
<1>1. PICK f : f = IF lists[l] = <<>> THEN NoFetch ELSE Head(lists[l])
    OBVIOUS
<1>2. f \in Fetch \cup {NoFetch} /\ (f # NoFetch => Live(f)')
  <2>1. lists[l] # <<>> => Head(lists[l]) \in Range(lists[l])
      BY ListFacts, HeadAndTail
  <2> QED BY <1>1, <2>1, ListFacts DEF Live
<1> DEFINE c == Call("cancelfrom", f, l)
<1>3. c = CancelList(l)
    BY <1>1 DEF CancelList
<1>4. c \in CallRecord /\ CallOK(c)' /\ Plain(c)
    BY <1>2, NewCancelfrom
<1> HIDE DEF c
<1> QED BY <1>3, <1>4

LEMMA CancelwindowfetchesNext ==
    ASSUME IInv, Cancelwindowfetches, url' = url
    PROVE  IInv'
<1>1. todo # <<>> /\ Head(todo).op = "cancelfrom" /\ UNCHANGED <<fetch, driver, lists, slots, prefs, waits>>
    BY DEF Cancelwindowfetches, Calls, Idle
<1>2. Range(Tail(todo)) = {}
    BY <1>1, LastIsLast
<1>3. PICK l \in Lists : l = Arg
    BY <1>1, Made DEF CallOK, Arg
<1>4. Steady /\ \A f \in Fetch : Has(f, "POSTNOGOOD")' <=> Has(f, "POSTNOGOOD")
    BY <1>1, NothingMoves
<1>5. Plain(Head(todo))
    BY <1>1 DEF Plain, Closing, Clearing
<1>6. ASSUME NEW calls \in Seq(CallRecord), Becomes(calls),
             \A c \in Range(calls) : CallOK(c)' /\ Plain(c),
             \A c, d \in Range(calls) : Before(calls, c, d) => PairOK(c, d)'
      PROVE  IInv'
  <2>1. Data' /\ Pointers' /\ StackOK' /\ EndsWell' /\ todo' \in Seq(CallRecord)
      BY <1>1, <1>2, <1>4, <1>5, <1>6, SteadyCall
  <2>2. TypeOK'
      BY <1>1, <2>1 DEF IInv, TypeOK
  <2> QED BY <2>1, <2>2 DEF IInv
<1>7. CASE This = NoFetch
  <2>1. \/ Becomes(<<CancelList("net")>>)
        \/ Becomes(<<CancelList("local")>>)
        \/ Becomes(<<>>)
      BY <1>7, <1>3 DEF Cancelwindowfetches, Lists, Slots
  <2>2. ASSUME NEW m \in Lists, Becomes(<<CancelList(m)>>) PROVE IInv'
    <3>1. PICK c \in CallRecord : c = CancelList(m) /\ CallOK(c)' /\ Plain(c)
        BY <1>1, ListIsCancelled
    <3>2. Becomes(<<c>>)
        BY <2>2, <3>1
    <3> QED BY <3>1, <3>2, <1>6, OneCall
  <2>3. CASE Becomes(<<>>)
      BY <2>3, <1>6, NoCalls
  <2> QED BY <2>1, <2>2, <2>3 DEF Lists, Slots
<1>8. CASE This # NoFetch
  <2>1. PICK f \in Fetch : f = This /\ Live(f)
      BY <1>1, <1>8, Made DEF This, CallOK, CallRecord
  <2>2. PICK g : g = Successor(f) /\ g \in Fetch \cup {NoFetch} /\ g # f /\ (g # NoFetch => Live(g))
      BY <2>1, <1>8, WalkGoesOn
  <2>3. Live(f)' /\ (g # NoFetch => Live(g)')
      BY <1>1, <2>1, <2>2 DEF Live
  <2> DEFINE c == Call("cancel", f, "none")
             d == Call("cancelfrom", g, l)
  <2>4. /\ c \in CallRecord /\ CallOK(c)' /\ Plain(c)
        /\ \A e : /\ e.op \notin {"updatefetch", "newfetch"} /\ e.fetch # f
                  => PairOK(c, e)'
      BY <2>1, <2>3, NewStop
  <2>5. d \in CallRecord /\ CallOK(d)' /\ Plain(d)
      BY <2>2, <2>3, NewCancelfrom
  <2>6. d.op = "cancelfrom" /\ d.fetch = g
      BY Fields
  <2>7. PICK b \in BOOLEAN : b <=> ~ Has(f, "CANCELLED")
      OBVIOUS
  <2>8. Becomes(If(b, c) \o <<d>>)
      BY <1>3, <1>8, <2>1, <2>2, <2>7 DEF Cancelwindowfetches, If
  <2> HIDE DEF c, d
  <2>9. /\ If(b, c) \in Seq(CallRecord)
        /\ \A e : e \in Range(If(b, c)) <=> b /\ e = c
        /\ \A e, h : ~ Before(If(b, c), e, h)
      BY <2>4, IfCalls
  <2>10. <<d>> \in Seq(CallRecord) /\ Range(<<d>>) = {d} /\ \A e, h : ~ Before(<<d>>, e, h)
      BY <2>5, OneCall
  <2>11. /\ If(b, c) \o <<d>> \in Seq(CallRecord)
         /\ Range(If(b, c) \o <<d>>) = Range(If(b, c)) \cup Range(<<d>>)
         /\ \A e, h : Before(If(b, c) \o <<d>>, e, h) <=>
               \/ Before(If(b, c), e, h) \/ Before(<<d>>, e, h)
               \/ e \in Range(If(b, c)) /\ h \in Range(<<d>>)
      BY <2>9, <2>10, Concatenation
  <2>12. /\ \A e \in Range(If(b, c) \o <<d>>) : CallOK(e)' /\ Plain(e)
         /\ \A e, h \in Range(If(b, c) \o <<d>>) : Before(If(b, c) \o <<d>>, e, h) => PairOK(e, h)'
      BY <2>2, <2>4, <2>5, <2>6, <2>9, <2>10, <2>11
  <2> QED BY <2>8, <2>11, <2>12, <1>6
<1> QED BY <1>7, <1>8

-----------------------------------------------------------------------------
(* New calls, put together *)

\* The calls may be pending next, before the rest; they end the fetches of X.
Fresh(calls, X, rest) ==
    /\ calls \in Seq(CallRecord)
    /\ \A c \in Range(calls) : CallOK(c)' /\ (Plain(c) \/ c.fetch \in X)
    /\ \A c, d \in Range(calls) : Before(calls, c, d) => PairOK(c, d)'
    /\ \A c \in Range(calls), d \in Range(rest) : PairOK(c, d)'

LEMMA FreshNone == ASSUME NEW X, NEW rest PROVE Fresh(<<>>, X, rest)
BY NoCalls DEF Fresh

LEMMA FreshIf ==
    ASSUME NEW cond \in BOOLEAN, NEW c, NEW X, NEW rest,
           cond => /\ c \in CallRecord /\ CallOK(c)' /\ (Plain(c) \/ c.fetch \in X)
                   /\ \A d \in Range(rest) : PairOK(c, d)'
    PROVE  Fresh(If(cond, c), X, rest) /\ \A d : d \in Range(If(cond, c)) <=> cond /\ d = c
<1>1. /\ If(cond, c) \in Seq(CallRecord)
      /\ \A d : d \in Range(If(cond, c)) <=> cond /\ d = c
      /\ \A d, e : ~ Before(If(cond, c), d, e)
    BY IfCalls
<1> QED BY <1>1 DEF Fresh

LEMMA FreshOne ==
    ASSUME NEW c \in CallRecord, NEW X, NEW rest,
           CallOK(c)' /\ (Plain(c) \/ c.fetch \in X), \A d \in Range(rest) : PairOK(c, d)'
    PROVE  Fresh(<<c>>, X, rest) /\ Range(<<c>>) = {c}
BY OneCall DEF Fresh

LEMMA FreshTwo ==
    ASSUME NEW c \in CallRecord, NEW d \in CallRecord, NEW X, NEW rest,
           CallOK(c)' /\ (Plain(c) \/ c.fetch \in X), CallOK(d)' /\ (Plain(d) \/ d.fetch \in X),
           PairOK(c, d)', \A e \in Range(rest) : PairOK(c, e)' /\ PairOK(d, e)'
    PROVE  Fresh(<<c, d>>, X, rest) /\ Range(<<c, d>>) = {c, d}
BY TwoCalls DEF Fresh

LEMMA FreshJoin ==
    ASSUME NEW X, NEW rest, NEW a, NEW b, Fresh(a, X, rest), Fresh(b, X, rest),
           \A c \in Range(a), d \in Range(b) : PairOK(c, d)'
    PROVE  Fresh(a \o b, X, rest) /\ Range(a \o b) = Range(a) \cup Range(b)
<1>1. /\ a \o b \in Seq(CallRecord)
      /\ Range(a \o b) = Range(a) \cup Range(b)
      /\ \A c, d : Before(a \o b, c, d) <=>
             \/ Before(a, c, d) \/ Before(b, c, d) \/ (c \in Range(a) /\ d \in Range(b))
    BY Concatenation DEF Fresh
<1>2. /\ \A c, d : Before(a, c, d) => c \in Range(a) /\ d \in Range(a)
      /\ \A c, d : Before(b, c, d) => c \in Range(b) /\ d \in Range(b)
    BY Order DEF Fresh
<1> QED BY <1>1, <1>2 DEF Fresh

\* The step of SteadyNext as a handler takes it.
LEMMA SteadyBecomes ==
    ASSUME IInv, todo # <<>>, Steady, url' = url, NEW X, \A f \in Fetch \cap X : EndsOf(f)',
           Plain(Head(todo)) \/ Head(todo).fetch \in X,
           \A c \in Range(Tail(todo)) : c.op = "forward" /\ Has(c.fetch, "POSTNOGOOD")'
                                           => Has(c.fetch, "POSTNOGOOD"),
           NEW calls, Fresh(calls, X, Tail(todo)), Becomes(calls)
    PROVE  Data' /\ Pointers' /\ StackOK' /\ EndsWell' /\ todo' \in Seq(CallRecord)
<1>1. /\ Below(Tail(todo)) /\ todo' = calls \o Tail(todo)
      /\ \A c \in Range(todo) : Plain(c) \/ c \in Range(Tail(todo)) \/ c.fetch \in X
    BY Made DEF Becomes
<1> QED BY <1>1, SteadyNext DEF Fresh

\* What is pending after a call is done.
LEMMA Pending ==
    ASSUME IInv, todo # <<>>, NEW calls \in Seq(CallRecord), Becomes(calls)
    PROVE  Range(todo') = Range(calls) \cup Range(Tail(todo)) /\ todo' \in Seq(CallRecord)
BY Made, Concatenation DEF Becomes, Below

LEMMA CancelNext ==
    ASSUME IInv, NEW op \in {"cancel", "cancellocal"}, Cancel(op), url' = url
    PROVE  IInv'
<1>1. todo # <<>> /\ Head(todo).op = op
    BY DEF Cancel, Calls, Idle
<1>2. PICK f \in Fetch : f = This /\ f = Head(todo).fetch /\ Live(f)
    BY <1>1, Made, FetchConstants DEF CallOK, FetchOps, This
<1>3. /\ \A d \in Range(Tail(todo)) : d.op \notin {"updatefetch", "newfetch"}
      /\ \A d \in Range(Tail(todo)) : d.fetch = f => Running(f)
      /\ \A d \in Range(Tail(todo)) : d.op = "forward" => d.fetch \in Fetch
    BY <1>1, <1>2, Made DEF PairOK, CallOK, FetchOps
<1>4. Plain(Head(todo))
    BY <1>1 DEF Plain, Closing, Clearing
<1>5. CASE ~ Cancels(f, op)
  <2>1. Becomes(<<>>) /\ UNCHANGED <<fetch, driver, lists, slots, prefs, waits>>
      BY <1>2, <1>5 DEF Cancel
  <2>2. Data' /\ Pointers' /\ StackOK' /\ EndsWell' /\ todo' \in Seq(CallRecord)
      BY <2>1, <1>1, <1>4, NothingMoves, NoCalls, SteadyCall
  <2>3. TypeOK'
      BY <2>1, <2>2 DEF IInv, TypeOK
  <2> QED BY <2>2, <2>3 DEF IInv
<1>6. CASE Cancels(f, op)
  <2>1. /\ fetch' = [fetch EXCEPT ![f].flags = fetch[f].flags \cup {"CANCELLED"}]
        /\ Becomes(AfterCancel(f, op)) /\ UNCHANGED <<driver, lists, slots, prefs, waits>>
      BY <1>2, <1>6 DEF Cancel
  <2>2. fetch \in [Fetch -> FetchRecord] /\ fetch[f] \in FetchRecord
      BY DEF IInv, TypeOK
  <2>3. fetch' \in [Fetch -> FetchRecord]
      BY <2>1, <2>2 DEF FetchRecord, Flags
  <2>4. /\ \A g \in Fetch \ {f} : fetch'[g] = fetch[g]
        /\ fetch'[f] = [fetch[f] EXCEPT !.flags = fetch[f].flags \cup {"CANCELLED"}]
      BY <2>1, <2>2
  <2>5. \A flag : flag # "CANCELLED" => \A g \in Fetch : Has(g, flag)' <=> Has(g, flag)
      BY <2>2, <2>4 DEF Has, FetchRecord
  <2>6. \A g \in Fetch : fetch'[g].obj = fetch[g].obj /\ fetch'[g].url = fetch[g].url
                         /\ fetch'[g].role = fetch[g].role
      BY <2>2, <2>4 DEF FetchRecord
  <2>7. Steady
    <3>1. ASSUME NEW g \in Fetch PROVE Alike(g)
        BY <1>2, <2>1, <2>4, <2>5, <2>6 DEF Alike, Running, Asked, Live, Drives, IInv, Data, FlagsOf
    <3> QED BY <2>1, <3>1 DEF Steady
  <2>8. \A c \in Range(Tail(todo)) : c.op = "forward" /\ Has(c.fetch, "POSTNOGOOD")'
                                           => Has(c.fetch, "POSTNOGOOD")
      BY <1>3, <2>5
  <2>9. Live(f)' /\ (Running(f)' <=> Running(f)) /\ (Asked(f)' <=> Asked(f)) /\ (Owned(f)' <=> Owned(f))
        /\ (InQueue(f)' <=> InQueue(f)) /\ (Has(f, "DISPOSED")' <=> Has(f, "DISPOSED"))
      BY <1>2, <2>1, <2>5, <2>6 DEF Live, Running, Asked, Owned, InQueue
  <2>10. ASSUME NEW X, NEW calls, Fresh(calls, X, Tail(todo)), Becomes(calls), \A g \in Fetch \cap X : EndsOf(g)'
         PROVE  IInv'
    <3>1. Data' /\ Pointers' /\ StackOK' /\ EndsWell' /\ todo' \in Seq(CallRecord)
        BY <1>1, <1>4, <2>7, <2>8, <2>10, SteadyBecomes
    <3>2. TypeOK'
        BY <2>1, <2>3, <3>1 DEF IInv, TypeOK
    <3> QED BY <3>1, <3>2 DEF IInv
  <2>11. CASE Running(f)
    <3> DEFINE c == Call("srcupdate", f, "error")
               d == Call("stop", f, "none")
    <3>1. /\ c \in CallRecord /\ CallOK(c)' /\ Plain(c)
          /\ \A e : e.op \notin {"updatefetch", "newfetch"} => PairOK(c, e)'
        BY <2>9, <2>11, NewSrcupdate DEF Tags, LastTags, EndTags
    <3>2. /\ d \in CallRecord /\ CallOK(d)' /\ Plain(d)
          /\ \A e : e.op \notin {"updatefetch", "newfetch"} => PairOK(d, e)'
        BY <2>9, NewStop
    <3>3. d.op = "stop"
        BY Fields
    <3>4. PICK b \in BOOLEAN : b <=> op = "cancel"
        OBVIOUS
    <3>5. Becomes(If(b, c) \o <<d>>)
        BY <2>1, <2>11, <3>4 DEF AfterCancel, If, Running
    <3> HIDE DEF c, d
    <3>6. Fresh(If(b, c), {}, Tail(todo)) /\ \A e : e \in Range(If(b, c)) <=> b /\ e = c
        BY <1>3, <3>1, FreshIf
    <3>7. Fresh(<<d>>, {}, Tail(todo)) /\ Range(<<d>>) = {d}
        BY <1>3, <3>2, FreshOne
    <3>8. Fresh(If(b, c) \o <<d>>, {}, Tail(todo))
        BY <3>1, <3>3, <3>6, <3>7, FreshJoin
    <3> QED BY <3>5, <3>8, <2>10
  <2>12. CASE ~ Running(f) /\ Has(f, "QUEUED")
    <3> DEFINE c == Call("srcupdate", f, "terminate")
               d == Call("dispose", f, "none")
    <3>1. /\ c \in CallRecord /\ CallOK(c)'
          /\ \A e : e.op \notin {"updatefetch", "newfetch"} => PairOK(c, e)'
        BY <2>9, NewSrcupdate DEF Tags, LastTags, EndTags
    <3>2. /\ d \in CallRecord /\ CallOK(d)' /\ Closing(d)
          /\ \A e : e.op # "updatefetch" /\ e.fetch # f => PairOK(d, e)'
        BY <2>9, NewDispose
    <3>3. d.op = "dispose" /\ d.fetch = f /\ c.fetch = f /\ c.op = "srcupdate" /\ c.arg = "terminate"
        BY Fields
    <3>4. Becomes(<<c, d>>)
        BY <2>1, <2>12 DEF AfterCancel, If, Running
    <3> HIDE DEF c, d
    <3>5. Fresh(<<c, d>>, {f}, Tail(todo)) /\ Range(<<c, d>>) = {c, d}
        BY <1>3, <2>12, <3>1, <3>2, <3>3, FreshTwo
    <3>6. c \in Range(todo') /\ d \in Range(todo') /\ Range(todo') = {c, d} \cup Range(Tail(todo))
        BY <1>1, <3>4, <3>5, Pending DEF Fresh
    <3>7. ClosesSoon(f)' /\ ClearsSoon(f)'
        BY <3>2, <3>3, <3>6 DEF ClosesSoon, ClearsSoon, Clearing, LastTags
    <3>8. ForgottenOf(f) /\ AskedOf(f)
        BY DEF IInv, EndsWell
    <3>9. ~ Answered(f)
        BY <1>1, <1>2, <1>3, <2>12, Made DEF Answered
    <3>10. EndsOf(f)'
        BY <2>9, <2>12, <3>7, <3>8, <3>9 DEF EndsOf, ForgottenOf, AskedOf, HandledOf
    <3> QED BY <2>10, <3>4, <3>5, <3>10
  <2>13. CASE ~ Running(f) /\ ~ Has(f, "QUEUED")
    <3>1. Becomes(<<>>)
        BY <2>1, <2>13 DEF AfterCancel, Running
    <3>2. Fresh(<<>>, {}, Tail(todo)) /\ \A g \in Fetch \cap {} : EndsOf(g)'
        BY FreshNone
    <3> QED BY <2>10, <3>1, <3>2
  <2> QED BY <2>11, <2>12, <2>13
<1> QED BY <1>5, <1>6

-----------------------------------------------------------------------------
(* Updates *)

LEMMA ForwardNext ==
    ASSUME IInv, Forward, url' = url
    PROVE  IInv'
<1>1. todo # <<>> /\ Head(todo).op = "forward" /\ UNCHANGED <<fetch, driver, lists, slots, prefs, waits>>
    BY DEF Forward, Calls, Idle
<1>2. PICK f \in Fetch : f = This /\ f = Head(todo).fetch /\ Live(f) /\ Running(f) /\ ~ Has(f, "POSTNOGOOD")
    BY <1>1, Made, FetchConstants DEF CallOK, FetchOps, This
<1>3. PICK tag \in LastTags : tag = Arg /\ tag = Head(todo).arg
    BY <1>1, Made DEF CallOK, Arg
<1>4. \A d \in Range(Tail(todo)) : d.op \notin {"updatefetch", "newfetch"}
    BY <1>1, RestIsPlain
<1>5. Steady /\ \A g \in Fetch : Has(g, "POSTNOGOOD")' <=> Has(g, "POSTNOGOOD")
    BY <1>1, NothingMoves
<1>6. PICK b \in BOOLEAN : b <=> ~ Silenced(fetch[f].flags)
    OBVIOUS
<1> DEFINE c == Call("srcupdate", f, tag)
<1>7. Becomes(If(b, c))
    BY <1>2, <1>3, <1>6 DEF Forward, If
<1>8. Live(f)' /\ Running(f)'
    BY <1>1, <1>2 DEF Live, Running, Has
<1>9. /\ c \in CallRecord /\ CallOK(c)' /\ ~ Closing(c)
      /\ \A e : e.op \notin {"updatefetch", "newfetch"} => PairOK(c, e)'
  <2>1. tag \in Tags /\ tag \in EndTags
      BY DEF Tags, EndTags
  <2> QED BY <1>8, <2>1, NewSrcupdate
<1>10. c.op = "srcupdate" /\ c.fetch = f /\ c.arg = tag
    BY Fields
<1> HIDE DEF c
<1>11. Fresh(If(b, c), {f}, Tail(todo)) /\ \A e : e \in Range(If(b, c)) <=> b /\ e = c
    BY <1>4, <1>9, <1>10, FreshIf
<1>12. \A e : e \in Range(todo') <=> (b /\ e = c) \/ e \in Range(Tail(todo))
    BY <1>1, <1>7, <1>11, Pending DEF Fresh
<1>13. Range(todo) = {Head(todo)} \cup Range(Tail(todo))
    BY <1>1, Made
<1>14. ClearsSoon(f)
    BY <1>1, <1>2, <1>13 DEF ClearsSoon, Clearing
<1>15. ClosesSoon(f)' <=> ClosesSoon(f)
    BY <1>1, <1>9, <1>12, <1>13 DEF ClosesSoon, Closing
<1>16. Answered(f) => Answered(f)'
    BY <1>1, <1>12, <1>13 DEF Answered
<1>17. b => ClearsSoon(f)'
    BY <1>3, <1>10, <1>12 DEF ClearsSoon, Clearing
<1>18. ~ b => Has(f, "DISPOSED")
    BY <1>2, <1>6 DEF Silenced, Mute, Has
<1>19. /\ Owned(f)' <=> Owned(f)
       /\ Has(f, "DISPOSED")' <=> Has(f, "DISPOSED")
       /\ InQueue(f)' <=> InQueue(f)
       /\ Asked(f)' <=> Asked(f)
       /\ Running(f)' <=> Running(f)
       /\ Live(f)' <=> Live(f)
    BY <1>1 DEF Owned, Has, InQueue, Asked, Running, Live
<1>20. EndsOf(f)'
  <2>1. EndsOf(f)
      BY DEF IInv, EndsWell, EndsOf
  <2> QED BY <2>1, <1>14, <1>15, <1>16, <1>17, <1>18, <1>19 DEF EndsOf, ForgottenOf, AskedOf, HandledOf
<1>21. \A d \in Range(Tail(todo)) : d.op = "forward" => d.fetch \in Fetch
    BY <1>1, Made DEF CallOK, FetchOps
<1>22. Data' /\ Pointers' /\ StackOK' /\ EndsWell' /\ todo' \in Seq(CallRecord)
  <2>1. /\ \A g \in Fetch \cap {f} : EndsOf(g)'
        /\ Plain(Head(todo)) \/ Head(todo).fetch \in {f}
        /\ \A d \in Range(Tail(todo)) : d.op = "forward" /\ Has(d.fetch, "POSTNOGOOD")'
                                           => Has(d.fetch, "POSTNOGOOD")
      BY <1>2, <1>5, <1>20, <1>21
  <2> QED BY <2>1, <1>1, <1>5, <1>7, <1>11, SteadyBecomes
<1>23. TypeOK'
    BY <1>1, <1>22 DEF IInv, TypeOK
<1> QED BY <1>22, <1>23 DEF IInv

LEMMA UpdatefetchNext ==
    ASSUME IInv, Updatefetch, url' = url
    PROVE  IInv'
<1>1. todo # <<>> /\ Head(todo).op = "updatefetch" /\ Arg \notin LastTags
      /\ UNCHANGED <<lists, slots, prefs, waits>>
    BY DEF Updatefetch, Calls, Idle
<1>2. PICK f \in Fetch : f = This /\ f = Head(todo).fetch /\ Drives(f)
    BY <1>1, Made, FetchConstants DEF CallOK, FetchOps, This
<1>3. PICK tag \in Tags : tag = Arg /\ tag \notin LastTags
    BY <1>1, Made DEF CallOK, Arg
<1>4. \A d \in Range(Tail(todo)) : d.op = "reply" /\ d.fetch = f
    BY <1>1, <1>2, Made DEF PairOK
<1>5. Live(f) /\ Running(f)
    BY <1>2, DriverFacts
<1>6. fetch \in [Fetch -> FetchRecord] /\ fetch[f] \in FetchRecord /\ driver \in [Fetch -> DriverRecord]
    BY DEF IInv, TypeOK
<1>7. PICK whole \in BOOLEAN : fetch' = [fetch EXCEPT ![f] = [Updated(f, tag) EXCEPT !.more = Updated(f, tag).more /\ ~ whole]]
    BY <1>2, <1>3 DEF Updatefetch
<1>8. /\ Updated(f, tag) \in FetchRecord
      /\ Updated(f, tag).obj = fetch[f].obj /\ Updated(f, tag).url = fetch[f].url
      /\ Updated(f, tag).role = fetch[f].role
      /\ \A flag : flag \notin {"NOTMODIFIED", "POSTNOGOOD"} =>
             (flag \in Updated(f, tag).flags <=> flag \in fetch[f].flags)
    BY <1>6 DEF Updated, FetchRecord, Flags
<1>9. fetch' \in [Fetch -> FetchRecord]
  <2>1. [Updated(f, tag) EXCEPT !.more = Updated(f, tag).more /\ ~ whole] \in FetchRecord
      BY <1>8 DEF FetchRecord
  <2> QED BY <2>1, <1>6, <1>7
<1>10. /\ \A g \in Fetch \ {f} : fetch'[g] = fetch[g]
       /\ fetch'[f].obj = fetch[f].obj /\ fetch'[f].url = fetch[f].url /\ fetch'[f].role = fetch[f].role
       /\ \A flag : flag \notin {"NOTMODIFIED", "POSTNOGOOD"} => (Has(f, flag)' <=> Has(f, flag))
    BY <1>6, <1>7, <1>8 DEF FetchRecord, Has
<1>11. /\ driver' \in [Fetch -> DriverRecord]
       /\ \A g \in Fetch : driver'[g].at = driver[g].at /\ driver'[g].tag = driver[g].tag
  <2>1. driver' = Stopped(f) \/ driver' = driver
      BY <1>2 DEF Updatefetch
  <2> QED BY <2>1, <1>6, StopIsSteady
<1>12. Steady
  <2>1. ASSUME NEW g \in Fetch PROVE Alike(g)
    <3>1. CASE g = f
        BY <3>1, <1>5, <1>10, <1>11 DEF Alike, Running, Asked, Live, Drives, IInv, Data, FlagsOf
    <3>2. CASE g # f
        BY <3>2, <1>10, <1>11 DEF Alike, Running, Asked, Live, Has, Drives, IInv, Data, FlagsOf
    <3> QED BY <3>1, <3>2
  <2> QED BY <1>1, <2>1 DEF Steady
<1>13. PICK b \in BOOLEAN : b <=> Forwards(f, tag)
    OBVIOUS
<1> DEFINE c == Call("srcupdate", f, tag)
<1>14. Becomes(If(b, c))
    BY <1>2, <1>3, <1>13 DEF Updatefetch, If
<1>15. Live(f)' /\ Running(f)'
    BY <1>5, <1>10 DEF Live, Running
<1>16. /\ c \in CallRecord /\ CallOK(c)' /\ Plain(c)
       /\ \A e : e.op = "reply" /\ e.fetch = f => PairOK(c, e)'
    BY <1>3, <1>15, NewSrcupdate
<1> HIDE DEF c
<1>17. Fresh(If(b, c), {}, Tail(todo))
    BY <1>4, <1>16, FreshIf
<1>18. Data' /\ Pointers' /\ StackOK' /\ EndsWell' /\ todo' \in Seq(CallRecord)
  <2>1. /\ \A g \in Fetch \cap {} : EndsOf(g)'
        /\ Plain(Head(todo)) \/ Head(todo).fetch \in {}
        /\ \A d \in Range(Tail(todo)) : d.op = "forward" /\ Has(d.fetch, "POSTNOGOOD")'
                                           => Has(d.fetch, "POSTNOGOOD")
      BY <1>1, <1>4 DEF Plain, Closing, Clearing
  <2> QED BY <2>1, <1>1, <1>12, <1>14, <1>17, SteadyBecomes
<1>19. TypeOK'
    BY <1>1, <1>9, <1>11, <1>18 DEF IInv, TypeOK
<1> QED BY <1>18, <1>19 DEF IInv

-----------------------------------------------------------------------------
(* Steps of one fetch *)

LEMMA ListsStay ==
    ASSUME TypeOK, ListsOK, NEW f \in Fetch, Only(f), lists' = lists,
           Live(f)' <=> Live(f), Slot(f)' = Slot(f), InQueue(f) => ~ Running(f)'
    PROVE  ListsOK' /\ \A g \in Fetch : InQueue(g)' <=> InQueue(g)
<1>1. \A g \in Fetch : /\ InQueue(g)' <=> InQueue(g)
                       /\ Slot(g)' = Slot(g) /\ (Live(g)' <=> Live(g))
                       /\ g # f => (Running(g)' <=> Running(g))
    BY DEF Only, InQueue, Slot, Live, Running, Has
<1>2. \A s \in Slots : Range(lists[s]) \subseteq Fetch
    BY Members DEF TypeOK, Lists
<1>3. ASSUME NEW s \in Slots, NEW g \in Range(lists[s]) PROVE Slot(g)' = s /\ ~ Running(g)'
  <2>1. g \in Fetch /\ InQueue(g)
      BY <1>2, <1>3 DEF InQueue
  <2> QED BY <2>1, <1>1, <1>3 DEF ListsOK
<1> QED BY <1>1, <1>3 DEF ListsOK

LEMMA WaitsStay ==
    ASSUME WaitsForTransfer, NEW f \in Fetch, Only(f), waits' = waits,
           Live(f) => Live(f)' /\ fetch'[f].url = fetch[f].url
    PROVE  WaitsForTransfer'
<1>1. ASSUME NEW w \in waits' PROVE \E g \in Fetch : Awaits(w, g)'
  <2>1. PICK g \in Fetch : Awaits(w, g)
      BY <1>1 DEF WaitsForTransfer
  <2> QED BY <2>1 DEF Awaits, Only, Live
<1> QED BY <1>1 DEF WaitsForTransfer

LEMMA FlagsNext ==
    ASSUME Data, NEW f \in Fetch, Only(f), FlagsOf(f)'
    PROVE  \A g \in Fetch : FlagsOf(g)'
<1>1. ASSUME NEW g \in Fetch, g # f PROVE FlagsOf(g)'
    BY <1>1 DEF Data, Only, FlagsOf, Live, Has, Drives, Running
<1> QED BY <1>1

\* The calls and the pointers, when only f changes.
LEMMA OneNext ==
    ASSUME IInv, NEW f \in Fetch, Only(f), url' = url,
           \A g \in Fetch \ {f} : InQueue(g)' <=> InQueue(g),
           Owned(f) => Live(f)' /\ fetch'[f].url = fetch[f].url,
           EndsOf(f)',
           NEW calls, NEW rest, Below(rest), todo' = calls \o rest, Fresh(calls, {f}, rest),
           \A c \in Range(todo) : Plain(c) \/ c \in Range(rest) \/ c.fetch = f,
           \A c \in Range(rest) : c.fetch = f => Same(f),
           \A c \in Range(rest) : c.op = "forward" /\ c.fetch = f /\ Has(f, "POSTNOGOOD")'
                                      => Has(f, "POSTNOGOOD")
    PROVE  Pointers' /\ StackOK' /\ EndsWell' /\ todo' \in Seq(CallRecord)
<1>1. \A g \in Fetch \ {f} : /\ Live(g)' <=> Live(g)
                             /\ fetch'[g].url = fetch[g].url
                             /\ \A flag : Has(g, flag)' <=> Has(g, flag)
                             /\ Drives(g)' <=> Drives(g)
    BY DEF Only, Live, Has, Drives
<1>2. Pointers' /\ \A g : Owned(g)' <=> Owned(g)
    BY <1>1, PointersKept DEF IInv
<1>3. \A g \in Fetch \ {f} : Same(g)
    BY <1>1, <1>2 DEF Same, Running, Asked
<1>4. \A c \in Range(rest) : c.op = "newfetch" => CallOK(c)'
  <2>1. \A c \in Range(rest) : CallOK(c)
      BY DEF IInv, StackOK, Below
  <2> QED BY <2>1, NewfetchKept
<1>5. \A c \in Range(rest) : c.op = "forward" /\ Has(c.fetch, "POSTNOGOOD")'
                                 => Has(c.fetch, "POSTNOGOOD")
  <2>1. \A c \in Range(rest) : c.op = "forward" => c.fetch \in Fetch
      BY DEF IInv, StackOK, Below, CallOK, FetchOps
  <2> QED BY <2>1, <1>1
<1>6. StackOK' /\ EndsWell' /\ todo' \in Seq(CallRecord)
  <2>1. /\ \A g \in Fetch \ {f} : Same(g) /\ (Owned(g) => Owned(g)') /\ (Has(g, "DISPOSED")' <=> Has(g, "DISPOSED"))
        /\ \A g \in Fetch \cap {f} : EndsOf(g)'
      BY <1>1, <1>2, <1>3
  <2> QED BY <2>1, <1>4, <1>5, StepNext DEF Fresh
<1> QED BY <1>2, <1>6

\* The same for a call after which nothing is left.
LEMMA LastNext ==
    ASSUME IInv, todo # <<>>, Range(Tail(todo)) = {},
           NEW f \in Fetch, Only(f), url' = url, Plain(Head(todo)) \/ Head(todo).fetch = f,
           \A g \in Fetch \ {f} : InQueue(g)' <=> InQueue(g),
           Owned(f) => Live(f)' /\ fetch'[f].url = fetch[f].url,
           EndsOf(f)', NEW calls, Becomes(calls), Fresh(calls, {f}, <<>>)
    PROVE  Pointers' /\ StackOK' /\ EndsWell' /\ todo' \in Seq(CallRecord)
<1>1. /\ Below(Tail(todo)) /\ todo' = calls \o Tail(todo)
      /\ \A c \in Range(todo) : Plain(c) \/ c \in Range(Tail(todo)) \/ c.fetch = f
    BY Made DEF Becomes
<1>2. Fresh(calls, {f}, Tail(todo))
    BY NoCalls DEF Fresh
<1> QED BY <1>1, <1>2, OneNext

LEMMA OnlyOne ==
    ASSUME IInv, todo # <<>>, Range(Tail(todo)) = {}
    PROVE  /\ \A f : ClosesSoon(f) <=> Closing(Head(todo)) /\ Head(todo).fetch = f
           /\ \A f : ClearsSoon(f) <=> Clearing(Head(todo)) /\ Head(todo).fetch = f
           /\ \A f : Answered(f) <=> Head(todo).op = "incompleteend" /\ Head(todo).fetch = f
           /\ \A calls \in Seq(CallRecord) : Becomes(calls) => Range(todo') = Range(calls)
<1>1. Range(todo) = {Head(todo)}
    BY Made
<1>2. \A calls \in Seq(CallRecord) : Becomes(calls) => Range(todo') = Range(calls)
    BY Pending
<1> QED BY <1>1, <1>2 DEF ClosesSoon, ClearsSoon, Answered

-----------------------------------------------------------------------------
(* The end of a fetch *)

LEMMA FinishNext ==
    ASSUME IInv, Finish, url' = url
    PROVE  IInv'
<1>1. todo # <<>> /\ Head(todo).op = "finish" /\ UNCHANGED <<driver, lists, slots, prefs, waits>>
    BY DEF Finish, Calls, Idle
<1>2. PICK f \in Fetch : f = This /\ f = Head(todo).fetch /\ Live(f) /\ Running(f) /\ ~ Drives(f)
    BY <1>1, Made, FetchConstants DEF CallOK, FetchOps, This
<1>3. Tail(todo) = <<>> /\ Range(Tail(todo)) = {}
    BY <1>1, LastIsLast DEF LastOps
<1>4. fetch \in [Fetch -> FetchRecord] /\ fetch[f] \in FetchRecord
    BY DEF IInv, TypeOK
<1>5. fetch' = [fetch EXCEPT ![f].flags = fetch[f].flags \ {"RUNNING"}]
    BY <1>2 DEF Finish
<1>6. fetch' \in [Fetch -> FetchRecord]
    BY <1>4, <1>5 DEF FetchRecord
<1>7. /\ \A g \in Fetch \ {f} : fetch'[g] = fetch[g]
      /\ fetch'[f].obj = fetch[f].obj /\ fetch'[f].url = fetch[f].url /\ fetch'[f].role = fetch[f].role
      /\ \A flag : Has(f, flag)' <=> Has(f, flag) /\ flag # "RUNNING"
    BY <1>4, <1>5 DEF FetchRecord, Has
<1>8. Only(f)
    BY <1>1, <1>7 DEF Only
<1>9. /\ Live(f)' <=> Live(f)
      /\ Slot(f)' = Slot(f)
      /\ Drives(f)' <=> Drives(f)
      /\ Owned(f)' <=> Owned(f)
      /\ ~ Running(f)'
      /\ Asked(f)' <=> Asked(f)
    BY <1>1, <1>7 DEF Live, Slot, Drives, Owned, Running, Asked
<1>10. ListsOK' /\ \A g \in Fetch : InQueue(g)' <=> InQueue(g)
    BY <1>1, <1>8, <1>9, ListsStay DEF IInv, Data
<1>11. SlotsAccounted'
    BY <1>1, <1>7, <1>8, <1>9, SlotStays DEF IInv, Data, Holds
<1>12. WaitsForTransfer'
    BY <1>1, <1>2, <1>7, <1>8, <1>9, WaitsStay DEF IInv, Data
<1>13. FlagsOf(f)'
    BY <1>1, <1>2, <1>7, <1>9 DEF FlagsOf, IInv, Data, Running
<1>14. Data'
    BY <1>8, <1>10, <1>11, <1>12, <1>13, FlagsNext DEF Data, IInv
<1>15. EndsOf(f)
    BY DEF IInv, EndsWell, EndsOf
<1>16. ~ Owned(f) /\ ~ Asked(f)
    BY <1>1, <1>2, <1>3, <1>15, OnlyOne DEF EndsOf, HandledOf, AskedOf, Closing, Clearing
<1> DEFINE c == Call("dispose", f, "none")
<1>17. c \in CallRecord /\ CallOK(c)' /\ Closing(c)
    BY <1>2, <1>9, NewDispose
<1>18. c.fetch = f /\ c.op = "dispose"
    BY Fields
<1>19. Becomes(<<c>>)
    BY <1>2 DEF Finish
<1> HIDE DEF c
<1>20. Fresh(<<c>>, {f}, <<>>) /\ Range(<<c>>) = {c}
    BY <1>17, <1>18, NoCalls, FreshOne
<1>21. Range(todo') = {c}
    BY <1>1, <1>3, <1>19, <1>20, OnlyOne DEF Fresh
<1>22. EndsOf(f)'
    BY <1>9, <1>16, <1>17, <1>18, <1>21 DEF EndsOf, ForgottenOf, AskedOf, HandledOf, ClosesSoon
<1>23. Pointers' /\ StackOK' /\ EndsWell' /\ todo' \in Seq(CallRecord)
    BY <1>1, <1>2, <1>3, <1>8, <1>10, <1>16, <1>19, <1>20, <1>22, LastNext
<1>24. TypeOK'
    BY <1>1, <1>6, <1>23 DEF IInv, TypeOK
<1> QED BY <1>14, <1>23, <1>24 DEF IInv

LEMMA IncompleteEndNext ==
    ASSUME IInv, IncompleteEnd, url' = url
    PROVE  IInv'
<1>1. todo # <<>> /\ Head(todo).op = "incompleteend" /\ UNCHANGED <<driver, lists, slots, prefs, waits>>
    BY DEF IncompleteEnd, Calls, Idle
<1>2. PICK f \in Fetch : f = This /\ f = Head(todo).fetch /\ Live(f) /\ Asked(f)
    BY <1>1, Made, FetchConstants DEF CallOK, FetchOps, This
<1>3. PICK end \in {"kept", "done"} : end = Arg /\ end = Head(todo).arg
    BY <1>1, Made DEF CallOK, Arg
<1>4. Tail(todo) = <<>> /\ Range(Tail(todo)) = {}
    BY <1>1, LastIsLast DEF LastOps
<1>5. fetch \in [Fetch -> FetchRecord] /\ fetch[f] \in FetchRecord
    BY DEF IInv, TypeOK
<1>6. PICK flags : flags = (fetch[f].flags \ {"INCOMPLETE"}) \cup (IF end = "done" THEN {"DISPOSED"} ELSE {})
    OBVIOUS
<1>7. fetch' = [fetch EXCEPT ![f].flags = flags] /\ Becomes(If("DISPOSED" \in flags, Call("dispose", f, "none")))
    BY <1>2, <1>3, <1>6 DEF IncompleteEnd
<1>8. fetch' \in [Fetch -> FetchRecord]
    BY <1>5, <1>6, <1>7 DEF FetchRecord, Flags
<1>9. /\ \A g \in Fetch \ {f} : fetch'[g] = fetch[g]
      /\ fetch'[f].obj = fetch[f].obj /\ fetch'[f].url = fetch[f].url /\ fetch'[f].role = fetch[f].role
      /\ fetch'[f].flags = flags
    BY <1>5, <1>7 DEF FetchRecord
<1>10. /\ \A flag : flag \notin {"INCOMPLETE", "DISPOSED"} => (Has(f, flag)' <=> Has(f, flag))
       /\ ~ Has(f, "INCOMPLETE")'
       /\ Has(f, "DISPOSED")' <=> Has(f, "DISPOSED") \/ end = "done"
    BY <1>6, <1>9 DEF Has
<1>11. Only(f)
    BY <1>1, <1>9 DEF Only
<1>12. /\ Live(f)' <=> Live(f)
       /\ Slot(f)' = Slot(f)
       /\ Drives(f)' <=> Drives(f)
       /\ Owned(f)' <=> Owned(f)
       /\ Running(f)' <=> Running(f)
       /\ ~ Asked(f)'
    BY <1>1, <1>9, <1>10 DEF Live, Slot, Drives, Owned, Running, Asked
<1>13. InQueue(f) => ~ Running(f)
    BY DEF InQueue, IInv, Data, ListsOK
<1>14. ListsOK' /\ \A g \in Fetch : InQueue(g)' <=> InQueue(g)
    BY <1>1, <1>11, <1>12, <1>13, ListsStay DEF IInv, Data
<1>15. SlotsAccounted'
    BY <1>1, <1>10, <1>11, <1>12, SlotStays DEF IInv, Data, Holds
<1>16. WaitsForTransfer'
    BY <1>1, <1>2, <1>9, <1>11, <1>12, WaitsStay DEF IInv, Data
<1>17. FlagsOf(f)'
    BY <1>1, <1>2, <1>9, <1>10, <1>12 DEF FlagsOf, IInv, Data
<1>18. Data'
    BY <1>11, <1>14, <1>15, <1>16, <1>17, FlagsNext DEF Data, IInv
<1>19. EndsOf(f)
    BY DEF IInv, EndsWell, EndsOf
<1>20. Has(f, "DISPOSED")' => ~ Owned(f)
    BY <1>1, <1>2, <1>3, <1>4, <1>10, <1>19, OnlyOne DEF EndsOf, ForgottenOf, HandledOf, Closing, Clearing
<1>21. ~ Has(f, "DISPOSED")' => Owned(f)
    BY <1>1, <1>2, <1>3, <1>4, <1>10, <1>19, OnlyOne DEF EndsOf, HandledOf, Closing, Clearing
<1> DEFINE c == Call("dispose", f, "none")
<1>22. c \in CallRecord /\ CallOK(c)' /\ Closing(c)
    BY <1>2, <1>12, NewDispose
<1>23. c.fetch = f /\ c.op = "dispose"
    BY Fields
<1>24. PICK b \in BOOLEAN : b <=> "DISPOSED" \in flags
    OBVIOUS
<1>25. Becomes(If(b, c))
    BY <1>7, <1>24 DEF If
<1> HIDE DEF c
<1>26. Fresh(If(b, c), {f}, <<>>) /\ \A e : e \in Range(If(b, c)) <=> b /\ e = c
    BY <1>22, <1>23, NoCalls, FreshIf
<1>27. \A e : e \in Range(todo') <=> b /\ e = c
    BY <1>1, <1>4, <1>25, <1>26, OnlyOne DEF Fresh
<1>28. b <=> Has(f, "DISPOSED")'
    BY <1>9, <1>24 DEF Has
<1>29. EndsOf(f)'
  <2>1. ~ ClearsSoon(f)' /\ (ClosesSoon(f)' <=> b)
      BY <1>22, <1>23, <1>27 DEF ClearsSoon, ClosesSoon, Clearing
  <2> QED BY <2>1, <1>12, <1>20, <1>21, <1>28 DEF EndsOf, ForgottenOf, AskedOf, HandledOf
<1>30. Pointers' /\ StackOK' /\ EndsWell' /\ todo' \in Seq(CallRecord)
    BY <1>1, <1>2, <1>4, <1>9, <1>11, <1>12, <1>14, <1>25, <1>26, <1>29, LastNext
<1>31. TypeOK'
    BY <1>1, <1>8, <1>30 DEF IInv, TypeOK
<1> QED BY <1>18, <1>30, <1>31 DEF IInv

LEMMA UpdatefetchLastNext ==
    ASSUME IInv, UpdatefetchLast, url' = url
    PROVE  IInv'
<1>1. todo # <<>> /\ Head(todo).op = "updatefetch" /\ Arg \in LastTags /\ UNCHANGED <<lists, prefs, waits>>
    BY DEF UpdatefetchLast, Calls, Idle
<1>2. PICK f \in Fetch : f = This /\ f = Head(todo).fetch /\ Drives(f)
    BY <1>1, Made, FetchConstants DEF CallOK, FetchOps, This
<1>3. PICK tag \in LastTags : tag = Arg /\ tag = Head(todo).arg
    BY <1>1 DEF Arg
<1>4. Range(Tail(todo)) = {}
    BY <1>1, <1>3, Made DEF PairOK
<1>5. Live(f) /\ Running(f) /\ ~ InQueue(f)
    BY <1>2, DriverFacts
<1>6. fetch \in [Fetch -> FetchRecord] /\ fetch[f] \in FetchRecord /\ driver \in [Fetch -> DriverRecord]
    BY DEF IInv, TypeOK
<1>7. driver' = [driver EXCEPT ![f] = NoDriver] /\ slots' = SlotFreed(f)
    BY <1>2 DEF UpdatefetchLast
<1>8. NoDriver \in DriverRecord
    BY FetchConstants DEF NoDriver, DriverRecord, Tags
<1>9. driver' \in [Fetch -> DriverRecord] /\ driver'[f].at = "none" /\ \A g \in Fetch \ {f} : driver'[g] = driver[g]
  <2>1. driver'[f] = NoDriver
      BY <1>6, <1>7
  <2> QED BY <2>1, <1>6, <1>7, <1>8 DEF NoDriver
<1>10. EndsOf(f)
    BY DEF IInv, EndsWell, EndsOf
<1>11. ~ ClosesSoon(f) /\ ~ ClearsSoon(f) /\ ~ Asked(f)
    BY <1>1, <1>2, <1>4, <1>5, <1>10, OnlyOne DEF EndsOf, AskedOf, Closing, Clearing
<1> DEFINE check == Call("checkqueues", NoFetch, "none")
<1>12. ASSUME NEW flags \in SUBSET Flags, fetch' = [fetch EXCEPT ![f].flags = flags \ {"USESLOT"}],
              "INCOMPLETE" \in flags => "RUNNING" \notin flags,
              "DISPOSED" \in flags <=> "DISPOSED" \in fetch[f].flags,
              NEW calls, Becomes(<<check>> \o calls), Fresh(calls, {f}, <<>>),
              \A d \in Range(calls) : d.op # "updatefetch" /\ d.op # "newfetch" /\ (d.fetch # NoFetch => d.fetch = f),
              (\E d \in Range(calls) : Clearing(d)) <=> (\E d \in Range(calls) : Closing(d)),
              \A d \in Range(calls) : ~ Plain(d) => d.fetch = f
       PROVE  IInv'
  <2>1. fetch' \in [Fetch -> FetchRecord]
      BY <1>6, <1>12 DEF FetchRecord
  <2>2. /\ \A g \in Fetch \ {f} : fetch'[g] = fetch[g]
        /\ fetch'[f].obj = fetch[f].obj /\ fetch'[f].url = fetch[f].url /\ fetch'[f].role = fetch[f].role
        /\ fetch'[f].flags = flags \ {"USESLOT"}
      BY <1>6, <1>12 DEF FetchRecord
  <2>3. Only(f)
      BY <1>9, <2>2 DEF Only
  <2>4. /\ Live(f)' <=> Live(f)
        /\ Slot(f)' = Slot(f)
        /\ ~ Drives(f)'
        /\ Owned(f)' <=> Owned(f)
        /\ Has(f, "DISPOSED")' <=> Has(f, "DISPOSED")
        /\ ~ Has(f, "USESLOT")'
        /\ Asked(f)' => ~ Running(f)'
      BY <1>9, <1>12, <2>2 DEF Live, Slot, Drives, Owned, Has, Asked, Running
  <2>5. ListsOK' /\ \A g \in Fetch : InQueue(g)' <=> InQueue(g)
      BY <1>1, <1>5, <2>3, <2>4, ListsStay DEF IInv, Data
  <2>6. SlotsAccounted' /\ slots' \in [Slots -> Nat]
      BY <1>5, <1>7, <2>3, <2>4, SlotIsFreed DEF IInv, Data, Holds
  <2>7. WaitsForTransfer'
      BY <1>1, <1>5, <2>2, <2>3, <2>4, WaitsStay DEF IInv, Data
  <2>8. FlagsOf(f)'
      BY <1>5, <1>9, <2>2, <2>4 DEF FlagsOf, IInv, Data, Drives
  <2>9. Data'
      BY <2>3, <2>5, <2>6, <2>7, <2>8, FlagsNext DEF Data, IInv
  <2>10. /\ check \in CallRecord /\ CallOK(check)' /\ Plain(check)
         /\ \A d \in Range(calls) : PairOK(check, d)'
      BY <1>5, <1>12, <2>5, NewCheckqueues
  <2>11. check.fetch = NoFetch
      BY Fields
  <2> HIDE DEF check
  <2>12. Fresh(<<check>>, {f}, <<>>) /\ Range(<<check>>) = {check}
      BY <2>10, NoCalls, FreshOne
  <2>13. Fresh(<<check>> \o calls, {f}, <<>>) /\ Range(<<check>> \o calls) = {check} \cup Range(calls)
      BY <1>12, <2>10, <2>12, FreshJoin
  <2>14. Range(todo') = {check} \cup Range(calls)
      BY <1>1, <1>4, <1>12, <2>13, OnlyOne DEF Fresh
  <2>15. EndsOf(f)'
    <3>1. ClosesSoon(f)' <=> ClearsSoon(f)'
        BY <1>12, <2>10, <2>14 DEF ClosesSoon, ClearsSoon, Plain
    <3> QED BY <3>1, <1>5, <1>10, <1>11, <2>4, <2>5 DEF EndsOf, ForgottenOf, AskedOf, HandledOf
  <2>16. Pointers' /\ StackOK' /\ EndsWell' /\ todo' \in Seq(CallRecord)
      BY <1>1, <1>2, <1>4, <1>5, <1>12, <2>2, <2>3, <2>4, <2>5, <2>13, <2>15, LastNext
  <2>17. TypeOK'
      BY <1>1, <1>9, <2>1, <2>6, <2>16 DEF IInv, TypeOK
  <2> QED BY <2>9, <2>16, <2>17 DEF IInv
<1>13. fetch[f].flags \in SUBSET Flags
    BY <1>6 DEF FetchRecord
<1>14. CASE AsksUser(f) /\ fetch' = [fetch EXCEPT ![f].flags = ((fetch[f].flags \ {"RUNNING"}) \cup {"INCOMPLETE"}) \ {"USESLOT"}]
            /\ Becomes(<<check>> \o <<>>)
  <2>1. Fresh(<<>>, {f}, <<>>) /\ Range(<<>>) = {}
      BY NoCalls, FreshNone
  <2> DEFINE flags == (fetch[f].flags \ {"RUNNING"}) \cup {"INCOMPLETE"}
  <2>2. /\ flags \in SUBSET Flags
        /\ "INCOMPLETE" \in flags => "RUNNING" \notin flags
        /\ "DISPOSED" \in flags <=> "DISPOSED" \in fetch[f].flags
      BY <1>13 DEF Flags
  <2>3. PICK new : new = flags
      OBVIOUS
  <2> QED BY <1>14, <2>1, <2>2, <2>3, <1>12
<1>15. CASE /\ fetch' = [fetch EXCEPT ![f].flags = fetch[f].flags \ {"USESLOT"}]
            /\ Becomes(<<check>> \o (IF Has(f, "POSTNOGOOD") THEN <<Call("retryget", f, "none")>>
                                     ELSE <<Call("forward", f, tag), Call("finish", f, "none")>>))
  <2>1. PICK flags \in SUBSET Flags : flags = fetch[f].flags
      BY <1>13
  <2>2. /\ "INCOMPLETE" \in flags => "RUNNING" \notin flags
        /\ "DISPOSED" \in flags <=> "DISPOSED" \in fetch[f].flags
      BY <2>1, <1>11 DEF Asked, Has
  <2>3. Live(f)' /\ Running(f)' /\ ~ Drives(f)' /\ (Has(f, "POSTNOGOOD")' <=> Has(f, "POSTNOGOOD"))
    <3>1. fetch'[f].obj = fetch[f].obj /\ fetch'[f].flags = fetch[f].flags \ {"USESLOT"}
        BY <1>6, <1>15 DEF FetchRecord
    <3> QED BY <3>1, <1>5, <1>9 DEF Live, Running, Has, Drives
  <2>4. CASE Has(f, "POSTNOGOOD")
    <3> DEFINE c == Call("retryget", f, "none")
    <3>1. c \in CallRecord /\ CallOK(c)' /\ ~ Clearing(c) /\ ~ Closing(c)
        BY <2>3, NewLast DEF LastOps
    <3>2. c.op = "retryget" /\ c.fetch = f
        BY Fields
    <3>3. Becomes(<<check>> \o <<c>>)
        BY <2>4, <1>15
    <3> HIDE DEF c, check
    <3>4. Fresh(<<c>>, {f}, <<>>) /\ Range(<<c>>) = {c}
        BY <3>1, <3>2, NoCalls, FreshOne
    <3> QED BY <3>1, <3>2, <3>3, <3>4, <2>1, <2>2, <1>15, <1>12
  <2>5. CASE ~ Has(f, "POSTNOGOOD")
    <3> DEFINE c == Call("forward", f, tag)
               d == Call("finish", f, "none")
    <3>1. /\ c \in CallRecord /\ CallOK(c)' /\ Clearing(c)
          /\ \A e : e.op \notin {"updatefetch", "newfetch"} => PairOK(c, e)'
        BY <2>3, <2>5, NewForward
    <3>2. d \in CallRecord /\ CallOK(d)' /\ Closing(d)
        BY <2>3, NewLast DEF LastOps
    <3>3. c.op = "forward" /\ c.fetch = f /\ d.op = "finish" /\ d.fetch = f
        BY Fields
    <3>4. Becomes(<<check>> \o <<c, d>>)
        BY <2>5, <1>15
    <3> HIDE DEF c, d, check
    <3>5. Fresh(<<c, d>>, {f}, <<>>) /\ Range(<<c, d>>) = {c, d}
        BY <3>1, <3>2, <3>3, NoCalls, FreshTwo
    <3> QED BY <3>1, <3>2, <3>3, <3>4, <3>5, <2>1, <2>2, <1>15, <1>12
  <2> QED BY <2>4, <2>5
<1>16. \/ /\ AsksUser(f)
          /\ fetch' = [fetch EXCEPT ![f].flags = ((fetch[f].flags \ {"RUNNING"}) \cup {"INCOMPLETE"}) \ {"USESLOT"}]
          /\ Becomes(<<check>> \o <<>>)
       \/ /\ fetch' = [fetch EXCEPT ![f].flags = fetch[f].flags \ {"USESLOT"}]
          /\ Becomes(<<check>> \o (IF Has(f, "POSTNOGOOD") THEN <<Call("retryget", f, "none")>>
                                   ELSE <<Call("forward", f, tag), Call("finish", f, "none")>>))
    BY <1>2, <1>3 DEF UpdatefetchLast
<1> QED BY <1>14, <1>15, <1>16

LEMMA DisposefetchNext ==
    ASSUME IInv, Disposefetch, url' = url
    PROVE  IInv'
<1>1. todo # <<>> /\ Head(todo).op = "dispose" /\ Becomes(<<>>) /\ UNCHANGED <<slots, prefs>>
    BY DEF Disposefetch, Calls, Idle
<1>2. PICK f \in Fetch : f = This /\ f = Head(todo).fetch /\ Live(f)
    BY <1>1, Made, FetchConstants DEF CallOK, FetchOps, This
<1>3. fetch \in [Fetch -> FetchRecord] /\ fetch[f] \in FetchRecord /\ driver \in [Fetch -> DriverRecord]
    BY DEF IInv, TypeOK
<1>4. /\ driver' \in [Fetch -> DriverRecord]
      /\ \A g \in Fetch : driver'[g].at = driver[g].at /\ driver'[g].tag = driver[g].tag
      /\ \A g \in Fetch \ {f} : driver'[g] = driver[g]
  <2>1. driver' = Stopped(f) \/ driver' = driver
      BY <1>2 DEF Disposefetch
  <2> QED BY <2>1, <1>3, StopIsSteady
<1>5. EndsOf(f)
    BY DEF IInv, EndsWell, EndsOf
<1>6. Range(todo) = {Head(todo)} \cup Range(Tail(todo))
    BY <1>1, Made
<1>7. Closing(Head(todo)) /\ ~ Clearing(Head(todo))
    BY <1>1 DEF Closing, Clearing
<1>8. ~ Owned(f)
  <2>1. Owned(f) => ClearsSoon(f)
      BY <1>2, <1>5, <1>6, <1>7 DEF EndsOf, HandledOf, ClosesSoon
  <2>2. ClearsSoon(f) => ~ Owned(f)
      BY <1>1, <1>2, <1>6, <1>7, Made DEF ClearsSoon, PairOK
  <2> QED BY <2>1, <2>2
<1>9. \A d \in Range(Tail(todo)) : d.fetch = f => Running(f) \/ Asked(f)
    BY <1>1, <1>2, Made DEF PairOK
<1>10. /\ Fresh(<<>>, {f}, Tail(todo)) /\ Below(Tail(todo)) /\ todo' = <<>> \o Tail(todo)
       /\ \A c \in Range(todo) : Plain(c) \/ c \in Range(Tail(todo)) \/ c.fetch = f
    BY <1>1, <1>2, Made, FreshNone DEF Becomes
<1>11. Range(todo') = Range(Tail(todo))
    BY <1>1, NoCalls, Pending
<1>12. Answered(f) => Answered(f)'
    BY <1>1, <1>6, <1>11 DEF Answered
<1>13. CASE StaysUntilItEnds(f)
  <2>1. fetch' = [fetch EXCEPT ![f].flags = fetch[f].flags \cup {"DISPOSED"}] /\ UNCHANGED <<lists, waits>>
      BY <1>2, <1>13 DEF Disposefetch
  <2>2. fetch' \in [Fetch -> FetchRecord]
      BY <1>3, <2>1 DEF FetchRecord, Flags
  <2>3. /\ \A g \in Fetch \ {f} : fetch'[g] = fetch[g]
        /\ fetch'[f].obj = fetch[f].obj /\ fetch'[f].url = fetch[f].url /\ fetch'[f].role = fetch[f].role
        /\ \A flag : flag # "DISPOSED" => (Has(f, flag)' <=> Has(f, flag))
        /\ Has(f, "DISPOSED")'
      BY <1>3, <2>1 DEF FetchRecord, Has
  <2>4. Only(f)
      BY <1>4, <2>3 DEF Only
  <2>5. /\ Live(f)' <=> Live(f)
        /\ Slot(f)' = Slot(f)
        /\ Drives(f)' <=> Drives(f)
        /\ Owned(f)' <=> Owned(f)
        /\ Running(f)' <=> Running(f)
        /\ Asked(f)' <=> Asked(f)
      BY <1>4, <2>3 DEF Live, Slot, Drives, Owned, Running, Asked
  <2>6. InQueue(f) => ~ Running(f)
      BY DEF InQueue, IInv, Data, ListsOK
  <2>7. ListsOK' /\ \A g \in Fetch : InQueue(g)' <=> InQueue(g)
      BY <2>1, <2>4, <2>5, <2>6, ListsStay DEF IInv, Data
  <2>8. SlotsAccounted'
      BY <1>1, <2>3, <2>4, <2>5, SlotStays DEF IInv, Data, Holds
  <2>9. WaitsForTransfer'
      BY <1>2, <2>1, <2>3, <2>4, <2>5, WaitsStay DEF IInv, Data
  <2>10. FlagsOf(f)'
      BY <1>2, <1>4, <2>3, <2>5 DEF FlagsOf, IInv, Data
  <2>11. Data'
      BY <2>4, <2>7, <2>8, <2>9, <2>10, FlagsNext DEF Data, IInv
  <2>12. EndsOf(f)'
      BY <1>5, <1>8, <1>12, <2>3, <2>5, <2>7 DEF EndsOf, ForgottenOf, AskedOf, HandledOf
  <2>13. Same(f)
      BY <2>3, <2>5, <2>7 DEF Same
  <2>14. Pointers' /\ StackOK' /\ EndsWell' /\ todo' \in Seq(CallRecord)
      BY <1>2, <1>8, <1>10, <2>3, <2>4, <2>7, <2>12, <2>13, OneNext
  <2>15. TypeOK'
      BY <1>1, <1>4, <2>1, <2>2, <2>14 DEF IInv, TypeOK
  <2> QED BY <2>11, <2>14, <2>15 DEF IInv
<1>14. CASE ~ StaysUntilItEnds(f)
  <2>1. /\ lists' = [l \in Lists |-> Without(lists[l], f)]
        /\ waits' = Checkwaitrequests(waits, Listed \ {f})
        /\ fetch' = [fetch EXCEPT ![f] = [NoRecord EXCEPT !.obj = "freed"]]
      BY <1>2, <1>14 DEF Disposefetch
  <2>2. ~ Running(f) /\ ~ Asked(f)
      BY <1>14 DEF StaysUntilItEnds, Running, Asked, Has
  <2>3. PICK freed \in FetchRecord : freed = [NoRecord EXCEPT !.obj = "freed"] /\ freed.flags = {} /\ freed.obj = "freed"
    <3> DEFINE r == [NoRecord EXCEPT !.obj = "freed"]
    <3>1. r \in FetchRecord
        BY DEF NoRecord, NewRecord, FetchRecord, Roles, LoadFlags
    <3>2. r.flags = {} /\ r.obj = "freed"
        BY DEF NoRecord, NewRecord
    <3> HIDE DEF r
    <3> QED BY <3>1, <3>2 DEF r
  <2>4. fetch' \in [Fetch -> FetchRecord] /\ fetch'[f] = freed /\ \A g \in Fetch \ {f} : fetch'[g] = fetch[g]
      BY <1>3, <2>1, <2>3
  <2>5. Only(f)
      BY <1>4, <2>4 DEF Only
  <2>6. /\ ~ Live(f)'
        /\ \A flag : ~ Has(f, flag)'
        /\ ~ Drives(f)'
        /\ ~ Drives(f)
        /\ ~ Has(f, "USESLOT")
      BY <1>4, <2>2, <2>3, <2>4 DEF Live, Has, Drives, IInv, Data, FlagsOf
  <2>7. Moves(f, "none")
    <3>1. ASSUME NEW m \in Lists
          PROVE  /\ lists'[m] \in Seq(Fetch) /\ Once(lists'[m]) /\ Range(lists'[m]) = Range(lists[m]) \ {f}
      <4>1. PICK seq : seq = lists[m] /\ seq \in Seq(Fetch) /\ Once(seq)
          BY ListFacts
      <4>2. lists'[m] = Without(seq, f)
          BY <2>1, <4>1
      <4> QED BY <4>1, <4>2, Removed
    <3>2. lists' \in [Lists -> Seq(Fetch)]
        BY <2>1, <3>1
    <3>3. "none" \notin Lists
        BY DEF Lists, Slots
    <3> QED BY <3>1, <3>2, <3>3 DEF Moves
  <2>8. ListsOK' /\ \A g \in Fetch \ {f} : InQueue(g)' <=> InQueue(g)
    <3>1. "none" \notin Lists /\ "none" \notin Slots
        BY DEF Lists, Slots
    <3> QED BY <2>5, <2>6, <2>7, <3>1, ListsNext DEF IInv, Data
  <2>9. SlotsAccounted'
      BY <1>1, <2>5, <2>6, SlotStays DEF IInv, Data, Holds
  <2>10. WaitsForTransfer'
    <3>1. ASSUME NEW w \in waits' PROVE \E g \in Fetch : Awaits(w, g)'
      <4>1. PICK g \in Listed \ {f} : w \in {NoUrl, fetch[g].url}
          BY <2>1, <3>1 DEF Checkwaitrequests, Matching
      <4>2. PICK l \in Lists : g \in Range(lists[l])
          BY <4>1, Zenon DEF Listed
      <4>3. g \in Fetch /\ Live(g)
          BY <4>2, ListFacts
      <4> QED BY <4>1, <4>3, <2>4 DEF Awaits, Live
    <3> QED BY <3>1 DEF WaitsForTransfer
  <2>11. FlagsOf(f)'
      BY <1>4, <2>3, <2>4, <2>6 DEF FlagsOf, IInv, Data
  <2>12. Data'
      BY <2>5, <2>8, <2>9, <2>10, <2>11, FlagsNext DEF Data, IInv
  <2>13. EndsOf(f)'
    <3>1. ~ Owned(f)'
        BY <1>8 DEF Owned
    <3> QED BY <3>1, <2>6 DEF EndsOf, ForgottenOf, AskedOf, HandledOf, Asked
  <2>14. Pointers' /\ StackOK' /\ EndsWell' /\ todo' \in Seq(CallRecord)
      BY <1>8, <1>9, <1>10, <2>2, <2>5, <2>8, <2>13, OneNext
  <2>15. waits' \subseteq Url \cup {NoUrl}
      BY <2>1 DEF IInv, TypeOK, Checkwaitrequests
  <2>16. TypeOK'
      BY <1>1, <1>4, <2>4, <2>7, <2>14, <2>15 DEF IInv, TypeOK, Moves
  <2> QED BY <2>12, <2>14, <2>16 DEF IInv
<1> QED BY <1>13, <1>14

-----------------------------------------------------------------------------
(* Starting a driver *)

\* The fetch f, that has no driver, becomes r.
LEMMA FetchGoes ==
    ASSUME IInv, NEW f \in Fetch, ~ Drives(f), NEW r \in FetchRecord, r.obj = "live", r.url \in Url,
           Live(f) => fetch[f].url = r.url, fetch' = [fetch EXCEPT ![f] = r],
           driver' \in [Fetch -> DriverRecord], \A g \in Fetch \ {f} : driver'[g] = driver[g],
           driver'[f].at # "update", NEW l \in Lists, Moves(f, l),
           l \in Slots => l = SlotOf(r.url, r.role) /\ "RUNNING" \notin r.flags,
           \/ /\ Drives(f)' /\ {"RUNNING", "USESLOT"} \subseteq r.flags
              /\ slots' = SlotTaken(SlotOf(r.url, r.role))
           \/ /\ ~ Drives(f)' /\ "USESLOT" \notin r.flags /\ slots' = slots,
           waits' = waits
    PROVE  /\ Data' /\ Only(f) /\ (\A g \in Fetch \ {f} : InQueue(g)' <=> InQueue(g))
           /\ fetch' \in [Fetch -> FetchRecord] /\ slots' \in [Slots -> Nat]
           /\ Live(f)' /\ fetch'[f] = r
<1>1. /\ fetch' \in [Fetch -> FetchRecord] /\ fetch'[f] = r
      /\ \A g \in Fetch \ {f} : fetch'[g] = fetch[g]
    BY DEF IInv, TypeOK
<1>2. PICK s : s = SlotOf(r.url, r.role)
    OBVIOUS
<1>3. Only(f) /\ Live(f)' /\ Slot(f)' = s
    BY <1>1, <1>2 DEF Only, Live, Slot
<1>4. /\ Running(f)' <=> "RUNNING" \in r.flags
      /\ Has(f, "USESLOT")' <=> "USESLOT" \in r.flags
      /\ ~ Has(f, "USESLOT")
    BY <1>1 DEF Running, Has, IInv, Data, FlagsOf
<1>5. ListsOK' /\ \A g \in Fetch \ {f} : InQueue(g)' <=> InQueue(g)
    BY <1>2, <1>3, <1>4, ListsNext DEF IInv, Data
<1>6. WaitsForTransfer'
    BY <1>1, <1>3, WaitsStay DEF IInv, Data
<1>7. FlagsOf(f)'
    BY <1>1, <1>3, <1>4 DEF FlagsOf
<1>8. SlotsAccounted' /\ slots' \in [Slots -> Nat]
  <2>1. \A k \in Slots : ~ Holds(f, k)
      BY <1>4 DEF Holds
  <2>2. CASE ~ Drives(f)'
    <3>1. \A k \in Slots : ~ Holds(f, k)'
        BY <2>2, <1>4 DEF Holds
    <3> QED BY <2>1, <2>2, <3>1, <1>3, SlotStays DEF IInv, Data, TypeOK
  <2>3. CASE Drives(f)'
    <3>1. \A k \in Slots : Holds(f, k)' <=> k = s
        BY <2>3, <1>3, <1>4 DEF Holds
    <3> QED BY <2>1, <2>3, <3>1, <1>2, <1>3, SlotIsTaken DEF IInv, Data
  <2> QED BY <2>2, <2>3
<1>9. Data'
    BY <1>3, <1>5, <1>6, <1>7, <1>8, FlagsNext DEF Data, IInv
<1> QED BY <1>1, <1>3, <1>5, <1>8, <1>9

LEMMA DriverStarts ==
    ASSUME IInv, NEW f \in Fetch, ~ Drives(f), NEW r \in FetchRecord, r.obj = "live", r.url \in Url,
           Live(f) => fetch[f].url = r.url, Dostartdriver(f, r), Moves(f, "running"), waits' = waits
    PROVE  /\ Data' /\ Only(f) /\ (\A g \in Fetch \ {f} : InQueue(g)' <=> InQueue(g))
           /\ fetch' \in [Fetch -> FetchRecord] /\ driver' \in [Fetch -> DriverRecord]
           /\ slots' \in [Slots -> Nat]
           /\ Live(f)' /\ fetch'[f].url = r.url
           /\ \A flag \in {"DISPOSED", "INCOMPLETE"} : Has(f, flag)' <=> flag \in r.flags
<1>1. PICK new \in FetchRecord :
         /\ fetch' = [fetch EXCEPT ![f] = new]
         /\ new.obj = "live" /\ new.url = r.url /\ new.role = r.role
         /\ new.flags = r.flags \cup {"RUNNING", "USESLOT"}
  <2> DEFINE q == [r EXCEPT !.flags = r.flags \cup {"RUNNING", "USESLOT"}]
  <2>1. /\ q \in FetchRecord /\ q.obj = "live" /\ q.url = r.url /\ q.role = r.role
        /\ q.flags = r.flags \cup {"RUNNING", "USESLOT"}
      BY DEF FetchRecord, Flags
  <2>2. fetch' = [fetch EXCEPT ![f] = q]
      BY DEF Dostartdriver
  <2> HIDE DEF q
  <2> QED BY <2>1, <2>2
<1>2. slots' = SlotTaken(SlotOf(new.url, new.role)) /\ driver' = [driver EXCEPT ![f] = NewDriver]
    BY <1>1 DEF Dostartdriver
<1>3. NewDriver \in DriverRecord /\ NewDriver.at = "run"
  <2>1. NoDriver \in DriverRecord
      BY FetchConstants DEF NoDriver, DriverRecord, Tags
  <2> QED BY <2>1 DEF NewDriver, DriverRecord
<1>4. driver' \in [Fetch -> DriverRecord] /\ driver'[f].at = "run" /\ \A g \in Fetch \ {f} : driver'[g] = driver[g]
  <2>1. driver \in [Fetch -> DriverRecord]
      BY DEF IInv, TypeOK
  <2>2. driver'[f] = NewDriver
      BY <1>2, <2>1
  <2> QED BY <1>2, <1>3, <2>1, <2>2
<1>5. Drives(f)'
    BY <1>4 DEF Drives
<1>6. "running" \in Lists /\ "running" \notin Slots
    BY DEF Lists, Slots
<1>7. /\ Data' /\ Only(f) /\ \A g \in Fetch \ {f} : InQueue(g)' <=> InQueue(g)
      /\ fetch' \in [Fetch -> FetchRecord] /\ slots' \in [Slots -> Nat]
      /\ Live(f)' /\ fetch'[f] = new
    BY <1>1, <1>2, <1>4, <1>5, <1>6, FetchGoes
<1> QED BY <1>1, <1>4, <1>7 DEF Has

LEMMA StartsGoes ==
    ASSUME IInv, NEW f \in Fetch, ~ Drives(f), NEW r \in FetchRecord,
           r.obj = "live", r.url \in Url, "RUNNING" \notin r.flags, "USESLOT" \notin r.flags,
           Live(f) => fetch[f].url = r.url,
           NEW ls \in [Lists -> Seq(Fetch)],
           \A m \in Lists : /\ Once(ls[m])
                            /\ \A g \in Fetch \ {f} : g \in Range(ls[m]) <=> g \in Range(lists[m])
                            /\ f \in Range(ls[m]) <=> m = "running",
           Starts(f, r, ls), waits' = waits
    PROVE  /\ Data' /\ Only(f) /\ (\A g \in Fetch \ {f} : InQueue(g)' <=> InQueue(g))
           /\ fetch' \in [Fetch -> FetchRecord] /\ driver' \in [Fetch -> DriverRecord]
           /\ lists' \in [Lists -> Seq(Fetch)] /\ slots' \in [Slots -> Nat]
           /\ Live(f)' /\ fetch'[f].url = r.url
           /\ \A flag \in {"DISPOSED", "INCOMPLETE"} : Has(f, flag)' <=> flag \in r.flags
<1>1. PICK s : s = SlotOf(r.url, r.role)
    OBVIOUS
<1>2. s \in Slots \cup {"none"} /\ "none" \notin Slots /\ "none" \notin Lists /\ "running" \notin Slots
      /\ "running" \in Lists /\ Slots \subseteq Lists
    BY <1>1 DEF SlotOf, Slots, Lists
<1>3. PICK fresh \in FetchRecord :
         /\ fresh = [r EXCEPT !.more = FALSE]
         /\ fresh.obj = "live" /\ fresh.url = r.url /\ fresh.role = r.role /\ fresh.flags = r.flags
  <2> DEFINE q == [r EXCEPT !.more = FALSE]
  <2>1. q \in FetchRecord /\ q.obj = "live" /\ q.url = r.url /\ q.role = r.role /\ q.flags = r.flags
      BY DEF FetchRecord
  <2> HIDE DEF q
  <2> QED BY <2>1 DEF q
<1>4. CASE Full(s)
  <2>1. s \in Slots /\ s # "running"
      BY <1>2, <1>4 DEF Full
  <2>2. PICK image \in BOOLEAN : image <=> r.url \in Images
      OBVIOUS
  <2>3. /\ fetch' = [fetch EXCEPT ![f] = [fresh EXCEPT !.flags = fresh.flags \cup {"QUEUED"}]]
        /\ lists' = [ls EXCEPT !["running"] = Without(ls["running"], f), ![s] = Addtoqueue(ls[s], f, image)]
        /\ UNCHANGED <<driver, slots>>
    <3>1. image = (r.url \in Images)
        BY <2>2
    <3> QED BY <3>1, <1>1, <1>2, <1>3, <1>4, <2>1 DEF Starts
  <2>4. Moves(f, s)
    <3>1. PICK seq : seq = ls["running"] /\ seq \in Seq(Fetch) /\ Once(seq)
        BY <1>2
    <3>2. PICK queue : queue = ls[s] /\ queue \in Seq(Fetch) /\ Once(queue) /\ f \notin Range(queue)
        BY <1>2, <2>1
    <3>3. /\ Without(seq, f) \in Seq(Fetch) /\ Range(Without(seq, f)) = Range(seq) \ {f} /\ Once(Without(seq, f))
        BY <3>1, Removed
    <3>4. /\ Addtoqueue(queue, f, image) \in Seq(Fetch)
          /\ Range(Addtoqueue(queue, f, image)) = Range(queue) \cup {f}
          /\ Once(Addtoqueue(queue, f, image))
        BY <3>2, Inserted
    <3>5. PICK a, b : a = Without(seq, f) /\ b = Addtoqueue(queue, f, image)
        OBVIOUS
    <3>6. lists' = [ls EXCEPT !["running"] = a, ![s] = b]
        BY <2>3, <3>1, <3>2, <3>5
    <3>7. /\ lists' \in [Lists -> Seq(Fetch)] /\ lists'["running"] = a /\ lists'[s] = b
          /\ \A m \in Lists \ {"running", s} : lists'[m] = ls[m]
        BY <1>2, <2>1, <3>3, <3>4, <3>5, <3>6
    <3>8. ASSUME NEW m \in Lists
          PROVE  /\ Once(lists'[m])
                 /\ \A g \in Fetch \ {f} : g \in Range(lists'[m]) <=> g \in Range(lists[m])
                 /\ f \in Range(lists'[m]) <=> m = s
      <4>1. CASE m = "running"
          BY <4>1, <1>2, <2>1, <3>1, <3>3, <3>5, <3>7
      <4>2. CASE m = s
          BY <4>2, <1>2, <2>1, <3>2, <3>4, <3>5, <3>7
      <4>3. CASE m \notin {"running", s}
          BY <4>3, <3>7
      <4> QED BY <4>1, <4>2, <4>3
    <3> QED BY <3>7, <3>8 DEF Moves
  <2>5. PICK new \in FetchRecord :
           /\ fetch' = [fetch EXCEPT ![f] = new]
           /\ new.obj = "live" /\ new.url = r.url /\ new.role = r.role
           /\ new.flags = r.flags \cup {"QUEUED"}
    <3> DEFINE q == [fresh EXCEPT !.flags = fresh.flags \cup {"QUEUED"}]
    <3>1. /\ q \in FetchRecord /\ q.obj = "live" /\ q.url = r.url /\ q.role = r.role
          /\ q.flags = r.flags \cup {"QUEUED"}
        BY <1>3 DEF FetchRecord, Flags
    <3>2. fetch' = [fetch EXCEPT ![f] = q]
        BY <2>3
    <3> HIDE DEF q
    <3> QED BY <3>1, <3>2
  <2>6. /\ ~ Drives(f)' /\ driver' \in [Fetch -> DriverRecord] /\ driver'[f].at # "update"
        /\ \A g \in Fetch : driver'[g] = driver[g]
    <3>1. driver' = driver /\ driver \in [Fetch -> DriverRecord] /\ driver[f].at = "none"
        BY <2>3 DEF Drives, IInv, TypeOK
    <3> QED BY <3>1 DEF Drives
  <2>7. /\ "RUNNING" \notin new.flags /\ "USESLOT" \notin new.flags
        /\ s = SlotOf(new.url, new.role) /\ s \in Lists /\ slots' = slots /\ new.url \in Url
        /\ Live(f) => fetch[f].url = new.url
        /\ s \in Slots => s = SlotOf(new.url, new.role) /\ "RUNNING" \notin new.flags
        /\ \A g \in Fetch \ {f} : driver'[g] = driver[g]
      BY <1>1, <1>2, <2>1, <2>3, <2>5, <2>6
  <2>8. /\ Data' /\ Only(f) /\ \A g \in Fetch \ {f} : InQueue(g)' <=> InQueue(g)
        /\ fetch' \in [Fetch -> FetchRecord] /\ slots' \in [Slots -> Nat]
        /\ Live(f)' /\ fetch'[f] = new
      BY <2>4, <2>5, <2>6, <2>7, FetchGoes
  <2> QED BY <2>4, <2>5, <2>6, <2>8 DEF Moves, Has
<1>5. CASE ~ Full(s)
  <2>1. Dostartdriver(f, fresh) /\ lists' = ls
      BY <1>1, <1>3, <1>5 DEF Starts
  <2>2. Moves(f, "running")
      BY <2>1 DEF Moves
  <2>3. Live(f) => fetch[f].url = fresh.url
      BY <1>3
  <2>4. /\ Data' /\ Only(f) /\ \A g \in Fetch \ {f} : InQueue(g)' <=> InQueue(g)
        /\ fetch' \in [Fetch -> FetchRecord] /\ driver' \in [Fetch -> DriverRecord]
        /\ slots' \in [Slots -> Nat]
        /\ Live(f)' /\ fetch'[f].url = fresh.url
        /\ \A flag \in {"DISPOSED", "INCOMPLETE"} : Has(f, flag)' <=> flag \in fresh.flags
      BY <1>3, <2>1, <2>2, <2>3, DriverStarts
  <2> QED BY <1>3, <2>1, <2>4
<1> QED BY <1>4, <1>5

\* A fetch that is in no queue is in the list of the running ones.
LEMMA InRunning ==
    ASSUME IInv, NEW f \in Fetch, Live(f), ~ InQueue(f)
    PROVE  /\ lists \in [Lists -> Seq(Fetch)]
           /\ \A m \in Lists : Once(lists[m]) /\ (f \in Range(lists[m]) <=> m = "running")
<1>1. PICK l \in Lists : f \in Range(lists[l])
    BY DEF IInv, Data, ListsOK
<1>2. \A m \in Lists : m = "running" \/ f \notin Range(lists[m])
    BY DEF InQueue, Lists
<1> QED BY <1>1, <1>2 DEF IInv, TypeOK, Data, ListsOK

LEMMA RetrygetNext ==
    ASSUME IInv, Retryget, url' = url
    PROVE  IInv'
<1>1. todo # <<>> /\ Head(todo).op = "retryget" /\ UNCHANGED <<prefs, waits>>
    BY DEF Retryget, Calls, Idle
<1>2. PICK f \in Fetch : f = This /\ f = Head(todo).fetch /\ Live(f) /\ Running(f) /\ ~ Drives(f)
    BY <1>1, Made, FetchConstants DEF CallOK, FetchOps, This
<1>3. Tail(todo) = <<>> /\ Range(Tail(todo)) = {}
    BY <1>1, LastIsLast DEF LastOps
<1>4. fetch \in [Fetch -> FetchRecord] /\ fetch[f] \in FetchRecord /\ fetch[f].url \in Url /\ ~ InQueue(f)
    BY <1>2 DEF IInv, TypeOK, Data, FlagsOf, InQueue, ListsOK
<1>5. EndsOf(f)
    BY DEF IInv, EndsWell, EndsOf
<1>6. ~ ClosesSoon(f) /\ ~ ClearsSoon(f) /\ ~ Asked(f) /\ ~ Has(f, "USESLOT")
    BY <1>1, <1>2, <1>3, <1>5, OnlyOne DEF EndsOf, AskedOf, Closing, Clearing, IInv, Data, FlagsOf
<1>7. PICK r \in FetchRecord :
         /\ r = Retried(f)
         /\ r.obj = "live" /\ r.url = fetch[f].url /\ r.role = fetch[f].role
         /\ r.flags = fetch[f].flags \ {"RUNNING", "POSTNOGOOD"}
  <2> DEFINE q == Retried(f)
  <2>1. /\ q \in FetchRecord /\ q.url = fetch[f].url /\ q.role = fetch[f].role
        /\ q.obj = fetch[f].obj /\ q.flags = fetch[f].flags \ {"RUNNING", "POSTNOGOOD"}
      BY <1>4 DEF Retried, FetchRecord
  <2> HIDE DEF q
  <2> QED BY <2>1, <1>2 DEF q, Live
<1>8. CASE Starts(f, Retried(f), lists) /\ Becomes(<<>>)
  <2>1. PICK ls : /\ ls = lists /\ ls \in [Lists -> Seq(Fetch)]
                  /\ \A m \in Lists : Once(ls[m]) /\ (f \in Range(ls[m]) <=> m = "running")
      BY <1>2, <1>4, InRunning
  <2>2. Starts(f, r, ls)
      BY <1>7, <1>8, <2>1
  <2>3. "RUNNING" \notin r.flags /\ "USESLOT" \notin r.flags
      BY <1>6, <1>7 DEF Has
  <2>4. /\ Data' /\ Only(f) /\ \A g \in Fetch \ {f} : InQueue(g)' <=> InQueue(g)
        /\ fetch' \in [Fetch -> FetchRecord] /\ driver' \in [Fetch -> DriverRecord]
        /\ lists' \in [Lists -> Seq(Fetch)] /\ slots' \in [Slots -> Nat]
        /\ Live(f)' /\ fetch'[f].url = r.url
        /\ \A flag \in {"DISPOSED", "INCOMPLETE"} : Has(f, flag)' <=> flag \in r.flags
      BY <1>1, <1>2, <1>4, <1>7, <2>1, <2>2, <2>3, StartsGoes
  <2>5. /\ Has(f, "DISPOSED")' <=> Has(f, "DISPOSED")
        /\ ~ Asked(f)'
        /\ Owned(f)' <=> Owned(f)
      BY <1>6, <1>7, <2>4 DEF Has, Asked, Owned
  <2>6. Fresh(<<>>, {f}, <<>>) /\ Range(todo') = {}
      BY <1>1, <1>3, <1>8, NoCalls, FreshNone, OnlyOne
  <2>7. EndsOf(f)'
      BY <1>2, <1>5, <1>6, <2>4, <2>5, <2>6 DEF EndsOf, ForgottenOf, AskedOf, HandledOf, ClosesSoon, ClearsSoon
  <2>8. Pointers' /\ StackOK' /\ EndsWell' /\ todo' \in Seq(CallRecord)
      BY <1>1, <1>2, <1>3, <1>7, <1>8, <2>4, <2>6, <2>7, LastNext
  <2>9. TypeOK'
      BY <1>1, <2>4, <2>8 DEF IInv, TypeOK
  <2> QED BY <2>4, <2>8, <2>9 DEF IInv
<1>9. CASE /\ fetch' = [fetch EXCEPT ![f] = Retried(f)]
           /\ Becomes(<<Call("srcupdate", f, "terminate"),
                        Call("checkqueues", NoFetch, "none"), Call("dispose", f, "none")>>)
           /\ UNCHANGED <<driver, lists, slots>>
  <2>1. fetch' \in [Fetch -> FetchRecord] /\ fetch'[f] = r /\ \A g \in Fetch \ {f} : fetch'[g] = fetch[g]
      BY <1>4, <1>7, <1>9
  <2>2. Only(f)
      BY <1>9, <2>1 DEF Only
  <2>3. /\ Live(f)' /\ Live(f)
        /\ Slot(f)' = Slot(f)
        /\ ~ Drives(f)'
        /\ ~ Running(f)'
        /\ ~ Asked(f)'
        /\ ~ Has(f, "USESLOT")'
        /\ Has(f, "DISPOSED")' <=> Has(f, "DISPOSED")
        /\ Owned(f)' <=> Owned(f)
      BY <1>2, <1>6, <1>7, <1>9, <2>1 DEF Live, Slot, Drives, Running, Asked, Has, Owned
  <2>4. ListsOK' /\ \A g \in Fetch : InQueue(g)' <=> InQueue(g)
      BY <1>9, <2>2, <2>3, ListsStay DEF IInv, Data
  <2>5. SlotsAccounted'
      BY <1>6, <1>9, <2>2, <2>3, SlotStays DEF IInv, Data, Holds
  <2>6. WaitsForTransfer'
      BY <1>1, <1>7, <2>1, <2>2, <2>3, WaitsStay DEF IInv, Data
  <2>7. FlagsOf(f)'
    <3>1. fetch'[f].url \in Url /\ driver'[f].at = "none"
        BY <1>2, <1>4, <1>7, <1>9, <2>1 DEF Drives
    <3> QED BY <2>3, <3>1 DEF FlagsOf
  <2>8. Data'
      BY <2>2, <2>4, <2>5, <2>6, <2>7, FlagsNext DEF Data, IInv
  <2> DEFINE c == Call("srcupdate", f, "terminate")
             check == Call("checkqueues", NoFetch, "none")
             d == Call("dispose", f, "none")
  <2>9. /\ c \in CallRecord /\ CallOK(c)'
        /\ \A e : e.op \notin {"updatefetch", "newfetch"} => PairOK(c, e)'
      BY <2>3, NewSrcupdate DEF Tags, LastTags, EndTags
  <2>10. /\ check \in CallRecord /\ CallOK(check)' /\ Plain(check)
         /\ \A e : /\ e.op \notin {"updatefetch", "newfetch"}
                   /\ e.fetch # NoFetch => ~ InQueue(e.fetch)'
                   => PairOK(check, e)'
      BY NewCheckqueues
  <2>11. d \in CallRecord /\ CallOK(d)' /\ Closing(d)
      BY <2>3, NewDispose
  <2>12. /\ c.op = "srcupdate" /\ c.fetch = f /\ c.arg = "terminate"
         /\ check.op = "checkqueues" /\ d.op = "dispose" /\ d.fetch = f
      BY Fields
  <2>13. Becomes(<<c, check, d>>)
      BY <1>9
  <2> HIDE DEF c, check, d
  <2>14. /\ <<c, check, d>> \in Seq(CallRecord) /\ Range(<<c, check, d>>) = {c, check, d}
         /\ \A x, y : Before(<<c, check, d>>, x, y) => (x = c /\ y \in {check, d}) \/ (x = check /\ y = d)
      BY <2>9, <2>10, <2>11, ThreeCalls
  <2>15. Fresh(<<c, check, d>>, {f}, <<>>)
    <3>1. PairOK(c, check)' /\ PairOK(c, d)' /\ PairOK(check, d)'
        BY <1>4, <2>4, <2>9, <2>10, <2>12
    <3> QED BY <3>1, <2>9, <2>10, <2>11, <2>12, <2>14, NoCalls DEF Fresh
  <2>16. Range(todo') = {c, check, d}
      BY <1>1, <1>3, <2>13, <2>14, OnlyOne
  <2>17. EndsOf(f)'
    <3>1. ClosesSoon(f)' /\ ClearsSoon(f)'
        BY <2>11, <2>12, <2>16 DEF ClosesSoon, ClearsSoon, Clearing, LastTags
    <3> QED BY <3>1, <1>5, <2>3 DEF EndsOf, ForgottenOf, AskedOf, HandledOf
  <2>18. Pointers' /\ StackOK' /\ EndsWell' /\ todo' \in Seq(CallRecord)
      BY <1>1, <1>2, <1>3, <1>7, <2>1, <2>2, <2>3, <2>4, <2>13, <2>15, <2>17, LastNext
  <2>19. TypeOK'
      BY <1>1, <1>9, <2>1, <2>18 DEF IInv, TypeOK
  <2> QED BY <2>8, <2>18, <2>19 DEF IInv
<1> QED BY <1>2, <1>8, <1>9 DEF Retryget

\* The user answers the requester of f.
LEMMA AnswerNext ==
    ASSUME IInv, NEW f \in Fetch, Answer(f)
    PROVE  IInv'
<1>1. Idle /\ Has(f, "INCOMPLETE") /\ UNCHANGED <<prefs, waits, url>>
    BY DEF Answer, Incompletereturn
<1>2. Range(todo) = {} /\ Below(<<>>)
    BY <1>1, NoCalls, Belows DEF Idle, IInv, TypeOK
<1>3. Live(f) /\ fetch[f].url \in Url /\ Asked(f)
    BY <1>1 DEF IInv, Data, FlagsOf, Has, Asked
<1>4. EndsOf(f)
    BY DEF IInv, EndsWell, EndsOf
<1>5. ~ Running(f) /\ ~ InQueue(f) /\ ~ Drives(f)
    BY <1>2, <1>3, <1>4 DEF EndsOf, AskedOf, Answered, IInv, Data, FlagsOf
<1>6. fetch \in [Fetch -> FetchRecord] /\ fetch[f] \in FetchRecord
    BY DEF IInv, TypeOK
\* The two calls, once it is known what becomes of f.
<1>7. ASSUME NEW tag \in {"fail", "terminate", "reload"}, NEW end \in {"done", "kept"},
             Live(f)', Asked(f)',
             todo' = <<Call("srcupdate", f, tag), Call("incompleteend", f, end)>>
      PROVE  /\ \E calls : todo' = calls \o <<>> /\ Fresh(calls, {f}, <<>>)
             /\ Answered(f)'
             /\ ClosesSoon(f)' <=> end = "done"
             /\ ClearsSoon(f)' <=> tag # "reload"
  <2> DEFINE c == Call("srcupdate", f, tag)
             d == Call("incompleteend", f, end)
  <2>1. /\ c \in CallRecord /\ CallOK(c)' /\ ~ Closing(c)
        /\ \A e : e.op \notin {"updatefetch", "newfetch"} => PairOK(c, e)'
      BY <1>7, NewSrcupdate DEF Tags, LastTags, EndTags
  <2>2. d \in CallRecord /\ CallOK(d)' /\ ~ Clearing(d) /\ (Closing(d) <=> end = "done")
      BY <1>7, NewLast DEF LastOps
  <2>3. /\ c.op = "srcupdate" /\ c.fetch = f /\ c.arg = tag
        /\ d.op = "incompleteend" /\ d.fetch = f
      BY Fields
  <2>4. todo' = <<c, d>>
      BY <1>7
  <2> HIDE DEF c, d
  <2>5. Fresh(<<c, d>>, {f}, <<>>) /\ Range(<<c, d>>) = {c, d}
      BY <2>1, <2>2, <2>3, NoCalls, FreshTwo
  <2>6. <<c, d>> \o <<>> = <<c, d>>
      OBVIOUS
  <2>7. Range(todo') = {c, d}
      BY <2>4, <2>5
  <2>8. Clearing(c) <=> tag # "reload"
      BY <2>3 DEF Clearing, LastTags
  <2> QED BY <2>1, <2>2, <2>3, <2>4, <2>5, <2>6, <2>7, <2>8 DEF Answered, ClosesSoon, ClearsSoon
<1>8. ASSUME NEW tag \in {"fail", "terminate"}, UNCHANGED <<fetch, driver, lists, slots>>,
             todo' = <<Call("srcupdate", f, tag), Call("incompleteend", f, "done")>>
      PROVE  IInv'
  <2>1. /\ Live(f)' /\ Asked(f)'
        /\ Has(f, "DISPOSED")' <=> Has(f, "DISPOSED")
        /\ Owned(f)' <=> Owned(f)
      BY <1>1, <1>3, <1>8 DEF Live, Asked, Has, Owned
  <2>2. PICK calls : todo' = calls \o <<>> /\ Fresh(calls, {f}, <<>>)
      BY <1>7, <1>8, <2>1
  <2>3. Answered(f)' /\ ClosesSoon(f)' /\ ClearsSoon(f)'
      BY <1>7, <1>8, <2>1
  <2>4. EndsOf(f)'
      BY <1>4, <2>1, <2>3 DEF EndsOf, ForgottenOf, AskedOf, HandledOf
  <2>5. Steady
      BY <1>1, <1>8, NothingMoves
  <2>6. Data' /\ Pointers' /\ StackOK' /\ EndsWell' /\ todo' \in Seq(CallRecord)
    <3>1. \A g \in Fetch \cap {f} : EndsOf(g)'
        BY <2>4
    <3>2. url' = url
        BY <1>1
    <3> QED BY <3>1, <3>2, <1>2, <2>2, <2>5, NoCalls, SteadyNext DEF Fresh
  <2>7. TypeOK'
      BY <1>1, <1>8, <2>6 DEF IInv, TypeOK
  <2> QED BY <2>6, <2>7 DEF IInv
<1>9. CASE /\ Starts(f, fetch[f], lists)
           /\ todo' = <<Call("srcupdate", f, "reload"), Call("incompleteend", f, "kept")>>
  <2>1. PICK ls : /\ ls = lists /\ ls \in [Lists -> Seq(Fetch)]
                  /\ \A m \in Lists : Once(ls[m]) /\ (f \in Range(ls[m]) <=> m = "running")
      BY <1>3, <1>5, InRunning
  <2>2. PICK r \in FetchRecord : r = fetch[f]
      BY <1>6
  <2>3. Starts(f, r, ls)
      BY <1>9, <2>1, <2>2
  <2>4. /\ r.obj = "live" /\ r.url \in Url /\ r.url = fetch[f].url
        /\ "RUNNING" \notin r.flags /\ "USESLOT" \notin r.flags
      BY <1>3, <1>5, <2>2 DEF Live, Running, Has, IInv, Data, FlagsOf
  <2>5. /\ Data' /\ Only(f) /\ \A g \in Fetch \ {f} : InQueue(g)' <=> InQueue(g)
        /\ fetch' \in [Fetch -> FetchRecord] /\ driver' \in [Fetch -> DriverRecord]
        /\ lists' \in [Lists -> Seq(Fetch)] /\ slots' \in [Slots -> Nat]
        /\ Live(f)' /\ fetch'[f].url = r.url
        /\ \A flag \in {"DISPOSED", "INCOMPLETE"} : Has(f, flag)' <=> flag \in r.flags
      BY <1>1, <1>5, <2>1, <2>3, <2>4, StartsGoes
  <2>6. /\ Has(f, "DISPOSED")' <=> Has(f, "DISPOSED")
        /\ Asked(f)'
        /\ Owned(f)' <=> Owned(f)
      BY <1>1, <1>3, <2>2, <2>5 DEF Has, Asked, Owned
  <2>7. PICK calls : todo' = calls \o <<>> /\ Fresh(calls, {f}, <<>>)
      BY <1>7, <1>9, <2>5, <2>6
  <2>8. Answered(f)' /\ ~ ClosesSoon(f)' /\ ~ ClearsSoon(f)'
      BY <1>7, <1>9, <2>5, <2>6
  <2>9. EndsOf(f)'
      BY <1>2, <1>3, <1>4, <2>5, <2>6, <2>8 DEF EndsOf, ForgottenOf, AskedOf, HandledOf, ClosesSoon
  <2>10. Pointers' /\ StackOK' /\ EndsWell' /\ todo' \in Seq(CallRecord)
      BY <1>1, <1>2, <2>4, <2>5, <2>7, <2>9, NoCalls, OneNext
  <2>11. TypeOK'
      BY <1>1, <2>5, <2>10 DEF IInv, TypeOK
  <2> QED BY <2>5, <2>10, <2>11 DEF IInv
<1>10. \/ /\ Starts(f, fetch[f], lists)
          /\ todo' = <<Call("srcupdate", f, "reload"), Call("incompleteend", f, "kept")>>
       \/ \E tag \in {"fail", "terminate"} :
             /\ UNCHANGED <<fetch, driver, lists, slots>>
             /\ todo' = <<Call("srcupdate", f, tag), Call("incompleteend", f, "done")>>
    BY DEF Answer, Incompletereturn
<1> QED BY <1>8, <1>9, <1>10

\* The fetch at the head of a queue, and what is pending when it is taken.
LEMMA CheckqueuesNext ==
    ASSUME IInv, Checkqueues, url' = url
    PROVE  IInv'
<1>1. todo # <<>> /\ Head(todo).op = "checkqueues" /\ UNCHANGED <<prefs, waits>>
    BY DEF Checkqueues, Calls, Idle
<1>2. Head(todo).fetch = NoFetch /\ Range(todo) = {Head(todo)} \cup Range(Tail(todo)) /\ Below(todo)
    BY <1>1, Made DEF CallOK
<1>3. \A d \in Range(todo) : d.op \notin {"updatefetch", "newfetch"}
    BY <1>1, <1>2, RestIsPlain
<1>4. CASE Becomes(<<>>) /\ UNCHANGED <<fetch, driver, lists, slots>>
  <2>1. Steady /\ \A g \in Fetch : Has(g, "POSTNOGOOD")' <=> Has(g, "POSTNOGOOD")
      BY <1>1, <1>4, NothingMoves
  <2>2. Plain(Head(todo))
      BY <1>1 DEF Plain, Closing, Clearing
  <2>3. Data' /\ Pointers' /\ StackOK' /\ EndsWell' /\ todo' \in Seq(CallRecord)
      BY <1>1, <1>4, <2>1, <2>2, NoCalls, SteadyCall
  <2>4. TypeOK'
      BY <1>1, <1>4, <2>3 DEF IInv, TypeOK
  <2> QED BY <2>3, <2>4 DEF IInv
<1>5. ASSUME NEW s \in Slots, lists[s] # <<>>, NEW f, f = Head(lists[s]), NEW r,
             r = [fetch[f] EXCEPT !.flags = fetch[f].flags \ {"QUEUED"}],
             lists' = [lists EXCEPT ![s] = Tail(lists[s]), !["running"] = Append(lists["running"], f)],
             \/ Dostartdriver(f, r) /\ UNCHANGED todo
             \/ /\ fetch' = [fetch EXCEPT ![f] = r]
                /\ todo' = <<Call("srcupdate", f, "terminate"), Call("dispose", f, "none")>> \o todo
                /\ UNCHANGED <<driver, slots>>
      PROVE  IInv'
  <2>1. s \in Lists /\ "running" \in Lists /\ s # "running" /\ "running" \notin Slots
      BY DEF Slots, Lists
  <2>2. PICK queue : queue = lists[s] /\ queue \in Seq(Fetch) /\ Once(queue) /\ queue # <<>> /\ Range(queue) \subseteq Fetch
      BY <1>5, <2>1, ListFacts
  <2>3. PICK seq : seq = lists["running"] /\ seq \in Seq(Fetch) /\ Once(seq)
      BY <2>1, ListFacts
  <2>4. /\ f \in Range(queue) /\ Tail(queue) \in Seq(Fetch) /\ Once(Tail(queue))
        /\ Range(Tail(queue)) = Range(queue) \ {f}
      BY <1>5, <2>2, Dequeued
  <2>5. f \in Fetch /\ Live(f) /\ InQueue(f) /\ ~ Running(f) /\ Slot(f) = s
      BY <1>5, <2>1, <2>2, <2>4, ListFacts DEF InQueue, IInv, Data, ListsOK
  <2>6. \A m \in Lists : f \in Range(lists[m]) <=> m = s
      BY <2>1, <2>2, <2>4, <2>5 DEF IInv, Data, ListsOK
  <2>7. ~ Drives(f) /\ fetch[f].url \in Url /\ fetch[f] \in FetchRecord /\ ~ Has(f, "USESLOT")
      BY <2>5 DEF IInv, TypeOK, Data, FlagsOf
  <2>8. /\ r \in FetchRecord /\ r.obj = "live" /\ r.url = fetch[f].url /\ r.role = fetch[f].role
        /\ r.flags = fetch[f].flags \ {"QUEUED"}
      BY <1>5, <2>5, <2>7 DEF FetchRecord, Live
  <2>9. Moves(f, "running")
    <3>1. f \notin Range(seq)
        BY <2>1, <2>3, <2>6
    <3>2. /\ Append(seq, f) \in Seq(Fetch) /\ Range(Append(seq, f)) = Range(seq) \cup {f}
          /\ Once(Append(seq, f))
        BY <2>3, <2>5, <3>1, Appended
    <3>3. PICK a, b : a = Tail(queue) /\ b = Append(seq, f)
        OBVIOUS
    <3>4. lists' = [lists EXCEPT ![s] = a, !["running"] = b] /\ lists \in [Lists -> Seq(Fetch)]
        BY <1>5, <2>2, <2>3, <3>3 DEF IInv, TypeOK
    <3>5. /\ lists' \in [Lists -> Seq(Fetch)] /\ lists'[s] = a /\ lists'["running"] = b
          /\ \A m \in Lists \ {s, "running"} : lists'[m] = lists[m]
        BY <2>1, <2>4, <3>2, <3>3, <3>4
    <3>6. ASSUME NEW m \in Lists
          PROVE  /\ Once(lists'[m])
                 /\ \A g \in Fetch \ {f} : g \in Range(lists'[m]) <=> g \in Range(lists[m])
                 /\ f \in Range(lists'[m]) <=> m = "running"
      <4>1. CASE m = s
          BY <4>1, <2>1, <2>2, <2>4, <3>3, <3>5
      <4>2. CASE m = "running"
          BY <4>2, <2>1, <2>3, <3>2, <3>3, <3>5
      <4>3. CASE m \notin {s, "running"}
          BY <4>3, <2>6, <3>5, ListFacts
      <4> QED BY <4>1, <4>2, <4>3
    <3> QED BY <3>5, <3>6 DEF Moves
  <2>10. \A d \in Range(todo) : d.fetch # f
      BY <1>1, <1>2, <2>5, FetchConstants, Made DEF PairOK
  <2>11. EndsOf(f) /\ ~ ClosesSoon(f) /\ ~ ClearsSoon(f) /\ ~ Asked(f)
      BY <2>5, <2>10 DEF IInv, EndsWell, EndsOf, ClosesSoon, ClearsSoon, AskedOf, Answered
  <2>12. url' = url /\ (Owned(f)' <=> Owned(f))
      BY DEF Owned
  <2>13. CASE Dostartdriver(f, r) /\ UNCHANGED todo
    <3>1. /\ Data' /\ Only(f) /\ (\A g \in Fetch \ {f} : InQueue(g)' <=> InQueue(g))
          /\ fetch' \in [Fetch -> FetchRecord] /\ driver' \in [Fetch -> DriverRecord]
          /\ slots' \in [Slots -> Nat]
          /\ Live(f)' /\ fetch'[f].url = r.url
          /\ \A flag \in {"DISPOSED", "INCOMPLETE"} : Has(f, flag)' <=> flag \in r.flags
        BY <1>1, <2>5, <2>7, <2>8, <2>9, <2>13, DriverStarts
    <3>2. (Has(f, "DISPOSED")' <=> Has(f, "DISPOSED")) /\ ~ Asked(f)'
        BY <2>8, <2>11, <3>1 DEF Has, Asked
    <3>3. EndsOf(f)'
        BY <2>5, <2>11, <2>12, <2>13, <3>1, <3>2 DEF EndsOf, ForgottenOf, AskedOf, HandledOf, ClosesSoon, ClearsSoon
    <3>4. todo' = <<>> \o todo
      <4>1. todo \in Seq(CallRecord)
          BY DEF IInv, TypeOK
      <4> QED BY <2>13, <4>1, ConcatEmptySeq
    <3>5. Fresh(<<>>, {f}, todo)
        BY FreshNone
    <3>6. Pointers' /\ StackOK' /\ EndsWell' /\ todo' \in Seq(CallRecord)
        BY <1>2, <2>5, <2>8, <2>10, <2>12, <3>1, <3>3, <3>4, <3>5, OneNext
    <3>7. TypeOK'
        BY <1>1, <2>9, <3>1, <3>6 DEF IInv, TypeOK, Moves
    <3> QED BY <3>1, <3>6, <3>7 DEF IInv
  <2>14. CASE /\ fetch' = [fetch EXCEPT ![f] = r]
              /\ todo' = <<Call("srcupdate", f, "terminate"), Call("dispose", f, "none")>> \o todo
              /\ UNCHANGED <<driver, slots>>
    <3>1. driver' = driver /\ driver \in [Fetch -> DriverRecord] /\ driver[f].at = "none"
        BY <2>7, <2>14 DEF Drives, IInv, TypeOK
    <3>2. /\ driver' \in [Fetch -> DriverRecord] /\ driver'[f].at # "update" /\ ~ Drives(f)'
          /\ \A g \in Fetch \ {f} : driver'[g] = driver[g]
          /\ "USESLOT" \notin r.flags /\ r.url \in Url /\ slots' = slots
          /\ Live(f) => fetch[f].url = r.url
        BY <2>7, <2>8, <2>14, <3>1 DEF Drives, Has
    <3>3. /\ Data' /\ Only(f) /\ (\A g \in Fetch \ {f} : InQueue(g)' <=> InQueue(g))
          /\ fetch' \in [Fetch -> FetchRecord] /\ slots' \in [Slots -> Nat]
          /\ Live(f)' /\ fetch'[f] = r
        BY <1>1, <2>1, <2>5, <2>7, <2>8, <2>9, <2>14, <3>2, FetchGoes
    <3>4. (Has(f, "DISPOSED")' <=> Has(f, "DISPOSED")) /\ ~ Asked(f)' /\ ~ Running(f)'
        BY <2>5, <2>8, <2>11, <3>3 DEF Has, Asked, Running
    <3> DEFINE c == Call("srcupdate", f, "terminate")
               d == Call("dispose", f, "none")
    <3>5. /\ c \in CallRecord /\ CallOK(c)'
          /\ \A e : e.op \notin {"updatefetch", "newfetch"} => PairOK(c, e)'
        BY <2>5, <3>3, NewSrcupdate DEF Tags, LastTags, EndTags
    <3>6. /\ d \in CallRecord /\ CallOK(d)' /\ Closing(d)
          /\ \A e : e.op # "updatefetch" /\ e.fetch # f => PairOK(d, e)'
        BY <2>5, <3>3, NewDispose
    <3>7. c.op = "srcupdate" /\ c.fetch = f /\ c.arg = "terminate" /\ d.op = "dispose" /\ d.fetch = f
        BY Fields
    <3>8. todo' = <<c, d>> \o todo
        BY <2>14
    <3> HIDE DEF c, d
    <3>9. Fresh(<<c, d>>, {f}, todo) /\ Range(<<c, d>>) = {c, d}
        BY <1>3, <2>10, <3>5, <3>6, <3>7, FreshTwo
    <3>10. c \in Range(todo') /\ d \in Range(todo')
      <4>1. todo \in Seq(CallRecord) /\ <<c, d>> \in Seq(CallRecord)
          BY <3>9 DEF IInv, TypeOK, Fresh
      <4>2. Range(<<c, d>> \o todo) = Range(<<c, d>>) \cup Range(todo)
          BY <4>1, Concatenation
      <4> QED BY <3>8, <3>9, <4>2
    <3>11. ClosesSoon(f)' /\ ClearsSoon(f)'
        BY <3>6, <3>7, <3>10 DEF ClosesSoon, ClearsSoon, Clearing, LastTags
    <3>12. EndsOf(f)'
        BY <2>11, <2>12, <3>4, <3>11 DEF EndsOf, ForgottenOf, AskedOf, HandledOf
    <3>13. Pointers' /\ StackOK' /\ EndsWell' /\ todo' \in Seq(CallRecord)
        BY <1>2, <2>5, <2>8, <2>10, <2>12, <3>3, <3>8, <3>9, <3>12, OneNext
    <3>14. TypeOK'
        BY <1>1, <2>9, <3>2, <3>3, <3>13 DEF IInv, TypeOK, Moves
    <3> QED BY <3>3, <3>13, <3>14 DEF IInv
  <2> QED BY <1>5, <2>13, <2>14
<1>6. \/ Becomes(<<>>) /\ UNCHANGED <<fetch, driver, lists, slots>>
      \/ \E s \in Slots : \E f, r :
            /\ lists[s] # <<>> /\ f = Head(lists[s])
            /\ r = [fetch[f] EXCEPT !.flags = fetch[f].flags \ {"QUEUED"}]
            /\ lists' = [lists EXCEPT ![s] = Tail(lists[s]), !["running"] = Append(lists["running"], f)]
            /\ \/ Dostartdriver(f, r) /\ UNCHANGED todo
               \/ /\ fetch' = [fetch EXCEPT ![f] = r]
                  /\ todo' = <<Call("srcupdate", f, "terminate"), Call("dispose", f, "none")>> \o todo
                  /\ UNCHANGED <<driver, slots>>
    BY DEF Checkqueues, Waiting, Slots
<1> QED BY <1>4, <1>5, <1>6

-----------------------------------------------------------------------------
(* Handlers that change the pointers of a URL *)

LEMMA PointersNext ==
    ASSUME IInv, UNCHANGED fetchvars, NEW u \in Url, NEW r \in UrlRecord, With(u, r),
           \A role \in Roles : r[role] = NoFetch \/ \E q \in Roles : r[role] = url[u][q],
           r.push \in {NoFetch, r.fetch, r.rfetch},
           r.fetch # NoFetch => r.rfetch = NoFetch /\ r.vfetch = NoFetch,
           r.rfetch = r.vfetch => r.rfetch = NoFetch
    PROVE  /\ Data' /\ Pointers' /\ url' \in [Url -> UrlRecord] /\ url'[u] = r
           /\ \A g \in Fetch : /\ Same(g)
                               /\ Has(g, "DISPOSED")' <=> Has(g, "DISPOSED")
           /\ \A g \in Fetch : Owned(g) /\ ~ Owned(g)' <=>
                 (\E role \in Roles : url[u][role] = g) /\ (\A role \in Roles : r[role] # g)
<1>1. Steady
    BY NothingMoves DEF fetchvars
<1>2. Data' /\ \A g \in Fetch : InQueue(g)' <=> InQueue(g)
    BY <1>1, SteadyData DEF IInv
<1>3. /\ url \in [Url -> UrlRecord] /\ url' \in [Url -> UrlRecord] /\ url'[u] = r
      /\ \A v \in Url \ {u} : url'[v] = url[v]
    BY DEF IInv, TypeOK, With
<1>4. UNCHANGED <<fetch, driver, lists, slots, prefs, waits>>
    BY DEF fetchvars
<1>5. ASSUME NEW role \in Roles, r[role] # NoFetch PROVE Live(r[role])' /\ fetch'[r[role]].url = u
  <2>1. PICK q \in Roles : r[role] = url[u][q]
      BY <1>5
  <2> QED BY <2>1, <1>4, <1>5 DEF IInv, Pointers, PointersOf, Live
<1>6. PointersOf(u)'
  <2>1. \A role \in Roles : r[role] # NoFetch => fetch'[r[role]].obj = "live" /\ fetch'[r[role]].url = u
      BY <1>5 DEF Live
  <2>2. \A role \in Roles :
           url'[u][role] # NoFetch => fetch'[url'[u][role]].obj = "live" /\ fetch'[url'[u][role]].url = u
      BY <2>1, <1>3
  <2>3. /\ url'[u].push \in {NoFetch, url'[u].fetch, url'[u].rfetch}
        /\ url'[u].fetch # NoFetch => url'[u].rfetch = NoFetch /\ url'[u].vfetch = NoFetch
        /\ url'[u].rfetch = url'[u].vfetch => url'[u].rfetch = NoFetch
      BY <1>3
  <2> QED BY <2>2, <2>3 DEF PointersOf, Live
<1>7. ASSUME NEW v \in Url, v # u PROVE PointersOf(v)'
    BY <1>3, <1>4, <1>7 DEF IInv, Pointers, PointersOf, Live
<1>8. Pointers'
    BY <1>6, <1>7 DEF Pointers
<1>9. ASSUME NEW g \in Fetch
      PROVE  /\ Owned(g)' => Owned(g)
             /\ Owned(g) /\ ~ Owned(g)' <=>
                   (\E role \in Roles : url[u][role] = g) /\ (\A role \in Roles : r[role] # g)
  <2>1. Owned(g)' <=> \/ \E v \in Url \ {u}, role \in Roles : url[v][role] = g
                      \/ \E role \in Roles : r[role] = g
      BY <1>3 DEF Owned
  <2>2. Owned(g) <=> \/ \E v \in Url \ {u}, role \in Roles : url[v][role] = g
                     \/ \E role \in Roles : url[u][role] = g
      BY DEF Owned
  <2>3. (\E role \in Roles : r[role] = g) => \E role \in Roles : url[u][role] = g
      BY FetchConstants
  <2>4. (\E role \in Roles : url[u][role] = g) => fetch[g].url = u
      BY PointersAre, FetchConstants
  <2>5. (\E v \in Url \ {u}, role \in Roles : url[v][role] = g) => fetch[g].url # u
      BY PointersAre, FetchConstants
  <2> QED BY <2>1, <2>2, <2>3, <2>4, <2>5
<1>10. ASSUME NEW g \in Fetch PROVE Same(g) /\ (Has(g, "DISPOSED")' <=> Has(g, "DISPOSED"))
    BY <1>2, <1>4, <1>9 DEF Same, Live, Running, Asked, Drives, Has
<1> QED BY <1>2, <1>3, <1>8, <1>9, <1>10

\* Such a step, when the fetches of X are ended and the others that u had it keeps.
LEMMA UrlNext ==
    ASSUME IInv, UNCHANGED fetchvars, NEW u \in Url, NEW r \in UrlRecord, With(u, r),
           \A role \in Roles : r[role] = NoFetch \/ \E q \in Roles : r[role] = url[u][q],
           r.push \in {NoFetch, r.fetch, r.rfetch},
           r.fetch # NoFetch => r.rfetch = NoFetch /\ r.vfetch = NoFetch,
           r.rfetch = r.vfetch => r.rfetch = NoFetch,
           NEW X, \A g \in Fetch \cap X : EndsOf(g)',
           \A role \in Roles : \/ url[u][role] \in X \cup {NoFetch}
                               \/ \E q \in Roles : r[q] = url[u][role],
           NEW calls, NEW rest, Below(rest), todo' = calls \o rest, Fresh(calls, X, rest),
           \A c \in Range(todo) : Plain(c) \/ c \in Range(rest) \/ c.fetch \in X,
           \A c \in Range(rest) : c.op # "newfetch"
    PROVE  IInv'
<1>1. /\ Data' /\ Pointers' /\ url' \in [Url -> UrlRecord]
      /\ \A g \in Fetch : Same(g) /\ (Has(g, "DISPOSED")' <=> Has(g, "DISPOSED"))
      /\ \A g \in Fetch : Owned(g) /\ ~ Owned(g)' <=>
            (\E role \in Roles : url[u][role] = g) /\ (\A role \in Roles : r[role] # g)
    BY PointersNext
<1>2. \A g \in Fetch \ X : Owned(g) => Owned(g)'
    BY <1>1, FetchConstants
<1>3. \A c \in Range(rest) : c.op = "forward" /\ Has(c.fetch, "POSTNOGOOD")'
                                 => Has(c.fetch, "POSTNOGOOD")
    BY DEF Has, fetchvars
<1>4. StackOK' /\ EndsWell' /\ todo' \in Seq(CallRecord)
  <2>1. \A g \in Fetch \ X : Same(g) /\ (Owned(g) => Owned(g)') /\ (Has(g, "DISPOSED")' <=> Has(g, "DISPOSED"))
      BY <1>1, <1>2
  <2>2. \A c \in Range(rest) : c.fetch \in Fetch \cap X => Same(c.fetch)
      BY <1>1
  <2> QED BY <2>1, <2>2, <1>3, StepNext DEF Fresh
<1>5. TypeOK'
    BY <1>1, <1>4 DEF IInv, TypeOK, fetchvars
<1> QED BY <1>1, <1>4, <1>5 DEF IInv

\* A handler that leaves everything but its calls alone.
LEMMA CallsOnly ==
    ASSUME IInv, todo # <<>>, Plain(Head(todo)), UNCHANGED <<fetchvars, url>>,
           NEW calls, Becomes(calls), Fresh(calls, {}, Tail(todo))
    PROVE  IInv'
<1>1. Steady /\ \A f \in Fetch : Has(f, "POSTNOGOOD")' <=> Has(f, "POSTNOGOOD")
    BY NothingMoves DEF fetchvars
<1>2. Data' /\ Pointers' /\ StackOK' /\ EndsWell' /\ todo' \in Seq(CallRecord)
    BY <1>1, SteadyCall DEF Fresh
<1>3. TypeOK'
    BY <1>2 DEF IInv, TypeOK, fetchvars
<1> QED BY <1>2, <1>3 DEF IInv

-----------------------------------------------------------------------------
(* Srcupdateurl *)

LEMMA RecordFacts ==
    ASSUME IInv, NEW u \in Url, NEW r, r = url[u]
    PROVE  /\ r \in UrlRecord
           /\ r.fetch \in Fetch \cup {NoFetch} /\ r.rfetch \in Fetch \cup {NoFetch}
           /\ r.vfetch \in Fetch \cup {NoFetch} /\ r.push \in {NoFetch, r.fetch, r.rfetch}
           /\ r.fetch # NoFetch => r.rfetch = NoFetch /\ r.vfetch = NoFetch
           /\ r.rfetch = r.vfetch => r.rfetch = NoFetch
<1>1. r \in UrlRecord
    BY DEF IInv, TypeOK
<1> QED BY <1>1 DEF UrlRecord, IInv, Pointers, PointersOf

\* The source and the URL u receive the update tag of f.
Receives(u, f, tag) ==
    /\ Calls("srcupdate") /\ UNCHANGED fetchvars
    /\ f = This /\ u = fetch[f].url /\ tag = Arg

LEMMA ReceivesFacts ==
    ASSUME IInv, NEW u, NEW f, NEW tag, Receives(u, f, tag)
    PROVE  /\ todo # <<>> /\ u \in Url /\ f \in Fetch /\ tag \in Tags /\ Live(f)
           /\ ~ Closing(Head(todo)) /\ Head(todo).op # "incompleteend" /\ Head(todo).fetch = f
           /\ Plain(Head(todo)) <=> tag \notin LastTags
           /\ tag \in LastTags => ClearsSoon(f)
           /\ tag \notin EndTags => Running(f)
           /\ \A d \in Range(Tail(todo)) :
                 /\ d.op \notin {"updatefetch", "newfetch"}
                 /\ tag \notin EndTags \cup {"error"} => d.op = "reply" /\ d.fetch = f
<1>1. todo # <<>> /\ Head(todo).op = "srcupdate" /\ Head(todo).fetch = f /\ Head(todo).arg = tag
    BY DEF Receives, Calls, Idle, This, Arg
<1>2. CallOK(Head(todo)) /\ \A d \in Range(Tail(todo)) : PairOK(Head(todo), d)
    BY <1>1, Made
<1>3. f \in Fetch /\ tag \in Tags /\ Live(f) /\ (tag \notin EndTags => Running(f))
    BY <1>1, <1>2, FetchConstants DEF CallOK, FetchOps
<1>4. u \in Url
    BY <1>3 DEF Receives, IInv, Data, FlagsOf
<1>5. /\ ~ Closing(Head(todo)) /\ Head(todo).op # "incompleteend"
      /\ Plain(Head(todo)) <=> tag \notin LastTags
      /\ Clearing(Head(todo)) <=> tag \in LastTags
    BY <1>1 DEF Plain, Closing, Clearing
<1>6. tag \in LastTags => ClearsSoon(f)
    BY <1>1, <1>5, Made DEF ClearsSoon
<1>7. \A d \in Range(Tail(todo)) :
                 /\ d.op \notin {"updatefetch", "newfetch"}
                 /\ tag \notin EndTags \cup {"error"} => d.op = "reply" /\ d.fetch = f
    BY <1>1, <1>2 DEF PairOK
<1> QED BY <1>1, <1>3, <1>4, <1>5, <1>6, <1>7

\* A fetch that its URL forgets, and that is to be disposed of.
LEMMA Forgotten ==
    ASSUME IInv, UNCHANGED fetchvars, NEW g \in Fetch, ~ Owned(g)',
           \A c \in Range(todo) : c.op = "incompleteend" => c \in Range(todo'),
           Live(g) /\ ~ Has(g, "DISPOSED") => ClosesSoon(g)'
    PROVE  EndsOf(g)'
<1>1. UNCHANGED <<fetch, driver, lists>>
    BY DEF fetchvars
<1>2. ForgottenOf(g)'
    BY DEF ForgottenOf
<1>3. AskedOf(g)'
    BY <1>1 DEF IInv, EndsWell, AskedOf, Asked, Answered, Running, Has, InQueue
<1>4. HandledOf(g)'
    BY <1>1 DEF HandledOf, Live, Has
<1> QED BY <1>2, <1>3, <1>4 DEF EndsOf

\* The server push p is cancelled, once.
LEMMA PushIsCancelled ==
    ASSUME IInv, fetch' = fetch, NEW p \in Fetch \cup {NoFetch}, NEW shown \in BOOLEAN,
           p # NoFetch => Live(p), NEW X, NEW rest,
           \A d \in Range(rest) : d.op \notin {"updatefetch", "newfetch"},
           \A d \in Range(rest) : p # NoFetch /\ d.fetch = p => Running(p)
    PROVE  \E calls :
              /\ calls = CancelPush(p, shown) /\ Fresh(calls, X, rest)
              /\ \A c \in Range(calls) : c.op \in {"cancel", "overflow"}
<1>1. PICK op \in {"cancel", "overflow"} : op = IF Cancelling(p) THEN "overflow" ELSE "cancel"
    OBVIOUS
<1>2. PICK b \in BOOLEAN : b <=> p # NoFetch /\ ~ shown
    OBVIOUS
<1> DEFINE c == Call(op, p, "none")
<1>3. CancelPush(p, shown) = If(b, c)
    BY <1>1, <1>2 DEF CancelPush, If
<1>4. c.op = op
    BY Fields
<1>5. b => /\ c \in CallRecord /\ CallOK(c)' /\ Plain(c)
           /\ \A d \in Range(rest) : PairOK(c, d)'
  <2>1. SUFFICES ASSUME b
                 PROVE  /\ c \in CallRecord /\ CallOK(c)' /\ Plain(c)
                        /\ \A d \in Range(rest) : PairOK(c, d)'
      OBVIOUS
  <2>2. p \in Fetch /\ Live(p)' /\ (Running(p)' <=> Running(p))
      BY <2>1, <1>2 DEF Live, Running, Has
  <2>3. /\ c \in CallRecord /\ CallOK(c)' /\ Plain(c)
        /\ \A d : /\ d.op \notin {"updatefetch", "newfetch"}
                  /\ op \in {"cancel", "cancellocal"} /\ d.fetch = p => Running(p)'
                  => PairOK(c, d)'
      BY <2>2, NewStop
  <2> HIDE DEF c
  <2> QED BY <2>1, <2>2, <2>3, <1>2
<1> HIDE DEF c
<1>6. Fresh(If(b, c), X, rest) /\ \A d : d \in Range(If(b, c)) <=> b /\ d = c
    BY <1>5, FreshIf
<1> QED BY <1>1, <1>3, <1>4, <1>6


LEMMA UrlForgets ==
    ASSUME IInv, NEW u \in Url, NEW s, With(u, s), NEW g \in Fetch, fetch[g].url = u,
           \A role \in Roles : s[role] # g
    PROVE  ~ Owned(g)'
<1>1. /\ url'[u] = s /\ \A v \in Url \ {u} : url'[v] = url[v]
    BY DEF With, IInv, TypeOK
<1>2. \A v \in Url, role \in Roles : url[v][role] = g => v = u
    BY PointersAre, FetchConstants
<1> QED BY <1>1, <1>2 DEF Owned

\* A slow verification that failed loads the copy.
LEMMA CopyIsReloaded ==
    ASSUME IInv, NEW u \in Url, NEW X, NEW rest,
           \A d \in Range(rest) : d.op \notin {"updatefetch", "newfetch"}
    PROVE  \E calls : /\ calls = ReloadCopy(u) /\ Fresh(calls, X, rest)
                      /\ \A c \in Range(calls) : c.op = "load" /\ c.fetch = NoFetch
<1> DEFINE c == CallUrl("load", u, "none", "history")
<1>1. PICK b \in BOOLEAN : b <=> ~ prefs.fast
    OBVIOUS
<1>2. ReloadCopy(u) = If(b, c)
    BY <1>1 DEF ReloadCopy, If
<1>3. c.op = "load" /\ c.fetch = NoFetch
    BY Fields
<1>4. /\ c \in CallRecord /\ CallOK(c)' /\ Plain(c)
      /\ \A d : d.op \notin {"updatefetch", "newfetch"} => PairOK(c, d)'
    BY NewLoad DEF LoadFlags
<1> HIDE DEF c
<1>5. Fresh(If(b, c), X, rest) /\ \A d : d \in Range(If(b, c)) <=> b /\ d = c
    BY <1>4, FreshIf
<1> QED BY <1>2, <1>3, <1>5

LEMMA SrcupdatevfetchNext ==
    ASSUME IInv, NEW u, NEW f, NEW tag, Receives(u, f, tag), url[u].vfetch = f, Srcupdatevfetch(u, f, tag)
    PROVE  IInv'
<1>1. /\ todo # <<>> /\ u \in Url /\ f \in Fetch /\ tag \in Tags /\ Live(f)
      /\ ~ Closing(Head(todo)) /\ Head(todo).op # "incompleteend" /\ Head(todo).fetch = f
      /\ Plain(Head(todo)) <=> tag \notin LastTags
      /\ tag \in LastTags => ClearsSoon(f)
      /\ \A d \in Range(Tail(todo)) : d.op \notin {"updatefetch", "newfetch"}
    BY ReceivesFacts
<1>2. PICK r : r = url[u]
    OBVIOUS
<1>3. /\ r \in UrlRecord
      /\ r.fetch \in Fetch \cup {NoFetch} /\ r.rfetch \in Fetch \cup {NoFetch}
      /\ r.vfetch \in Fetch \cup {NoFetch} /\ r.push \in {NoFetch, r.fetch, r.rfetch}
      /\ r.fetch # NoFetch => r.rfetch = NoFetch /\ r.vfetch = NoFetch
      /\ r.rfetch = r.vfetch => r.rfetch = NoFetch
    BY <1>1, <1>2, RecordFacts
<1>4. r.vfetch = f /\ f # NoFetch /\ r.fetch = NoFetch /\ r.rfetch # f /\ fetch[f].url = u
    BY <1>1, <1>2, <1>3, FetchConstants DEF Receives
<1>5. UNCHANGED <<fetch, driver, lists, slots, prefs, waits>> /\ UNCHANGED fetchvars
    BY DEF Receives, fetchvars
<1>6. Below(Tail(todo)) /\ Below(todo) /\ Range(todo) = {Head(todo)} \cup Range(Tail(todo))
    BY <1>1, Made
<1>7. CASE tag \in {"data", "moved"} /\ With(u, Promoted(r, f)) /\ todo' = CallIf(r.rfetch, "dispose") \o todo
  <2>1. PICK s \in UrlRecord : s = Promoted(r, f) /\ s.fetch = f /\ s.rfetch = NoFetch
                                 /\ s.vfetch = NoFetch /\ s.push = NoFetch
    <3> DEFINE s == Promoted(r, f)
    <3>1. s \in UrlRecord /\ s.fetch = f /\ s.rfetch = NoFetch /\ s.vfetch = NoFetch /\ s.push = NoFetch
        BY <1>1, <1>3 DEF Promoted, UrlRecord
    <3> HIDE DEF s
    <3> QED BY <3>1 DEF s
  <2>2. PICK g \in Fetch \cup {NoFetch} : g = r.rfetch
      BY <1>3
  <2>3. PICK b \in BOOLEAN : b <=> g # NoFetch
      OBVIOUS
  <2> DEFINE c == Call("dispose", g, "none")
  <2>4. todo' = If(b, c) \o todo /\ With(u, s)
      BY <1>7, <2>1, <2>2, <2>3 DEF CallIf, If
  <2>5. b => g \in Fetch /\ Live(g) /\ fetch[g].url = u /\ g # f
      BY <2>2, <2>3, <1>1, <1>2, <1>4, PointersAre DEF Roles
  <2>6. b => ~ Owned(g)'
    <3>1. b => \A role \in Roles : s[role] # g
        BY <1>4, <2>1, <2>3, <2>5 DEF Roles
    <3> QED BY <1>1, <2>4, <2>5, <3>1, UrlForgets
  <2>7. \A d \in Range(todo) : d.op # "updatefetch" /\ d.fetch = f
    <3>1. \A d \in Range(Tail(todo)) : d.op # "updatefetch" /\ d.fetch = f
        BY <1>7, ReceivesFacts DEF EndTags, LastTags
    <3>2. Head(todo).op # "updatefetch"
        BY DEF Receives, Calls
    <3> QED BY <1>1, <1>6, <3>1, <3>2
  <2>8. b => /\ c \in CallRecord /\ CallOK(c)' /\ c.fetch = g /\ Closing(c)
             /\ \A d \in Range(todo) : PairOK(c, d)'
    <3>1. SUFFICES ASSUME b
                   PROVE  /\ c \in CallRecord /\ CallOK(c)' /\ c.fetch = g /\ Closing(c)
                          /\ \A d \in Range(todo) : PairOK(c, d)'
        OBVIOUS
    <3>2. g \in Fetch /\ Live(g)'
        BY <3>1, <2>5, <1>5 DEF Live
    <3>3. /\ c \in CallRecord /\ CallOK(c)' /\ Closing(c)
          /\ \A d : d.op # "updatefetch" /\ d.fetch # g => PairOK(c, d)'
        BY <3>2, NewDispose
    <3>4. c.fetch = g
        BY Fields
    <3> HIDE DEF c
    <3> QED BY <3>1, <3>3, <3>4, <2>5, <2>7
  <2> HIDE DEF c
  <2>9. Fresh(If(b, c), {g}, todo) /\ \A d : d \in Range(If(b, c)) <=> b /\ d = c
      BY <2>8, FreshIf
  <2>10. Range(todo') = Range(If(b, c)) \cup Range(todo)
      BY <2>4, <2>9, Concatenation DEF IInv, TypeOK, Fresh
  <2>11. \A h \in Fetch \cap {g} : EndsOf(h)'
    <3>1. ASSUME g \in Fetch PROVE EndsOf(g)'
      <4>1. b
          BY <3>1, <2>3, FetchConstants
      <4>2. ClosesSoon(g)'
          BY <4>1, <2>8, <2>9, <2>10 DEF ClosesSoon
      <4> QED BY <1>5, <2>6, <2>10, <4>1, <4>2, <3>1, Forgotten
    <3> QED BY <3>1
  <2>12. \A role \in Roles : s[role] = NoFetch \/ \E q \in Roles : s[role] = url[u][q]
      BY <2>1, <1>2, <1>4 DEF Roles
  <2>13. \A role \in Roles : \/ url[u][role] \in {g} \cup {NoFetch}
                             \/ \E q \in Roles : s[q] = url[u][role]
      BY <2>1, <2>2, <1>2, <1>4 DEF Roles
  <2>14. \A c0 \in Range(todo) : c0.op # "newfetch"
    <3>1. Head(todo).op # "newfetch"
        BY DEF Receives, Calls
    <3> QED BY <1>1, <1>6, <3>1
  <2> QED BY <1>1, <1>5, <1>6, <2>1, <2>4, <2>9, <2>11, <2>12, <2>13, <2>14, UrlNext
<1>8. ASSUME With(u, [r EXCEPT !.vfetch = NoFetch]), NEW calls, Becomes(calls), Fresh(calls, {f}, Tail(todo)),
             tag \in LastTags \/ \E c \in Range(calls) : Closing(c) /\ c.fetch = f
      PROVE  IInv'
  <2>1. PICK s \in UrlRecord : s = [r EXCEPT !.vfetch = NoFetch] /\ s.vfetch = NoFetch /\ s.fetch = r.fetch
                                 /\ s.rfetch = r.rfetch /\ s.push = r.push
    <3> DEFINE s == [r EXCEPT !.vfetch = NoFetch]
    <3>1. s \in UrlRecord /\ s.fetch = r.fetch /\ s.rfetch = r.rfetch /\ s.vfetch = NoFetch /\ s.push = r.push
        BY <1>3 DEF UrlRecord
    <3> HIDE DEF s
    <3> QED BY <3>1 DEF s
  <2>2. With(u, s) /\ todo' = calls \o Tail(todo)
      BY <1>8, <2>1 DEF Becomes
  <2>3. ~ Owned(f)'
    <3>1. \A role \in Roles : s[role] # f
        BY <1>4, <2>1 DEF Roles
    <3> QED BY <1>1, <1>4, <2>2, <3>1, UrlForgets
  <2>4. Range(todo') = Range(calls) \cup Range(Tail(todo))
      BY <1>1, <1>8, Pending DEF Fresh
  <2>5. Live(f) /\ ~ Has(f, "DISPOSED") => ClosesSoon(f)'
    <3>1. CASE tag \in LastTags
      <4>1. ClosesSoon(f) \/ Has(f, "DISPOSED")
          BY <1>1, <3>1 DEF IInv, EndsWell, HandledOf
      <4> QED BY <4>1, <1>1, <1>6, <2>4 DEF ClosesSoon
    <3>2. CASE \E c \in Range(calls) : Closing(c) /\ c.fetch = f
        BY <3>2, <2>4 DEF ClosesSoon
    <3> QED BY <3>1, <3>2, <1>8
  <2>6. \A g \in Fetch \cap {f} : EndsOf(g)'
      BY <1>1, <1>5, <1>6, <2>3, <2>4, <2>5, Forgotten
  <2>7. \A role \in Roles : s[role] = NoFetch \/ \E q \in Roles : s[role] = url[u][q]
      BY <2>1, <1>2 DEF Roles
  <2>8. \A role \in Roles : \/ url[u][role] \in {f} \cup {NoFetch}
                            \/ \E q \in Roles : s[q] = url[u][role]
      BY <2>1, <1>2, <1>4 DEF Roles
  <2>9. /\ s.push \in {NoFetch, s.fetch, s.rfetch}
        /\ s.fetch # NoFetch => s.rfetch = NoFetch /\ s.vfetch = NoFetch
        /\ s.rfetch = s.vfetch => s.rfetch = NoFetch
      BY <1>3, <2>1
  <2>10. /\ \A c \in Range(todo) : Plain(c) \/ c \in Range(Tail(todo)) \/ c.fetch \in {f}
         /\ \A c \in Range(Tail(todo)) : c.op # "newfetch"
      BY <1>1, <1>6
  <2> QED BY <1>1, <1>5, <1>6, <1>8, <2>1, <2>2, <2>6, <2>7, <2>8, <2>9, <2>10, UrlNext
<1>9. CASE /\ tag \in {"error", "fail"} /\ With(u, [r EXCEPT !.vfetch = NoFetch])
           /\ Becomes(<<Call("dispose", f, "none")>> \o ReloadCopy(u))
  <2>1. PICK loads : /\ loads = ReloadCopy(u) /\ Fresh(loads, {f}, Tail(todo))
                     /\ \A c \in Range(loads) : c.op = "load" /\ c.fetch = NoFetch
      BY <1>1, CopyIsReloaded
  <2> DEFINE c == Call("dispose", f, "none")
  <2>2. Running(f) \/ Asked(f)
      BY <1>9, Made, FetchConstants DEF Receives, Calls, Idle, This, Arg, CallOK
  <2>3. Live(f)' /\ (Running(f)' \/ Asked(f)')
      BY <1>1, <1>5, <2>2 DEF Live, Running, Asked, Has
  <2>4. ~ Owned(f)'
    <3>1. [r EXCEPT !.vfetch = NoFetch].fetch = r.fetch /\ [r EXCEPT !.vfetch = NoFetch].rfetch = r.rfetch
          /\ [r EXCEPT !.vfetch = NoFetch].vfetch = NoFetch
        BY <1>3 DEF UrlRecord
    <3>2. PICK s : s = [r EXCEPT !.vfetch = NoFetch] /\ \A role \in Roles : s[role] # f
        BY <3>1, <1>4 DEF Roles
    <3>3. With(u, s)
        BY <1>9, <3>2
    <3> QED BY <1>1, <1>4, <3>2, <3>3, UrlForgets
  <2>5. /\ c \in CallRecord /\ CallOK(c)' /\ Closing(c)
        /\ \A d : d.op # "updatefetch" => PairOK(c, d)'
      BY <1>1, <2>3, <2>4, NewDispose
  <2>6. c.fetch = f
      BY Fields
  <2>7. Becomes(<<c>> \o loads)
      BY <1>9, <2>1
  <2> HIDE DEF c
  <2>8. Fresh(<<c>>, {f}, Tail(todo)) /\ Range(<<c>>) = {c}
      BY <1>1, <2>5, <2>6, FreshOne
  <2>9. Fresh(<<c>> \o loads, {f}, Tail(todo)) /\ Range(<<c>> \o loads) = Range(<<c>>) \cup Range(loads)
      BY <2>1, <2>5, <2>8, FreshJoin
  <2> QED BY <1>8, <1>9, <2>5, <2>6, <2>7, <2>8, <2>9
<1>10. CASE tag = "terminate" /\ With(u, [r EXCEPT !.vfetch = NoFetch]) /\ Becomes(ReloadCopy(u))
  <2>1. PICK loads : /\ loads = ReloadCopy(u) /\ Fresh(loads, {f}, Tail(todo))
      BY <1>1, CopyIsReloaded
  <2>2. tag \in LastTags
      BY <1>10 DEF LastTags
  <2> QED BY <1>8, <1>10, <2>1, <2>2
<1>11. CASE tag \notin {"data", "moved", "error", "fail", "terminate"} /\ Becomes(<<>>) /\ UNCHANGED url
  <2>1. Plain(Head(todo))
      BY <1>1, <1>11 DEF LastTags
  <2> QED BY <1>1, <1>5, <1>11, <2>1, FreshNone, CallsOnly
<1> QED BY <1>2, <1>7, <1>8, <1>9, <1>10, <1>11 DEF Srcupdatevfetch


\* A handler that changes only the source of a URL.
LEMMA SourceNext ==
    ASSUME IInv, UNCHANGED fetchvars, NEW u \in Url, NEW s \in UrlRecord, With(u, s),
           \A role \in Roles : s[role] = url[u][role], s.push \in {NoFetch, s.fetch, s.rfetch},
           NEW calls, NEW rest, Below(rest), todo' = calls \o rest, Fresh(calls, {}, rest),
           \A c \in Range(todo) : Plain(c) \/ c \in Range(rest),
           \A c \in Range(rest) : c.op # "newfetch"
    PROVE  IInv'
<1>1. PICK r : r = url[u]
    OBVIOUS
<1>2. /\ s.fetch # NoFetch => s.rfetch = NoFetch /\ s.vfetch = NoFetch
      /\ s.rfetch = s.vfetch => s.rfetch = NoFetch
  <2>1. s.fetch = r.fetch /\ s.rfetch = r.rfetch /\ s.vfetch = r.vfetch
      BY <1>1 DEF Roles
  <2> QED BY <1>1, <2>1, RecordFacts
<1>3. /\ \A role \in Roles : s[role] = NoFetch \/ \E q \in Roles : s[role] = url[u][q]
      /\ \A role \in Roles : \/ url[u][role] \in {} \cup {NoFetch}
                             \/ \E q \in Roles : s[q] = url[u][role]
      /\ \A g \in Fetch \cap {} : EndsOf(g)'
      /\ \A c \in Range(todo) : Plain(c) \/ c \in Range(rest) \/ c.fetch \in {}
    OBVIOUS
<1> QED BY <1>2, <1>3, UrlNext

LEMMA SrcupdatefetchNext ==
    ASSUME IInv, NEW u, NEW f, NEW tag, Receives(u, f, tag), f \in {url[u].fetch, url[u].rfetch},
           Srcupdatefetch(u, f, tag)
    PROVE  IInv'
<1>1. /\ todo # <<>> /\ u \in Url /\ f \in Fetch /\ tag \in Tags /\ Live(f)
      /\ ~ Closing(Head(todo)) /\ Head(todo).op # "incompleteend" /\ Head(todo).fetch = f
      /\ Plain(Head(todo)) <=> tag \notin LastTags
      /\ tag \in LastTags => ClearsSoon(f)
      /\ tag \notin EndTags => Running(f)
      /\ \A d \in Range(Tail(todo)) :
            /\ d.op \notin {"updatefetch", "newfetch"}
            /\ tag \notin EndTags \cup {"error"} => d.op = "reply" /\ d.fetch = f
    BY ReceivesFacts
<1>2. PICK r : r = url[u]
    OBVIOUS
<1>3. /\ r \in UrlRecord
      /\ r.fetch \in Fetch \cup {NoFetch} /\ r.rfetch \in Fetch \cup {NoFetch}
      /\ r.vfetch \in Fetch \cup {NoFetch} /\ r.push \in {NoFetch, r.fetch, r.rfetch}
      /\ r.fetch # NoFetch => r.rfetch = NoFetch /\ r.vfetch = NoFetch
      /\ r.rfetch = r.vfetch => r.rfetch = NoFetch
    BY <1>1, <1>2, RecordFacts
<1>4. f # NoFetch /\ f \in {r.fetch, r.rfetch} /\ fetch[f].url = u /\ r.push \in {NoFetch, f}
    BY <1>1, <1>2, <1>3, FetchConstants DEF Receives
<1>5. UNCHANGED <<fetch, driver, lists, slots, prefs, waits>> /\ UNCHANGED fetchvars
    BY DEF Receives, fetchvars
<1>6. Below(Tail(todo)) /\ Range(todo) = {Head(todo)} \cup Range(Tail(todo))
    BY <1>1, Made
<1>7. PICK shown \in BOOLEAN : shown = r.shown
    BY <1>3 DEF UrlRecord
\* The source's server push is changed, or nothing is.
<1>8. ASSUME tag \notin LastTags, NEW p \in {NoFetch, f}, With(u, [r EXCEPT !.push = p]),
             NEW calls, Becomes(calls), Fresh(calls, {}, Tail(todo))
      PROVE  IInv'
  <2>1. PICK s \in UrlRecord : /\ s = [r EXCEPT !.push = p] /\ s.push = p /\ s.fetch = r.fetch
                               /\ s.rfetch = r.rfetch /\ s.vfetch = r.vfetch
    <3> DEFINE s == [r EXCEPT !.push = p]
    <3>1. s \in UrlRecord /\ s.fetch = r.fetch /\ s.rfetch = r.rfetch /\ s.vfetch = r.vfetch /\ s.push = p
        BY <1>1, <1>3, <1>8 DEF UrlRecord
    <3> HIDE DEF s
    <3> QED BY <3>1 DEF s
  <2>2. With(u, s) /\ todo' = calls \o Tail(todo)
      BY <1>8, <2>1 DEF Becomes
  <2>3. (\A role \in Roles : s[role] = url[u][role]) /\ s.push \in {NoFetch, s.fetch, s.rfetch}
      BY <1>2, <1>4, <1>8, <2>1 DEF Roles
  <2>4. /\ \A c \in Range(todo) : Plain(c) \/ c \in Range(Tail(todo))
        /\ \A c \in Range(Tail(todo)) : c.op # "newfetch"
      BY <1>1, <1>6, <1>8
  <2> QED BY <1>1, <1>5, <1>6, <1>8, <2>2, <2>3, <2>4, SourceNext
<1>9. ASSUME tag \notin LastTags, UNCHANGED url, NEW calls, Becomes(calls), Fresh(calls, {}, Tail(todo))
      PROVE  IInv'
    BY <1>1, <1>5, <1>9, CallsOnly
<1>10. ASSUME tag \notin EndTags, NEW p \in {NoFetch, f}
       PROVE  \E calls : /\ calls = CancelPush(p, shown) /\ Fresh(calls, {}, Tail(todo))
                         /\ \A c \in Range(calls) : c.op \in {"cancel", "overflow"}
  <2>1. p \in Fetch \cup {NoFetch} /\ (p # NoFetch => Live(p) /\ Running(p))
      BY <1>1, <1>10
  <2> QED BY <1>1, <1>5, <2>1, PushIsCancelled
<1>11. ASSUME tag = "moved", NEW v \in Url \ {u}, With(u, [r EXCEPT !.push = NoFetch]),
              Becomes(<<CallUrl("load", v, "none", fetch[f].loadflags)>>)
       PROVE  IInv'
  <2>1. PICK flags \in LoadFlags : flags = fetch[f].loadflags
      BY <1>1 DEF IInv, TypeOK, FetchRecord
  <2> DEFINE c == CallUrl("load", v, "none", flags)
  <2>2. \A d \in Range(Tail(todo)) : d.op = "reply" /\ d.fetch = f /\ fetch'[d.fetch].url # v
      BY <1>1, <1>4, <1>5, <1>11 DEF EndTags, LastTags
  <2>3. /\ c \in CallRecord /\ CallOK(c)' /\ Plain(c)
        /\ \A d : /\ d.op \notin {"updatefetch", "newfetch"}
                  /\ d.op = "reply" /\ fetch'[d.fetch].url # v
                  => PairOK(c, d)'
      BY <1>11, NewLoad
  <2>4. Becomes(<<c>>)
      BY <1>11, <2>1
  <2> HIDE DEF c
  <2>5. Fresh(<<c>>, {}, Tail(todo))
      BY <2>2, <2>3, FreshOne
  <2>6. tag \notin LastTags
      BY <1>11 DEF LastTags
  <2> QED BY <1>8, <1>11, <2>4, <2>5, <2>6
<1>12. CASE tag = "moved" /\ Becomes(CancelPush(r.push, r.shown)) /\ UNCHANGED url
  <2>1. tag \notin EndTags
      BY <1>12 DEF EndTags, LastTags
  <2>2. PICK calls : calls = CancelPush(r.push, shown) /\ Fresh(calls, {}, Tail(todo))
      BY <1>4, <1>10, <2>1
  <2> QED BY <1>7, <1>9, <1>12, <2>1, <2>2 DEF EndTags
<1>13. CASE tag = "push" /\ With(u, [r EXCEPT !.push = f]) /\ Becomes(CancelPush(f, r.shown))
  <2>1. tag \notin EndTags
      BY <1>13 DEF EndTags, LastTags
  <2>2. PICK calls : calls = CancelPush(f, shown) /\ Fresh(calls, {}, Tail(todo))
      BY <1>10, <2>1
  <2> QED BY <1>7, <1>8, <1>13, <2>1, <2>2 DEF EndTags
<1>14. CASE tag = "reload" /\ With(u, [r EXCEPT !.push = NoFetch]) /\ Becomes(<<>>)
  <2>1. tag \notin LastTags
      BY <1>14 DEF LastTags
  <2> QED BY <1>8, <1>14, <2>1, FreshNone
<1>15. CASE tag \in LastTags /\ With(u, Ended(r)) /\ Becomes(<<>>)
  <2>1. PICK s \in UrlRecord : s = Ended(r) /\ s.fetch = NoFetch /\ s.rfetch = NoFetch
                                 /\ s.vfetch = r.vfetch /\ s.push = NoFetch
    <3> DEFINE s == Ended(r)
    <3>1. s \in UrlRecord /\ s.fetch = NoFetch /\ s.rfetch = NoFetch /\ s.vfetch = r.vfetch /\ s.push = NoFetch
        BY <1>3 DEF Ended, UrlRecord
    <3> HIDE DEF s
    <3> QED BY <3>1 DEF s
  <2>2. With(u, s) /\ todo' = <<>> \o Tail(todo)
      BY <1>15, <2>1 DEF Becomes
  <2>3. \A role \in Roles : s[role] # f
      BY <1>3, <1>4, <2>1 DEF Roles
  <2>4. ~ Owned(f)'
      BY <1>1, <1>4, <2>2, <2>3, UrlForgets
  <2>5. Range(todo') = Range(Tail(todo))
      BY <1>1, <1>15, NoCalls, Pending
  <2>6. ClosesSoon(f) \/ Has(f, "DISPOSED")
      BY <1>1, <1>15 DEF IInv, EndsWell, HandledOf
  <2>7. Live(f) /\ ~ Has(f, "DISPOSED") => ClosesSoon(f)'
      BY <1>1, <1>6, <2>5, <2>6 DEF ClosesSoon
  <2>8. \A g \in Fetch \cap {f} : EndsOf(g)'
      BY <1>1, <1>5, <1>6, <2>4, <2>5, <2>7, Forgotten
  <2>9. \A role \in Roles : s[role] = NoFetch \/ \E q \in Roles : s[role] = url[u][q]
      BY <2>1, <1>2 DEF Roles
  <2>10. \A role \in Roles : \/ url[u][role] \in {f} \cup {NoFetch}
                             \/ \E q \in Roles : s[q] = url[u][role]
      BY <2>1, <1>2, <1>3, <1>4 DEF Roles
  <2>11. /\ s.push \in {NoFetch, s.fetch, s.rfetch}
         /\ s.fetch # NoFetch => s.rfetch = NoFetch /\ s.vfetch = NoFetch
         /\ s.rfetch = s.vfetch => s.rfetch = NoFetch
      BY <2>1
  <2>12. /\ \A c \in Range(todo) : Plain(c) \/ c \in Range(Tail(todo)) \/ c.fetch \in {f}
         /\ \A c \in Range(Tail(todo)) : c.op # "newfetch"
      BY <1>1, <1>6
  <2>13. PICK calls : Fresh(calls, {f}, Tail(todo)) /\ todo' = calls \o Tail(todo)
      BY <2>2, FreshNone
  <2> QED BY <1>1, <1>5, <1>6, <2>1, <2>2, <2>8, <2>9, <2>10, <2>11, <2>12, <2>13, UrlNext
<1>16. ASSUME tag \notin {"moved", "push", "reload"} \cup LastTags, UNCHANGED url, NEW here \in BOOLEAN,
              Becomes(If(here, Call("cancellocal", f, "none")) \o CancelPush(r.push, r.shown))
       PROVE  IInv'
  <2>1. tag \notin EndTags
      BY <1>16 DEF EndTags
  <2>2. PICK calls : /\ calls = CancelPush(r.push, shown) /\ Fresh(calls, {}, Tail(todo))
                     /\ \A c \in Range(calls) : c.op \in {"cancel", "overflow"}
      BY <1>4, <1>10, <2>1
  <2> DEFINE c == Call("cancellocal", f, "none")
  <2>3. Live(f)' /\ Running(f)'
      BY <1>1, <1>5, <2>1 DEF Live, Running, Has
  <2>4. /\ c \in CallRecord /\ CallOK(c)' /\ Plain(c)
        /\ \A d : d.op \notin {"updatefetch", "newfetch"} => PairOK(c, d)'
      BY <1>1, <2>3, NewStop
  <2>5. Becomes(If(here, c) \o calls)
      BY <1>7, <1>16, <2>2
  <2> HIDE DEF c
  <2>6. Fresh(If(here, c), {}, Tail(todo)) /\ \A d : d \in Range(If(here, c)) <=> here /\ d = c
      BY <1>1, <2>4, FreshIf
  <2>7. Fresh(If(here, c) \o calls, {}, Tail(todo))
    <3>1. \A d \in Range(If(here, c)), e \in Range(calls) : PairOK(d, e)'
        BY <2>2, <2>4, <2>6
    <3> QED BY <2>2, <2>6, <3>1, FreshJoin
  <2> QED BY <1>9, <1>16, <2>5, <2>7
<1>17. \/ \E v \in Url \ {u} :
             /\ tag = "moved" /\ With(u, [r EXCEPT !.push = NoFetch])
             /\ Becomes(<<CallUrl("load", v, "none", fetch[f].loadflags)>>)
       \/ tag = "moved" /\ Becomes(CancelPush(r.push, r.shown)) /\ UNCHANGED url
       \/ tag = "push" /\ With(u, [r EXCEPT !.push = f]) /\ Becomes(CancelPush(f, r.shown))
       \/ tag \in LastTags /\ With(u, Ended(r)) /\ Becomes(<<>>)
       \/ tag = "reload" /\ With(u, [r EXCEPT !.push = NoFetch]) /\ Becomes(<<>>)
       \/ \E here \in BOOLEAN :
             /\ tag \notin {"moved", "push", "reload"} \cup LastTags /\ UNCHANGED url
             /\ Becomes(If(here, Call("cancellocal", f, "none")) \o CancelPush(r.push, r.shown))
    BY <1>2 DEF Srcupdatefetch
<1> QED BY <1>11, <1>12, <1>13, <1>14, <1>15, <1>16, <1>17

LEMMA SrcupdateurlNext ==
    ASSUME IInv, Srcupdateurl
    PROVE  IInv'
<1>1. PICK u, f, tag : Receives(u, f, tag) /\ f = This /\ u = fetch[f].url /\ tag = Arg
    BY DEF Receives, Srcupdateurl
<1>2. \/ url[u].vfetch = f /\ Srcupdatevfetch(u, f, tag)
      \/ f \in {url[u].fetch, url[u].rfetch} /\ Srcupdatefetch(u, f, tag)
      \/ f \notin {url[u].vfetch, url[u].fetch, url[u].rfetch} /\ Becomes(<<>>) /\ UNCHANGED url
    BY <1>1 DEF Srcupdateurl
<1>3. CASE f \notin {url[u].vfetch, url[u].fetch, url[u].rfetch} /\ Becomes(<<>>) /\ UNCHANGED url
  <2>1. /\ todo # <<>> /\ u \in Url /\ f \in Fetch /\ Live(f)
        /\ ~ Closing(Head(todo)) /\ Head(todo).op # "incompleteend" /\ Head(todo).fetch = f
        /\ Plain(Head(todo)) <=> tag \notin LastTags
        /\ tag \in LastTags => ClearsSoon(f)
      BY <1>1, ReceivesFacts
  <2>2. UNCHANGED <<fetch, driver, lists, slots, prefs, waits>> /\ UNCHANGED fetchvars
      BY <1>1 DEF Receives, fetchvars
  <2>3. CASE Plain(Head(todo))
      BY <1>3, <2>1, <2>2, <2>3, FreshNone, CallsOnly
  <2>4. CASE tag \in LastTags
    <3>1. ~ Owned(f)'
      <4>1. \A v \in Url, role \in Roles : url[v][role] = f => v = u
          BY <1>1, <2>1, PointersAre, FetchConstants
      <4>2. \A role \in Roles : url[u][role] # f
          BY <1>3 DEF Roles
      <4> QED BY <1>3, <4>1, <4>2 DEF Owned
    <3>2. Range(todo) = {Head(todo)} \cup Range(Tail(todo)) /\ Range(todo') = Range(Tail(todo))
        BY <1>3, <2>1, Made, NoCalls, Pending
    <3>3. ClosesSoon(f) \/ Has(f, "DISPOSED")
        BY <2>1, <2>4 DEF IInv, EndsWell, HandledOf
    <3>4. Live(f) /\ ~ Has(f, "DISPOSED") => ClosesSoon(f)'
        BY <2>1, <3>2, <3>3 DEF ClosesSoon
    <3>5. \A g \in Fetch \cap {f} : EndsOf(g)'
        BY <2>1, <2>2, <3>1, <3>2, <3>4, Forgotten
    <3>6. Steady
        BY <2>2, NothingMoves
    <3>7. \A c \in Range(Tail(todo)) : c.op = "forward" /\ Has(c.fetch, "POSTNOGOOD")'
                                           => Has(c.fetch, "POSTNOGOOD")
        BY <2>2 DEF Has
    <3>8. Data' /\ Pointers' /\ StackOK' /\ EndsWell' /\ todo' \in Seq(CallRecord)
        BY <1>3, <2>1, <3>5, <3>6, <3>7, FreshNone, SteadyBecomes
    <3>9. TypeOK'
        BY <1>3, <2>2, <3>8 DEF IInv, TypeOK
    <3> QED BY <3>8, <3>9 DEF IInv
  <2> QED BY <2>1, <2>3, <2>4
<1> QED BY <1>1, <1>2, <1>3, SrcupdatevfetchNext, SrcupdatefetchNext


-----------------------------------------------------------------------------
(* Loadurl *)

Choices == {<<>>, <<"fetch">>, <<"rfetch">>, <<"vfetch">>, <<"rfetch", "vfetch">>}

LEMMA Appends ==
    ASSUME NEW S, NEW s \in Seq(S), NEW b \in S
    PROVE  Append(s, b)[Len(s) + 1] = b
OBVIOUS

LEMMA AppendsToOne ==
    ASSUME NEW S, NEW s \in Seq(S), NEW t \in Seq(S), NEW b \in S,
           Len(s) = 1, Len(t) = 2, t[1] = s[1], t[2] = b
    PROVE  Append(s, b) = t
<1>1. PICK a : a = Append(s, b)
    OBVIOUS
<1>2. a \in Seq(S) /\ Len(a) = 2 /\ a[1] = s[1]
    BY <1>1
<1>3. a[2] = b
  <2>1. a[Len(s) + 1] = b
      BY <1>1, Appends
  <2>2. Len(s) + 1 = 2
      OBVIOUS
  <2> QED BY <2>1, <2>2
<1>4. \A i \in 1 .. Len(a) : i = 1 \/ i = 2
    BY <1>2
<1> QED BY <1>1, <1>2, <1>3, <1>4, SeqEqual

LEMMA OneAndOne ==
    ASSUME NEW a, NEW b
    PROVE  <<a>> \o <<b>> = <<a, b>>
<1>1. PICK S : S = {a, b}
    OBVIOUS
<1>2. PICK s, t : s = <<a>> /\ t = <<a, b>>
    OBVIOUS
<1>3. s \in Seq(S) /\ t \in Seq(S) /\ b \in S
    BY <1>1, <1>2
<1>4. Len(s) = 1 /\ Len(t) = 2 /\ t[1] = s[1] /\ t[2] = b
    BY <1>2
<1>5. Append(s, b) = t
    BY <1>3, <1>4, AppendsToOne
<1>6. Append(s, b) = s \o <<b>>
    BY <1>3, AppendIsConcat
<1> QED BY <1>2, <1>5, <1>6

LEMMA DecideIs ==
    ASSUME NEW flags \in LoadFlags \ {"reload"}, NEW csrc \in BOOLEAN, NEW ccac \in BOOLEAN, NEW cval \in BOOLEAN
    PROVE  Decide(flags, csrc, ccac, cval).start \in Choices
<1> DEFINE a == IF csrc \/ (cval /\ ~ prefs.fast) THEN <<>> ELSE <<"rfetch">>
           b == IF cval THEN <<"vfetch">> ELSE <<>>
           plain == IF ccac THEN <<"rfetch">> ELSE <<"fetch">>
<1>1. a \o b \in Choices
  <2>1. /\ <<>> \o <<"vfetch">> = <<"vfetch">> /\ <<"rfetch">> \o <<"vfetch">> = <<"rfetch", "vfetch">>
        /\ <<>> \o <<>> = <<>> /\ <<"rfetch">> \o <<>> = <<"rfetch">>
    <3>1. <<"rfetch">> \in Seq(Roles) /\ <<"vfetch">> \in Seq(Roles) /\ <<>> \in Seq(Roles)
        BY DEF Roles
    <3> QED BY <3>1, ConcatEmptySeq, OneAndOne
  <2>2. a \in {<<>>, <<"rfetch">>} /\ b \in {<<>>, <<"vfetch">>}
      OBVIOUS
  <2> HIDE DEF a, b
  <2> QED BY <2>1, <2>2 DEF Choices
<1>2. plain \in Choices /\ <<>> \in Choices /\ <<"fetch">> \in Choices
    BY DEF Choices
<1> HIDE DEF a, b, plain
<1>3. CASE flags = "download"
    BY <1>2, <1>3 DEF Decide, plain
<1>4. CASE flags = "history"
    BY <1>2, <1>4 DEF Decide, plain
<1>5. CASE flags = "ifinmem"
    BY <1>2, <1>5 DEF Decide
<1>6. CASE flags = "plain" /\ ~ csrc /\ ~ ccac
    BY <1>2, <1>6 DEF Decide
<1>7. CASE flags = "plain" /\ (csrc \/ ccac)
    BY <1>1, <1>7 DEF Decide, a, b
<1> QED BY <1>3, <1>4, <1>5, <1>6, <1>7 DEF LoadFlags

LEMMA StartingIs ==
    ASSUME NEW u, NEW flags, NEW seq \in Choices
    PROVE  Starting(u, seq, flags) =
              IF seq = <<>> THEN <<>>
              ELSE IF seq = <<"rfetch", "vfetch">>
                   THEN <<CallUrl("newfetch", u, "rfetch", flags), CallUrl("newfetch", u, "vfetch", flags)>>
              ELSE <<CallUrl("newfetch", u, seq[1], flags)>>
<1>1. CASE seq = <<>>
    BY <1>1 DEF Starting
<1>2. CASE seq = <<"rfetch", "vfetch">>
    BY <1>2 DEF Starting
<1>3. ASSUME NEW role, seq = <<role>> PROVE Starting(u, seq, flags) = <<CallUrl("newfetch", u, role, flags)>>
    BY <1>3 DEF Starting
<1> QED BY <1>1, <1>2, <1>3 DEF Choices

\* The fetches that a URL with none may start.
LEMMA StartsAreCalled ==
    ASSUME NEW u \in Url, NEW flags \in LoadFlags, NEW seq \in Choices, NEW X, NEW rest,
           \A role \in Roles : url'[u][role] = NoFetch,
           \A d \in Range(rest) : d.op \notin {"updatefetch", "newfetch"}
    PROVE  /\ Fresh(Starting(u, seq, flags), X, rest)
           /\ \A c \in Range(Starting(u, seq, flags)) : c.op = "newfetch" /\ c.fetch = NoFetch
<1> DEFINE c(role) == CallUrl("newfetch", u, role, flags)
<1>1. \A role : /\ c(role).op = "newfetch" /\ c(role).fetch = NoFetch
                /\ c(role).url = u /\ c(role).arg = role
    BY Fields
<1>2. ASSUME NEW role \in Roles
      PROVE  /\ c(role) \in CallRecord /\ CallOK(c(role))' /\ Plain(c(role))
             /\ \A d : /\ d.op \notin {"updatefetch"}
                       /\ d.op = "newfetch" => d.url = u /\ role # "fetch" /\ d.arg \notin {"fetch", role}
                       => PairOK(c(role), d)'
  <2>1. url'[u].fetch = NoFetch /\ url'[u].rfetch = NoFetch /\ url'[u].vfetch = NoFetch
      BY DEF Roles
  <2> QED BY <2>1, NewNewfetch
<1> HIDE DEF c
<1>3. ASSUME NEW role \in Roles, Starting(u, seq, flags) = <<c(role)>>
      PROVE  /\ Fresh(Starting(u, seq, flags), X, rest)
             /\ \A d \in Range(Starting(u, seq, flags)) : d.op = "newfetch" /\ d.fetch = NoFetch
  <2>1. Fresh(<<c(role)>>, X, rest) /\ Range(<<c(role)>>) = {c(role)}
      BY <1>2, FreshOne
  <2> QED BY <1>1, <1>3, <2>1
<1>4. CASE seq = <<>>
  <2>1. Starting(u, seq, flags) = <<>>
      BY <1>4, StartingIs
  <2> QED BY <2>1, FreshNone, NoCalls
<1>5. CASE seq = <<"rfetch", "vfetch">>
  <2>1. Starting(u, seq, flags) = <<c("rfetch"), c("vfetch")>>
      BY <1>5, StartingIs DEF c
  <2>2. PICK x, y : x = c("rfetch") /\ y = c("vfetch")
      OBVIOUS
  <2>3. "rfetch" \in Roles /\ "vfetch" \in Roles
      BY DEF Roles
  <2>4. /\ x \in CallRecord /\ CallOK(x)' /\ Plain(x) /\ y \in CallRecord /\ CallOK(y)' /\ Plain(y)
        /\ PairOK(x, y)'
        /\ \A d \in Range(rest) : PairOK(x, d)' /\ PairOK(y, d)'
      BY <1>1, <1>2, <2>2, <2>3
  <2>5. Fresh(<<x, y>>, X, rest) /\ Range(<<x, y>>) = {x, y}
      BY <2>4, FreshTwo
  <2> QED BY <1>1, <2>1, <2>2, <2>5
<1>6. CASE seq \in {<<"fetch">>, <<"rfetch">>, <<"vfetch">>}
  <2>1. PICK role \in Roles : seq = <<role>>
      BY <1>6 DEF Roles
  <2>2. Starting(u, seq, flags) = <<c(role)>>
      BY <2>1, StartingIs DEF c
  <2> QED BY <1>3, <2>2
<1> QED BY <1>4, <1>5, <1>6 DEF Choices


\* A load drops what it will not use.
LEMMA PointerIsDisposed ==
    ASSUME UNCHANGED fetchvars, NEW p \in Fetch \cup {NoFetch}, p # NoFetch => Live(p),
           NEW X, p \in X, NEW rest,
           \A d \in Range(rest) : d.op # "updatefetch" /\ (p # NoFetch => d.fetch # p)
    PROVE  \E calls :
              /\ calls = CallIf(p, "dispose") /\ Fresh(calls, X, rest)
              /\ \A c \in Range(calls) :
                    /\ c.op = "dispose" /\ p # NoFetch /\ c.fetch = p
                    /\ \A d : d.op # "updatefetch" /\ d.fetch # p => PairOK(c, d)'
              /\ p # NoFetch => \E c \in Range(calls) : Closing(c) /\ c.fetch = p
<1>1. PICK b \in BOOLEAN : b <=> p # NoFetch
    OBVIOUS
<1> DEFINE c == Call("dispose", p, "none")
<1>2. CallIf(p, "dispose") = If(b, c)
    BY <1>1 DEF CallIf, If
<1>3. c.op = "dispose" /\ c.fetch = p
    BY Fields
<1>4. b => /\ c \in CallRecord /\ CallOK(c)' /\ Closing(c)
           /\ \A d : d.op # "updatefetch" /\ d.fetch # p => PairOK(c, d)'
  <2>1. SUFFICES ASSUME b
                 PROVE  /\ c \in CallRecord /\ CallOK(c)' /\ Closing(c)
                        /\ \A d : d.op # "updatefetch" /\ d.fetch # p => PairOK(c, d)'
      OBVIOUS
  <2>2. p \in Fetch /\ Live(p)'
      BY <2>1, <1>1 DEF Live, fetchvars
  <2> QED BY <2>2, NewDispose
<1> HIDE DEF c
<1>5. Fresh(If(b, c), X, rest) /\ \A d : d \in Range(If(b, c)) <=> b /\ d = c
    BY <1>1, <1>3, <1>4, FreshIf
<1> QED BY <1>1, <1>2, <1>3, <1>4, <1>5

Follows(first, second) == \A c \in Range(first), d \in Range(second) : PairOK(c, d)'

LEMMA FreshThen ==
    ASSUME NEW X, NEW rest, NEW a, NEW b, Fresh(a, X, rest), Fresh(b, X, rest), Follows(a, b)
    PROVE  Fresh(a \o b, X, rest) /\ \A c : c \in Range(a \o b) <=> c \in Range(a) \/ c \in Range(b)
<1>1. \A c \in Range(a), d \in Range(b) : PairOK(c, d)'
    BY DEF Follows
<1>2. Fresh(a \o b, X, rest)
    BY <1>1, FreshJoin
<1>3. Range(a \o b) = Range(a) \cup Range(b)
  <2>1. a \in Seq(CallRecord) /\ b \in Seq(CallRecord)
      BY DEF Fresh
  <2> QED BY <2>1, Concatenation
<1> QED BY <1>2, <1>3

LEMMA ReloadNext ==
    ASSUME IInv, NEW u, NEW visited \in BOOLEAN, todo # <<>>, Head(todo).op = "load",
           u = Head(todo).url, Head(todo).loadflags = "reload", UNCHANGED fetchvars,
           NEW r, r = url[u], With(u, [NoPointers EXCEPT !.shown = r.shown]),
           Becomes(CallIf(r.fetch, "dispose") \o CallIf(r.rfetch, "dispose") \o CallIf(r.vfetch, "dispose")
                     \o Starting(u, IF visited THEN <<>> ELSE <<"fetch">>, "reload"))
    PROVE  IInv'
<1>1. u \in Url /\ \A d \in Range(Tail(todo)) : d.op = "reply" /\ fetch[d.fetch].url # u
    BY Made DEF CallOK, UrlOps, PairOK
<1>2. /\ r \in UrlRecord
      /\ r.fetch \in Fetch \cup {NoFetch} /\ r.rfetch \in Fetch \cup {NoFetch}
      /\ r.vfetch \in Fetch \cup {NoFetch} /\ r.push \in {NoFetch, r.fetch, r.rfetch}
      /\ r.fetch # NoFetch => r.rfetch = NoFetch /\ r.vfetch = NoFetch
      /\ r.rfetch = r.vfetch => r.rfetch = NoFetch
    BY <1>1, RecordFacts
<1>3. PICK s \in UrlRecord : /\ s = [NoPointers EXCEPT !.shown = r.shown] /\ s.fetch = NoFetch
                             /\ s.rfetch = NoFetch /\ s.vfetch = NoFetch /\ s.push = NoFetch
  <2> DEFINE s == [NoPointers EXCEPT !.shown = r.shown]
  <2>1. s \in UrlRecord /\ s.fetch = NoFetch /\ s.rfetch = NoFetch /\ s.vfetch = NoFetch /\ s.push = NoFetch
      BY <1>2 DEF UrlRecord, NoPointers
  <2> HIDE DEF s
  <2> QED BY <2>1 DEF s
<1>4. With(u, s) /\ url'[u] = s /\ \A role \in Roles : s[role] = NoFetch /\ url'[u][role] = NoFetch
    BY <1>1, <1>3 DEF With, IInv, TypeOK, Roles
<1>5. PICK f, g, h : f = r.fetch /\ g = r.rfetch /\ h = r.vfetch
    OBVIOUS
<1> DEFINE X == {f, g, h, NoFetch}
<1>6. /\ \A p \in X : p \in Fetch \cup {NoFetch}
      /\ \A p \in X : p # NoFetch => Live(p) /\ fetch[p].url = u
      /\ \A role \in Roles : url[u][role] \in X
      /\ f # NoFetch => f # g /\ f # h
      /\ g # NoFetch => g # h
  <2>1. \A p \in X : p # NoFetch => \E role \in Roles : url[u][role] = p
      BY <1>5 DEF Roles
  <2>2. \A p \in X : p # NoFetch => Live(p) /\ fetch[p].url = u
      BY <1>1, <2>1, PointersAre
  <2>3. \A role \in Roles : url[u][role] \in X
      BY <1>5 DEF Roles
  <2> QED BY <1>2, <1>5, <2>2, <2>3
<1>7. \A p \in X : p # NoFetch => \A d \in Range(Tail(todo)) : d.fetch # p
    BY <1>1, <1>6
<1>8. ASSUME NEW p \in X
      PROVE  \E calls :
                /\ calls = CallIf(p, "dispose") /\ Fresh(calls, X, Tail(todo))
                /\ \A c \in Range(calls) :
                      /\ c.op = "dispose" /\ p # NoFetch /\ c.fetch = p
                      /\ \A d : d.op # "updatefetch" /\ d.fetch # p => PairOK(c, d)'
                /\ p # NoFetch => \E c \in Range(calls) : Closing(c) /\ c.fetch = p
  <2>1. p \in Fetch \cup {NoFetch} /\ (p # NoFetch => Live(p))
      BY <1>6
  <2>2. \A d \in Range(Tail(todo)) : d.op # "updatefetch" /\ (p # NoFetch => d.fetch # p)
      BY <1>1, <1>7
  <2> HIDE DEF X
  <2> QED BY <2>1, <2>2, <1>8, PointerIsDisposed
<1>9. f \in X /\ g \in X /\ h \in X /\ NoFetch \in X
    OBVIOUS
<1> HIDE DEF X
<1>10. PICK fs : /\ fs = CallIf(f, "dispose") /\ Fresh(fs, X, Tail(todo))
                 /\ \A c \in Range(fs) :
                       /\ c.op = "dispose" /\ f # NoFetch /\ c.fetch = f
                       /\ \A d : d.op # "updatefetch" /\ d.fetch # f => PairOK(c, d)'
                 /\ f # NoFetch => \E c \in Range(fs) : Closing(c) /\ c.fetch = f
    BY <1>8, <1>9
<1>11. PICK gs : /\ gs = CallIf(g, "dispose") /\ Fresh(gs, X, Tail(todo))
                 /\ \A c \in Range(gs) :
                       /\ c.op = "dispose" /\ g # NoFetch /\ c.fetch = g
                       /\ \A d : d.op # "updatefetch" /\ d.fetch # g => PairOK(c, d)'
                 /\ g # NoFetch => \E c \in Range(gs) : Closing(c) /\ c.fetch = g
    BY <1>8, <1>9
<1>12. PICK hs : /\ hs = CallIf(h, "dispose") /\ Fresh(hs, X, Tail(todo))
                 /\ \A c \in Range(hs) :
                       /\ c.op = "dispose" /\ h # NoFetch /\ c.fetch = h
                       /\ \A d : d.op # "updatefetch" /\ d.fetch # h => PairOK(c, d)'
                 /\ h # NoFetch => \E c \in Range(hs) : Closing(c) /\ c.fetch = h
    BY <1>8, <1>9
<1>13. PICK seq \in Choices : seq = IF visited THEN <<>> ELSE <<"fetch">>
    BY DEF Choices
<1>14. PICK ns : /\ ns = Starting(u, seq, "reload") /\ Fresh(ns, X, Tail(todo))
                 /\ \A c \in Range(ns) : c.op = "newfetch" /\ c.fetch = NoFetch
  <2>1. \A d \in Range(Tail(todo)) : d.op \notin {"updatefetch", "newfetch"}
      BY <1>1
  <2>2. "reload" \in LoadFlags
      BY DEF LoadFlags
  <2>3. /\ Fresh(Starting(u, seq, "reload"), X, Tail(todo))
        /\ \A c \in Range(Starting(u, seq, "reload")) : c.op = "newfetch" /\ c.fetch = NoFetch
      BY <1>1, <1>4, <2>1, <2>2, StartsAreCalled
  <2> QED BY <2>3
<1>15. Becomes(fs \o gs \o hs \o ns)
    BY <1>5, <1>10, <1>11, <1>12, <1>13, <1>14
<1>16. Follows(fs, gs) /\ Follows(fs, hs) /\ Follows(gs, hs)
  <2>1. Follows(fs, gs)
      BY <1>6, <1>10, <1>11 DEF Follows
  <2>2. Follows(fs, hs)
      BY <1>6, <1>10, <1>12 DEF Follows
  <2>3. Follows(gs, hs)
      BY <1>6, <1>11, <1>12 DEF Follows
  <2> QED BY <2>1, <2>2, <2>3
<1>17. Follows(fs, ns) /\ Follows(gs, ns) /\ Follows(hs, ns)
  <2>1. \A d \in Range(ns) : d.op = "newfetch" /\ d.fetch = NoFetch
      BY <1>14
  <2> QED BY <2>1, <1>10, <1>11, <1>12 DEF Follows
<1>18. PICK calls : calls = fs \o gs \o hs \o ns
    OBVIOUS
<1>19. /\ Fresh(calls, X, Tail(todo))
       /\ \A c : c \in Range(calls) <=>
             c \in Range(fs) \/ c \in Range(gs) \/ c \in Range(hs) \/ c \in Range(ns)
  <2>1. PICK rest, Y, a, b : rest = Tail(todo) /\ Y = X /\ a = fs \o gs /\ b = a \o hs
      OBVIOUS
  <2>2. Fresh(fs, Y, rest) /\ Fresh(gs, Y, rest) /\ Fresh(hs, Y, rest) /\ Fresh(ns, Y, rest)
      BY <1>10, <1>11, <1>12, <1>14, <2>1
  <2>3. Fresh(a, Y, rest) /\ \A c : c \in Range(a) <=> c \in Range(fs) \/ c \in Range(gs)
      BY <1>16, <2>1, <2>2, FreshThen
  <2>4. Follows(a, hs) /\ Follows(a, ns)
      BY <1>16, <1>17, <2>3 DEF Follows
  <2>5. Fresh(b, Y, rest) /\ \A c : c \in Range(b) <=> c \in Range(a) \/ c \in Range(hs)
    <3>1. Fresh(a, Y, rest) /\ Fresh(hs, Y, rest) /\ Follows(a, hs)
        BY <2>2, <2>3, <2>4
    <3>2. Fresh(a \o hs, Y, rest) /\ \A c : c \in Range(a \o hs) <=> c \in Range(a) \/ c \in Range(hs)
        BY <3>1, FreshThen
    <3> QED BY <2>1, <3>2
  <2>6. Follows(b, ns)
      BY <1>17, <2>4, <2>5 DEF Follows
  <2>7. Fresh(b \o ns, Y, rest) /\ \A c : c \in Range(b \o ns) <=> c \in Range(b) \/ c \in Range(ns)
      BY <2>2, <2>5, <2>6, FreshThen
  <2>8. calls = b \o ns
      BY <1>18, <2>1
  <2> QED BY <2>1, <2>3, <2>5, <2>7, <2>8
<1>20. /\ Below(Tail(todo)) /\ todo' = calls \o Tail(todo)
       /\ Range(todo) = {Head(todo)} \cup Range(Tail(todo))
    BY <1>15, <1>18, <1>19, Made DEF Becomes
<1>21. Plain(Head(todo))
    BY DEF Plain, Closing, Clearing
<1>22. Range(todo') = Range(calls) \cup Range(Tail(todo))
    BY <1>15, <1>18, <1>19, Pending DEF Fresh
<1>23. ASSUME NEW p \in Fetch \cap X PROVE EndsOf(p)'
  <2>1. p # NoFetch /\ fetch[p].url = u
      BY <1>6, FetchConstants
  <2>2. \A role \in Roles : s[role] # p
      BY <1>4, <2>1
  <2>3. ~ Owned(p)'
      BY <1>1, <1>4, <2>1, <2>2, UrlForgets
  <2>4. \E c \in Range(calls) : Closing(c) /\ c.fetch = p
      BY <1>10, <1>11, <1>12, <1>19, <2>1 DEF X
  <2>5. ClosesSoon(p)'
      BY <1>22, <2>4 DEF ClosesSoon
  <2>6. \A c \in Range(todo) : c.op = "incompleteend" => c \in Range(todo')
      BY <1>20, <1>22
  <2> QED BY <2>3, <2>5, <2>6, Forgotten
<1>24. /\ \A role \in Roles : s[role] = NoFetch \/ \E q \in Roles : s[role] = url[u][q]
       /\ \A role \in Roles : url[u][role] \in X \cup {NoFetch} \/ \E q \in Roles : s[q] = url[u][role]
       /\ s.push \in {NoFetch, s.fetch, s.rfetch}
       /\ s.fetch # NoFetch => s.rfetch = NoFetch /\ s.vfetch = NoFetch
       /\ s.rfetch = s.vfetch => s.rfetch = NoFetch
    BY <1>3, <1>4, <1>6 DEF X
<1>25. /\ \A c \in Range(todo) : Plain(c) \/ c \in Range(Tail(todo)) \/ c.fetch \in X
       /\ \A c \in Range(Tail(todo)) : c.op # "newfetch"
    BY <1>1, <1>20, <1>21
<1> QED BY <1>1, <1>4, <1>19, <1>20, <1>23, <1>24, <1>25, UrlNext

LEMMA LoadurlNext ==
    ASSUME IInv, Loadurl
    PROVE  IInv'
<1>1. todo # <<>> /\ Head(todo).op = "load" /\ UNCHANGED fetchvars
    BY DEF Loadurl, Calls, Idle
<1>2. PICK u, flags, r : u = Head(todo).url /\ flags = Head(todo).loadflags /\ r = url[u]
    OBVIOUS
<1>3. u \in Url /\ flags \in LoadFlags
    BY <1>1, <1>2, Made DEF CallOK, UrlOps, CallRecord
<1>4. \A d \in Range(Tail(todo)) : d.op \notin {"updatefetch", "newfetch"}
    BY <1>1, RestIsPlain
<1>5. Plain(Head(todo))
    BY <1>1 DEF Plain, Closing, Clearing
<1>6. ASSUME NEW calls, Becomes(calls), Fresh(calls, {}, Tail(todo)), UNCHANGED url PROVE IInv'
    BY <1>1, <1>5, <1>6, CallsOnly
<1>7. CASE flags = "reload"
  <2>1. PICK visited \in BOOLEAN :
          /\ With(u, [NoPointers EXCEPT !.shown = r.shown])
          /\ Becomes(CallIf(r.fetch, "dispose") \o CallIf(r.rfetch, "dispose") \o CallIf(r.vfetch, "dispose")
                     \o Starting(u, IF visited THEN <<>> ELSE <<"fetch">>, "reload"))
      BY <1>2, <1>7 DEF Loadurl
  <2> QED BY <1>1, <1>2, <1>7, <2>1, ReloadNext
<1>8. CASE flags # "reload" /\ Busy(r)
  <2>1. Becomes(<<>>) /\ UNCHANGED url
      BY <1>2, <1>8 DEF Loadurl
  <2> QED BY <1>6, <2>1, FreshNone
<1>9. CASE flags # "reload" /\ ~ Busy(r)
  <2>1. PICK csrc, ccac, cval, visited, d :
          /\ csrc \in BOOLEAN /\ ccac \in BOOLEAN /\ cval \in BOOLEAN
          /\ d = Decide(flags, csrc, ccac, cval)
          /\ With(u, IF d.new THEN [r EXCEPT !.push = NoFetch] ELSE r)
          /\ Becomes(Starting(u, IF visited THEN Repost(d.start) ELSE d.start, flags))
    <3>1. Head(todo).loadflags # "reload" /\ ~ Busy(url[Head(todo).url])
        BY <1>2, <1>9
    <3>2. PICK csrc \in BOOLEAN, ccac \in BOOLEAN, cval \in BOOLEAN,
               visited \in IF Head(todo).url \in Posted THEN BOOLEAN ELSE {FALSE} :
            LET d == Decide(Head(todo).loadflags, csrc, ccac, cval)
            IN  /\ With(Head(todo).url, IF d.new THEN [url[Head(todo).url] EXCEPT !.push = NoFetch]
                                        ELSE url[Head(todo).url])
                /\ Becomes(Starting(Head(todo).url, IF visited THEN Repost(d.start) ELSE d.start,
                                    Head(todo).loadflags))
        BY <3>1, Zenon DEF Loadurl
    <3> QED BY <1>2, <3>2
  <2>2. r \in UrlRecord /\ r.push \in {NoFetch, r.fetch, r.rfetch}
      BY <1>2, <1>3, RecordFacts
  <2>3. r.fetch = NoFetch /\ r.rfetch = NoFetch /\ r.vfetch = NoFetch
      BY <1>9 DEF Busy
  <2>4. [r EXCEPT !.push = NoFetch] = r
      BY <2>2, <2>3 DEF UrlRecord
  <2>5. url' = url
      BY <1>2, <1>3, <2>1, <2>4 DEF With, IInv, TypeOK
  <2>6. \A role \in Roles : url'[u][role] = NoFetch
      BY <1>2, <2>3, <2>5 DEF Roles
  <2>7. PICK seq \in Choices : seq = IF visited THEN Repost(d.start) ELSE d.start
    <3>1. d.start \in Choices
        BY <1>3, <1>9, <2>1, DecideIs
    <3>2. Repost(d.start) \in Choices
        BY DEF Repost, If, Choices
    <3> QED BY <3>1, <3>2
  <2>8. Fresh(Starting(u, seq, flags), {}, Tail(todo))
      BY <1>3, <1>4, <2>6, <2>7, StartsAreCalled
  <2>9. Becomes(Starting(u, seq, flags))
      BY <2>1, <2>7
  <2> QED BY <1>6, <2>5, <2>8, <2>9
<1> QED BY <1>7, <1>8, <1>9

-----------------------------------------------------------------------------
(* Startfetch *)

\* What is known when a fetch is to be made in the place role of u.
LEMMA StartFacts ==
    ASSUME IInv, todo # <<>>, Head(todo).op = "newfetch", NEW u, NEW role,
           u = Head(todo).url, role = Head(todo).arg
    PROVE  /\ u \in Url /\ role \in Roles /\ Plain(Head(todo)) /\ Head(todo).loadflags \in LoadFlags
           /\ url[u] \in UrlRecord /\ url[u][role] = NoFetch /\ url[u].fetch = NoFetch
           /\ role = "fetch" => url[u].rfetch = NoFetch /\ url[u].vfetch = NoFetch
           /\ \A d \in Range(Tail(todo)) :
                 d.op = "newfetch" => d.url = u /\ d.arg # role /\ d.arg # "fetch" /\ role # "fetch"
<1>1. Head(todo) \in CallRecord /\ CallOK(Head(todo)) /\ \A d \in Range(Tail(todo)) : PairOK(Head(todo), d)
    BY Made
<1>2. u \in Url /\ role \in Roles /\ Head(todo).loadflags \in LoadFlags
    BY <1>1 DEF CallOK, UrlOps, CallRecord
<1>3. Plain(Head(todo))
    BY DEF Plain, Closing, Clearing
<1>4. url[u] \in UrlRecord
    BY <1>2 DEF IInv, TypeOK
<1>5. /\ url[u][role] = NoFetch /\ url[u].fetch = NoFetch
      /\ role = "fetch" => url[u].rfetch = NoFetch /\ url[u].vfetch = NoFetch
    BY <1>1 DEF CallOK
<1>6. \A d \in Range(Tail(todo)) :
         d.op = "newfetch" => d.url = u /\ d.arg # role /\ d.arg # "fetch" /\ role # "fetch"
    BY <1>1 DEF PairOK
<1> QED BY <1>2, <1>3, <1>4, <1>5, <1>6

\* A fetch that does not exist is nowhere.
LEMMA NobodyHasIt ==
    ASSUME IInv, NEW f \in Fetch, ~ Live(f)
    PROVE  /\ ~ Owned(f) /\ ~ Drives(f) /\ (\A l \in Lists : f \notin Range(lists[l]))
           /\ \A c \in Range(todo) : c.fetch # f
<1>1. ~ Owned(f)
    BY PointersAre, FetchConstants DEF Owned
<1>2. ~ Drives(f)
    BY DEF IInv, Data, FlagsOf, Running, Has
<1>3. \A l \in Lists : f \notin Range(lists[l])
    BY DEF IInv, Data, ListsOK
<1>4. \A c \in Range(todo) : c.fetch # f
    BY FetchConstants DEF IInv, StackOK, CallOK
<1> QED BY <1>1, <1>2, <1>3, <1>4

LEMMA StartIsOwned ==
    ASSUME IInv, NEW u \in Url, NEW role \in Roles, NEW f \in Fetch, ~ Live(f), Only(f),
           Live(f)', fetch'[f].url = u, With(u, [url[u] EXCEPT ![role] = f]),
           url[u][role] = NoFetch, url[u].fetch = NoFetch,
           role = "fetch" => url[u].rfetch = NoFetch /\ url[u].vfetch = NoFetch
    PROVE  /\ Pointers' /\ url' \in [Url -> UrlRecord] /\ Owned(f)'
           /\ \A g \in Fetch \ {f} : Owned(g)' <=> Owned(g)
           /\ \A q \in Roles \ {role} : url'[u][q] = url[u][q]
<1>1. PICK r \in UrlRecord : r = url[u]
    BY DEF IInv, TypeOK
<1>2. PICK s \in UrlRecord : /\ s = [r EXCEPT ![role] = f] /\ s[role] = f
                             /\ \A q \in Roles \ {role} : s[q] = r[q]
                             /\ s.push = r.push
  <2> DEFINE s == [r EXCEPT ![role] = f]
  <2>1. s \in UrlRecord /\ s[role] = f /\ (\A q \in Roles \ {role} : s[q] = r[q]) /\ s.push = r.push
      BY <1>1 DEF UrlRecord, Roles
  <2> HIDE DEF s
  <2> QED BY <2>1 DEF s
<1>3. /\ url' \in [Url -> UrlRecord] /\ url'[u] = s
      /\ \A v \in Url \ {u} : url'[v] = url[v]
    BY <1>1, <1>2 DEF With, IInv, TypeOK
<1>4. ~ Owned(f)
    BY NobodyHasIt
<1>5. \A q \in Roles \ {role} : url'[u][q] = url[u][q]
    BY <1>1, <1>2, <1>3
<1>6. Owned(f)'
  <2>1. url'[u][role] = f
      BY <1>2, <1>3
  <2> QED BY <2>1 DEF Owned
<1>7. ASSUME NEW g \in Fetch \ {f} PROVE Owned(g)' <=> Owned(g)
  <2>1. \A v \in Url, q \in Roles : url'[v][q] = g <=> url[v][q] = g
    <3>1. ASSUME NEW v \in Url, NEW q \in Roles PROVE url'[v][q] = g <=> url[v][q] = g
      <4>1. CASE v = u /\ q = role
          BY <4>1, <1>2, <1>3, FetchConstants
      <4>2. CASE v # u \/ q # role
          BY <4>2, <1>3, <1>5
      <4> QED BY <4>1, <4>2
    <3> QED BY <3>1
  <2> QED BY <2>1 DEF Owned
<1>8. ASSUME NEW v \in Url, NEW q \in Roles, url[v][q] # NoFetch
      PROVE  fetch'[url[v][q]].obj = "live" /\ fetch'[url[v][q]].url = v
  <2>1. /\ url[v][q] \in Fetch /\ Live(url[v][q]) /\ fetch[url[v][q]].url = v
      BY <1>8, PointersAre
  <2>2. url[v][q] # f
      BY <2>1
  <2> QED BY <2>1, <2>2 DEF Only, Live
<1>9. ASSUME NEW v \in Url, v # u PROVE PointersOf(v)'
  <2>1. url'[v] = url[v]
      BY <1>3, <1>9
  <2>2. PointersOf(v)
      BY DEF IInv, Pointers
  <2>3. \A q \in Roles : url'[v][q] # NoFetch => fetch'[url'[v][q]].obj = "live" /\ fetch'[url'[v][q]].url = v
      BY <2>1, <1>8 DEF Live
  <2> QED BY <2>1, <2>2, <2>3 DEF PointersOf, Live
<1>10. PointersOf(u)'
  <2>1. ASSUME NEW q \in Roles, url'[u][q] # NoFetch
        PROVE  fetch'[url'[u][q]].obj = "live" /\ fetch'[url'[u][q]].url = u
    <3>1. CASE q = role
        BY <3>1, <1>2, <1>3 DEF Live
    <3>2. CASE q # role
        BY <3>2, <2>1, <1>5, <1>8 DEF Live
    <3> QED BY <3>1, <3>2
  <2>2. /\ r.push \in {NoFetch, r.fetch, r.rfetch} /\ r.fetch = NoFetch
        /\ r.rfetch = r.vfetch => r.rfetch = NoFetch
        /\ role = "fetch" => r.rfetch = NoFetch /\ r.vfetch = NoFetch
        /\ r[role] = NoFetch /\ \A q \in Roles : r[q] # f
      BY <1>1, <1>4, RecordFacts DEF Owned
  <2>3. /\ s.push \in {NoFetch, s.fetch, s.rfetch}
        /\ s.fetch # NoFetch => s.rfetch = NoFetch /\ s.vfetch = NoFetch
        /\ s.rfetch = s.vfetch => s.rfetch = NoFetch
    <3>1. CASE role = "fetch"
      <4>1. s.rfetch = r.rfetch /\ s.vfetch = r.vfetch
          BY <3>1, <1>2 DEF Roles
      <4> QED BY <3>1, <4>1, <1>2, <2>2
    <3>2. CASE role = "rfetch"
      <4>1. s.fetch = r.fetch /\ s.vfetch = r.vfetch /\ s.rfetch = f /\ r.vfetch # f /\ r.rfetch = NoFetch
          BY <3>2, <1>2, <2>2 DEF Roles
      <4> QED BY <4>1, <1>2, <2>2
    <3>3. CASE role = "vfetch"
      <4>1. s.fetch = r.fetch /\ s.rfetch = r.rfetch /\ s.vfetch = f /\ r.rfetch # f
          BY <3>3, <1>2, <2>2 DEF Roles
      <4> QED BY <4>1, <1>2, <2>2
    <3> QED BY <3>1, <3>2, <3>3 DEF Roles
  <2> QED BY <2>1, <2>3, <1>3 DEF PointersOf, Live
<1>11. Pointers'
    BY <1>9, <1>10 DEF Pointers
<1> QED BY <1>3, <1>5, <1>6, <1>7, <1>11

LEMMA FetchIsMade ==
    ASSUME IInv, NEW f \in Fetch, NEW u \in Url, NEW role \in Roles, NEW flags \in LoadFlags,
           Newfetch(f, u, role, flags)
    PROVE  /\ ~ Live(f)
           /\ Data' /\ Only(f) /\ (\A g \in Fetch \ {f} : InQueue(g)' <=> InQueue(g))
           /\ fetch' \in [Fetch -> FetchRecord] /\ driver' \in [Fetch -> DriverRecord]
           /\ lists' \in [Lists -> Seq(Fetch)] /\ slots' \in [Slots -> Nat]
           /\ Live(f)' /\ fetch'[f].url = u /\ ~ Has(f, "DISPOSED")' /\ ~ Asked(f)'
           /\ UNCHANGED <<prefs, waits>>
<1>1. ~ Live(f) /\ UNCHANGED <<prefs, waits>>
    BY DEF Newfetch, Live
<1>2. ~ Drives(f) /\ \A l \in Lists : f \notin Range(lists[l])
    BY <1>1, NobodyHasIt
<1>3. PICK r \in FetchRecord : /\ r = NewRecord(u, role, flags)
                               /\ r.obj = "live" /\ r.url = u /\ r.flags = {}
  <2> DEFINE r == NewRecord(u, role, flags)
  <2>1. r \in FetchRecord /\ r.obj = "live" /\ r.url = u /\ r.flags = {}
      BY DEF NewRecord, FetchRecord
  <2> HIDE DEF r
  <2> QED BY <2>1 DEF r
<1>4. PICK running : running = lists["running"] /\ running \in Seq(Fetch) /\ Once(running)
                     /\ f \notin Range(running)
  <2>1. "running" \in Lists
      BY DEF Lists
  <2> QED BY <2>1, <1>2, ListFacts
<1>5. PICK new : new = Append(running, f) /\ new \in Seq(Fetch) /\ Once(new)
                 /\ Range(new) = Range(running) \cup {f}
  <2>1. /\ Append(running, f) \in Seq(Fetch) /\ Once(Append(running, f))
        /\ Range(Append(running, f)) = Range(running) \cup {f}
      BY <1>4, Appended
  <2> QED BY <2>1
<1>6. PICK ls \in [Lists -> Seq(Fetch)] :
         /\ ls = [lists EXCEPT !["running"] = new] /\ ls["running"] = new
         /\ \A m \in Lists \ {"running"} : ls[m] = lists[m]
  <2> DEFINE ls == [lists EXCEPT !["running"] = new]
  <2>1. lists \in [Lists -> Seq(Fetch)] /\ "running" \in Lists
      BY DEF IInv, TypeOK, Lists
  <2>2. /\ ls \in [Lists -> Seq(Fetch)] /\ ls["running"] = new
        /\ \A m \in Lists \ {"running"} : ls[m] = lists[m]
      BY <1>5, <2>1
  <2> HIDE DEF ls
  <2> QED BY <2>2 DEF ls
<1>7. Starts(f, r, ls)
  <2>1. Starts(f, NewRecord(u, role, flags), [lists EXCEPT !["running"] = Append(lists["running"], f)])
      BY DEF Newfetch
  <2>2. [lists EXCEPT !["running"] = Append(lists["running"], f)] = ls
      BY <1>4, <1>5, <1>6
  <2> QED BY <2>1, <2>2, <1>3
<1>8. ASSUME NEW m \in Lists
      PROVE  /\ Once(ls[m])
             /\ \A g \in Fetch \ {f} : g \in Range(ls[m]) <=> g \in Range(lists[m])
             /\ f \in Range(ls[m]) <=> m = "running"
  <2>1. CASE m = "running"
      BY <2>1, <1>4, <1>5, <1>6
  <2>2. CASE m # "running"
      BY <2>2, <1>2, <1>6, ListFacts
  <2> QED BY <2>1, <2>2
<1>9. "RUNNING" \notin r.flags /\ "USESLOT" \notin r.flags /\ (Live(f) => fetch[f].url = r.url) /\ r.url \in Url
    BY <1>1, <1>3
<1>10. /\ Data' /\ Only(f) /\ (\A g \in Fetch \ {f} : InQueue(g)' <=> InQueue(g))
       /\ fetch' \in [Fetch -> FetchRecord] /\ driver' \in [Fetch -> DriverRecord]
       /\ lists' \in [Lists -> Seq(Fetch)] /\ slots' \in [Slots -> Nat]
       /\ Live(f)' /\ fetch'[f].url = r.url
       /\ \A flag \in {"DISPOSED", "INCOMPLETE"} : Has(f, flag)' <=> flag \in r.flags
  <2>1. waits' = waits
      BY <1>1
  <2> QED BY <2>1, <1>2, <1>3, <1>7, <1>8, <1>9, StartsGoes
<1> QED BY <1>1, <1>3, <1>10 DEF Asked

LEMMA StartfetchNext ==
    ASSUME IInv, Startfetch
    PROVE  IInv'
<1>1. todo # <<>> /\ Head(todo).op = "newfetch" /\ Becomes(<<>>)
    BY DEF Startfetch, Calls, Idle
<1>2. PICK u, role : u = Head(todo).url /\ role = Head(todo).arg
    OBVIOUS
<1>3. /\ u \in Url /\ role \in Roles /\ Plain(Head(todo)) /\ Head(todo).loadflags \in LoadFlags
      /\ url[u] \in UrlRecord /\ url[u][role] = NoFetch /\ url[u].fetch = NoFetch
      /\ role = "fetch" => url[u].rfetch = NoFetch /\ url[u].vfetch = NoFetch
      /\ \A d \in Range(Tail(todo)) :
            d.op = "newfetch" => d.url = u /\ d.arg # role /\ d.arg # "fetch" /\ role # "fetch"
    BY <1>1, <1>2, StartFacts
<1>4. PICK flags \in LoadFlags : flags = IF role = "rfetch" THEN "plain" ELSE Head(todo).loadflags
    BY <1>3 DEF LoadFlags
<1>5. ASSUME NEW f \in Fetch, Newfetch(f, u, role, flags), With(u, [url[u] EXCEPT ![role] = f])
      PROVE  IInv'
  <2>1. /\ ~ Live(f)
        /\ Data' /\ Only(f) /\ (\A g \in Fetch \ {f} : InQueue(g)' <=> InQueue(g))
        /\ fetch' \in [Fetch -> FetchRecord] /\ driver' \in [Fetch -> DriverRecord]
        /\ lists' \in [Lists -> Seq(Fetch)] /\ slots' \in [Slots -> Nat]
        /\ Live(f)' /\ fetch'[f].url = u /\ ~ Has(f, "DISPOSED")' /\ ~ Asked(f)'
        /\ UNCHANGED <<prefs, waits>>
      BY <1>3, <1>5, FetchIsMade
  <2>2. /\ Pointers' /\ url' \in [Url -> UrlRecord] /\ Owned(f)'
        /\ \A g \in Fetch \ {f} : Owned(g)' <=> Owned(g)
        /\ \A q \in Roles \ {role} : url'[u][q] = url[u][q]
      BY <1>3, <1>5, <2>1, StartIsOwned
  <2>3. \A c \in Range(todo) : c.fetch # f
      BY <2>1, NobodyHasIt
  <2>4. /\ Below(Tail(todo)) /\ Range(Tail(todo)) \subseteq Range(todo)
        /\ Range(todo) = {Head(todo)} \cup Range(Tail(todo)) /\ todo' = <<>> \o Tail(todo)
        /\ Range(todo') = Range(Tail(todo))
    <3>1. <<>> \in Seq(CallRecord) /\ Range(<<>>) = {}
        BY NoCalls
    <3> QED BY <1>1, <3>1, Made, Pending DEF Becomes
  <2>5. EndsOf(f)'
    <3>1. ~ ClosesSoon(f)' /\ ~ ClearsSoon(f)'
        BY <2>3, <2>4 DEF ClosesSoon, ClearsSoon
    <3> QED BY <2>1, <2>2, <3>1 DEF EndsOf, ForgottenOf, AskedOf, HandledOf
  <2>6. ASSUME NEW g \in Fetch \ {f}
        PROVE  /\ Same(g) /\ (Owned(g) => Owned(g)')
               /\ \A flag : Has(g, flag)' <=> Has(g, flag)
      BY <2>1, <2>2 DEF Same, Only, Live, Running, Asked, Drives, Has
  <2>7. ASSUME NEW c \in Range(Tail(todo)), c.op = "newfetch" PROVE CallOK(c)'
    <3>1. c.url = u /\ c.arg # role /\ c.arg # "fetch" /\ role # "fetch"
        BY <1>3, <2>7
    <3>2. CallOK(c)
        BY <1>1, <2>7, Made
    <3>3. c.arg \in Roles \ {role} /\ c.fetch = NoFetch /\ url[u][c.arg] = NoFetch
        BY <2>7, <3>1, <3>2 DEF CallOK, UrlOps
    <3>4. url'[u][c.arg] = NoFetch /\ url'[u].fetch = NoFetch
      <4>1. "fetch" \in Roles \ {role} /\ url'[u]["fetch"] = url[u]["fetch"]
          BY <2>2, <3>1 DEF Roles
      <4> QED BY <1>3, <2>2, <3>3, <4>1
    <3> QED BY <1>3, <2>7, <3>1, <3>3, <3>4 DEF CallOK, FetchOps, UrlOps
  <2>8. ASSUME NEW c \in Range(Tail(todo)), c.op = "forward" /\ Has(c.fetch, "POSTNOGOOD")'
        PROVE  Has(c.fetch, "POSTNOGOOD")
    <3>1. c.fetch \in Fetch /\ c.fetch # f
        BY <1>1, <2>3, <2>4, <2>8, Made DEF CallOK, FetchOps
    <3> QED BY <2>6, <2>8, <3>1
  <2>9. StackOK' /\ EndsWell' /\ todo' \in Seq(CallRecord)
    <3>1. /\ \A g \in Fetch \ {f} : /\ Same(g)
                                    /\ Owned(g) => Owned(g)'
                                    /\ Has(g, "DISPOSED")' <=> Has(g, "DISPOSED")
          /\ \A g \in Fetch \cap {f} : EndsOf(g)'
        BY <2>5, <2>6
    <3>2. /\ \A c \in Range(todo) : Plain(c) \/ c \in Range(Tail(todo)) \/ c.fetch \in {f}
          /\ \A c \in Range(Tail(todo)) : c.fetch \in Fetch \cap {f} => Same(c.fetch)
        BY <1>3, <2>3, <2>4
    <3>3. Fresh(<<>>, {f}, Tail(todo))
        BY FreshNone
    <3> QED BY <2>4, <2>7, <2>8, <3>1, <3>2, <3>3, StepNext DEF Fresh
  <2>10. TypeOK'
      BY <2>1, <2>2, <2>9 DEF IInv, TypeOK
  <2> QED BY <2>1, <2>2, <2>9, <2>10 DEF IInv
<1>6. CASE With(u, [url[u] EXCEPT ![role] = NoFetch]) /\ UNCHANGED fetchvars
  <2>1. [url[u] EXCEPT ![role] = NoFetch] = url[u]
      BY <1>3 DEF UrlRecord, Roles
  <2>2. url' = url
      BY <1>3, <1>6, <2>1 DEF With, IInv, TypeOK
  <2> QED BY <1>1, <1>3, <1>6, <2>2, FreshNone, CallsOnly
<1>7. \/ \E f \in Fetch : Newfetch(f, u, role, flags) /\ With(u, [url[u] EXCEPT ![role] = f])
      \/ With(u, [url[u] EXCEPT ![role] = NoFetch]) /\ UNCHANGED fetchvars
    BY <1>2, <1>4 DEF Startfetch, Arg
<1> QED BY <1>5, <1>6, <1>7

-----------------------------------------------------------------------------
(* The user *)

LEMMA NothingPending ==
    ASSUME IInv, Idle
    PROVE  Range(todo) = {} /\ Below(<<>>) /\ Range(<<>>) = {}
BY NoCalls, Belows DEF Idle, IInv, TypeOK

LEMMA UserStarts ==
    ASSUME IInv, Idle, UNCHANGED <<fetchvars, url>>, NEW calls, todo' = calls, Fresh(calls, {}, <<>>)
    PROVE  IInv'
<1>1. Steady /\ UNCHANGED fetchvars
    BY NothingMoves DEF fetchvars
<1>2. /\ calls \in Seq(CallRecord) /\ todo' = calls \o <<>>
      /\ Range(todo) = {} /\ Below(<<>>) /\ Range(<<>>) = {}
    BY NothingPending DEF Fresh
<1>3. /\ \A g \in Fetch \cap {} : EndsOf(g)'
      /\ \A c \in Range(todo) : Plain(c) \/ c \in Range(<<>>) \/ c.fetch \in {}
      /\ \A c \in Range(<<>>) : c.op = "forward" /\ Has(c.fetch, "POSTNOGOOD")'
                                      => Has(c.fetch, "POSTNOGOOD")
    BY <1>2
<1>4. Data' /\ Pointers' /\ StackOK' /\ EndsWell' /\ todo' \in Seq(CallRecord)
    BY <1>1, <1>2, <1>3, SteadyNext DEF Fresh
<1>5. TypeOK'
    BY <1>4 DEF IInv, TypeOK, fetchvars
<1> QED BY <1>4, <1>5 DEF IInv

LEMMA UserCancelsUrl ==
    ASSUME IInv, NEW u \in Url, Idle, UNCHANGED <<fetchvars, url>>,
           todo' = [i \in 1 .. 3 |->
                       CallUrl("cancelfetch", u, <<"fetch", "rfetch", "vfetch">>[i], "plain")]
    PROVE  IInv'
<1> DEFINE c(role) == CallUrl("cancelfetch", u, role, "plain")
<1>1. ASSUME NEW role \in Roles
      PROVE  /\ c(role) \in CallRecord /\ CallOK(c(role))' /\ Plain(c(role)) /\ c(role).op = "cancelfetch"
             /\ \A d : d.op = "cancelfetch" => PairOK(c(role), d)'
  <2>1. "plain" \in LoadFlags /\ c(role).op = "cancelfetch"
      BY Fields DEF LoadFlags
  <2>2. /\ c(role) \in CallRecord /\ CallOK(c(role))' /\ Plain(c(role))
        /\ \A d : d.op = "cancelfetch" => PairOK(c(role), d)'
      BY <2>1, NewLoad
  <2> QED BY <2>1, <2>2
<1>2. PICK x, y, z : x = c("fetch") /\ y = c("rfetch") /\ z = c("vfetch")
    OBVIOUS
<1>3. todo' = <<x, y, z>>
    BY <1>2
<1>4. "fetch" \in Roles /\ "rfetch" \in Roles /\ "vfetch" \in Roles
    BY DEF Roles
<1> HIDE DEF c
<1>5. /\ x \in CallRecord /\ CallOK(x)' /\ Plain(x) /\ y \in CallRecord /\ CallOK(y)' /\ Plain(y)
      /\ z \in CallRecord /\ CallOK(z)' /\ Plain(z)
      /\ PairOK(x, y)' /\ PairOK(x, z)' /\ PairOK(y, z)'
    BY <1>1, <1>2, <1>4
<1>6. PICK calls : calls = <<x, y, z>>
    OBVIOUS
<1>7. /\ calls \in Seq(CallRecord) /\ Range(calls) = {x, y, z}
      /\ \A a, b : Before(calls, a, b) => (a = x /\ b \in {y, z}) \/ (a = y /\ b = z)
    BY <1>5, <1>6, ThreeCalls
<1>8. Fresh(calls, {}, <<>>)
    BY <1>5, <1>7, NoCalls DEF Fresh
<1> QED BY <1>3, <1>6, <1>8, UserStarts

LEMMA UserShows ==
    ASSUME IInv, Idle, NEW u \in Url, NEW shown \in BOOLEAN,
           With(u, [url[u] EXCEPT !.shown = shown]), todo' = CancelPush(url[u].push, shown),
           UNCHANGED fetchvars
    PROVE  IInv'
<1>1. PICK r : /\ r = url[u] /\ r \in UrlRecord /\ r.push \in {NoFetch, r.fetch, r.rfetch}
    BY RecordFacts
<1>2. PICK s \in UrlRecord :
         /\ s = [r EXCEPT !.shown = shown] /\ s.push = r.push
         /\ s.fetch = r.fetch /\ s.rfetch = r.rfetch /\ s.vfetch = r.vfetch
  <2> DEFINE s == [r EXCEPT !.shown = shown]
  <2>1. /\ s \in UrlRecord /\ s.push = r.push
        /\ s.fetch = r.fetch /\ s.rfetch = r.rfetch /\ s.vfetch = r.vfetch
      BY <1>1 DEF UrlRecord
  <2> HIDE DEF s
  <2> QED BY <2>1 DEF s
<1>3. With(u, s)
    BY <1>1, <1>2
<1>4. \A role \in Roles : s[role] = url[u][role]
    BY <1>1, <1>2 DEF Roles
<1>5. PICK p \in Fetch \cup {NoFetch} : p = r.push
    BY <1>1, RecordFacts
<1>6. p # NoFetch => Live(p)
  <2>1. "push" \in Roles \cup {"push"}
      OBVIOUS
  <2>2. url[u]["push"] # NoFetch => Live(url[u]["push"])
      BY <2>1, PointersAre
  <2> QED BY <2>2, <1>1, <1>5
<1>7. Range(todo) = {} /\ Below(<<>>) /\ Range(<<>>) = {}
    BY NothingPending
<1>8. PICK calls : /\ calls = CancelPush(p, shown) /\ Fresh(calls, {}, <<>>)
                   /\ \A c \in Range(calls) : c.op \in {"cancel", "overflow"}
  <2>1. /\ \A d \in Range(<<>>) : d.op \notin {"updatefetch", "newfetch"}
        /\ \A d \in Range(<<>>) : p # NoFetch /\ d.fetch = p => Running(p)
        /\ fetch' = fetch
      BY <1>7 DEF fetchvars
  <2> QED BY <1>6, <2>1, PushIsCancelled
<1>9. todo' = calls \o <<>>
  <2>1. todo' = calls /\ calls \in Seq(CallRecord)
      BY <1>1, <1>5, <1>8 DEF Fresh
  <2> QED BY <2>1
<1>10. /\ \A c \in Range(todo) : Plain(c) \/ c \in Range(<<>>)
       /\ \A c \in Range(<<>>) : c.op # "newfetch"
       /\ s.push \in {NoFetch, s.fetch, s.rfetch}
    BY <1>1, <1>2, <1>7
<1> QED BY <1>3, <1>4, <1>7, <1>8, <1>9, <1>10, SourceNext

LEMMA UserNext ==
    ASSUME IInv, User
    PROVE  IInv'
<1>1. ASSUME Idle, NEW c \in CallRecord, CallOK(c)', Plain(c), todo' = <<c>>, UNCHANGED <<fetchvars, url>>
      PROVE  IInv'
  <2>1. Fresh(<<c>>, {}, <<>>)
      BY <1>1, NoCalls, FreshOne
  <2> QED BY <1>1, <2>1, UserStarts
<1>2. ASSUME Idle, NEW u \in Url, NEW flags \in UserLoads,
             Starts1(<<CallUrl("load", u, "none", flags)>>)
      PROVE  IInv'
  <2>1. PICK c : c = CallUrl("load", u, "none", flags)
      OBVIOUS
  <2>2. flags \in LoadFlags
      BY UrlConstants
  <2>3. c \in CallRecord /\ CallOK(c)' /\ Plain(c)
      BY <2>1, <2>2, NewLoad
  <2> QED BY <1>1, <1>2, <2>1, <2>3 DEF Starts1
<1>3. ASSUME Idle, NEW f \in Listed, Starts1(<<Call("cancel", f, "none")>>)
      PROVE  IInv'
  <2>1. fetch' = fetch
      BY <1>3 DEF Starts1, fetchvars
  <2>2. f \in Fetch /\ Live(f)'
      BY <2>1, ListFacts DEF Listed, Live
  <2>3. PICK c : c = Call("cancel", f, "none")
      OBVIOUS
  <2>4. c \in CallRecord /\ CallOK(c)' /\ Plain(c)
      BY <2>2, <2>3, NewStop
  <2> QED BY <1>1, <1>3, <2>3, <2>4 DEF Starts1
<1>4. ASSUME Idle, Starts1(<<CancelList("running")>>)
      PROVE  IInv'
  <2>1. fetch' = fetch /\ "running" \in Lists
      BY <1>4 DEF Starts1, fetchvars, Lists
  <2>2. PICK c \in CallRecord : c = CancelList("running") /\ CallOK(c)' /\ Plain(c)
      BY <2>1, ListIsCancelled
  <2> QED BY <1>1, <1>4, <2>2 DEF Starts1
<1>5. ASSUME Idle, NEW u \in Url,
             Starts1([i \in 1 .. 3 |->
                        CallUrl("cancelfetch", u, <<"fetch", "rfetch", "vfetch">>[i], "plain")])
      PROVE  IInv'
    BY <1>5, UserCancelsUrl DEF Starts1
<1>6. ASSUME Idle, NEW u \in Pushed, NEW shown \in BOOLEAN,
             With(u, [url[u] EXCEPT !.shown = shown]), todo' = CancelPush(url[u].push, shown),
             UNCHANGED fetchvars
      PROVE  IInv'
  <2>1. u \in Url
      BY FetchConstants
  <2> QED BY <1>6, <2>1, UserShows
<1>7. ASSUME NEW u \in Url \cup {NoUrl}, Addwaitrequest(u), UNCHANGED url
      PROVE  IInv'
    BY <1>7, AddwaitrequestNext
<1>8. ASSUME NEW choice \in PrefsChoices, Setprefs(choice), UNCHANGED url
      PROVE  IInv'
    BY <1>8, SetprefsNext
<1> QED BY <1>2, <1>3, <1>4, <1>5, <1>6, <1>7, <1>8 DEF User

-----------------------------------------------------------------------------
(* The invariant *)

LEMMA InitInv == Init => IInv
<1>1. SUFFICES ASSUME Init PROVE IInv
    OBVIOUS
<1>2. /\ fetch = [f \in Fetch |-> NoRecord] /\ driver = [f \in Fetch |-> NoDriver]
      /\ lists = [l \in Lists |-> <<>>] /\ slots = [s \in Slots |-> 0]
      /\ prefs \in PrefsChoices /\ waits = {} /\ todo = <<>>
      /\ url = [u \in Url |-> NoPointers]
    BY <1>1 DEF Init, FetchInit
<1>3. Range(<<>>) = {} /\ <<>> \in Seq(CallRecord) /\ <<>> \in Seq(Fetch)
    BY NoCalls
<1>4. /\ NoRecord \in FetchRecord /\ NoRecord.obj = "none" /\ NoRecord.flags = {}
    BY DEF NoRecord, NewRecord, FetchRecord, Roles, LoadFlags
<1>5. NoDriver \in DriverRecord /\ NoDriver.at = "none"
    BY FetchConstants DEF NoDriver, DriverRecord, Tags
<1>6. /\ NoPointers \in UrlRecord /\ NoPointers.push = NoFetch
      /\ \A role \in Roles : NoPointers[role] = NoFetch
    BY DEF NoPointers, UrlRecord, Roles
<1>7. TypeOK
    BY <1>2, <1>3, <1>4, <1>5, <1>6 DEF TypeOK
<1>8. \A f \in Fetch : ~ Live(f) /\ ~ Drives(f) /\ ~ Asked(f) /\ fetch[f].flags = {} /\ ~ Owned(f)
    BY <1>2, <1>4, <1>5, <1>6, FetchConstants DEF Live, Drives, Asked, Has, Owned
<1>9. \A l \in Lists : lists[l] = <<>> /\ Range(lists[l]) = {}
    BY <1>2, <1>3
<1>10. ListsOK
  <2>1. Once(<<>>)
      BY DEF Once
  <2> QED BY <2>1, <1>8, <1>9 DEF ListsOK, Lists
<1>11. SlotsAccounted
  <2>1. ASSUME NEW s \in Slots PROVE slots[s] = Cardinality(Holders(s))
    <3>1. Holders(s) = {}
        BY <1>8 DEF Holders, Holds
    <3> QED BY <3>1, <1>2, FS_EmptySet
  <2> QED BY <2>1, Holding
<1>12. Data
    BY <1>2, <1>5, <1>8, <1>10, <1>11 DEF Data, WaitsForTransfer, FlagsOf, Has, Drives
<1>13. Pointers
  <2>1. ASSUME NEW u \in Url PROVE PointersOf(u)
    <3>1. PICK r : r = url[u] /\ r = NoPointers
        BY <1>2
    <3>2. r.fetch = NoFetch /\ r.rfetch = NoFetch /\ r.vfetch = NoFetch /\ r.push = NoFetch
        BY <3>1, <1>6 DEF Roles
    <3>3. \A role \in Roles : url[u][role] = NoFetch
        BY <3>1, <1>6
    <3> QED BY <3>1, <3>2, <3>3 DEF PointersOf
  <2> QED BY <2>1 DEF Pointers
<1>14. StackOK
    BY <1>2, <1>3 DEF StackOK
<1>15. EndsWell
    BY <1>2, <1>3, <1>8 DEF EndsWell, ForgottenOf, AskedOf, HandledOf, ClosesSoon, ClearsSoon, Has
<1> QED BY <1>7, <1>12, <1>13, <1>14, <1>15 DEF IInv

LEMMA StutterInv == IInv /\ UNCHANGED vars => IInv'
<1>1. SUFFICES ASSUME IInv, UNCHANGED vars PROVE IInv'
    OBVIOUS
<1>2. UNCHANGED <<fetch, driver, lists, slots, prefs, waits, todo, url>>
    BY <1>1 DEF vars
<1>3. Data' /\ Pointers' /\ StackOK' /\ EndsWell'
    BY <1>1, <1>2, NothingMoves, SteadyOnly
<1>4. TypeOK'
    BY <1>1, <1>2 DEF IInv, TypeOK
<1> QED BY <1>3, <1>4 DEF IInv

\* One step per action.
LEMMA NextInv == IInv /\ Next => IInv'
<1>1. SUFFICES ASSUME IInv, Next PROVE IInv'
    OBVIOUS
<1>2. CASE MainFetch /\ UNCHANGED url
    BY <1>1, <1>2, RepliesNext, CheckqueuesNext, UpdatefetchNext, UpdatefetchLastNext, ForwardNext,
       RetrygetNext, FinishNext, CancelNext, StopNext, CancelwindowfetchesNext, DisposefetchNext,
       IncompleteEndNext DEF MainFetch
<1>3. CASE Loadurl
    BY <1>1, <1>3, LoadurlNext
<1>4. CASE Startfetch
    BY <1>1, <1>4, StartfetchNext
<1>5. CASE Srcupdateurl
    BY <1>1, <1>5, SrcupdateurlNext
<1>6. CASE Cancelpointer
    BY <1>1, <1>6, CancelpointerNext
<1>7. CASE User
    BY <1>1, <1>7, UserNext
<1>8. ASSUME NEW f \in Fetch, Answer(f) PROVE IInv'
    BY <1>1, <1>8, AnswerNext
<1>9. ASSUME NEW f \in Fetch, DriverNext(f), UNCHANGED url PROVE IInv'
    BY <1>1, <1>9, SendsNext, EndsNext, TakesNext DEF DriverNext
<1> QED BY <1>1, <1>2, <1>3, <1>4, <1>5, <1>6, <1>7, <1>8, <1>9 DEF Next, Main

\* IInv is inductive, whatever the fetches, URLs, schemes and settings are.
THEOREM Invariant == Spec => []IInv
<1>1. IInv /\ [Next]_vars => IInv'
    BY NextInv, StutterInv
<1> QED BY <1>1, InitInv, PTL DEF Spec

-----------------------------------------------------------------------------
(* The properties *)

\* The Fetch, Url and task structures keep their types, whatever is called.
THEOREM TypeCorrect == Spec => []TypeOK
<1>1. IInv => TypeOK
    BY DEF IInv
<1> QED BY <1>1, Invariant, PTL

\* nrnet and nrlocal (fetch.c:351, 419) count the fetches that hold a slot: each that
\* Dostartdriver takes is given back once, by the last update of its driver.
THEOREM SlotsAreAccounted == Spec => []SlotsAccounted
<1>1. IInv => SlotsAccounted
    BY DEF IInv, Data
<1> QED BY <1>1, Invariant, PTL

\* Disposefetch never frees a fetch whose driver has not returned, so that the
\* subtask has its Fetchdriver until it ends (fetch.c:1163).
THEOREM DriversHaveTheirFetch == Spec => []DriverHasItsFetch
<1>1. IInv => DriverHasItsFetch
  <2>1. SUFFICES ASSUME IInv PROVE DriverHasItsFetch
      OBVIOUS
  <2>2. ASSUME NEW f \in Fetch, driver[f].at # "none" PROVE Live(f) /\ Has(f, "RUNNING")
      BY <2>1, <2>2 DEF IInv, Data, FlagsOf, Drives, Running, Has
  <2> QED BY <2>2 DEF DriverHasItsFetch
<1> QED BY <1>1, Invariant, PTL

\* No handler goes on with a fetch that one of the calls it made has freed:
\* neither Updatefetch, Retryget and Incompletereturn after the source has been
\* told, nor the walk of Cancelwindowfetches.
THEOREM CallsAreMadeOnLiveFetches == Spec => []CallsNameLiveFetches
<1>1. IInv => CallsNameLiveFetches
  <2>1. SUFFICES ASSUME IInv PROVE CallsNameLiveFetches
      OBVIOUS
  <2>2. ASSUME NEW i \in DOMAIN todo, todo[i].fetch # NoFetch PROVE Live(todo[i].fetch)
    <3>1. todo[i] \in Range(todo)
        BY DEF Range
    <3> QED BY <2>1, <2>2, <3>1 DEF IInv, StackOK, CallOK
  <2> QED BY <2>2 DEF CallsNameLiveFetches
<1> QED BY <1>1, Invariant, PTL

\* No pointer of a URL, nor the server push of its source, is to a fetch that is
\* freed, that is another URL's, or that waits to be freed when main is idle.
THEOREM UrlPointersAreLive == Spec => []UrlPointersLive
<1>1. IInv => UrlPointersLive
  <2>1. SUFFICES ASSUME IInv PROVE UrlPointersLive
      OBVIOUS
  <2>2. ASSUME NEW u \in Url, NEW role \in Roles \cup {"push"}, url[u][role] # NoFetch
        PROVE  /\ Live(url[u][role]) /\ fetch[url[u][role]].url = u
               /\ Idle => ~ Has(url[u][role], "DISPOSED")
    <3>1. PICK f \in Fetch : f = url[u][role] /\ Live(f) /\ fetch[f].url = u /\ Owned(f)
        BY <2>1, <2>2, PointersAre
    <3>2. ~ Has(f, "DISPOSED")
        BY <2>1, <3>1 DEF IInv, EndsWell, ForgottenOf
    <3> QED BY <3>1, <3>2
  <2> QED BY <2>2 DEF UrlPointersLive
<1> QED BY <1>1, Invariant, PTL

\* When main is idle, a transfer that nobody disposed of is one of its URL's
\* pointers, that can cancel it; and no URL has a fetch and an rfetch at once.
THEOREM FetchesHaveTheirOwner == Spec => []FetchesAreOwned
<1>1. IInv => FetchesAreOwned
  <2>1. SUFFICES ASSUME IInv PROVE FetchesAreOwned
      OBVIOUS
  <2>2. ASSUME Idle, NEW f \in Fetch, Live(f), ~ Has(f, "DISPOSED")
        PROVE  \E role \in Roles : url[fetch[f].url][role] = f
    <3>1. ~ ClosesSoon(f)
        BY <2>1, <2>2, NothingPending DEF ClosesSoon
    <3>2. Owned(f)
        BY <2>1, <2>2, <3>1 DEF IInv, EndsWell, HandledOf
    <3>3. PICK v \in Url, role \in Roles : url[v][role] = f
        BY <3>2 DEF Owned
    <3>4. fetch[f].url = v
        BY <2>1, <3>3, PointersAre, FetchConstants
    <3> QED BY <3>3, <3>4
  <2>3. \A u \in Url : url[u].fetch = NoFetch \/ url[u].rfetch = NoFetch
      BY <2>1 DEF IInv, Pointers, PointersOf
  <2> QED BY <2>2, <2>3 DEF FetchesAreOwned
<1> QED BY <1>1, Invariant, PTL

\* An ARexx WAIT that is outstanding has a transfer whose end will reply to it.
THEOREM WaitsAwaitTransfers == Spec => []WaitsForTransfer
<1>1. IInv => WaitsForTransfer
    BY DEF IInv, Data
<1> QED BY <1>1, Invariant, PTL

\* Checkwaitrequests, that Addwaitrequest and Disposefetch call, drops only the
\* requests that none of the live fetches matches.
LEMMA DroppedIsUnmatched ==
    ASSUME IInv, NEW ws, NEW fs, NEW w \in ws \ Checkwaitrequests(ws, fs),
           NEW f \in Fetch, f \in fs
    PROVE  ~ Awaits(w, f)
BY DEF Checkwaitrequests, Matching, Awaits

LEMMA LiveIsListed ==
    ASSUME IInv, NEW f \in Fetch, Live(f)
    PROVE  f \in Listed
<1>1. PICK l \in Lists : f \in Range(lists[l])
    BY DEF IInv, Data, ListsOK
<1> QED BY <1>1, Zenon DEF Listed

LEMMA DisposeReplies ==
    ASSUME IInv, Disposefetch, NEW w \in waits \ waits', NEW g \in Fetch
    PROVE  ~ Awaits(w, g)'
<1>1. PICK f : f = This
    OBVIOUS
<1>2. /\ waits' = Checkwaitrequests(waits, Listed \ {f})
      /\ fetch' = [fetch EXCEPT ![f] = [NoRecord EXCEPT !.obj = "freed"]]
    BY <1>1 DEF Disposefetch
<1>3. CASE g = f
  <2>1. fetch'[g].obj = "freed"
      BY <1>2, <1>3 DEF IInv, TypeOK, NoRecord, NewRecord
  <2> QED BY <2>1 DEF Awaits, Live
<1>4. CASE g # f
  <2>1. fetch'[g] = fetch[g]
      BY <1>2, <1>4 DEF IInv, TypeOK
  <2>2. Live(g) => ~ Awaits(w, g)
      BY <1>2, <1>4, LiveIsListed, DroppedIsUnmatched
  <2> QED BY <2>1, <2>2 DEF Awaits, Live
<1> QED BY <1>3, <1>4

LEMMA WaitReplies ==
    ASSUME IInv, NEW u, Addwaitrequest(u), NEW w \in waits \ waits', NEW g \in Fetch
    PROVE  ~ Awaits(w, g)'
<1>1. waits' = Checkwaitrequests(waits \cup {u}, Listed) /\ fetch' = fetch
    BY DEF Addwaitrequest
<1>2. Live(g) => ~ Awaits(w, g)
    BY <1>1, LiveIsListed, DroppedIsUnmatched
<1> QED BY <1>1, <1>2 DEF Awaits, Live

\* An ARexx WAIT is replied to only when no transfer, queued or running, is left
\* that it waits for (Checkwaitrequests, fetch.c:384).
THEOREM WaitsAreForAll == Spec => WaitIsForAll
<1>1. ASSUME IInv, Next, NEW w \in waits \ waits', NEW g \in Fetch PROVE ~ Awaits(w, g)'
  <2>1. CASE waits' = waits
      BY <1>1, <2>1
  <2>2. CASE Disposefetch
      BY <1>1, <2>2, DisposeReplies
  <2>3. ASSUME NEW u, Addwaitrequest(u) PROVE ~ Awaits(w, g)'
      BY <1>1, <2>3, WaitReplies
  <2>4. \/ waits' = waits \/ Disposefetch \/ \E u : Addwaitrequest(u)
    <3>1. MainFetch => waits' = waits \/ Disposefetch
        BY DEF MainFetch, Replies, Checkqueues, Updatefetch, UpdatefetchLast, Forward, Retryget,
           Finish, Cancel, Stop, Cancelwindowfetches, IncompleteEnd
    <3>2. Loadurl \/ Startfetch \/ Srcupdateurl \/ Cancelpointer => waits' = waits
        BY DEF Loadurl, Startfetch, Srcupdateurl, Cancelpointer, Newfetch, fetchvars
    <3>3. User => waits' = waits \/ \E u : Addwaitrequest(u)
        BY DEF User, Setprefs, Starts1, fetchvars
    <3>4. \A f \in Fetch : Answer(f) \/ DriverNext(f) => waits' = waits
        BY DEF Answer, Incompletereturn, DriverNext, Sends, Ends, Takes
    <3> QED BY <1>1, <3>1, <3>2, <3>3, <3>4 DEF Next, Main
  <2> QED BY <2>1, <2>2, <2>3, <2>4
<1>2. ASSUME UNCHANGED vars, NEW w \in waits \ waits', NEW g \in Fetch PROVE ~ Awaits(w, g)'
    BY <1>2 DEF vars
<1>3. IInv /\ [Next]_vars => [\A w \in waits \ waits' : \A f \in Fetch : ~ Awaits(w, f)']_vars
    BY <1>1, <1>2
<1> QED BY <1>3, Invariant, PTL DEF Spec, WaitIsForAll

=============================================================================
