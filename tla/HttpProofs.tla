----------------------------- MODULE HttpProofs -----------------------------
(***************************************************************************)
(* What is proved of Http for every set of transfers, hosts and            *)
(* connections and for all limits: who owns a connection, that nobody      *)
(* holds a closed one, what leaks, how long the pool gets, how many        *)
(* redirections are followed, and that no step leads a transfer back.      *)
(***************************************************************************)
EXTENDS Http, TLAPS, FiniteSetTheorems, SequenceTheorems

Processes == Task \cup {Main}

\* What a transfer has at each place of Httptask.
PlaceOf(t) ==
    /\ hi[t].at \in {"idle", "top"} => \A f \in Fields : hi[t][f] = NoConn
    /\ hi[t].at \in {"open", "dial"} => hi[t].sock = NoConn
    /\ hi[t].at = "open" => hi[t].assl = NoConn
    /\ hi[t].at = "dial" => hi[t].base # NoConn
    /\ hi[t].at = "finish" /\ ~ hi[t].reused => hi[t].sock = NoConn
    /\ hi[t].reused => hi[t].at = "finish" /\ hi[t].status = 0
    /\ hi[t].at \in {"open", "dial", "connect", "send", "body"} => hi[t].status = 0
    /\ hi[t].at \in {"clean", "finish"} => hi[t].status \notin hi[t].auth
PlaceInv == \A t \in Task : PlaceOf(t)

\* A transfer has one connection: the socket, the SSL structure and the opening
\* of the library belong together, and what is open of it the transfer knows.
OneConnection ==
    \A t \in Task :
        /\ hi[t].sock # NoConn => hi[t].sock = hi[t].base
        /\ hi[t].assl # NoConn => hi[t].assl = hi[t].base
        /\ hi[t].base # NoConn =>
              /\ hi[t].base \in res.sock => hi[t].sock = hi[t].base
              /\ hi[t].base \in res.assl => hi[t].assl = hi[t].base
        /\ hi[t].reused => hi[t].sock \in res.reused

\* No two nodes of the pool hold the same connection.
Distinct == \A i, j \in DOMAIN pool : pool[i].conn = pool[j].conn => i = j

\* A connection has one owner.
Exclusive ==
    /\ \A t, u \in Task : hi[t].base # NoConn /\ hi[t].base = hi[u].base => t = u
    /\ Distinct
    /\ \A a, b \in Processes : a # b => kill[a] \cap kill[b] = {}
    /\ \A t \in Task : hi[t].base \notin Pooled \cup Killed
    /\ Pooled \cap Killed = {}

\* The transfers that have passed the test of redirect_count and may still count.
Counting == {t \in Task : hi[t].at \in {"open", "dial", "connect", "send", "body"}}
CountInv == redirect_count + Cardinality(Counting) =< MaxRedirects - 1 + Cardinality(Task)

Conns == OneConnection /\ Exclusive /\ HeldIsOpen /\ OnlyReusedLeak
IInv == TypeOK /\ PlaceInv /\ Conns /\ PoolBounded /\ CountInv

-----------------------------------------------------------------------------
(* Numbers and enumerations *)

LEMMA Least ==
    ASSUME NEW S \in SUBSET Nat, S # {}
    PROVE  \E n \in S : \A m \in S : n =< m
<1>1. OpToRel(<, Nat) = {ss \in Nat \X Nat : ss[1] < ss[2]}
    BY DEF OpToRel
<1>2. IsWellFoundedOn({ss \in Nat \X Nat : ss[1] < ss[2]}, Nat)
    BY <1>1, NatLessThanWellFounded
<1>3. PICK n \in S : \A m \in S : <<m, n>> \notin {ss \in Nat \X Nat : ss[1] < ss[2]}
    BY <1>2, WFMin
<1>4. \A m \in S : ~ (m < n)
    BY <1>3
<1> QED
    BY <1>4

LEMMA Greatest ==
    ASSUME NEW b \in Nat, NEW S \in SUBSET (1 .. b), S # {}
    PROVE  \E n \in S : \A m \in S : m =< n
<1> DEFINE Bounds == {u \in Nat : \A m \in S : m =< u}
<1>1. b \in Bounds
    OBVIOUS
<1>2. PICK u \in Bounds : \A v \in Bounds : u =< v
    BY <1>1, Least
<1>3. CASE u \in S
    BY <1>3
<1>4. CASE u \notin S
    <2>1. \A m \in S : m \in Nat /\ m >= 1 /\ m =< u /\ m # u
        BY <1>2, <1>4
    <2>2. u \in Nat /\ u - 1 \in Nat
        <3>1. PICK m \in S : TRUE
            OBVIOUS
        <3>2. m \in Nat /\ m >= 1 /\ m =< u
            BY <2>1, <3>1
        <3>3. u \in Nat
            OBVIOUS
        <3> QED
            BY <3>2, <3>3
    <2>3. \A m \in S : m =< u - 1
        BY <2>1, <2>2
    <2>4. u - 1 \in Bounds /\ ~ (u =< u - 1)
        BY <2>2, <2>3
    <2> QED
        BY <2>4, <1>2
<1> QED
    BY <1>3, <1>4

LEMMA Interval ==
    ASSUME NEW n \in Nat
    PROVE  /\ IsFiniteSet(1 .. n) /\ Cardinality(1 .. n) = n
           /\ \A I \in SUBSET (1 .. n) : IsFiniteSet(I) /\ Cardinality(I) \in Nat
<1>1. IsFiniteSet(1 .. n) /\ Cardinality(1 .. n) = IF 1 > n THEN 0 ELSE n - 1 + 1
    BY FS_Interval, 1 \in Int, n \in Int
<1>2. Cardinality(1 .. n) = n
    BY <1>1
<1>3. \A I \in SUBSET (1 .. n) : IsFiniteSet(I)
    BY <1>1, FS_Subset
<1> QED
    BY <1>1, <1>2, <1>3, FS_CardinalityType

\* A finite set of numbers can be listed in order.
LEMMA Enumerates ==
    ASSUME NEW b \in Nat, NEW n \in Nat, NEW I \in SUBSET (1 .. b), Cardinality(I) = n
    PROVE  Increasing(n, I) # {}
<1> DEFINE Listed(k) == \A J \in SUBSET (1 .. b) : Cardinality(J) = k => Increasing(k, J) # {}
           Bad == {k \in Nat : ~ Listed(k)}
<1>1. SUFFICES ASSUME Bad # {} PROVE FALSE
    OBVIOUS
<1>2. PICK k \in Bad : \A l \in Bad : k =< l
    BY <1>1, Least
<1>3. PICK J \in SUBSET (1 .. b) : Cardinality(J) = k /\ Increasing(k, J) = {}
    BY <1>2
<1>4. IsFiniteSet(J) /\ k \in Nat
    BY Interval
<1>5. CASE k = 0
    <2>1. [i \in 1 .. 0 |-> 0] \in Increasing(0, J)
        BY DEF Increasing
    <2> QED
        BY <2>1, <1>3, <1>5
<1>6. CASE k # 0
    <2>1. J # {}
        BY <1>3, <1>6, FS_EmptySet
    <2>2. PICK m \in J : \A j \in J : j =< m
        BY <2>1, Greatest
    <2>3. Cardinality(J \ {m}) = k - 1
        BY <1>3, <1>4, <1>6, FS_RemoveElement
    <2>4. k - 1 \in Nat /\ k - 1 < k /\ J \ {m} \in SUBSET (1 .. b)
        BY <1>4, <1>6
    <2>5. Listed(k - 1)
        BY <1>2, <1>4, <2>4
    <2>6. PICK e \in Increasing(k - 1, J \ {m}) : TRUE
        BY <2>3, <2>4, <2>5
    <2>7. e \in [1 .. k - 1 -> J \ {m}] /\ \A i, j \in 1 .. k - 1 : i < j => e[i] < e[j]
        BY <2>6 DEF Increasing
    <2>8. \A i \in 1 .. k - 1 : e[i] \in 1 .. b /\ e[i] =< m /\ e[i] # m
        BY <2>2, <2>4, <2>7
    <2>9. \A i \in 1 .. k - 1 : e[i] < m
        BY <2>8
    <2> DEFINE d == [i \in 1 .. k |-> IF i = k THEN m ELSE e[i]]
    <2>10. d \in [1 .. k -> J]
        BY <2>7, <1>4, <1>6
    <2>11. \A i, j \in 1 .. k : i < j => d[i] < d[j]
        BY <2>7, <2>9, <1>4, <1>6
    <2> QED
        BY <2>10, <2>11, <1>3 DEF Increasing
<1> QED
    BY <1>5, <1>6

LEMMA IncreasingIsOnto ==
    ASSUME NEW b \in Nat, NEW n \in Nat, NEW I \in SUBSET (1 .. b), Cardinality(I) = n,
           NEW e \in Increasing(n, I)
    PROVE  /\ e \in [1 .. n -> I]
           /\ \A i, j \in 1 .. n : e[i] = e[j] => i = j
           /\ \A m \in I : \E i \in 1 .. n : e[i] = m
<1>1. e \in [1 .. n -> I] /\ \A i, j \in 1 .. n : i < j => e[i] < e[j]
    BY DEF Increasing
<1>2. \A i, j \in 1 .. n : e[i] = e[j] => i = j
    <2> SUFFICES ASSUME NEW i \in 1 .. n, NEW j \in 1 .. n, e[i] = e[j], i < j
                 PROVE  FALSE
        OBVIOUS
    <2>1. e[i] < e[j] /\ e[i] \in 1 .. b
        BY <1>1
    <2> QED
        BY <2>1
<1>3. e \in Injection(1 .. n, I)
    BY <1>1, <1>2 DEF Injection, IsInjective
<1>4. IsFiniteSet(I) /\ Cardinality(1 .. n) = n
    BY Interval
<1>5. e \in Surjection(1 .. n, I)
    BY <1>3, <1>4, FS_Injection
<1> QED
    BY <1>1, <1>2, <1>5 DEF Surjection

-----------------------------------------------------------------------------
(* The pool *)

\* What Kept leaves of the pool: every node but those at S, each of them once.
LEMMA KeptNodes ==
    ASSUME TypeOK, NEW S \in SUBSET DOMAIN pool
    PROVE  /\ Kept(S) \in Seq(Node)
           /\ Len(Kept(S)) = Cardinality(DOMAIN pool \ S)
           /\ \E e \in [DOMAIN Kept(S) -> DOMAIN pool \ S] :
                 /\ \A k \in DOMAIN Kept(S) : Kept(S)[k] = pool[e[k]]
                 /\ \A j, k \in DOMAIN Kept(S) : e[j] = e[k] => j = k
                 /\ \A i \in DOMAIN pool \ S : \E k \in DOMAIN Kept(S) : e[k] = i
<1> DEFINE left == DOMAIN pool \ S
           n == Cardinality(left)
           e == CHOOSE order \in Increasing(n, left) : TRUE
<1>1. Len(pool) \in Nat /\ DOMAIN pool = 1 .. Len(pool) /\ pool \in Seq(Node)
    BY DEF TypeOK
<1>2. left \in SUBSET (1 .. Len(pool)) /\ n \in Nat
    BY <1>1, Interval
<1>3. e \in Increasing(n, left)
    BY <1>1, <1>2, Enumerates
<1>4. Cardinality(left) = n
    OBVIOUS
<1> HIDE DEF e, n, left
<1>5. /\ e \in [1 .. n -> left]
      /\ \A i, j \in 1 .. n : e[i] = e[j] => i = j
      /\ \A m \in left : \E i \in 1 .. n : e[i] = m
    <2> DEFINE Good(m, I) == \A d \in Increasing(m, I) :
                  /\ d \in [1 .. m -> I]
                  /\ \A i, j \in 1 .. m : d[i] = d[j] => i = j
                  /\ \A j \in I : \E i \in 1 .. m : d[i] = j
    <2>1. \A b, m \in Nat : \A I \in SUBSET (1 .. b) : Cardinality(I) = m => Good(m, I)
        BY IncreasingIsOnto, Zenon
    <2> HIDE DEF Good
    <2>2. Good(n, left)
        BY <1>1, <1>2, <1>4, <2>1
    <2> QED
        BY <1>3, <2>2, Zenon DEF Good
<1>6. Kept(S) = [k \in 1 .. n |-> pool[e[k]]]
    BY <1>5 DEF Kept, e, n, left
<1>7. \A k \in 1 .. n : e[k] \in 1 .. Len(pool) /\ pool[e[k]] \in Node
    <2>1. \A i \in 1 .. Len(pool) : pool[i] \in Node
        BY <1>1
    <2>2. \A k \in 1 .. n : e[k] \in 1 .. Len(pool)
        BY <1>2, <1>5
    <2> QED
        BY <2>1, <2>2
<1>8. Kept(S) \in Seq(Node) /\ Len(Kept(S)) = n /\ DOMAIN Kept(S) = 1 .. n
    BY <1>2, <1>6, <1>7
<1>9. \A k \in 1 .. n : Kept(S)[k] = pool[e[k]]
    BY <1>6
<1>10. \E d \in [DOMAIN Kept(S) -> left] :
          /\ \A k \in DOMAIN Kept(S) : Kept(S)[k] = pool[d[k]]
          /\ \A j, k \in DOMAIN Kept(S) : d[j] = d[k] => j = k
          /\ \A i \in left : \E k \in DOMAIN Kept(S) : d[k] = i
    <2> SUFFICES /\ e \in [DOMAIN Kept(S) -> left]
                 /\ \A k \in DOMAIN Kept(S) : Kept(S)[k] = pool[e[k]]
                 /\ \A j, k \in DOMAIN Kept(S) : e[j] = e[k] => j = k
                 /\ \A i \in left : \E k \in DOMAIN Kept(S) : e[k] = i
        BY Zenon
    <2> QED
        BY <1>5, <1>8, <1>9, Zenon
<1> QED
    BY <1>8, <1>4, <1>10 DEF left

ConnsAt(S) == {pool[i].conn : i \in S}

LEMMA KeptConns ==
    ASSUME TypeOK, Distinct, NEW S \in SUBSET DOMAIN pool
    PROVE  /\ {Kept(S)[k].conn : k \in DOMAIN Kept(S)} = Pooled \ ConnsAt(S)
           /\ \A j, k \in DOMAIN Kept(S) : Kept(S)[j].conn = Kept(S)[k].conn => j = k
<1>1. PICK e \in [DOMAIN Kept(S) -> DOMAIN pool \ S] :
                 /\ \A k \in DOMAIN Kept(S) : Kept(S)[k] = pool[e[k]]
                 /\ \A j, k \in DOMAIN Kept(S) : e[j] = e[k] => j = k
                 /\ \A i \in DOMAIN pool \ S : \E k \in DOMAIN Kept(S) : e[k] = i
    BY KeptNodes
<1>2. \A k \in DOMAIN Kept(S) : Kept(S)[k].conn \in Pooled \ ConnsAt(S)
    BY <1>1 DEF Distinct, Pooled, ConnsAt
<1>3. \A c \in Pooled \ ConnsAt(S) : \E k \in DOMAIN Kept(S) : Kept(S)[k].conn = c
    BY <1>1 DEF Distinct, Pooled, ConnsAt
<1>4. \A j, k \in DOMAIN Kept(S) : Kept(S)[j].conn = Kept(S)[k].conn => j = k
    BY <1>1 DEF Distinct
<1> QED
    BY <1>2, <1>3, <1>4

LEMMA PoolType ==
    ASSUME TypeOK
    PROVE  /\ \A i \in DOMAIN pool : pool[i] \in Node
           /\ Pooled \subseteq Conn /\ Killed \subseteq Conn
           /\ \A S \in SUBSET DOMAIN pool : ConnsAt(S) \subseteq Pooled
<1>1. \A i \in DOMAIN pool : pool[i] \in Node
    BY DEF TypeOK
<1>2. \A i \in DOMAIN pool : pool[i].conn \in Conn
    BY <1>1 DEF Node
<1>3. \A a \in Task \cup {Main} : kill[a] \subseteq Conn
    BY DEF TypeOK
<1> QED
    BY <1>1, <1>2, <1>3 DEF Pooled, Killed, ConnsAt

\* The connections of the nodes that a process takes out go to it.
LEMMA KillsConns ==
    ASSUME TypeOK, NEW a \in Processes, NEW S \in SUBSET DOMAIN pool, Kills(a, S)
    PROVE  /\ kill' \in [Processes -> SUBSET Conn]
           /\ Killed' = Killed \cup ConnsAt(S)
           /\ Exclusive => \A b, c \in Processes : b # c => kill'[b] \cap kill'[c] = {}
<1>1. kill \in [Processes -> SUBSET Conn] /\ ConnsAt(S) \subseteq Conn
    BY PoolType DEF TypeOK, Processes
<1>2. kill' = [kill EXCEPT ![a] = @ \cup ConnsAt(S)]
    BY DEF Kills, ConnsAt
<1>3. \A b \in Processes : kill'[b] = IF b = a THEN kill[a] \cup ConnsAt(S) ELSE kill[b]
    BY <1>1, <1>2
<1>4. kill' \in [Processes -> SUBSET Conn]
    BY <1>1, <1>2
<1>5. Killed' = Killed \cup ConnsAt(S)
    BY <1>3 DEF Killed, Processes
<1>6. ASSUME Exclusive, NEW b \in Processes, NEW c \in Processes, b # c
      PROVE  kill'[b] \cap kill'[c] = {}
    <2>1. ConnsAt(S) \subseteq Pooled /\ Pooled \cap Killed = {}
        BY <1>6, PoolType DEF Exclusive
    <2>2. kill[b] \subseteq Killed /\ kill[c] \subseteq Killed
        BY DEF Killed, Processes
    <2>3. kill[b] \cap kill[c] = {}
        BY <1>6 DEF Exclusive
    <2> QED
        BY <1>3, <1>6, <2>1, <2>2, <2>3
<1> QED
    BY <1>4, <1>5, <1>6

\* A step that takes nodes out of the pool and does nothing else to it.
Purges(a, S) == Kills(a, S) /\ pool' = Kept(S)
Frees(a) == (\E S \in SUBSET DOMAIN pool : Purges(a, S)) \/ UNCHANGED <<pool, kill>>

\* What becomes of the owners when only the pool gives connections away.
Shifted ==
    /\ pool' \in Seq(Node) /\ kill' \in [Processes -> SUBSET Conn]
    /\ Pooled' \subseteq Pooled
    /\ Pooled' \cup Killed' = Pooled \cup Killed
    /\ Pooled' \cap Killed' = {}
    /\ Distinct'
    /\ \A b, c \in Processes : b # c => kill'[b] \cap kill'[c] = {}

LEMMA FreesShifts ==
    ASSUME TypeOK, Exclusive, NEW a \in Processes, Frees(a)
    PROVE  Shifted
<1>1. CASE UNCHANGED <<pool, kill>>
    <2>1. Pooled' = Pooled /\ Killed' = Killed /\ (Distinct' <=> Distinct)
        BY <1>1 DEF Pooled, Killed, Distinct
    <2> QED
        BY <1>1, <2>1 DEF Exclusive, Shifted, TypeOK, Processes
<1>2. ASSUME NEW S \in SUBSET DOMAIN pool, Purges(a, S)
      PROVE  Shifted
    <2>1. /\ kill' \in [Processes -> SUBSET Conn] /\ Killed' = Killed \cup ConnsAt(S)
          /\ \A b, c \in Processes : b # c => kill'[b] \cap kill'[c] = {}
        BY <1>2, KillsConns DEF Purges
    <2>2. pool' = Kept(S) /\ pool' \in Seq(Node)
        BY <1>2, KeptNodes DEF Purges
    <2>3. Pooled' = Pooled \ ConnsAt(S) /\ Distinct'
        <3>1. Distinct
            BY DEF Exclusive
        <3>2. /\ {Kept(S)[k].conn : k \in DOMAIN Kept(S)} = Pooled \ ConnsAt(S)
              /\ \A j, k \in DOMAIN Kept(S) : Kept(S)[j].conn = Kept(S)[k].conn => j = k
            BY <3>1, KeptConns
        <3>3. Pooled' = {pool'[k].conn : k \in DOMAIN pool'}
            BY DEF Pooled
        <3>4. Distinct' <=> \A j, k \in DOMAIN pool' : pool'[j].conn = pool'[k].conn => j = k
            BY DEF Distinct
        <3> QED
            BY <2>2, <3>2, <3>3, <3>4
    <2>4. ConnsAt(S) \subseteq Pooled /\ Pooled \cap Killed = {}
        BY PoolType DEF Exclusive
    <2> QED
        BY <2>1, <2>2, <2>3, <2>4 DEF Shifted
<1> QED
    BY <1>1, <1>2 DEF Frees

-----------------------------------------------------------------------------
(* Who owns what *)

\* The steps of one transfer.
Moves(t) ==
    /\ hi' \in [Task -> HttpinfoRecord]
    /\ res' \in [Fields \cup {"answered", "reused"} -> SUBSET Conn]
    /\ \A u \in Task : u # t => hi'[u] = hi[u]

\* A transfer keeps or gives up what it has: the socket and the SSL structure it
\* closes when it forgets them, the library only when they are gone.
Releases(t) ==
    /\ Moves(t)
    /\ \A f \in {"sock", "assl"} :
         \/ hi'[t][f] = hi[t][f] /\ res'[f] = res[f]
         \/ hi'[t][f] = NoConn /\ res'[f] = res[f] \ {hi[t][f]}
    /\ \/ res'.base = res.base
       \/ res'.base = res.base \ {hi[t].base} /\ hi'[t].base = NoConn
    /\ \/ hi'[t].base = hi[t].base
       \/ hi'[t].base = NoConn /\ hi'[t].sock = NoConn /\ hi'[t].assl = NoConn
    /\ res.reused \ {hi[t].base} \subseteq res'.reused
    /\ ~ hi'[t].reused

LEMMA ConnTypes ==
    ASSUME TypeOK
    PROVE  /\ \A t \in Task : /\ hi[t] \in HttpinfoRecord
                              /\ {hi[t].sock, hi[t].assl, hi[t].base} \subseteq Conn \cup {NoConn}
           /\ res.sock \cup res.assl \cup res.base \cup res.reused \cup res.answered \subseteq Conn
           /\ NoConn \notin Conn
<1>1. \A t \in Task : hi[t] \in HttpinfoRecord
    BY DEF TypeOK
<1>2. \A t \in Task : hi[t].sock \in Conn \cup {NoConn} /\ hi[t].assl \in Conn \cup {NoConn}
                                /\ hi[t].base \in Conn \cup {NoConn}
    BY <1>1 DEF HttpinfoRecord
<1>3. res.sock \subseteq Conn /\ res.assl \subseteq Conn /\ res.base \subseteq Conn
      /\ res.reused \subseteq Conn /\ res.answered \subseteq Conn
    BY DEF TypeOK, Fields
<1> QED
    BY <1>1, <1>2, <1>3, HttpAssumption DEF HttpAssumption

\* Owned, one kind at a time.
LEMMA OwnedIs ==
    \A c : c \in Owned <=> \/ \E t \in Task : c \in {hi[t].sock, hi[t].assl, hi[t].base}
                           \/ c \in Pooled \cup Killed
<1>1. \A t \in Task : {hi[t][f] : f \in Fields} = {hi[t].sock, hi[t].assl, hi[t].base}
    BY DEF Fields
<1> QED
    BY <1>1 DEF Owned

LEMMA ConnsFacts ==
    ASSUME TypeOK, Conns
    PROVE  /\ \A u \in Task : /\ hi[u].sock \in Conn \cup {NoConn}
                              /\ hi[u].assl \in Conn \cup {NoConn}
                              /\ hi[u].base \in Conn \cup {NoConn}
                              /\ hi[u].sock # NoConn => hi[u].sock = hi[u].base
                              /\ hi[u].assl # NoConn => hi[u].assl = hi[u].base
                              /\ hi[u].base # NoConn /\ hi[u].base \in res.sock => hi[u].sock = hi[u].base
                              /\ hi[u].base # NoConn /\ hi[u].base \in res.assl => hi[u].assl = hi[u].base
                              /\ hi[u].reused => hi[u].sock \in res.reused
                              /\ hi[u].base \notin Pooled \cup Killed
                              /\ hi[u].sock # NoConn => hi[u].sock \in res.sock
                              /\ hi[u].assl # NoConn => hi[u].assl \in res.assl
                              /\ hi[u].base # NoConn => hi[u].base \in res.base
           /\ \A u, v \in Task : hi[u].base # NoConn /\ hi[u].base = hi[v].base => u = v
           /\ NoConn \notin Conn
           /\ res.sock \subseteq Conn /\ res.assl \subseteq Conn /\ res.base \subseteq Conn
           /\ res.reused \subseteq Conn
           /\ Pooled \subseteq Conn /\ Killed \subseteq Conn /\ Pooled \cap Killed = {}
           /\ Pooled \subseteq res.sock /\ Pooled \subseteq res.base
           /\ \A c \in res.sock \cup res.assl :
                 \/ c \in res.reused \/ c \in Pooled \/ c \in Killed
                 \/ \E u \in Task : c = hi[u].base
<1>1. /\ \A u \in Task : {hi[u].sock, hi[u].assl, hi[u].base} \subseteq Conn \cup {NoConn}
      /\ res.sock \cup res.assl \cup res.base \cup res.reused \subseteq Conn
      /\ NoConn \notin Conn
    BY ConnTypes
<1>2. \A u \in Task : /\ hi[u].sock # NoConn => hi[u].sock = hi[u].base
                      /\ hi[u].assl # NoConn => hi[u].assl = hi[u].base
                      /\ hi[u].base # NoConn /\ hi[u].base \in res.sock => hi[u].sock = hi[u].base
                      /\ hi[u].base # NoConn /\ hi[u].base \in res.assl => hi[u].assl = hi[u].base
                      /\ hi[u].reused => hi[u].sock \in res.reused
    BY DEF Conns, OneConnection
<1>3. /\ \A u \in Task : hi[u].base \notin Pooled \cup Killed
      /\ \A u, v \in Task : hi[u].base # NoConn /\ hi[u].base = hi[v].base => u = v
      /\ Pooled \cap Killed = {}
    BY DEF Conns, Exclusive
<1>4. \A u \in Task : /\ hi[u].sock # NoConn => hi[u].sock \in res.sock
                      /\ hi[u].assl # NoConn => hi[u].assl \in res.assl
                      /\ hi[u].base # NoConn => hi[u].base \in res.base
    BY DEF Conns, HeldIsOpen, Fields
<1>5. Pooled \subseteq res.sock /\ Pooled \subseteq res.base
    BY DEF Conns, HeldIsOpen
<1>6. \A c \in res.sock \cup res.assl :
                 \/ c \in res.reused \/ c \in Pooled \/ c \in Killed
                 \/ \E u \in Task : c = hi[u].base
    <2> SUFFICES ASSUME NEW c \in res.sock \cup res.assl, c \notin res.reused,
                        c \notin Pooled, c \notin Killed
                 PROVE  \E u \in Task : c = hi[u].base
        OBVIOUS
    <2>1. c \in Owned
        BY DEF Conns, OnlyReusedLeak
    <2>2. PICK u \in Task : c \in {hi[u].sock, hi[u].assl, hi[u].base}
        BY <2>1, OwnedIs
    <2>3. c # NoConn
        BY <1>1
    <2> QED
        BY <1>2, <2>2, <2>3
<1> QED
    BY <1>1, <1>2, <1>3, <1>4, <1>5, <1>6, PoolType

LEMMA ConnsNext ==
    ASSUME \A u \in Task : /\ hi'[u].sock # NoConn => hi'[u].sock = hi'[u].base
                           /\ hi'[u].assl # NoConn => hi'[u].assl = hi'[u].base
                           /\ hi'[u].base # NoConn /\ hi'[u].base \in res'.sock => hi'[u].sock = hi'[u].base
                           /\ hi'[u].base # NoConn /\ hi'[u].base \in res'.assl => hi'[u].assl = hi'[u].base
                           /\ hi'[u].reused => hi'[u].sock \in res'.reused
                           /\ hi'[u].base \notin Pooled' \cup Killed'
                           /\ hi'[u].sock # NoConn => hi'[u].sock \in res'.sock
                           /\ hi'[u].assl # NoConn => hi'[u].assl \in res'.assl
                           /\ hi'[u].base # NoConn => hi'[u].base \in res'.base,
           \A u, v \in Task : hi'[u].base # NoConn /\ hi'[u].base = hi'[v].base => u = v,
           Pooled' \cap Killed' = {},
           Pooled' \subseteq res'.sock, Pooled' \subseteq res'.base,
           \A c \in res'.sock \cup res'.assl :
                 \/ c \in res'.reused \/ c \in Pooled' \/ c \in Killed'
                 \/ \E u \in Task : c = hi'[u].base,
           Distinct',
           \A a, b \in Processes : a # b => kill'[a] \cap kill'[b] = {}
    PROVE  Conns'
<1>1. OneConnection'
    BY DEF OneConnection
<1>2. Exclusive'
    BY DEF Exclusive
<1>3. HeldIsOpen'
    BY DEF HeldIsOpen, Fields
<1>4. OnlyReusedLeak'
    BY DEF OnlyReusedLeak, Owned, Fields
<1> QED
    BY <1>1, <1>2, <1>3, <1>4 DEF Conns

LEMMA ReleasesConns ==
    ASSUME TypeOK, Conns, NEW t \in Task, Releases(t), Shifted
    PROVE  Conns'
<1>1. \A u \in Task : u # t => hi'[u] = hi[u]
    BY DEF Releases, Moves
<1>2. /\ \/ hi'[t].sock = hi[t].sock /\ res'.sock = res.sock
         \/ hi'[t].sock = NoConn /\ res'.sock = res.sock \ {hi[t].sock}
      /\ \/ hi'[t].assl = hi[t].assl /\ res'.assl = res.assl
         \/ hi'[t].assl = NoConn /\ res'.assl = res.assl \ {hi[t].assl}
      /\ \/ res'.base = res.base
         \/ res'.base = res.base \ {hi[t].base} /\ hi'[t].base = NoConn
      /\ \/ hi'[t].base = hi[t].base
         \/ hi'[t].base = NoConn /\ hi'[t].sock = NoConn /\ hi'[t].assl = NoConn
      /\ res.reused \ {hi[t].base} \subseteq res'.reused
      /\ ~ hi'[t].reused
    BY DEF Releases
<1> QED
    BY <1>1, <1>2, ConnsFacts, ConnsNext DEF Shifted

-----------------------------------------------------------------------------
(* Records *)

LEMMA GoesIs ==
    ASSUME TypeOK, NEW t \in Task, NEW at \in Places, NEW rec \in HttpinfoRecord,
           Goes(t, at, rec)
    PROVE  /\ hi' \in [Task -> HttpinfoRecord]
           /\ \A u \in Task : u # t => hi'[u] = hi[u]
           /\ hi'[t] = [rec EXCEPT !.at = at]
           /\ hi'[t].at = at /\ hi'[t].host = rec.host
           /\ hi'[t].sock = rec.sock /\ hi'[t].assl = rec.assl /\ hi'[t].base = rec.base
           /\ hi'[t].reused = rec.reused /\ hi'[t].keep = rec.keep
           /\ hi'[t].status = rec.status /\ hi'[t].auth = rec.auth
           /\ hi'[t].retried = rec.retried /\ hi'[t].error = rec.error
<1>1. [rec EXCEPT !.at = at] \in HttpinfoRecord
    BY DEF HttpinfoRecord
<1>2. hi' = [hi EXCEPT ![t] = [rec EXCEPT !.at = at]] /\ hi \in [Task -> HttpinfoRecord]
    BY DEF Goes, TypeOK
<1>3. hi' \in [Task -> HttpinfoRecord] /\ hi'[t] = [rec EXCEPT !.at = at]
      /\ \A u \in Task : u # t => hi'[u] = hi[u]
    BY <1>1, <1>2
<1> QED
    BY <1>3 DEF HttpinfoRecord

LEMMA WithoutIs ==
    ASSUME NEW rec \in HttpinfoRecord, NEW fs \in SUBSET Fields
    PROVE  /\ Without(rec, fs) \in HttpinfoRecord
           /\ Without(rec, fs).at = rec.at /\ Without(rec, fs).host = rec.host
           /\ Without(rec, fs).sock = IF "sock" \in fs THEN NoConn ELSE rec.sock
           /\ Without(rec, fs).assl = IF "assl" \in fs THEN NoConn ELSE rec.assl
           /\ Without(rec, fs).base = IF "base" \in fs THEN NoConn ELSE rec.base
           /\ Without(rec, fs).reused = rec.reused /\ Without(rec, fs).keep = rec.keep
           /\ Without(rec, fs).status = rec.status /\ Without(rec, fs).auth = rec.auth
           /\ Without(rec, fs).retried = rec.retried /\ Without(rec, fs).error = rec.error
    BY DEF HttpinfoRecord, Without, Fields

LEMMA ClosesIs ==
    ASSUME TypeOK, NEW t \in Task, NEW fs \in SUBSET Fields
    PROVE  /\ Closes(t, fs) \in [Fields \cup {"answered", "reused"} -> SUBSET Conn]
           /\ Closes(t, fs).sock = IF "sock" \in fs THEN res.sock \ {hi[t].sock} ELSE res.sock
           /\ Closes(t, fs).assl = IF "assl" \in fs THEN res.assl \ {hi[t].assl} ELSE res.assl
           /\ Closes(t, fs).base = IF "base" \in fs THEN res.base \ {hi[t].base} ELSE res.base
           /\ Closes(t, fs).reused = IF "sock" \in fs THEN res.reused \ {hi[t].sock} ELSE res.reused
           /\ fs = {} => Closes(t, fs) = res
    BY DEF TypeOK, Closes, Fields

LEMMA ClosedIs ==
    ASSUME TypeOK, NEW C, NEW fs \in SUBSET Fields
    PROVE  /\ Closed(C, fs) \in [Fields \cup {"answered", "reused"} -> SUBSET Conn]
           /\ Closed(C, fs).sock = IF "sock" \in fs THEN res.sock \ C ELSE res.sock
           /\ Closed(C, fs).assl = IF "assl" \in fs THEN res.assl \ C ELSE res.assl
           /\ Closed(C, fs).base = IF "base" \in fs THEN res.base \ C ELSE res.base
           /\ Closed(C, fs).reused = res.reused \ C
    BY DEF TypeOK, Closed, Fields

\* What most steps do: the transfer closes what it has of the kinds fs and forgets it.
LEMMA LetsGo ==
    ASSUME TypeOK, OneConnection, NEW t \in Task, NEW at \in Places,
           NEW rec \in HttpinfoRecord, NEW fs \in SUBSET Fields,
           Goes(t, at, rec), res' = Closes(t, fs), ~ rec.reused,
           rec.sock = IF "sock" \in fs THEN NoConn ELSE hi[t].sock,
           rec.assl = IF "assl" \in fs THEN NoConn ELSE hi[t].assl,
           rec.base = IF "base" \in fs THEN NoConn ELSE hi[t].base,
           "base" \in fs => rec.sock = NoConn /\ rec.assl = NoConn
    PROVE  Releases(t) /\ hi'[t] = [rec EXCEPT !.at = at]
<1>1. Moves(t)
    BY GoesIs, ClosesIs DEF Moves
<1>2. hi'[t] = [rec EXCEPT !.at = at]
    BY GoesIs
<1>3. /\ hi'[t].sock = rec.sock /\ hi'[t].assl = rec.assl /\ hi'[t].base = rec.base
      /\ hi'[t].reused = rec.reused
    BY <1>2 DEF HttpinfoRecord
<1>4. /\ res'.sock = IF "sock" \in fs THEN res.sock \ {hi[t].sock} ELSE res.sock
      /\ res'.assl = IF "assl" \in fs THEN res.assl \ {hi[t].assl} ELSE res.assl
      /\ res'.base = IF "base" \in fs THEN res.base \ {hi[t].base} ELSE res.base
      /\ res'.reused = IF "sock" \in fs THEN res.reused \ {hi[t].sock} ELSE res.reused
    BY ClosesIs
<1>5. res.reused \ {hi[t].base} \subseteq res'.reused
    BY <1>4, ConnTypes DEF OneConnection
<1>6. ~ hi'[t].reused
    BY <1>3, Zenon
<1> QED
    BY <1>1, <1>2, <1>3, <1>4, <1>5, <1>6 DEF Releases

-----------------------------------------------------------------------------
(* The steps of a transfer *)

\* A step that leads the transfer t on, or to its end.
Onward(t) == hi'[t].at = "idle" \/ Lower(hi'[t], hi[t])

LEMMA LookupfailsGoes ==
    ASSUME TypeOK, PlaceInv, OneConnection, NEW t \in Task, Lookupfails(t)
    PROVE  Releases(t) /\ PlaceOf(t)' /\ Onward(t)
<1> DEFINE rec == [hi[t] EXCEPT !.settled = TRUE]
<1>1. hi[t] \in HttpinfoRecord /\ hi[t].at = "dial" /\ PlaceOf(t)
    BY DEF TypeOK, PlaceInv, Lookupfails, At
<1>2. Goes(t, "finish", rec) /\ res' = Closes(t, {})
    BY ClosesIs DEF Lookupfails
<1>3. /\ rec \in HttpinfoRecord /\ ~ rec.reused /\ rec.auth = hi[t].auth
      /\ rec.sock = hi[t].sock /\ rec.assl = hi[t].assl /\ rec.base = hi[t].base
      /\ rec.status = hi[t].status /\ rec.retried = hi[t].retried
    BY <1>1 DEF HttpinfoRecord, PlaceOf
<1> HIDE DEF rec
<1>4. Releases(t) /\ hi'[t] = [rec EXCEPT !.at = "finish"]
    BY <1>2, <1>3, LetsGo DEF Places
<1>5. PlaceOf(t)' /\ Onward(t)
    BY <1>1, <1>3, <1>4 DEF HttpinfoRecord, PlaceOf, Onward, Lower, Place, Codes
<1> QED
    BY <1>4, <1>5

LEMMA BreaksGoes ==
    ASSUME TypeOK, PlaceInv, OneConnection, NEW t \in Task,
           hi[t].at \in {"connect", "send"},
           NEW fs \in {{"sock"}, {"sock", "assl"}}, Breaks(t, fs)
    PROVE  Releases(t) /\ PlaceOf(t)' /\ Onward(t)
<1> DEFINE rec == [Without(hi[t], fs) EXCEPT !.error = TRUE, !.settled = TRUE]
<1>1. hi[t] \in HttpinfoRecord /\ PlaceOf(t) /\ fs \in SUBSET Fields
    BY DEF TypeOK, PlaceInv, Fields
<1>2. Goes(t, "clean", rec) /\ res' = Closes(t, fs)
    BY DEF Breaks
<1>3. /\ rec \in HttpinfoRecord /\ ~ rec.reused /\ rec.auth = hi[t].auth
      /\ rec.sock = IF "sock" \in fs THEN NoConn ELSE hi[t].sock
      /\ rec.assl = IF "assl" \in fs THEN NoConn ELSE hi[t].assl
      /\ rec.base = IF "base" \in fs THEN NoConn ELSE hi[t].base
      /\ rec.status = hi[t].status /\ rec.retried = hi[t].retried
    BY <1>1 DEF HttpinfoRecord, PlaceOf, Without, Fields
<1> HIDE DEF rec
<1>4. Releases(t) /\ hi'[t] = [rec EXCEPT !.at = "clean"]
    BY <1>1, <1>2, <1>3, LetsGo DEF Places
<1>5. PlaceOf(t)' /\ Onward(t)
    BY <1>1, <1>3, <1>4 DEF HttpinfoRecord, PlaceOf, Onward, Lower, Place, Codes
<1> QED
    BY <1>4, <1>5

LEMMA RetriesGoes ==
    ASSUME TypeOK, PlaceInv, OneConnection, NEW t \in Task,
           hi[t].at \in {"connect", "body"}, Retries(t, hi[t])
    PROVE  Releases(t) /\ PlaceOf(t)' /\ Onward(t)
<1> DEFINE fs == {"sock", "assl"}
           rec == [Without(hi[t], fs) EXCEPT !.retried = TRUE]
<1>1. hi[t] \in HttpinfoRecord /\ PlaceOf(t) /\ fs \in SUBSET Fields
    BY DEF TypeOK, PlaceInv, Fields
<1>2. Goes(t, "open", rec) /\ res' = Closes(t, fs) /\ ~ hi[t].retried
    BY DEF Retries, RetryCloses
<1>3. /\ rec \in HttpinfoRecord /\ ~ rec.reused /\ rec.auth = hi[t].auth
      /\ rec.sock = NoConn /\ rec.assl = NoConn /\ rec.base = hi[t].base
      /\ rec.status = hi[t].status /\ rec.retried
    BY <1>1 DEF HttpinfoRecord, PlaceOf, Without, Fields
<1> HIDE DEF rec
<1>4. Releases(t) /\ hi'[t] = [rec EXCEPT !.at = "open"]
    BY <1>1, <1>2, <1>3, LetsGo DEF Places
<1>5. PlaceOf(t)' /\ Onward(t)
    BY <1>1, <1>2, <1>3, <1>4 DEF HttpinfoRecord, PlaceOf, Onward, Lower, Place, Codes
<1> QED
    BY <1>4, <1>5

\* A step that leaves the transfer's connection alone.
LEMMA KeepsGoes ==
    ASSUME TypeOK, OneConnection, NEW t \in Task, NEW at \in Places,
           NEW rec \in HttpinfoRecord, Goes(t, at, rec), UNCHANGED res, ~ rec.reused,
           rec.sock = hi[t].sock, rec.assl = hi[t].assl, rec.base = hi[t].base
    PROVE  Releases(t) /\ hi'[t] = [rec EXCEPT !.at = at]
<1>1. res' = Closes(t, {})
    BY ClosesIs
<1> QED
    BY <1>1, LetsGo

LEMMA ConnectGoes ==
    ASSUME TypeOK, PlaceInv, OneConnection, NEW t \in Task, Connect(t)
    PROVE  Releases(t) /\ PlaceOf(t)' /\ Onward(t)
<1>1. hi[t] \in HttpinfoRecord /\ PlaceOf(t) /\ hi[t].at = "connect"
    BY DEF TypeOK, PlaceInv, Connect, At
<1>2. CASE Goes(t, "send", hi[t]) /\ UNCHANGED res
    <2>1. ~ hi[t].reused
        BY <1>1 DEF PlaceOf
    <2>2. Releases(t) /\ hi'[t] = [hi[t] EXCEPT !.at = "send"]
        BY <1>1, <1>2, <2>1, KeepsGoes DEF Places
    <2> QED
        BY <1>1, <2>2 DEF HttpinfoRecord, PlaceOf, Onward, Lower, Place, Codes
<1>3. CASE Breaks(t, {"sock", "assl"})
    BY <1>1, <1>3, BreaksGoes
<1>4. CASE Retries(t, hi[t])
    BY <1>1, <1>4, RetriesGoes
<1>5. ASSUME NEW fs \in {{}, {"assl"}, {"sock", "assl"}}, res' = Closes(t, fs),
             Goes(t, "clean", [Without(hi[t], fs) EXCEPT !.settled = TRUE])
      PROVE  Releases(t) /\ PlaceOf(t)' /\ Onward(t)
    <2> DEFINE rec == [Without(hi[t], fs) EXCEPT !.settled = TRUE]
    <2>1. fs \in SUBSET Fields /\ "base" \notin fs
        BY DEF Fields
    <2>2. /\ rec \in HttpinfoRecord /\ ~ rec.reused /\ rec.auth = hi[t].auth
          /\ rec.sock = IF "sock" \in fs THEN NoConn ELSE hi[t].sock
          /\ rec.assl = IF "assl" \in fs THEN NoConn ELSE hi[t].assl
          /\ rec.base = IF "base" \in fs THEN NoConn ELSE hi[t].base
          /\ rec.status = hi[t].status /\ rec.retried = hi[t].retried
        BY <1>1, <2>1 DEF HttpinfoRecord, PlaceOf, Without, Fields
    <2>3. Goes(t, "clean", rec)
        BY <1>5
    <2> HIDE DEF rec
    <2>4. Releases(t) /\ hi'[t] = [rec EXCEPT !.at = "clean"]
        BY <1>5, <2>1, <2>2, <2>3, LetsGo DEF Places
    <2>5. PlaceOf(t)' /\ Onward(t)
        BY <1>1, <2>2, <2>4 DEF HttpinfoRecord, PlaceOf, Onward, Lower, Place, Codes
    <2> QED
        BY <2>4, <2>5
<1> QED
    BY <1>2, <1>3, <1>4, <1>5 DEF Connect

LEMMA SendfailsGoes ==
    ASSUME TypeOK, PlaceInv, OneConnection, NEW t \in Task, Sendfails(t)
    PROVE  Releases(t) /\ PlaceOf(t)' /\ Onward(t)
<1> DEFINE rec == [hi[t] EXCEPT !.error = TRUE, !.settled = TRUE]
<1>1. hi[t] \in HttpinfoRecord /\ hi[t].at = "send" /\ PlaceOf(t)
    BY DEF TypeOK, PlaceInv, Sendfails, At
<1>2. Goes(t, "clean", rec) /\ UNCHANGED res
    BY DEF Sendfails
<1>3. /\ rec \in HttpinfoRecord /\ ~ rec.reused /\ rec.auth = hi[t].auth
      /\ rec.sock = hi[t].sock /\ rec.assl = hi[t].assl /\ rec.base = hi[t].base
      /\ rec.status = hi[t].status /\ rec.retried = hi[t].retried
    BY <1>1 DEF HttpinfoRecord, PlaceOf
<1> HIDE DEF rec
<1>4. Releases(t) /\ hi'[t] = [rec EXCEPT !.at = "clean"]
    BY <1>2, <1>3, KeepsGoes DEF Places
<1>5. PlaceOf(t)' /\ Onward(t)
    BY <1>1, <1>3, <1>4 DEF HttpinfoRecord, PlaceOf, Onward, Lower, Place, Codes
<1> QED
    BY <1>4, <1>5

LEMMA ClosesslGoes ==
    ASSUME TypeOK, PlaceInv, OneConnection, NEW t \in Task, Closessl(t)
    PROVE  Releases(t) /\ PlaceOf(t)' /\ Onward(t)
<1> DEFINE fs == {"sock"}
           rec == [Without(hi[t], fs) EXCEPT !.reused = FALSE]
<1>1. hi[t] \in HttpinfoRecord /\ hi[t].at = "clean" /\ PlaceOf(t) /\ fs \in SUBSET Fields
    BY DEF TypeOK, PlaceInv, Closessl, At, Fields
<1>2. Goes(t, "finish", rec) /\ res' = Closes(t, fs)
    BY DEF Closessl
<1>3. /\ rec \in HttpinfoRecord /\ ~ rec.reused /\ rec.auth = hi[t].auth
      /\ rec.sock = NoConn /\ rec.assl = hi[t].assl /\ rec.base = hi[t].base
      /\ rec.status = hi[t].status /\ rec.retried = hi[t].retried
    BY <1>1 DEF HttpinfoRecord, PlaceOf, Without, Fields
<1> HIDE DEF rec
<1>4. Releases(t) /\ hi'[t] = [rec EXCEPT !.at = "finish"]
    BY <1>1, <1>2, <1>3, LetsGo DEF Places
<1>5. PlaceOf(t)' /\ Onward(t)
    BY <1>1, <1>3, <1>4 DEF HttpinfoRecord, PlaceOf, Onward, Lower, Place, Codes
<1> QED
    BY <1>4, <1>5

\* A step that changes what has happened to connections, but not what is open.
LEMMA StaysGoes ==
    ASSUME TypeOK, NEW t \in Task, NEW at \in Places, NEW rec \in HttpinfoRecord,
           Goes(t, at, rec), ~ rec.reused,
           res' \in [Fields \cup {"answered", "reused"} -> SUBSET Conn],
           res'.sock = res.sock, res'.base = res.base, res.reused \subseteq res'.reused,
           \/ rec.assl = hi[t].assl /\ res'.assl = res.assl
           \/ rec.assl = NoConn /\ res'.assl = res.assl \ {hi[t].assl},
           \/ rec.sock = hi[t].sock
           \/ rec.sock = NoConn /\ hi[t].sock \notin res.sock,
           \/ rec.base = hi[t].base
           \/ rec.base = NoConn /\ rec.sock = NoConn /\ rec.assl = NoConn
    PROVE  Releases(t) /\ hi'[t] = [rec EXCEPT !.at = at]
<1>1. Moves(t)
    BY GoesIs DEF Moves
<1>2. hi'[t] = [rec EXCEPT !.at = at]
    BY GoesIs
<1>3. /\ hi'[t].sock = rec.sock /\ hi'[t].assl = rec.assl /\ hi'[t].base = rec.base
      /\ hi'[t].reused = rec.reused
    BY <1>2 DEF HttpinfoRecord
<1>4. ~ hi'[t].reused
    BY <1>3, Zenon
<1>5. \/ hi'[t].sock = hi[t].sock /\ res'.sock = res.sock
      \/ hi'[t].sock = NoConn /\ res'.sock = res.sock \ {hi[t].sock}
    BY <1>3
<1> QED
    BY <1>1, <1>2, <1>3, <1>4, <1>5 DEF Releases

LEMMA HttpresponseGoes ==
    ASSUME TypeOK, PlaceInv, OneConnection, NEW t \in Task, Httpresponse(t)
    PROVE  Releases(t) /\ PlaceOf(t)' /\ Onward(t)
<1>1. /\ hi[t] \in HttpinfoRecord /\ hi[t].at = "send" /\ hi[t].sock # NoConn
      /\ PlaceOf(t) /\ hi[t].sock \in Conn
    BY ConnTypes DEF TypeOK, PlaceInv, Httpresponse, At
<1>2. CASE NoHeader(t)
    <2>1. Goes(t, "body", Sent(t)) /\ UNCHANGED res
        BY <1>2 DEF NoHeader
    <2>2. /\ Sent(t) \in HttpinfoRecord /\ ~ Sent(t).reused /\ Sent(t).auth = hi[t].auth
          /\ Sent(t).sock = hi[t].sock /\ Sent(t).assl = hi[t].assl /\ Sent(t).base = hi[t].base
          /\ Sent(t).status = hi[t].status /\ Sent(t).retried = hi[t].retried
        BY <1>1 DEF HttpinfoRecord, PlaceOf, Sent
    <2>3. Releases(t) /\ hi'[t] = [Sent(t) EXCEPT !.at = "body"]
        BY <2>1, <2>2, KeepsGoes DEF Places
    <2>4. PlaceOf(t)' /\ Onward(t)
        BY <1>1, <2>2, <2>3 DEF HttpinfoRecord, PlaceOf, Onward, Lower, Place, Codes
    <2> QED
        BY <2>3, <2>4
<1>3. CASE Header(t)
    <2>1. /\ res' \in [Fields \cup {"answered", "reused"} -> SUBSET Conn]
          /\ res'.sock = res.sock /\ res'.base = res.base /\ res'.assl = res.assl
          /\ res'.reused = res.reused
        BY <1>1, <1>3 DEF Header, TypeOK, Fields
    <2>2. PICK keep \in BOOLEAN, at \in {"body", "clean"}, status \in {0} \cup Codes :
              /\ Goes(t, at, [Sent(t) EXCEPT !.keep = keep, !.status = status])
              /\ status # 0 => at = "clean" /\ status \notin hi[t].auth
        <3>1. PICK keep \in BOOLEAN :
                 \/ \E at \in {"body", "clean"} : Goes(t, at, [Sent(t) EXCEPT !.keep = keep])
                 \/ \E code \in Codes : /\ Asked(t, code)
                        /\ Goes(t, "clean", [[Sent(t) EXCEPT !.keep = keep] EXCEPT !.status = code])
            BY <1>3 DEF Header
        <3>2. [Sent(t) EXCEPT !.keep = keep] = [Sent(t) EXCEPT !.keep = keep, !.status = 0]
            BY <1>1 DEF Sent, HttpinfoRecord, PlaceOf
        <3>3. \A code \in Codes : [[Sent(t) EXCEPT !.keep = keep] EXCEPT !.status = code]
                                    = [Sent(t) EXCEPT !.keep = keep, !.status = code]
            BY <1>1 DEF Sent, HttpinfoRecord
        <3>4. CASE \E at \in {"body", "clean"} : Goes(t, at, [Sent(t) EXCEPT !.keep = keep])
            <4>1. PICK at \in {"body", "clean"} :
                        Goes(t, at, [Sent(t) EXCEPT !.keep = keep, !.status = 0])
                BY <3>2, <3>4
            <4> QED
                BY <4>1
        <3>5. ASSUME NEW code \in Codes, Asked(t, code),
                     Goes(t, "clean", [[Sent(t) EXCEPT !.keep = keep] EXCEPT !.status = code])
              PROVE  /\ Goes(t, "clean", [Sent(t) EXCEPT !.keep = keep, !.status = code])
                     /\ code \notin hi[t].auth
            BY <3>3, <3>5 DEF Asked
        <3> QED
            BY <3>1, <3>4, <3>5, Zenon
    <2> DEFINE rec == [Sent(t) EXCEPT !.keep = keep, !.status = status]
    <2>3. /\ rec \in HttpinfoRecord /\ ~ rec.reused /\ rec.auth = hi[t].auth
          /\ rec.sock = hi[t].sock /\ rec.assl = hi[t].assl /\ rec.base = hi[t].base
          /\ rec.status = status /\ rec.retried = hi[t].retried
        BY <1>1 DEF HttpinfoRecord, PlaceOf, Sent
    <2> HIDE DEF rec
    <2>4. Goes(t, at, rec) /\ at \in Places
        BY <2>2 DEF rec, Places
    <2>5. Releases(t) /\ hi'[t] = [rec EXCEPT !.at = at]
        BY <2>1, <2>3, <2>4, StaysGoes
    <2>6. PlaceOf(t)' /\ Onward(t)
        BY <1>1, <2>2, <2>3, <2>5 DEF HttpinfoRecord, PlaceOf, Onward, Lower, Place, Codes
    <2> QED
        BY <2>5, <2>6
<1>4. CASE Breaks(t, {"sock"})
    BY <1>1, <1>4, BreaksGoes
<1> QED
    BY <1>2, <1>3, <1>4 DEF Httpresponse

LEMMA ReaddataGoes ==
    ASSUME TypeOK, PlaceInv, OneConnection, NEW t \in Task,
           Readdata(t) \/ ReaddataIncomplete(t)
    PROVE  Releases(t) /\ PlaceOf(t)' /\ Onward(t)
<1>1. hi[t] \in HttpinfoRecord /\ hi[t].at = "body" /\ PlaceOf(t)
    BY DEF TypeOK, PlaceInv, Readdata, ReaddataIncomplete, At
<1>2. /\ Without(hi[t], Fields) \in HttpinfoRecord /\ ~ Without(hi[t], Fields).reused
      /\ Without(hi[t], Fields).sock = NoConn /\ Without(hi[t], Fields).assl = NoConn
      /\ Without(hi[t], Fields).base = NoConn /\ Without(hi[t], Fields).auth = hi[t].auth
      /\ Without(hi[t], Fields).status = hi[t].status
      /\ Without(hi[t], Fields).retried = hi[t].retried
    BY <1>1 DEF HttpinfoRecord, PlaceOf, Without, Fields
<1>3. "sock" \in Fields /\ "assl" \in Fields /\ "base" \in Fields
    BY DEF Fields
<1>4. CASE Goes(t, "clean", hi[t]) /\ UNCHANGED res
    <2>1. ~ hi[t].reused
        BY <1>1 DEF PlaceOf
    <2>2. Releases(t) /\ hi'[t] = [hi[t] EXCEPT !.at = "clean"]
        BY <1>1, <1>4, <2>1, KeepsGoes DEF Places
    <2> QED
        BY <1>1, <2>2 DEF HttpinfoRecord, PlaceOf, Onward, Lower, Place, Codes
<1>5. CASE Goes(t, "clean", Without(hi[t], Fields)) /\ res' = Closes(t, Fields)
    <2>1. Releases(t) /\ hi'[t] = [Without(hi[t], Fields) EXCEPT !.at = "clean"]
        BY <1>2, <1>3, <1>5, LetsGo DEF Places
    <2>2. PlaceOf(t)' /\ Onward(t)
        BY <1>1, <1>2, <2>1 DEF HttpinfoRecord, PlaceOf, Onward, Lower, Place, Codes
    <2> QED
        BY <2>1, <2>2
<1>6. CASE Retries(t, hi[t])
    BY <1>1, <1>6, RetriesGoes
<1>7. ASSUME ~ hi[t].retried, res' = Closes(t, Fields),
             Goes(t, "open", [Without(hi[t], Fields) EXCEPT !.retried = TRUE])
      PROVE  Releases(t) /\ PlaceOf(t)' /\ Onward(t)
    <2> DEFINE rec == [Without(hi[t], Fields) EXCEPT !.retried = TRUE]
    <2>1. /\ rec \in HttpinfoRecord /\ ~ rec.reused /\ rec.auth = hi[t].auth
          /\ rec.sock = NoConn /\ rec.assl = NoConn /\ rec.base = NoConn
          /\ rec.status = hi[t].status /\ rec.retried
        BY <1>2 DEF HttpinfoRecord
    <2>2. Goes(t, "open", rec)
        BY <1>7
    <2> HIDE DEF rec
    <2>3. Releases(t) /\ hi'[t] = [rec EXCEPT !.at = "open"]
        BY <1>3, <1>7, <2>1, <2>2, LetsGo DEF Places
    <2>4. PlaceOf(t)' /\ Onward(t)
        BY <1>1, <1>7, <2>1, <2>3 DEF HttpinfoRecord, PlaceOf, Onward, Lower, Place, Codes
    <2> QED
        BY <2>3, <2>4
<1> QED
    BY <1>4, <1>5, <1>6, <1>7 DEF Readdata, ReaddataIncomplete

LEMMA IdleIs ==
    /\ Idle \in HttpinfoRecord /\ ~ Idle.reused /\ Idle.at = "idle"
    /\ Idle.sock = NoConn /\ Idle.assl = NoConn /\ Idle.base = NoConn
    /\ \A host \in Host : /\ Httpinfo("top", host) \in HttpinfoRecord
                          /\ Httpinfo("top", host).auth = {}
                          /\ ~ Httpinfo("top", host).reused
                          /\ Httpinfo("top", host).sock = NoConn
                          /\ Httpinfo("top", host).assl = NoConn
                          /\ Httpinfo("top", host).base = NoConn
    BY HttpAssumption DEF HttpAssumption, Idle, Httpinfo, HttpinfoRecord, Places, Codes

LEMMA StartsGoes ==
    ASSUME TypeOK, PlaceInv, OneConnection, NEW t \in Task, Starts(t)
    PROVE  Releases(t) /\ PlaceOf(t)'
<1>1. hi[t] \in HttpinfoRecord /\ hi[t].at = "idle" /\ PlaceOf(t)
    BY DEF TypeOK, PlaceInv, Starts, At
<1>2. PICK host \in Host : Goes(t, "top", Httpinfo("top", host))
    BY DEF Starts
<1>3. hi[t].sock = NoConn /\ hi[t].assl = NoConn /\ hi[t].base = NoConn
    BY <1>1 DEF PlaceOf, Fields
<1>4. UNCHANGED res
    BY DEF Starts
<1>5. Releases(t) /\ hi'[t] = [Httpinfo("top", host) EXCEPT !.at = "top"]
    BY <1>2, <1>3, <1>4, IdleIs, KeepsGoes DEF Places
<1>6. PlaceOf(t)'
    BY <1>5, IdleIs DEF HttpinfoRecord, PlaceOf, Fields
<1> QED
    BY <1>5, <1>6

LEMMA EndedIs ==
    ASSUME TypeOK, NEW t \in Task, Ended(t)
    PROVE  /\ hi' \in [Task -> HttpinfoRecord] /\ hi'[t] = Idle
           /\ \A u \in Task : u # t => hi'[u] = hi[u]
           /\ PlaceOf(t)' /\ Onward(t)
<1>1. [Idle EXCEPT !.at = "idle"] = Idle
    BY IdleIs DEF HttpinfoRecord
<1>2. hi' \in [Task -> HttpinfoRecord] /\ hi'[t] = Idle
      /\ \A u \in Task : u # t => hi'[u] = hi[u]
    BY <1>1, IdleIs DEF TypeOK, Ended, Goes
<1> QED
    BY <1>2, IdleIs DEF PlaceOf, Onward, Fields

\* The end of a transfer that has a connection out of the pool: it forgets it.
Abandons(t) == hi[t].reused /\ Ended(t) /\ UNCHANGED res

LEMMA CleanupGoes ==
    ASSUME TypeOK, PlaceInv, OneConnection, NEW t \in Task, Cleanup(t)
    PROVE  /\ Releases(t) \/ Abandons(t)
           /\ PlaceOf(t)' /\ Onward(t)
<1>1. hi[t] \in HttpinfoRecord /\ hi[t].at = "finish" /\ PlaceOf(t)
    BY DEF TypeOK, PlaceInv, Cleanup, At
<1>2. CASE hi[t].reused
    <2>1. hi[t].status \notin Codes
        BY <1>1, <1>2 DEF PlaceOf, Codes
    <2>2. Ended(t) /\ res' = Closes(t, {})
        BY <1>2, <2>1 DEF Cleanup, LeftInUse
    <2>3. UNCHANGED res
        BY <2>2, ClosesIs
    <2> QED
        BY <1>2, <2>2, <2>3, EndedIs DEF Abandons
<1>3. CASE ~ hi[t].reused
    <2> DEFINE fs == {"assl", "base"}
               rec == [Without(hi[t], fs) EXCEPT !.auth = @ \cup {hi[t].status}]
    <2>1. fs \in SUBSET Fields /\ hi[t].sock = NoConn
        BY <1>1, <1>3 DEF Fields, PlaceOf
    <2>2. res' = Closes(t, fs)
        BY <1>3 DEF Cleanup, LeftInUse
    <2>3. CASE Ended(t)
        <3>1. Goes(t, "idle", Idle)
            BY <2>3 DEF Ended
        <3>2. /\ Idle \in HttpinfoRecord /\ ~ Idle.reused /\ Idle.sock = hi[t].sock
              /\ Idle.sock = NoConn /\ Idle.assl = NoConn /\ Idle.base = NoConn
            BY <2>1, IdleIs
        <3>3. Releases(t)
            BY <3>1, <3>2, <2>1, <2>2, LetsGo DEF Places
        <3> QED
            BY <2>3, <3>3, EndedIs
    <2>4. CASE hi[t].status \in Codes /\ Goes(t, "top", rec)
        <3>1. /\ rec \in HttpinfoRecord /\ ~ rec.reused
              /\ rec.auth = hi[t].auth \cup {hi[t].status}
              /\ rec.sock = NoConn /\ rec.assl = NoConn /\ rec.base = NoConn
            BY <1>1, <1>3, <2>1, <2>4 DEF HttpinfoRecord, Without, Fields
        <3> HIDE DEF rec
        <3>2. Releases(t) /\ hi'[t] = [rec EXCEPT !.at = "top"]
            BY <2>1, <2>2, <2>4, <3>1, LetsGo DEF Places
        <3>3. PlaceOf(t)'
            BY <3>1, <3>2 DEF HttpinfoRecord, PlaceOf, Fields
        <3>4. hi'[t].auth = hi[t].auth \cup {hi[t].status} /\ hi[t].status \notin hi[t].auth
            BY <1>1, <3>1, <3>2 DEF HttpinfoRecord, PlaceOf
        <3>5. Onward(t)
            BY <3>4 DEF Onward, Lower
        <3> QED
            BY <3>2, <3>3, <3>5
    <2> QED
        BY <1>3, <2>3, <2>4 DEF Cleanup, LeftInUse
<1> QED
    BY <1>2, <1>3

LEMMA TopGoes ==
    ASSUME TypeOK, PlaceInv, OneConnection, NEW t \in Task, Top(t)
    PROVE  Releases(t) /\ PlaceOf(t)' /\ Onward(t)
<1>1. /\ hi[t] \in HttpinfoRecord /\ hi[t].at = "top" /\ PlaceOf(t)
      /\ hi[t].sock = NoConn /\ hi[t].assl = NoConn /\ hi[t].base = NoConn
    BY DEF TypeOK, PlaceInv, Top, At, PlaceOf, Fields
<1>2. CASE TooMany
    <2>1. Ended(t) /\ UNCHANGED res
        BY <1>2 DEF Top
    <2>2. Goes(t, "idle", Idle)
        BY <2>1 DEF Ended
    <2>3. Releases(t)
        BY <1>1, <2>1, <2>2, IdleIs, KeepsGoes DEF Places
    <2> QED
        BY <2>1, <2>3, EndedIs
<1>3. CASE ~ TooMany
    <2> DEFINE rec == [hi[t] EXCEPT
                  !.status = 0, !.assl = NoConn, !.sock = NoConn, !.base = NoConn,
                  !.retried = FALSE, !.error = FALSE, !.settled = FALSE]
    <2>1. Goes(t, "open", rec) /\ res' = Closed({hi[t].assl}, {"assl"})
        BY <1>3 DEF Top
    <2>2. UNCHANGED res
        BY <1>1, <2>1, HttpAssumption DEF HttpAssumption, TypeOK, Closed, Fields
    <2>3. /\ rec \in HttpinfoRecord /\ ~ rec.reused /\ rec.auth = hi[t].auth
          /\ rec.sock = hi[t].sock /\ rec.assl = hi[t].assl /\ rec.base = hi[t].base
          /\ rec.status = 0
        BY <1>1 DEF HttpinfoRecord, PlaceOf
    <2> HIDE DEF rec
    <2>4. Releases(t) /\ hi'[t] = [rec EXCEPT !.at = "open"]
        BY <1>1, <2>1, <2>2, <2>3, KeepsGoes DEF Places
    <2>5. PlaceOf(t)' /\ Onward(t)
        BY <1>1, <2>3, <2>4 DEF HttpinfoRecord, PlaceOf, Onward, Lower, Place, Codes
    <2> QED
        BY <2>4, <2>5
<1> QED
    BY <1>2, <1>3

\* The transfer opens the socket of its connection.
Connects(t) ==
    /\ Moves(t)
    /\ hi[t].base # NoConn /\ hi'[t].base = hi[t].base
    /\ hi'[t].sock = hi[t].base /\ hi'[t].assl = hi[t].assl /\ ~ hi'[t].reused
    /\ res'.sock = res.sock \cup {hi[t].base}
    /\ res'.assl = res.assl /\ res'.base = res.base /\ res'.reused = res.reused

LEMMA OpensocketGoes ==
    ASSUME TypeOK, PlaceInv, OneConnection, NEW t \in Task, Opensocket(t)
    PROVE  /\ Releases(t) \/ Connects(t)
           /\ Frees(t) /\ PlaceOf(t)' /\ Onward(t)
<1>1. /\ hi[t] \in HttpinfoRecord /\ hi[t].at = "dial" /\ PlaceOf(t)
      /\ hi[t].base # NoConn /\ hi[t].base \in Conn /\ ~ hi[t].reused
    BY ConnTypes DEF TypeOK, PlaceInv, Opensocket, At, PlaceOf
<1>2. Expired \in SUBSET DOMAIN pool
    BY DEF Expired
<1>3. Frees(t)
    BY <1>2 DEF Opensocket, Frees, Purges
<1>4. ASSUME res' = [res EXCEPT !.sock = @ \cup {hi[t].base}],
             Goes(t, "connect", [hi[t] EXCEPT !.sock = hi[t].base])
      PROVE  Connects(t) /\ PlaceOf(t)' /\ Onward(t)
    <2> DEFINE rec == [hi[t] EXCEPT !.sock = hi[t].base]
    <2>1. /\ rec \in HttpinfoRecord /\ ~ rec.reused /\ rec.auth = hi[t].auth
          /\ rec.sock = hi[t].base /\ rec.assl = hi[t].assl /\ rec.base = hi[t].base
          /\ rec.status = hi[t].status /\ rec.retried = hi[t].retried
        BY <1>1 DEF HttpinfoRecord
    <2>2. Goes(t, "connect", rec)
        BY <1>4
    <2> HIDE DEF rec
    <2>3. /\ hi' \in [Task -> HttpinfoRecord] /\ \A u \in Task : u # t => hi'[u] = hi[u]
          /\ hi'[t] = [rec EXCEPT !.at = "connect"]
        BY <2>1, <2>2, GoesIs DEF Places
    <2>4. /\ res' \in [Fields \cup {"answered", "reused"} -> SUBSET Conn]
          /\ res'.sock = res.sock \cup {hi[t].base}
          /\ res'.assl = res.assl /\ res'.base = res.base /\ res'.reused = res.reused
        BY <1>1, <1>4 DEF TypeOK, Fields
    <2>5. /\ hi'[t].base = hi[t].base /\ hi'[t].sock = hi[t].base
          /\ hi'[t].assl = hi[t].assl /\ ~ hi'[t].reused
        BY <2>1, <2>3 DEF HttpinfoRecord
    <2>6. PlaceOf(t)' /\ Onward(t)
        BY <1>1, <2>1, <2>3 DEF HttpinfoRecord, PlaceOf, Onward, Lower, Place, Codes
    <2> QED
        BY <1>1, <2>3, <2>4, <2>5, <2>6 DEF Connects, Moves
<1>5. ASSUME res' = Closed({hi[t].assl}, {"assl"}),
             Goes(t, "send", [hi[t] EXCEPT !.assl = NoConn])
      PROVE  Releases(t) /\ PlaceOf(t)' /\ Onward(t)
    <2> DEFINE rec == [hi[t] EXCEPT !.assl = NoConn]
    <2>1. /\ rec \in HttpinfoRecord /\ ~ rec.reused /\ rec.auth = hi[t].auth
          /\ rec.sock = hi[t].sock /\ rec.assl = NoConn /\ rec.base = hi[t].base
          /\ rec.status = hi[t].status /\ rec.retried = hi[t].retried
        BY <1>1 DEF HttpinfoRecord
    <2>2. Goes(t, "send", rec)
        BY <1>5
    <2> HIDE DEF rec
    <2>3. /\ hi' \in [Task -> HttpinfoRecord] /\ \A u \in Task : u # t => hi'[u] = hi[u]
          /\ hi'[t] = [rec EXCEPT !.at = "send"]
        BY <2>1, <2>2, GoesIs DEF Places
    <2>4. {"assl"} \in SUBSET Fields /\ "assl" \in {"assl"}
          /\ "sock" \notin {"assl"} /\ "base" \notin {"assl"}
        BY DEF Fields
    <2>5. /\ res' \in [Fields \cup {"answered", "reused"} -> SUBSET Conn]
          /\ res'.assl = res.assl \ {hi[t].assl} /\ res'.sock = res.sock
          /\ res'.base = res.base /\ res'.reused = res.reused \ {hi[t].assl}
        BY <1>5, <2>4, ClosedIs
    <2>6. /\ hi'[t].base = hi[t].base /\ hi'[t].sock = hi[t].sock
          /\ hi'[t].assl = NoConn /\ ~ hi'[t].reused
        BY <2>1, <2>3 DEF HttpinfoRecord
    <2>7. res.reused \ {hi[t].base} \subseteq res'.reused
        <3>1. NoConn \notin res.reused
            BY ConnTypes
        <3>2. hi[t].assl = NoConn \/ hi[t].assl = hi[t].base
            BY DEF OneConnection
        <3> QED
            BY <2>5, <3>1, <3>2
    <2>8. Releases(t)
        BY <2>3, <2>5, <2>6, <2>7 DEF Releases, Moves
    <2>9. PlaceOf(t)' /\ Onward(t)
        BY <1>1, <2>1, <2>3 DEF HttpinfoRecord, PlaceOf, Onward, Lower, Place, Codes
    <2> QED
        BY <2>8, <2>9
<1> QED
    BY <1>3, <1>4, <1>5 DEF Opensocket

\* The transfer opens the libraries anew, for a connection that nothing is known of.
Opens(t) ==
    \E c \in Unused :
        /\ Moves(t)
        /\ hi[t].sock = NoConn /\ hi[t].assl = NoConn
        /\ hi'[t].base = c /\ hi'[t].sock = NoConn /\ ~ hi'[t].reused
        /\ res'.sock = res.sock /\ res'.base = res.base \cup {c} /\ res'.reused = res.reused
        /\ \/ hi'[t].assl = NoConn /\ res'.assl = res.assl
           \/ hi'[t].assl = c /\ res'.assl = res.assl \cup {c}

\* The transfer gets a connection out of the pool.
Takes(t) ==
    \E c \in Pooled :
        /\ Moves(t)
        /\ hi[t].sock = NoConn /\ hi[t].assl = NoConn
        /\ hi'[t].base = c /\ hi'[t].sock = c /\ hi'[t].reused
        /\ hi'[t].assl = IF c \in res.assl THEN c ELSE NoConn
        /\ res'.sock = res.sock /\ res'.base = res.base /\ res'.assl = res.assl
        /\ res'.reused = res.reused \cup {c}
        /\ pool' \in Seq(Node) /\ kill' \in [Processes -> SUBSET Conn]
        /\ Pooled' \subseteq Pooled \ {c}
        /\ Pooled' \cup Killed' = (Pooled \cup Killed) \ {c}
        /\ Pooled' \cap Killed' = {}
        /\ Distinct'
        /\ \A a, b \in Processes : a # b => kill'[a] \cap kill'[b] = {}

\* The first node for the host that has not expired is one node.
LEMMA FoundIsOne ==
    ASSUME TypeOK, NEW host \in Host, Found(host) # {}
    PROVE  \E i \in DOMAIN pool :
              /\ Found(host) = {i} /\ (CHOOSE j \in Found(host) : TRUE) = i
              /\ pool[i].host = host /\ ~ pool[i].old /\ i \notin Passed(host)
<1>1. DOMAIN pool = 1 .. Len(pool) /\ Len(pool) \in Nat
    BY DEF TypeOK
<1>2. PICK i \in Found(host) : TRUE
    OBVIOUS
<1>3. \A j \in Found(host) : i =< j /\ j =< i /\ j \in DOMAIN pool
    BY <1>2 DEF Found, Matching, Expired
<1>4. Found(host) = {i}
    BY <1>1, <1>2, <1>3
<1>5. i \in DOMAIN pool /\ pool[i].host = host /\ ~ pool[i].old
    BY <1>2 DEF Found, Matching, Expired
<1>6. i \notin Passed(host)
    BY <1>1, <1>5, <1>2 DEF Passed
<1> QED
    BY <1>4, <1>5, <1>6

LEMMA TakesOut ==
    ASSUME TypeOK, Exclusive, NEW t \in Task, NEW host \in Host, Found(host) # {},
           Kills(t, Passed(host)), pool' = Kept(TakenOut(host)),
           NEW c, c = pool[CHOOSE i \in Found(host) : TRUE].conn
    PROVE  /\ c \in Pooled
           /\ pool' \in Seq(Node) /\ kill' \in [Processes -> SUBSET Conn]
           /\ Pooled' \subseteq Pooled \ {c}
           /\ Pooled' \cup Killed' = (Pooled \cup Killed) \ {c}
           /\ Pooled' \cap Killed' = {}
           /\ Distinct'
           /\ \A a, b \in Processes : a # b => kill'[a] \cap kill'[b] = {}
<1>1. PICK i \in DOMAIN pool : /\ Found(host) = {i} /\ (CHOOSE j \in Found(host) : TRUE) = i
                               /\ i \notin Passed(host)
    BY FoundIsOne
<1>2. c = pool[i].conn
    BY <1>1
<1>3. /\ Passed(host) \in SUBSET DOMAIN pool
      /\ TakenOut(host) \in SUBSET DOMAIN pool /\ TakenOut(host) = Passed(host) \cup {i}
    BY <1>1 DEF Passed, TakenOut, Matching
<1>4. /\ kill' \in [Processes -> SUBSET Conn]
      /\ Killed' = Killed \cup ConnsAt(Passed(host))
      /\ \A a, b \in Processes : a # b => kill'[a] \cap kill'[b] = {}
    BY <1>3, KillsConns DEF Processes
<1>5. pool' \in Seq(Node)
    BY <1>3, KeptNodes
<1>6. Distinct
    BY DEF Exclusive
<1>7. Pooled' = Pooled \ ConnsAt(TakenOut(host)) /\ Distinct'
    <2> DEFINE S == TakenOut(host)
    <2>1. /\ {Kept(S)[k].conn : k \in DOMAIN Kept(S)} = Pooled \ ConnsAt(S)
          /\ \A j, k \in DOMAIN Kept(S) : Kept(S)[j].conn = Kept(S)[k].conn => j = k
        BY <1>3, <1>6, KeptConns
    <2>2. Pooled' = {pool'[k].conn : k \in DOMAIN pool'}
        BY DEF Pooled
    <2>3. Distinct' <=> \A j, k \in DOMAIN pool' : pool'[j].conn = pool'[k].conn => j = k
        BY DEF Distinct
    <2> QED
        BY <2>1, <2>2, <2>3
<1>8. ConnsAt(TakenOut(host)) = ConnsAt(Passed(host)) \cup {c}
    BY <1>2, <1>3 DEF ConnsAt
<1>9. c \in Pooled /\ c \notin ConnsAt(Passed(host))
    BY <1>1, <1>2, <1>3, <1>6 DEF Pooled, ConnsAt, Distinct
<1>10. ConnsAt(Passed(host)) \subseteq Pooled /\ Pooled \cap Killed = {}
    BY <1>3, PoolType DEF Exclusive
<1> QED
    BY <1>4, <1>5, <1>7, <1>8, <1>9, <1>10

LEMMA OpensGoes ==
    ASSUME TypeOK, NEW t \in Task, hi[t].at = "open",
           hi[t].sock = NoConn, hi[t].assl = NoConn, hi[t].status = 0,
           NEW c \in Unused, NEW at \in {"finish", "dial"}, NEW rec \in HttpinfoRecord,
           Goes(t, at, rec), ~ rec.reused, rec.sock = NoConn, rec.base = c,
           rec.auth = hi[t].auth, rec.status = hi[t].status, rec.retried = hi[t].retried,
           res' \in [Fields \cup {"answered", "reused"} -> SUBSET Conn],
           res'.sock = res.sock, res'.base = res.base \cup {c}, res'.reused = res.reused,
           \/ rec.assl = NoConn /\ res'.assl = res.assl
           \/ rec.assl = c /\ res'.assl = res.assl \cup {c}
    PROVE  Opens(t) /\ PlaceOf(t)' /\ Onward(t)
<1>1. c # NoConn /\ hi[t] \in HttpinfoRecord
    BY HttpAssumption DEF HttpAssumption, Unused, TypeOK
<1>2. /\ hi' \in [Task -> HttpinfoRecord] /\ \A u \in Task : u # t => hi'[u] = hi[u]
      /\ hi'[t] = [rec EXCEPT !.at = at]
    BY GoesIs DEF Places
<1>3. /\ hi'[t].base = c /\ hi'[t].sock = NoConn /\ ~ hi'[t].reused /\ hi'[t].assl = rec.assl
    BY <1>2 DEF HttpinfoRecord
<1>4. Opens(t)
    BY <1>2, <1>3 DEF Opens, Moves
<1>5. PlaceOf(t)' /\ Onward(t)
    BY <1>1, <1>2 DEF HttpinfoRecord, PlaceOf, Onward, Lower, Place, Codes
<1> QED
    BY <1>4, <1>5

LEMMA OpenlibrariesGoes ==
    ASSUME TypeOK, PlaceInv, OneConnection, Exclusive, NEW t \in Task, Openlibraries(t)
    PROVE  /\ Takes(t) \/ (Frees(t) /\ (Releases(t) \/ Opens(t)))
           /\ PlaceOf(t)' /\ Onward(t)
<1> DEFINE host == hi[t].host
<1>1. /\ hi[t] \in HttpinfoRecord /\ hi[t].at = "open" /\ PlaceOf(t)
      /\ hi[t].sock = NoConn /\ hi[t].assl = NoConn /\ ~ hi[t].reused
      /\ host \in Host /\ hi[t].status = 0
    BY DEF TypeOK, PlaceInv, Openlibraries, At, PlaceOf, HttpinfoRecord
<1>2. CASE Direct(t) /\ Found(host) # {}
    <2> DEFINE c == pool[CHOOSE i \in Found(host) : TRUE].conn
               rec == [hi[t] EXCEPT !.sock = c, !.base = c, !.reused = TRUE,
                                    !.assl = IF c \in res.assl THEN c ELSE NoConn]
    <2>1. Kills(t, Passed(host)) /\ pool' = Kept(TakenOut(host))
        BY <1>2 DEF Openlibraries
    <2>2. Goes(t, "finish", rec) /\ res' = [res EXCEPT !.reused = @ \cup {c}]
        BY <1>2 DEF Openlibraries
    <2> HIDE DEF rec
    <2>3. /\ c \in Pooled
          /\ pool' \in Seq(Node) /\ kill' \in [Processes -> SUBSET Conn]
          /\ Pooled' \subseteq Pooled \ {c}
          /\ Pooled' \cup Killed' = (Pooled \cup Killed) \ {c}
          /\ Pooled' \cap Killed' = {}
          /\ Distinct'
          /\ \A a, b \in Processes : a # b => kill'[a] \cap kill'[b] = {}
        BY <1>1, <1>2, <2>1, TakesOut
    <2> HIDE DEF c
    <2>4. c \in Conn
        BY <2>3, PoolType
    <2>5. /\ rec \in HttpinfoRecord /\ rec.reused = TRUE /\ rec.auth = hi[t].auth
          /\ rec.sock = c /\ rec.base = c /\ rec.assl = IF c \in res.assl THEN c ELSE NoConn
          /\ rec.status = hi[t].status /\ rec.retried = hi[t].retried
        BY <1>1, <2>4 DEF HttpinfoRecord, rec
    <2>6. /\ hi' \in [Task -> HttpinfoRecord] /\ \A u \in Task : u # t => hi'[u] = hi[u]
          /\ hi'[t] = [rec EXCEPT !.at = "finish"]
        BY <2>2, <2>5, GoesIs DEF Places
    <2>7. /\ res' \in [Fields \cup {"answered", "reused"} -> SUBSET Conn]
          /\ res'.sock = res.sock /\ res'.base = res.base /\ res'.assl = res.assl
          /\ res'.reused = res.reused \cup {c}
        BY <2>2, <2>4 DEF TypeOK, Fields
    <2>8. /\ hi'[t].base = c /\ hi'[t].sock = c /\ hi'[t].reused = TRUE
          /\ hi'[t].assl = IF c \in res.assl THEN c ELSE NoConn
        BY <2>5, <2>6 DEF HttpinfoRecord
    <2>9. PlaceOf(t)' /\ Onward(t)
        BY <1>1, <2>5, <2>6 DEF HttpinfoRecord, PlaceOf, Onward, Lower, Place, Codes
    <2>10. Moves(t)
        BY <2>6, <2>7 DEF Moves
    <2>11. Takes(t)
        BY <1>1, <2>3, <2>7, <2>8, <2>10 DEF Takes
    <2> QED
        BY <2>9, <2>11
<1>3. CASE ~ (Direct(t) /\ Found(host) # {})
    <2>1. Frees(t)
        <3>1. CASE Direct(t)
            <4>1. Found(host) = {}
                BY <1>3, <3>1
            <4>2. TakenOut(host) = Passed(host) /\ Passed(host) \in SUBSET DOMAIN pool
                BY <4>1 DEF TakenOut, Passed, Matching
            <4>3. Purges(t, Passed(host))
                BY <3>1, <4>2 DEF Openlibraries, Purges
            <4> QED
                BY <4>2, <4>3 DEF Frees
        <3>2. CASE ~ Direct(t)
            BY <3>2 DEF Openlibraries, Frees
        <3> QED
            BY <3>1, <3>2
    <2>2. CASE Goes(t, "finish", [hi[t] EXCEPT !.settled = TRUE, !.base = NoConn]) /\ UNCHANGED res
        <3> DEFINE rec == [hi[t] EXCEPT !.settled = TRUE, !.base = NoConn]
        <3>1. /\ rec \in HttpinfoRecord /\ ~ rec.reused /\ rec.auth = hi[t].auth
              /\ rec.sock = NoConn /\ rec.base = NoConn /\ rec.assl = NoConn
              /\ rec.status = hi[t].status /\ rec.retried = hi[t].retried
            BY <1>1 DEF HttpinfoRecord
        <3>2. Goes(t, "finish", rec)
            BY <2>2
        <3> HIDE DEF rec
        <3>3. /\ hi' \in [Task -> HttpinfoRecord] /\ \A u \in Task : u # t => hi'[u] = hi[u]
              /\ hi'[t] = [rec EXCEPT !.at = "finish"]
            BY <3>1, <3>2, GoesIs DEF Places
        <3>4. /\ hi'[t].base = NoConn /\ hi'[t].sock = NoConn /\ hi'[t].assl = NoConn
              /\ ~ hi'[t].reused
            BY <3>1, <3>3 DEF HttpinfoRecord
        <3>5. Releases(t)
            BY <1>1, <2>2, <3>3, <3>4 DEF Releases, Moves, TypeOK
        <3>6. PlaceOf(t)' /\ Onward(t)
            BY <1>1, <3>1, <3>3 DEF HttpinfoRecord, PlaceOf, Onward, Lower, Place, Codes
        <3> QED
            BY <2>1, <3>5, <3>6
    <2>3. ASSUME NEW c \in Unused, res' = [res EXCEPT !.base = @ \cup {c}],
                 Goes(t, "finish", [hi[t] EXCEPT !.settled = TRUE, !.base = c])
          PROVE  Opens(t) /\ PlaceOf(t)' /\ Onward(t)
        <3> DEFINE rec == [hi[t] EXCEPT !.settled = TRUE, !.base = c]
        <3>1. c \in Conn /\ c # NoConn
            BY HttpAssumption DEF HttpAssumption, Unused
        <3>2. /\ rec \in HttpinfoRecord /\ ~ rec.reused /\ rec.auth = hi[t].auth
              /\ rec.sock = NoConn /\ rec.base = c /\ rec.assl = NoConn
              /\ rec.status = hi[t].status /\ rec.retried = hi[t].retried
            BY <1>1, <3>1 DEF HttpinfoRecord
        <3>3. Goes(t, "finish", rec)
            BY <2>3
        <3> HIDE DEF rec
        <3>4. /\ res' \in [Fields \cup {"answered", "reused"} -> SUBSET Conn]
              /\ res'.sock = res.sock /\ res'.base = res.base \cup {c} /\ res'.reused = res.reused
              /\ res'.assl = res.assl
            BY <2>3, <3>1 DEF TypeOK, Fields
        <3> QED
            BY <1>1, <3>2, <3>3, <3>4, OpensGoes
    <2>4. ASSUME NEW c \in Unused,
                 res' = [res EXCEPT !.base = @ \cup {c},
                                    !.assl = @ \cup (IF IsSecure(t) THEN {c} ELSE {})],
                 Goes(t, "dial", [hi[t] EXCEPT !.base = c,
                                    !.assl = IF IsSecure(t) THEN c ELSE NoConn])
          PROVE  Opens(t) /\ PlaceOf(t)' /\ Onward(t)
        <3> DEFINE rec == [hi[t] EXCEPT !.base = c, !.assl = IF IsSecure(t) THEN c ELSE NoConn]
        <3>1. c \in Conn /\ c # NoConn
            BY HttpAssumption DEF HttpAssumption, Unused
        <3>2. /\ rec \in HttpinfoRecord /\ ~ rec.reused /\ rec.auth = hi[t].auth
              /\ rec.sock = NoConn /\ rec.base = c
              /\ rec.assl = IF IsSecure(t) THEN c ELSE NoConn
              /\ rec.status = hi[t].status /\ rec.retried = hi[t].retried
            BY <1>1, <3>1 DEF HttpinfoRecord
        <3>3. Goes(t, "dial", rec)
            BY <2>4
        <3> HIDE DEF rec
        <3>4. /\ res' \in [Fields \cup {"answered", "reused"} -> SUBSET Conn]
              /\ res'.sock = res.sock /\ res'.base = res.base \cup {c} /\ res'.reused = res.reused
              /\ res'.assl = IF IsSecure(t) THEN res.assl \cup {c} ELSE res.assl
            BY <2>4, <3>1 DEF TypeOK, Fields
        <3>5. \/ rec.assl = NoConn /\ res'.assl = res.assl
              \/ rec.assl = c /\ res'.assl = res.assl \cup {c}
            BY <3>2, <3>4
        <3> QED
            BY <1>1, <3>2, <3>3, <3>4, <3>5, OpensGoes
    <2>5. \/ Goes(t, "finish", [hi[t] EXCEPT !.settled = TRUE, !.base = NoConn]) /\ UNCHANGED res
          \/ \E c \in Unused :
               \/ /\ res' = [res EXCEPT !.base = @ \cup {c}]
                  /\ Goes(t, "finish", [hi[t] EXCEPT !.settled = TRUE, !.base = c])
               \/ /\ res' = [res EXCEPT !.base = @ \cup {c},
                                        !.assl = @ \cup (IF IsSecure(t) THEN {c} ELSE {})]
                  /\ Goes(t, "dial", [hi[t] EXCEPT !.base = c,
                                        !.assl = IF IsSecure(t) THEN c ELSE NoConn])
        BY <1>3 DEF Openlibraries
    <2> QED
        BY <2>1, <2>2, <2>3, <2>4, <2>5
<1> QED
    BY <1>2, <1>3

\* The transfer gives its connection to the pool, and forgets it.
Pools(t) ==
    /\ Moves(t)
    /\ hi[t].sock # NoConn
    /\ hi'[t].base = NoConn /\ hi'[t].sock = NoConn /\ hi'[t].assl = NoConn
    /\ ~ hi'[t].reused
    /\ UNCHANGED res
    /\ pool' \in Seq(Node) /\ kill' \in [Processes -> SUBSET Conn]
    /\ hi[t].sock \in Pooled' /\ Pooled' \subseteq Pooled \cup {hi[t].sock}
    /\ Pooled' \cup Killed' = Pooled \cup Killed \cup {hi[t].sock}
    /\ Pooled' \cap Killed' = {}
    /\ Distinct'
    /\ \A a, b \in Processes : a # b => kill'[a] \cap kill'[b] = {}

\* A new node before what is left of the pool.
LEMMA PutsIn ==
    ASSUME TypeOK, Exclusive, NEW a \in Processes, NEW S \in SUBSET DOMAIN pool, Kills(a, S),
           NEW node \in Node, node.conn \notin Pooled \cup Killed,
           pool' = <<node>> \o Kept(S)
    PROVE  /\ pool' \in Seq(Node) /\ kill' \in [Processes -> SUBSET Conn]
           /\ Len(pool') = 1 + Cardinality(DOMAIN pool \ S)
           /\ node.conn \in Pooled' /\ Pooled' \subseteq Pooled \cup {node.conn}
           /\ Pooled' \cup Killed' = Pooled \cup Killed \cup {node.conn}
           /\ Pooled' \cap Killed' = {}
           /\ Distinct'
           /\ \A b, c \in Processes : b # c => kill'[b] \cap kill'[c] = {}
<1> DEFINE rest == Kept(S)
<1>1. /\ kill' \in [Processes -> SUBSET Conn] /\ Killed' = Killed \cup ConnsAt(S)
      /\ \A b, c \in Processes : b # c => kill'[b] \cap kill'[c] = {}
    BY KillsConns
<1>2. rest \in Seq(Node) /\ Len(rest) = Cardinality(DOMAIN pool \ S)
    BY KeptNodes
<1>3. Distinct
    BY DEF Exclusive
<1>4. /\ {rest[k].conn : k \in DOMAIN rest} = Pooled \ ConnsAt(S)
      /\ \A j, k \in DOMAIN rest : rest[j].conn = rest[k].conn => j = k
    BY <1>3, KeptConns
<1>5. ConnsAt(S) \subseteq Pooled /\ Pooled \cap Killed = {}
    BY PoolType DEF Exclusive
<1> HIDE DEF rest
<1>6. pool' = <<node>> \o rest
    BY DEF rest
<1>7. /\ pool' \in Seq(Node) /\ Len(pool') = 1 + Len(rest) /\ Len(rest) \in Nat
      /\ DOMAIN pool' = 1 .. 1 + Len(rest) /\ DOMAIN rest = 1 .. Len(rest)
      /\ \A k \in 1 .. 1 + Len(rest) : pool'[k] = IF k = 1 THEN node ELSE rest[k - 1]
    <2> DEFINE one == <<node>>
    <2>1. one \in Seq(Node) /\ Len(one) = 1 /\ one[1] = node
        OBVIOUS
    <2> HIDE DEF one
    <2>2. /\ one \o rest \in Seq(Node)
          /\ Len(one \o rest) = Len(one) + Len(rest)
          /\ \A k \in 1 .. Len(one) + Len(rest) :
                (one \o rest)[k] = IF k =< Len(one) THEN one[k] ELSE rest[k - Len(one)]
        BY <1>2, <2>1, ConcatProperties
    <2>3. pool' = one \o rest
        BY <1>6 DEF one
    <2>4. Len(rest) \in Nat /\ DOMAIN rest = 1 .. Len(rest)
        BY <1>2
    <2>5. \A k \in 1 .. 1 + Len(rest) : pool'[k] = IF k =< 1 THEN one[k] ELSE rest[k - 1]
        BY <2>1, <2>2, <2>3
    <2>6. \A k \in 1 .. 1 + Len(rest) : k =< 1 <=> k = 1
        BY <2>4
    <2>7. pool' \in Seq(Node) /\ Len(pool') = 1 + Len(rest)
        BY <2>1, <2>2, <2>3
    <2> QED
        BY <2>1, <2>4, <2>5, <2>6, <2>7
<1>8. pool'[1] = node /\ \A k \in 1 .. Len(rest) : pool'[k + 1] = rest[k]
    <2>1. \A k \in 1 .. Len(rest) : k + 1 \in 1 .. 1 + Len(rest) /\ k + 1 # 1 /\ (k + 1) - 1 = k
        BY <1>7
    <2>2. 1 \in 1 .. 1 + Len(rest)
        BY <1>7
    <2> QED
        BY <1>7, <2>1, <2>2
<1>9. \A k \in DOMAIN pool' : k = 1 \/ (k - 1 \in DOMAIN rest /\ pool'[k] = rest[k - 1])
    <2> SUFFICES ASSUME NEW k \in 1 .. 1 + Len(rest), k # 1
                 PROVE  k - 1 \in 1 .. Len(rest) /\ pool'[k] = rest[k - 1]
        BY <1>7
    <2>1. k - 1 \in 1 .. Len(rest) /\ k = (k - 1) + 1
        BY <1>7
    <2> QED
        BY <2>1, <1>8
<1>10. \A c : c \in Pooled' <=> c = node.conn \/ c \in Pooled \ ConnsAt(S)
    <2>1. \A c : c \in Pooled' <=> \E k \in DOMAIN pool' : pool'[k].conn = c
        BY DEF Pooled
    <2>2. \A c : c \in Pooled \ ConnsAt(S) <=> \E k \in DOMAIN rest : rest[k].conn = c
        BY <1>4
    <2>3. \A k \in DOMAIN rest : k + 1 \in DOMAIN pool' /\ pool'[k + 1] = rest[k]
        BY <1>7, <1>8
    <2>4. 1 \in DOMAIN pool'
        BY <1>7
    <2>5. ASSUME NEW c, NEW k \in DOMAIN pool', pool'[k].conn = c
          PROVE  c = node.conn \/ \E j \in DOMAIN rest : rest[j].conn = c
        BY <1>8, <1>9, <2>5
    <2>6. ASSUME NEW c, NEW k \in DOMAIN rest, rest[k].conn = c
          PROVE  \E j \in DOMAIN pool' : pool'[j].conn = c
        BY <2>3, <2>6
    <2>7. \E j \in DOMAIN pool' : pool'[j].conn = node.conn
        BY <1>8, <2>4
    <2> QED
        BY <2>1, <2>2, <2>5, <2>6, <2>7
<1>11. Distinct'
    <2> SUFFICES ASSUME NEW j \in DOMAIN pool', NEW k \in DOMAIN pool', pool'[j].conn = pool'[k].conn
                 PROVE  j = k
        BY DEF Distinct
    <2>1. \A i \in DOMAIN rest : rest[i].conn # node.conn
        BY <1>4
    <2>2. j \in Nat /\ k \in Nat
        BY <1>7
    <2>3. CASE j = 1 \/ k = 1
        BY <1>8, <1>9, <2>1, <2>3
    <2>4. CASE j # 1 /\ k # 1
        <3>1. /\ j - 1 \in DOMAIN rest /\ k - 1 \in DOMAIN rest
              /\ rest[j - 1].conn = rest[k - 1].conn
            BY <1>9, <2>4
        <3>2. j - 1 = k - 1
            BY <3>1, <1>4
        <3> QED
            BY <3>2, <2>2
    <2> QED
        BY <2>3, <2>4
<1> QED
    BY <1>1, <1>2, <1>5, <1>7, <1>10, <1>11

LEMMA KeptShorter ==
    ASSUME TypeOK, NEW S \in SUBSET DOMAIN pool
    PROVE  Len(Kept(S)) =< Len(pool)
<1>1. DOMAIN pool = 1 .. Len(pool) /\ Len(pool) \in Nat
    BY DEF TypeOK
<1>2. IsFiniteSet(DOMAIN pool) /\ Cardinality(DOMAIN pool) = Len(pool)
    BY <1>1, Interval
<1>3. Cardinality(DOMAIN pool \ S) =< Cardinality(DOMAIN pool)
    BY <1>2, FS_Subset
<1> QED
    BY <1>2, <1>3, KeptNodes

\* The nodes that ReturnKeepAliveConnection leaves, and the new one, are few enough.
LEMMA CulledIsEnough ==
    ASSUME TypeOK, PoolBounded
    PROVE  1 + Cardinality(DOMAIN pool \ Culled) < MaxIdle
<1> DEFINE I == DOMAIN pool \ Expired
           young == Cardinality(I)
           tail == {i \in I : Cardinality({j \in I : j >= i}) =< Excess(young)}
<1>1. DOMAIN pool = 1 .. Len(pool) /\ Len(pool) \in Nat
    BY DEF TypeOK
<1>2. IsFiniteSet(DOMAIN pool) /\ Cardinality(DOMAIN pool) = Len(pool)
    BY <1>1, Interval
<1>3. IsFiniteSet(I) /\ young \in Nat /\ young =< Len(pool)
    BY <1>2, FS_Subset, FS_CardinalityType
<1>4. DOMAIN pool \ Culled = I \ tail
    BY DEF Culled
<1>5. Len(pool) < MaxIdle /\ MaxIdle \in Nat /\ MaxIdle > 1
    BY HttpAssumption DEF HttpAssumption, PoolBounded
<1>6. Cardinality(I) = young /\ I \ tail \in SUBSET I /\ I \in SUBSET (1 .. Len(pool))
      /\ tail = {i \in I : Cardinality({j \in I : j >= i}) =< Excess(young)}
    BY <1>1
<1> HIDE DEF I, tail, young
<1> DEFINE n == Cardinality(I \ tail)
<1>7. n =< young /\ n \in Nat
    BY <1>3, <1>6, FS_Subset, FS_CardinalityType
<1>8. \A g \in I : IsFiniteSet(I \ {g}) /\ Cardinality(I \ {g}) = young - 1
    BY <1>3, <1>6, FS_RemoveElement
<1>9. SUFFICES 1 + n < MaxIdle
    BY <1>4, Zenon
<1>10. CASE young = 0 \/ young + 1 < MaxIdle
    <2> HIDE DEF n
    <2>1. young < MaxIdle - 1
        BY <1>3, <1>5, <1>10
    <2> QED
        BY <1>3, <1>5, <1>7, <2>1
<1>11. CASE young # 0 /\ ~ (young + 1 < MaxIdle)
    <2>1. young = MaxIdle - 1 /\ Excess(young) = 1
        BY <1>3, <1>5, <1>11 DEF Excess, Count
    <2>2. I # {}
        BY <1>6, <1>11, FS_EmptySet
    <2>3. PICK g \in I : \A i \in I : i =< g
        BY <1>1, <1>6, <2>2, Greatest
    <2>4. {j \in I : j >= g} = {g}
        <3>1. \A j \in I : j \in Nat /\ j =< g /\ g \in Nat
            BY <1>1, <1>6, <2>3
        <3>2. \A j \in I : j >= g <=> j = g
            BY <3>1
        <3> QED
            BY <3>2
    <2>5. Cardinality({j \in I : j >= g}) = 1
        BY <2>4, FS_Singleton
    <2>6. g \in tail
        BY <1>6, <2>1, <2>3, <2>5
    <2>7. I \ tail \subseteq I \ {g}
        BY <2>6
    <2>8. n =< Cardinality(I \ {g})
        BY <1>8, <2>3, <2>7, FS_Subset
    <2>9. Cardinality(I \ {g}) = young - 1
        BY <1>8, <2>3
    <2> HIDE DEF n
    <2>10. n =< young - 1
        BY <2>8, <2>9
    <2> QED
        BY <1>3, <1>5, <1>7, <2>1, <2>10
<1> QED
    BY <1>10, <1>11

LEMMA ReturnGoes ==
    ASSUME TypeOK, PlaceInv, OneConnection, Exclusive, PoolBounded, NEW t \in Task,
           ReturnKeepAliveConnection(t)
    PROVE  /\ (Releases(t) /\ UNCHANGED <<pool, kill>>) \/ Pools(t)
           /\ PlaceOf(t)' /\ Onward(t)
           /\ PoolBounded'
<1>1. /\ hi[t] \in HttpinfoRecord /\ hi[t].at = "clean" /\ PlaceOf(t)
      /\ hi[t].sock \in Conn \cup {NoConn} /\ hi[t].host \in Host
    BY DEF TypeOK, PlaceInv, ReturnKeepAliveConnection, At, HttpinfoRecord
<1>2. CASE hi[t].sock = NoConn
    <2> DEFINE rec == [hi[t] EXCEPT !.reused = FALSE]
    <2>1. /\ rec \in HttpinfoRecord /\ ~ rec.reused /\ rec.auth = hi[t].auth
          /\ rec.sock = hi[t].sock /\ rec.assl = hi[t].assl /\ rec.base = hi[t].base
          /\ rec.status = hi[t].status /\ rec.retried = hi[t].retried
        BY <1>1 DEF HttpinfoRecord
    <2>2. Goes(t, "finish", rec) /\ UNCHANGED <<pool, kill>> /\ UNCHANGED res
        BY <1>2 DEF ReturnKeepAliveConnection
    <2> HIDE DEF rec
    <2>3. Releases(t) /\ hi'[t] = [rec EXCEPT !.at = "finish"]
        BY <2>1, <2>2, KeepsGoes DEF Places
    <2>4. PlaceOf(t)' /\ Onward(t)
        BY <1>1, <1>2, <2>1, <2>3 DEF HttpinfoRecord, PlaceOf, Onward, Lower, Place, Codes
    <2>5. PoolBounded'
        BY <2>2 DEF PoolBounded
    <2> QED
        BY <2>2, <2>3, <2>4, <2>5
<1>3. CASE hi[t].sock # NoConn
    <2> DEFINE rec == [Without(hi[t], Fields) EXCEPT !.reused = FALSE]
               node == [conn |-> hi[t].sock, host |-> hi[t].host, old |-> FALSE]
    <2>1. /\ rec \in HttpinfoRecord /\ ~ rec.reused /\ rec.auth = hi[t].auth
          /\ rec.sock = NoConn /\ rec.assl = NoConn /\ rec.base = NoConn
          /\ rec.status = hi[t].status /\ rec.retried = hi[t].retried
        BY <1>1 DEF HttpinfoRecord, Without, Fields
    <2>2. /\ Goes(t, "finish", rec) /\ UNCHANGED res
          /\ Kills(t, Culled) /\ pool' = <<node>> \o Kept(Culled)
        BY <1>3 DEF ReturnKeepAliveConnection, GivenAway
    <2> HIDE DEF rec
    <2>3. /\ hi' \in [Task -> HttpinfoRecord] /\ \A u \in Task : u # t => hi'[u] = hi[u]
          /\ hi'[t] = [rec EXCEPT !.at = "finish"]
        BY <2>1, <2>2, GoesIs DEF Places
    <2>4. /\ hi'[t].base = NoConn /\ hi'[t].sock = NoConn /\ hi'[t].assl = NoConn
          /\ ~ hi'[t].reused
        BY <2>1, <2>3 DEF HttpinfoRecord
    <2>5. Moves(t)
        BY <2>2, <2>3 DEF Moves, TypeOK
    <2>6. node \in Node /\ node.conn = hi[t].sock
        BY <1>1, <1>3 DEF Node
    <2>7. hi[t].sock \notin Pooled \cup Killed
        BY <1>3 DEF OneConnection, Exclusive
    <2>8. Culled \in SUBSET DOMAIN pool
        BY DEF Culled, Expired
    <2> HIDE DEF node
    <2>9. /\ pool' \in Seq(Node) /\ kill' \in [Processes -> SUBSET Conn]
          /\ Len(pool') = 1 + Cardinality(DOMAIN pool \ Culled)
          /\ node.conn \in Pooled' /\ Pooled' \subseteq Pooled \cup {node.conn}
          /\ Pooled' \cup Killed' = Pooled \cup Killed \cup {node.conn}
          /\ Pooled' \cap Killed' = {}
          /\ Distinct'
          /\ \A b, c \in Processes : b # c => kill'[b] \cap kill'[c] = {}
        BY <2>2, <2>6, <2>7, <2>8, PutsIn DEF Processes
    <2>10. Pools(t)
        BY <1>3, <2>2, <2>4, <2>5, <2>6, <2>9 DEF Pools
    <2>11. PlaceOf(t)' /\ Onward(t)
        BY <1>1, <2>1, <2>3 DEF HttpinfoRecord, PlaceOf, Onward, Lower, Place, Codes
    <2>12. PoolBounded'
        BY <2>9, CulledIsEnough DEF PoolBounded
    <2> QED
        BY <2>10, <2>11, <2>12
<1> QED
    BY <1>2, <1>3

-----------------------------------------------------------------------------
(* The steps that open, take or give connections *)

LEMMA ConnectsConns ==
    ASSUME TypeOK, Conns, NEW t \in Task, hi[t].sock = NoConn, Connects(t), Shifted
    PROVE  Conns'
    BY ConnsFacts, ConnsNext DEF Connects, Moves, Shifted

LEMMA PoolsConns ==
    ASSUME TypeOK, Conns, NEW t \in Task, Pools(t)
    PROVE  Conns'
    BY ConnsFacts, ConnsNext DEF Pools, Moves

LEMMA TakesConns ==
    ASSUME TypeOK, Conns, NEW t \in Task, Takes(t)
    PROVE  Conns'
    BY ConnsFacts, ConnsNext DEF Takes, Moves

LEMMA OpensConns ==
    ASSUME TypeOK, Conns, NEW t \in Task, Opens(t), Shifted
    PROVE  Conns'
<1>1. PICK c \in Unused :
        /\ Moves(t)
        /\ hi[t].sock = NoConn /\ hi[t].assl = NoConn
        /\ hi'[t].base = c /\ hi'[t].sock = NoConn /\ ~ hi'[t].reused
        /\ res'.sock = res.sock /\ res'.base = res.base \cup {c} /\ res'.reused = res.reused
        /\ \/ hi'[t].assl = NoConn /\ res'.assl = res.assl
           \/ hi'[t].assl = c /\ res'.assl = res.assl \cup {c}
    BY DEF Opens
<1>2. /\ c \in Conn /\ c \notin Pooled /\ c \notin Killed
      /\ c \notin res.sock /\ c \notin res.assl /\ c \notin res.base
      /\ \A u \in Task : c # hi[u].base
    BY DEF Unused, Fields, Holds
<1>3. \A u \in Task : u # t => hi'[u] = hi[u]
    BY <1>1 DEF Moves
<1> QED
    BY <1>1, <1>2, <1>3, ConnsFacts, ConnsNext DEF Shifted

LEMMA AbandonsConns ==
    ASSUME TypeOK, Conns, NEW t \in Task, Abandons(t), UNCHANGED <<pool, kill>>
    PROVE  Conns'
<1>1. hi'[t] = Idle /\ \A u \in Task : u # t => hi'[u] = hi[u]
    BY EndedIs DEF Abandons
<1>2. /\ hi'[t].sock = NoConn /\ hi'[t].assl = NoConn /\ hi'[t].base = NoConn
      /\ ~ hi'[t].reused
    BY <1>1, IdleIs
<1>3. res' = res /\ hi[t].reused
    BY DEF Abandons
<1>4. Pooled' = Pooled /\ Killed' = Killed /\ (Distinct' <=> Distinct)
    BY DEF Pooled, Killed, Distinct
<1>5. Distinct' /\ \A a, b \in Processes : a # b => kill'[a] \cap kill'[b] = {}
    BY <1>4 DEF Conns, Exclusive
<1>6. hi[t].base # NoConn => hi[t].base \in res.reused
    BY <1>3, ConnsFacts
<1> QED
    BY <1>1, <1>2, <1>3, <1>4, <1>5, <1>6, ConnsFacts, ConnsNext

LEMMA FreeConns ==
    ASSUME TypeOK, Conns, NEW a \in Processes, FreeConnectionNode(a)
    PROVE  /\ Conns'
           /\ res' \in [Fields \cup {"answered", "reused"} -> SUBSET Conn]
           /\ kill' \in [Processes -> SUBSET Conn]
<1>1. PICK c \in kill[a] : /\ res' = Closed({c}, Fields)
                           /\ kill' = [kill EXCEPT ![a] = @ \ {c}]
    BY DEF FreeConnectionNode
<1>2. hi' = hi /\ pool' = pool
    BY DEF FreeConnectionNode
<1>3. /\ kill \in [Processes -> SUBSET Conn]
      /\ \A b, d \in Processes : b # d => kill[b] \cap kill[d] = {}
    BY DEF TypeOK, Processes, Conns, Exclusive
<1>4. /\ kill' \in [Processes -> SUBSET Conn]
      /\ \A b \in Processes : kill'[b] = IF b = a THEN kill[b] \ {c} ELSE kill[b]
    BY <1>1, <1>3
<1>5. \A b, d \in Processes : b # d => kill'[b] \cap kill'[d] = {}
    BY <1>3, <1>4
<1>6. Killed' = Killed \ {c} /\ c \in Killed
    BY <1>1, <1>3, <1>4 DEF Killed, Processes
<1>7. Pooled' = Pooled /\ Distinct'
    BY <1>2 DEF Pooled, Distinct, Conns, Exclusive
<1>8. /\ res' \in [Fields \cup {"answered", "reused"} -> SUBSET Conn]
      /\ res'.sock = res.sock \ {c} /\ res'.assl = res.assl \ {c} /\ res'.base = res.base \ {c}
      /\ res'.reused = res.reused \ {c}
    BY <1>1 DEF TypeOK, Closed, Fields
<1>9. Conns'
    BY <1>2, <1>5, <1>6, <1>7, <1>8, ConnsFacts, ConnsNext
<1> QED
    BY <1>4, <1>8, <1>9

LEMMA ShiftedConns ==
    ASSUME TypeOK, Conns, Shifted, UNCHANGED <<hi, res>>
    PROVE  Conns'
<1>1. hi' = hi /\ res' = res
    OBVIOUS
<1> QED
    BY <1>1, ConnsFacts, ConnsNext DEF Shifted

LEMMA CloseIdleShifts ==
    ASSUME TypeOK, Exclusive, CloseIdleKeepAliveConnections
    PROVE  Shifted /\ Len(pool') = 0
<1>1. pool' = <<>> /\ Kills(Main, DOMAIN pool)
    BY DEF CloseIdleKeepAliveConnections
<1>2. /\ kill' \in [Processes -> SUBSET Conn] /\ Killed' = Killed \cup ConnsAt(DOMAIN pool)
      /\ \A b, c \in Processes : b # c => kill'[b] \cap kill'[c] = {}
    BY <1>1, KillsConns DEF Processes
<1>3. ConnsAt(DOMAIN pool) = Pooled
    BY DEF ConnsAt, Pooled
<1>4. pool' \in Seq(Node) /\ Len(pool') = 0 /\ DOMAIN pool' = {}
    BY <1>1
<1>5. Pooled' = {} /\ Distinct'
    BY <1>4 DEF Pooled, Distinct
<1> QED
    BY <1>2, <1>3, <1>4, <1>5 DEF Shifted

LEMMA AgesShifts ==
    ASSUME TypeOK, Exclusive, NEW i \in DOMAIN pool, Ages(i)
    PROVE  Shifted /\ Len(pool') = Len(pool)
<1>1. pool' = [pool EXCEPT ![i].old = TRUE] /\ kill' = kill
    BY DEF Ages
<1>2. pool[i] \in Node /\ pool \in Seq(Node)
    BY PoolType DEF TypeOK
<1>3. [pool[i] EXCEPT !.old = TRUE] \in Node /\ [pool[i] EXCEPT !.old = TRUE].conn = pool[i].conn
    BY <1>2 DEF Node
<1>4. pool' \in Seq(Node) /\ Len(pool') = Len(pool) /\ DOMAIN pool' = DOMAIN pool
    BY <1>1, <1>2, <1>3
<1>5. \A j \in DOMAIN pool : pool'[j].conn = pool[j].conn
    BY <1>1, <1>2, <1>3
<1>6. Pooled' = Pooled /\ Killed' = Killed
    BY <1>1, <1>4, <1>5 DEF Pooled, Killed
<1>7. Distinct'
    BY <1>4, <1>5 DEF Exclusive, Distinct
<1> QED
    BY <1>1, <1>4, <1>6, <1>7 DEF Shifted, Exclusive, TypeOK, Processes

-----------------------------------------------------------------------------
(* Counting redirections *)

LEMMA GoesAt ==
    ASSUME TypeOK, NEW t \in Task, NEW at, NEW rec, "at" \in DOMAIN rec, Goes(t, at, rec)
    PROVE  hi'[t].at = at
<1>1. hi'[t] = [rec EXCEPT !.at = at]
    BY DEF Goes, TypeOK
<1> QED
    BY <1>1

LEMMA CountingIs ==
    /\ IsFiniteSet(Task) /\ Cardinality(Task) \in Nat
    /\ \A S \in SUBSET Task : /\ IsFiniteSet(S) /\ Cardinality(S) \in Nat
                              /\ Cardinality(S) =< Cardinality(Task)
                              /\ \A R \in SUBSET S : Cardinality(R) =< Cardinality(S)
                              /\ \A t \in S : Cardinality(S \ {t}) = Cardinality(S) - 1
<1>1. IsFiniteSet(Task)
    BY HttpAssumption DEF HttpAssumption
<1>2. ASSUME NEW S \in SUBSET Task
      PROVE  /\ IsFiniteSet(S) /\ Cardinality(S) \in Nat
             /\ Cardinality(S) =< Cardinality(Task)
    BY <1>1, FS_Subset, FS_CardinalityType
<1>3. ASSUME NEW S \in SUBSET Task
      PROVE  /\ \A R \in SUBSET S : Cardinality(R) =< Cardinality(S)
             /\ \A t \in S : Cardinality(S \ {t}) = Cardinality(S) - 1
    BY <1>2, FS_Subset, FS_RemoveElement
<1> QED
    BY <1>1, <1>2, <1>3, FS_CardinalityType

\* The places between the test of redirect_count and its increment.
Undecided == {"open", "dial", "connect", "send", "body"}

LEMMA CountSteps ==
    ASSUME TypeOK, CountInv, NEW t \in Task,
           \A u \in Task : u # t => hi'[u].at = hi[u].at,
           \/ /\ redirect_count' = redirect_count
              /\ hi'[t].at \in Undecided => hi[t].at \in Undecided
           \/ redirect_count' = redirect_count /\ redirect_count < MaxRedirects
           \/ redirect_count' = 0
           \/ /\ redirect_count' = redirect_count + 1
              /\ hi[t].at \in Undecided /\ hi'[t].at \notin Undecided
    PROVE  CountInv' /\ redirect_count' \in Nat
<1> DEFINE before == Cardinality(Counting)
           after == Cardinality(Counting')
           limit == MaxRedirects - 1 + Cardinality(Task)
<1>1. Counting \in SUBSET Task /\ Counting' \in SUBSET Task
    BY DEF Counting
<1>2. /\ before \in Nat /\ after \in Nat /\ Cardinality(Task) \in Nat
      /\ after =< Cardinality(Task)
    BY <1>1, CountingIs
<1>3. redirect_count \in Nat /\ MaxRedirects \in Nat \ {0}
    BY HttpAssumption DEF HttpAssumption, TypeOK
<1>4. CountInv' <=> redirect_count' + after =< limit
    BY DEF CountInv
<1>5. redirect_count + before =< limit
    BY DEF CountInv
<1>6. CASE redirect_count' = redirect_count /\ (hi'[t].at \in Undecided => hi[t].at \in Undecided)
    <2>1. Counting' \subseteq Counting
        BY <1>6 DEF Counting, Undecided
    <2>2. after =< before
        BY <1>1, <2>1, CountingIs
    <2> HIDE DEF before, after
    <2> QED
        BY <1>2, <1>3, <1>4, <1>5, <1>6, <2>2
<1>7. CASE redirect_count' = 0 \/ (redirect_count' = redirect_count /\ redirect_count < MaxRedirects)
    <2> HIDE DEF before, after
    <2> QED
        BY <1>2, <1>3, <1>4, <1>7
<1>8. CASE /\ redirect_count' = redirect_count + 1
           /\ hi[t].at \in Undecided /\ hi'[t].at \notin Undecided
    <2>1. Counting' \in SUBSET (Counting \ {t}) /\ t \in Counting
        BY <1>8 DEF Counting, Undecided
    <2>2. Counting \ {t} \in SUBSET Task
        BY <1>1
    <2>3. after =< Cardinality(Counting \ {t})
        BY <2>1, <2>2, CountingIs
    <2>4. Cardinality(Counting \ {t}) = before - 1
        BY <1>1, <2>1, CountingIs
    <2> HIDE DEF before, after
    <2>5. after =< before - 1
        BY <2>3, <2>4
    <2> QED
        BY <1>2, <1>3, <1>4, <1>5, <1>8, <2>5
<1> QED
    BY <1>6, <1>7, <1>8

LEMMA CountGoes ==
    ASSUME TypeOK, CountInv, NEW t \in Task, Starts(t) \/ HttpStep(t)
    PROVE  CountInv' /\ redirect_count' \in Nat
<1>1. hi[t] \in HttpinfoRecord /\ DOMAIN hi[t] = DOMAIN Idle
    BY IdleIs DEF TypeOK, HttpinfoRecord
<1>2. "at" \in DOMAIN hi[t] /\ "at" \in DOMAIN Idle /\ \A fs : "at" \in DOMAIN Without(hi[t], fs)
    BY <1>1, IdleIs DEF HttpinfoRecord, Without
<1>3. \A u \in Task : u # t => hi'[u].at = hi[u].at
    BY DEF TypeOK, HttpStep, Starts, Top, Openlibraries, Lookupfails, Opensocket, Connect, Sendfails,
           Httpresponse, NoHeader, Header, Breaks, Readdata, ReaddataIncomplete, Retries,
           ReturnKeepAliveConnection, Closessl, Cleanup, Ended, Goes
<1>4. ASSUME redirect_count' = redirect_count, hi[t].at \in Undecided
      PROVE  CountInv' /\ redirect_count' \in Nat
    BY <1>3, <1>4, CountSteps
<1>5. ASSUME redirect_count' = redirect_count, hi'[t].at \in {"idle", "top", "clean", "finish"}
      PROVE  CountInv' /\ redirect_count' \in Nat
    BY <1>3, <1>5, CountSteps DEF Undecided
<1>6. CASE Starts(t)
    <2>1. PICK host \in Host : Goes(t, "top", Httpinfo("top", host))
        BY <1>6 DEF Starts
    <2>2. "at" \in DOMAIN Httpinfo("top", host)
        BY DEF Httpinfo
    <2> QED
        BY <1>5, <1>6, <2>1, <2>2, GoesAt DEF Starts
<1>7. CASE Top(t)
    <2>1. redirect_count' = 0 \/ (redirect_count' = redirect_count /\ redirect_count < MaxRedirects)
        BY <1>7, HttpAssumption DEF HttpAssumption, Top, TooMany, TypeOK
    <2> QED
        BY <1>3, <2>1, CountSteps
<1>8. CASE Openlibraries(t) \/ Lookupfails(t) \/ Opensocket(t) \/ Connect(t) \/ Sendfails(t)
             \/ Readdata(t) \/ ReaddataIncomplete(t)
    BY <1>4, <1>8 DEF Openlibraries, Lookupfails, Opensocket, Connect, Sendfails, Readdata,
                      ReaddataIncomplete, At, Undecided
<1>9. CASE Httpresponse(t)
    <2>1. hi[t].at \in Undecided
        BY <1>9 DEF Httpresponse, At, Undecided
    <2>2. CASE redirect_count' = redirect_count
        BY <1>4, <2>1, <2>2
    <2>3. CASE redirect_count' # redirect_count
        <3>1. PICK keep \in BOOLEAN : /\ Goes(t, "clean", [Sent(t) EXCEPT !.keep = keep])
                                      /\ redirect_count' = redirect_count + 1
            BY <1>9, <2>3 DEF Httpresponse, NoHeader, Header
        <3>2. "at" \in DOMAIN [Sent(t) EXCEPT !.keep = keep]
            BY <1>2 DEF Sent
        <3>3. hi'[t].at = "clean"
            BY <3>1, <3>2, GoesAt
        <3> QED
            BY <1>3, <2>1, <3>1, <3>3, CountSteps DEF Undecided
    <2> QED
        BY <2>2, <2>3
<1>10. CASE ReturnKeepAliveConnection(t) \/ Closessl(t)
    <2>1. PICK fs \in {{}, {"sock"}, GivenAway} :
              \/ Goes(t, "finish", [Without(hi[t], fs) EXCEPT !.reused = FALSE])
              \/ Goes(t, "finish", [hi[t] EXCEPT !.reused = FALSE])
        BY <1>10 DEF ReturnKeepAliveConnection, Closessl
    <2>2. /\ "at" \in DOMAIN [Without(hi[t], fs) EXCEPT !.reused = FALSE]
          /\ "at" \in DOMAIN [hi[t] EXCEPT !.reused = FALSE]
        BY <1>2
    <2>3. hi'[t].at = "finish"
        BY <2>1, <2>2, GoesAt
    <2> QED
        BY <1>5, <1>10, <2>3 DEF ReturnKeepAliveConnection, Closessl
<1>11. CASE Cleanup(t)
    <2>1. PICK fs \in {{}, {"assl", "base"}} :
              \/ Goes(t, "top", [Without(hi[t], fs) EXCEPT !.auth = @ \cup {hi[t].status}])
              \/ Goes(t, "idle", Idle)
        BY <1>11 DEF Cleanup, Ended
    <2>2. "at" \in DOMAIN [Without(hi[t], fs) EXCEPT !.auth = @ \cup {hi[t].status}]
        BY <1>2
    <2>3. hi'[t].at \in {"top", "idle"}
        BY <1>2, <2>1, <2>2, GoesAt
    <2> QED
        BY <1>5, <1>11, <2>3 DEF Cleanup
<1> QED
    BY <1>6, <1>7, <1>8, <1>9, <1>10, <1>11 DEF HttpStep

-----------------------------------------------------------------------------
(* The invariant *)

LEMMA InitInv == Init => IInv
<1> SUFFICES ASSUME Init PROVE IInv
    OBVIOUS
<1>1. TypeOK
    BY IdleIs DEF Init, TypeOK, Fields
<1>2. \A t \in Task : /\ hi[t] = Idle /\ hi[t].at = "idle" /\ ~ hi[t].reused
                      /\ hi[t].sock = NoConn /\ hi[t].assl = NoConn /\ hi[t].base = NoConn
    BY IdleIs DEF Init
<1>3. PlaceInv
    BY <1>2 DEF PlaceInv, PlaceOf, Fields
<1>4. Pooled = {} /\ Killed = {} /\ Distinct
    BY DEF Init, Pooled, Killed, Distinct
<1>5. NoConn \notin Pooled \cup Killed
    BY <1>4
<1>6. OneConnection /\ HeldIsOpen
    BY <1>2, <1>4 DEF OneConnection, HeldIsOpen, Fields
<1>7. Exclusive
    BY <1>2, <1>4 DEF Exclusive, Init, Processes
<1>8. OnlyReusedLeak
    BY DEF OnlyReusedLeak, Init
<1>9. PoolBounded
    BY HttpAssumption DEF HttpAssumption, PoolBounded, Init
<1>10. CountInv
    <2>1. Counting = {}
        BY <1>2 DEF Counting
    <2>2. Cardinality(Counting) = 0
        BY <2>1, FS_EmptySet
    <2> QED
        BY <2>2, CountingIs, HttpAssumption DEF HttpAssumption, CountInv, Init
<1> QED
    BY <1>1, <1>3, <1>6, <1>7, <1>8, <1>9, <1>10 DEF IInv, Conns

\* The pool gets no longer by what is taken out of it.
LEMMA FreesBounded ==
    ASSUME TypeOK, PoolBounded, NEW a \in Processes, Frees(a)
    PROVE  PoolBounded'
<1>1. ASSUME NEW S \in SUBSET DOMAIN pool, pool' = Kept(S)
      PROVE  PoolBounded'
    <2>1. Len(Kept(S)) =< Len(pool) /\ Len(Kept(S)) \in Nat /\ Len(pool) \in Nat
        BY KeptShorter, KeptNodes DEF TypeOK
    <2> QED
        BY <1>1, <2>1, HttpAssumption DEF HttpAssumption, PoolBounded
<1> QED
    BY <1>1 DEF Frees, Purges, PoolBounded

\* Every step of a transfer, by what it does to connections.
LEMMA TransferSteps ==
    ASSUME IInv, NEW t \in Task, Starts(t) \/ HttpStep(t)
    PROVE  /\ \/ Releases(t) /\ Frees(t)
              \/ Connects(t) /\ Frees(t) /\ hi[t].sock = NoConn
              \/ Opens(t) /\ Frees(t)
              \/ Abandons(t) /\ UNCHANGED <<pool, kill>>
              \/ Takes(t) \/ Pools(t)
           /\ PlaceOf(t)' /\ PoolBounded'
           /\ hi[t].at # "idle" => Onward(t)
<1>1. TypeOK /\ PlaceInv /\ OneConnection /\ Exclusive /\ PoolBounded /\ t \in Processes
    BY DEF IInv, Conns, Processes
<1>2. CASE Starts(t)
    <2>1. UNCHANGED <<pool, kill>> /\ hi[t].at = "idle"
        BY <1>2 DEF Starts, At
    <2>2. Frees(t) /\ PoolBounded'
        BY <2>1, <1>1, FreesBounded DEF Frees
    <2> QED
        BY <1>1, <1>2, <2>1, <2>2, StartsGoes
<1>3. CASE Top(t) \/ Lookupfails(t) \/ Connect(t) \/ Sendfails(t) \/ Httpresponse(t)
             \/ Readdata(t) \/ ReaddataIncomplete(t) \/ Closessl(t)
    <2>1. UNCHANGED <<pool, kill>>
        BY <1>3 DEF Top, Lookupfails, Connect, Sendfails, Httpresponse, Readdata,
                    ReaddataIncomplete, Closessl
    <2>2. Frees(t) /\ PoolBounded'
        BY <2>1, <1>1, FreesBounded DEF Frees
    <2>3. Releases(t) /\ PlaceOf(t)' /\ Onward(t)
        BY <1>1, <1>3, TopGoes, LookupfailsGoes, ConnectGoes, SendfailsGoes, HttpresponseGoes,
           ReaddataGoes, ClosesslGoes
    <2> QED
        BY <2>2, <2>3
<1>4. CASE Openlibraries(t)
    <2>1. PoolBounded'
        <3>1. CASE Direct(t)
            <4>1. pool' = Kept(TakenOut(hi[t].host))
                BY <1>4, <3>1 DEF Openlibraries
            <4>2. TakenOut(hi[t].host) \in SUBSET DOMAIN pool
                BY DEF TakenOut, Passed, Found, Matching
            <4>3. Len(pool') =< Len(pool) /\ Len(pool') \in Nat /\ Len(pool) \in Nat
                BY <1>1, <4>1, <4>2, KeptShorter, KeptNodes DEF TypeOK
            <4> QED
                BY <1>1, <4>3, HttpAssumption DEF HttpAssumption, PoolBounded
        <3>2. CASE ~ Direct(t)
            BY <1>1, <1>4, <3>2 DEF Openlibraries, PoolBounded
        <3> QED
            BY <3>1, <3>2
    <2> QED
        BY <1>1, <1>4, <2>1, OpenlibrariesGoes
<1>5. CASE Opensocket(t)
    <2>1. (Releases(t) \/ Connects(t)) /\ Frees(t) /\ PlaceOf(t)' /\ Onward(t)
        BY <1>1, <1>5, OpensocketGoes
    <2>2. hi[t].sock = NoConn
        BY <1>1, <1>5 DEF Opensocket, At, PlaceInv, PlaceOf
    <2> QED
        BY <1>1, <2>1, <2>2, FreesBounded
<1>6. CASE ReturnKeepAliveConnection(t)
    <2>1. UNCHANGED <<pool, kill>> => Frees(t)
        BY DEF Frees
    <2> QED
        BY <1>1, <1>6, <2>1, ReturnGoes
<1>7. CASE Cleanup(t)
    <2>1. UNCHANGED <<pool, kill>>
        BY <1>7 DEF Cleanup
    <2>2. Frees(t) /\ PoolBounded'
        BY <2>1, <1>1, FreesBounded DEF Frees
    <2> QED
        BY <1>1, <1>7, <2>1, <2>2, CleanupGoes
<1> QED
    BY <1>2, <1>3, <1>4, <1>5, <1>6, <1>7 DEF HttpStep

LEMMA TransferMoves ==
    ASSUME IInv, NEW t \in Task, Starts(t) \/ HttpStep(t)
    PROVE  \A u \in Task : u # t => hi'[u] = hi[u]
<1>1. TypeOK
    BY DEF IInv
<1> QED
    BY <1>1, TransferSteps, EndedIs
    DEF Releases, Connects, Opens, Takes, Pools, Abandons, Moves

LEMMA TransferInv ==
    ASSUME IInv, NEW t \in Task, Starts(t) \/ HttpStep(t)
    PROVE  IInv'
<1>1. TypeOK /\ PlaceInv /\ Conns /\ Exclusive /\ CountInv /\ t \in Processes
    BY DEF IInv, Conns, Processes
<1>2. CountInv' /\ redirect_count' \in Nat
    BY <1>1, CountGoes
<1>3. PlaceOf(t)' /\ PoolBounded'
    BY TransferSteps
<1>4. Frees(t) => Shifted
    BY <1>1, FreesShifts
<1>5. UNCHANGED <<pool, kill>> => pool' \in Seq(Node) /\ kill' \in [Processes -> SUBSET Conn]
    BY <1>1 DEF TypeOK, Processes
<1>6. /\ hi' \in [Task -> HttpinfoRecord]
      /\ res' \in [Fields \cup {"answered", "reused"} -> SUBSET Conn]
      /\ \A u \in Task : u # t => hi'[u] = hi[u]
      /\ pool' \in Seq(Node) /\ kill' \in [Processes -> SUBSET Conn]
      /\ Conns'
    <2>1. CASE Releases(t) /\ Frees(t)
        BY <1>1, <1>4, <2>1, ReleasesConns DEF Releases, Moves, Shifted
    <2>2. CASE Connects(t) /\ Frees(t) /\ hi[t].sock = NoConn
        BY <1>1, <1>4, <2>2, ConnectsConns DEF Connects, Moves, Shifted
    <2>3. CASE Opens(t) /\ Frees(t)
        BY <1>1, <1>4, <2>3, OpensConns DEF Opens, Moves, Shifted
    <2>4. CASE Abandons(t) /\ UNCHANGED <<pool, kill>>
        BY <1>1, <1>5, <2>4, AbandonsConns, EndedIs DEF Abandons, TypeOK
    <2>5. CASE Takes(t)
        BY <1>1, <2>5, TakesConns DEF Takes, Moves
    <2>6. CASE Pools(t)
        BY <1>1, <2>6, PoolsConns DEF Pools, Moves
    <2> QED
        BY <2>1, <2>2, <2>3, <2>4, <2>5, <2>6, TransferSteps
<1>7. PlaceInv'
    BY <1>1, <1>3, <1>6 DEF PlaceInv, PlaceOf
<1>8. TypeOK'
    BY <1>2, <1>6 DEF TypeOK, Processes
<1> QED
    BY <1>2, <1>3, <1>6, <1>7, <1>8 DEF IInv

LEMMA NextInv == IInv /\ [Next]_vars => IInv'
<1> SUFFICES ASSUME IInv, [Next]_vars PROVE IInv'
    OBVIOUS
<1>1. TypeOK /\ PlaceInv /\ Conns /\ Exclusive /\ PoolBounded /\ CountInv
    BY DEF IInv, Conns
<1>2. ASSUME NEW t \in Task, Starts(t) \/ HttpStep(t)
      PROVE  IInv'
    BY <1>2, TransferInv
<1>3. ASSUME UNCHANGED <<hi, redirect_count>>
      PROVE  PlaceInv' /\ CountInv'
    BY <1>1, <1>3 DEF PlaceInv, PlaceOf, CountInv, Counting
<1>4. ASSUME Shifted, UNCHANGED <<hi, res, redirect_count>>, PoolBounded'
      PROVE  IInv'
    <2>1. Conns'
        BY <1>1, <1>4, ShiftedConns
    <2>2. TypeOK'
        BY <1>1, <1>4 DEF TypeOK, Shifted, Processes
    <2> QED
        BY <1>3, <1>4, <2>1, <2>2 DEF IInv
<1>5. ASSUME NEW a \in Processes, FreeConnectionNode(a)
      PROVE  IInv'
    <2>1. UNCHANGED <<hi, pool, redirect_count>>
        BY <1>5 DEF FreeConnectionNode
    <2>2. /\ Conns'
          /\ res' \in [Fields \cup {"answered", "reused"} -> SUBSET Conn]
          /\ kill' \in [Processes -> SUBSET Conn]
        BY <1>1, <1>5, FreeConns
    <2>3. TypeOK' /\ PoolBounded'
        BY <1>1, <2>1, <2>2 DEF TypeOK, PoolBounded, Processes
    <2> QED
        BY <1>3, <2>1, <2>2, <2>3 DEF IInv
<1>6. ASSUME NEW i \in DOMAIN pool, Ages(i)
      PROVE  IInv'
    <2>1. Shifted /\ Len(pool') = Len(pool)
        BY <1>1, <1>6, AgesShifts
    <2>2. UNCHANGED <<hi, res, redirect_count>> /\ PoolBounded'
        BY <1>1, <1>6, <2>1 DEF Ages, PoolBounded
    <2> QED
        BY <1>4, <2>1, <2>2
<1>7. ASSUME CloseIdleKeepAliveConnections
      PROVE  IInv'
    <2>1. Shifted /\ Len(pool') = 0
        BY <1>1, <1>7, CloseIdleShifts
    <2>2. UNCHANGED <<hi, res, redirect_count>> /\ PoolBounded'
        BY <1>7, <2>1, HttpAssumption
        DEF HttpAssumption, CloseIdleKeepAliveConnections, PoolBounded
    <2> QED
        BY <1>4, <2>1, <2>2
<1>8. ASSUME UNCHANGED vars
      PROVE  IInv'
    <2>1. UNCHANGED <<hi, pool, kill, res, redirect_count>>
        BY <1>8 DEF vars
    <2>2. Main \in Processes /\ Frees(Main)
        BY <2>1 DEF Processes, Frees
    <2>3. Shifted /\ PoolBounded'
        BY <1>1, <2>2, FreesShifts, FreesBounded
    <2> QED
        BY <1>4, <2>1, <2>3
<1> QED
    BY <1>2, <1>5, <1>6, <1>7, <1>8 DEF Next, Processes

LEMMA Invariant == Spec => []IInv
    BY InitInv, NextInv, PTL DEF Spec

-----------------------------------------------------------------------------
(* Theorems *)

\* Every variable keeps its type.
THEOREM TypeCorrect == Spec => []TypeOK
<1>1. IInv => TypeOK
    BY DEF IInv
<1> QED
    BY <1>1, Invariant, PTL

LEMMA AtMostOne ==
    ASSUME NEW S, \A x, y \in S : x = y
    PROVE  Cardinality(S) = IF S = {} THEN 0 ELSE 1
<1>1. CASE S = {}
    BY <1>1, FS_EmptySet
<1>2. CASE S # {}
    <2>1. PICK x \in S : TRUE
        BY <1>2
    <2>2. S = {x}
        BY <2>1
    <2> QED
        BY <1>2, <2>2, FS_Singleton
<1> QED
    BY <1>1, <1>2

\* A connection has one owner: a transfer, one node of keepalive_pool, or the
\* process that has taken its node out and is about to call FreeConnectionNode.
THEOREM ConnectionsHaveOneOwner == Spec => []OneOwner
<1>1. IInv => OneOwner
    <2> SUFFICES ASSUME IInv, NEW c \in Conn
                 PROVE  Cardinality({t \in Task : Holds(t, c)})
                          + Cardinality({i \in DOMAIN pool : pool[i].conn = c})
                          + Cardinality({a \in Task \cup {Main} : c \in kill[a]}) =< 1
        BY DEF OneOwner
    <2> DEFINE holders == {t \in Task : Holds(t, c)}
               nodes == {i \in DOMAIN pool : pool[i].conn = c}
               killers == {a \in Task \cup {Main} : c \in kill[a]}
    <2>1. TypeOK /\ OneConnection /\ Exclusive /\ c # NoConn
        BY HttpAssumption DEF HttpAssumption, IInv, Conns
    <2>2. \A t \in holders : hi[t].base = c
        BY <2>1 DEF Holds, Fields, OneConnection
    <2>3. \A t, u \in holders : t = u
        BY <2>1, <2>2 DEF Exclusive
    <2>4. \A i, j \in nodes : i = j
        BY <2>1 DEF Exclusive, Distinct
    <2>5. \A a, b \in killers : a = b
        BY <2>1 DEF Exclusive, Processes
    <2>6. holders # {} => c \notin Pooled /\ c \notin Killed
        BY <2>1, <2>2 DEF Exclusive
    <2>7. nodes # {} => c \in Pooled
        BY DEF Pooled
    <2>8. killers # {} => c \in Killed
        BY DEF Killed
    <2>9. ~ (c \in Pooled /\ c \in Killed)
        BY <2>1 DEF Exclusive
    <2> HIDE DEF holders, nodes, killers
    <2>10. /\ Cardinality(holders) = IF holders = {} THEN 0 ELSE 1
           /\ Cardinality(nodes) = IF nodes = {} THEN 0 ELSE 1
           /\ Cardinality(killers) = IF killers = {} THEN 0 ELSE 1
        BY <2>3, <2>4, <2>5, AtMostOne
    <2>11. Cardinality(holders) + Cardinality(nodes) + Cardinality(killers) =< 1
        BY <2>6, <2>7, <2>8, <2>9, <2>10
    <2> QED
        BY <2>11 DEF holders, nodes, killers
<1> QED
    BY <1>1, Invariant, PTL

\* Nobody holds what is closed, neither a transfer nor the pool.
THEOREM NothingHeldIsClosed == Spec => []HeldIsOpen
<1>1. IInv => HeldIsOpen
    BY DEF IInv, Conns
<1> QED
    BY <1>1, Invariant, PTL

\* A socket or SSL structure that is open and has no owner is one that came out
\* of the pool.
THEOREM OnlyReusedConnectionsLeak == Spec => []OnlyReusedLeak
<1>1. IInv => OnlyReusedLeak
    BY DEF IInv, Conns
<1> QED
    BY <1>1, Invariant, PTL

\* ReturnKeepAliveConnection keeps the pool below MAX_IDLE_CONNECTIONS.
THEOREM PoolStaysBounded == Spec => []PoolBounded
<1>1. IInv => PoolBounded
    BY DEF IInv
<1> QED
    BY <1>1, Invariant, PTL

\* redirect_count passes the limit of Httptask by the transfers that run, at most.
THEOREM RedirectsStayBounded == Spec => []RedirectsBounded
<1>1. IInv => RedirectsBounded
    <2> SUFFICES ASSUME IInv PROVE RedirectsBounded
        OBVIOUS
    <2>1. Counting \in SUBSET Task
        BY DEF Counting
    <2>2. Cardinality(Counting) \in Nat /\ Cardinality(Task) \in Nat
        BY <2>1, CountingIs
    <2>3. redirect_count \in Nat /\ MaxRedirects \in Nat
          /\ redirect_count + Cardinality(Counting) =< MaxRedirects - 1 + Cardinality(Task)
        BY HttpAssumption DEF HttpAssumption, IInv, TypeOK, CountInv
    <2> HIDE DEF Counting
    <2> QED
        BY <2>2, <2>3 DEF RedirectsBounded
<1> QED
    BY <1>1, Invariant, PTL

\* No step of a transfer leads back: the retries of Httpretrieve and the tries
\* with authorization use themselves up.
THEOREM TransfersProgress == Spec => TransferProgresses
<1> DEFINE Goal == \A t \in Task : hi[t].at # "idle" /\ hi'[t] # hi[t] =>
                        hi'[t].at = "idle" \/ Lower(hi'[t], hi[t])
<1>1. IInv /\ [Next]_vars => [Goal]_vars
    <2> SUFFICES ASSUME IInv, Next, NEW t \in Task, hi[t].at # "idle", hi'[t] # hi[t]
                 PROVE  Onward(t)
        BY DEF Onward
    <2>1. PICK u \in Task : Starts(u) \/ HttpStep(u)
        BY DEF Next, FreeConnectionNode, Ages, CloseIdleKeepAliveConnections
    <2>2. \A v \in Task : v # u => hi'[v] = hi[v]
        BY <2>1, TransferMoves
    <2>3. t = u
        BY <2>2
    <2> QED
        BY <2>1, <2>3, TransferSteps
<1> QED
    BY <1>1, Invariant, PTL DEF Spec, TransferProgresses

=============================================================================
