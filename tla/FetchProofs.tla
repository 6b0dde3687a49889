---------------------------- MODULE FetchProofs ----------------------------
(***************************************************************************)
(* What the proofs about fetches and URLs need of the data they are made   *)
(* of: the calls in todo, the queues of fetches, and the numbers of slots. *)
(***************************************************************************)
EXTENDS Fetch, TLAPS, FiniteSetTheorems, SequenceTheorems

\* In the sequence s, c comes before d.
Before(s, c, d) == \E i, j \in DOMAIN s : i < j /\ s[i] = c /\ s[j] = d

-----------------------------------------------------------------------------
(* The members of a sequence, and their order *)

LEMMA Members ==
    ASSUME NEW S, NEW s \in Seq(S)
    PROVE  /\ Range(s) \subseteq S
           /\ \A x : x \in Range(s) <=> \E i \in 1 .. Len(s) : s[i] = x
           /\ s = <<>> <=> Range(s) = {}
<1>1. DOMAIN s = 1 .. Len(s) /\ Len(s) \in Nat /\ \A i \in 1 .. Len(s) : s[i] \in S
    BY LenProperties, ElementOfSeq
<1>2. s # <<>> => 1 \in DOMAIN s
    BY <1>1, EmptySeq
<1>3. s = <<>> => DOMAIN s = {}
    OBVIOUS
<1> QED BY <1>1, <1>2, <1>3 DEF Range

LEMMA Order ==
    ASSUME NEW S, NEW s \in Seq(S), NEW c, NEW d, Before(s, c, d)
    PROVE  c \in Range(s) /\ d \in Range(s)
BY DEF Range, Before

LEMMA NoMembers ==
    /\ <<>> \in Seq({})
    /\ Range(<<>>) = {}
    /\ \A c, d : ~ Before(<<>>, c, d)
BY DEF Range, Before

LEMMA OneMember ==
    ASSUME NEW S, NEW a \in S
    PROVE  /\ <<a>> \in Seq(S)
           /\ Range(<<a>>) = {a}
           /\ \A c, d : ~ Before(<<a>>, c, d)
BY DEF Range, Before

LEMMA Concatenation ==
    ASSUME NEW S, NEW s \in Seq(S), NEW t \in Seq(S)
    PROVE  /\ s \o t \in Seq(S)
           /\ Range(s \o t) = Range(s) \cup Range(t)
           /\ \A c, d : Before(s \o t, c, d) <=>
                 \/ Before(s, c, d) \/ Before(t, c, d)
                 \/ c \in Range(s) /\ d \in Range(t)
<1> DEFINE st == s \o t
           m == Len(s)
           n == Len(t)
<1>1. /\ st \in Seq(S) /\ Len(st) = m + n /\ m \in Nat /\ n \in Nat
      /\ DOMAIN s = 1 .. m /\ DOMAIN t = 1 .. n /\ DOMAIN st = 1 .. m + n
      /\ \A i \in 1 .. m + n : st[i] = IF i =< m THEN s[i] ELSE t[i - m]
    BY ConcatProperties, LenProperties
<1> HIDE DEF st, m, n
<1>2. \A i \in 1 .. m : i \in 1 .. m + n /\ st[i] = s[i]
    BY <1>1
<1>3. \A i \in 1 .. n : i + m \in 1 .. m + n /\ st[i + m] = t[i]
    BY <1>1
<1>4. Range(st) = Range(s) \cup Range(t)
  <2>1. ASSUME NEW x \in Range(st) PROVE x \in Range(s) \cup Range(t)
    <3>1. PICK i \in 1 .. m + n : st[i] = x
        BY <2>1, <1>1 DEF Range
    <3>2. CASE i =< m
        BY <3>1, <3>2, <1>1 DEF Range
    <3>3. CASE ~ (i =< m)
      <4>1. i - m \in 1 .. n /\ t[i - m] = x
          BY <3>1, <3>3, <1>1
      <4> QED BY <4>1, <1>1 DEF Range
    <3> QED BY <3>2, <3>3
  <2>2. Range(s) \subseteq Range(st)
      BY <1>1, <1>2 DEF Range
  <2>3. Range(t) \subseteq Range(st)
      BY <1>1, <1>3 DEF Range
  <2> QED BY <2>1, <2>2, <2>3
<1>5. ASSUME NEW c, NEW d, Before(st, c, d)
      PROVE  Before(s, c, d) \/ Before(t, c, d) \/ (c \in Range(s) /\ d \in Range(t))
  <2>1. PICK i \in 1 .. m + n, j \in 1 .. m + n : i < j /\ st[i] = c /\ st[j] = d
      BY <1>5, <1>1 DEF Before
  <2>2. CASE j =< m
    <3>1. i \in 1 .. m /\ j \in 1 .. m /\ s[i] = c /\ s[j] = d
        BY <2>1, <2>2, <1>1
    <3> QED BY <3>1, <2>1, <1>1 DEF Before
  <2>3. CASE i =< m /\ ~ (j =< m)
    <3>1. i \in 1 .. m /\ j - m \in 1 .. n /\ s[i] = c /\ t[j - m] = d
        BY <2>1, <2>3, <1>1
    <3> QED BY <3>1, <1>1 DEF Range
  <2>4. CASE ~ (i =< m) /\ ~ (j =< m)
    <3>1. i - m \in 1 .. n /\ j - m \in 1 .. n /\ i - m < j - m /\ t[i - m] = c /\ t[j - m] = d
        BY <2>1, <2>4, <1>1
    <3> QED BY <3>1, <1>1 DEF Before
  <2> QED BY <2>1, <2>2, <2>3, <2>4, <1>1
<1>6. ASSUME NEW c, NEW d, Before(s, c, d) PROVE Before(st, c, d)
  <2>1. PICK i \in 1 .. m, j \in 1 .. m : i < j /\ s[i] = c /\ s[j] = d
      BY <1>6, <1>1 DEF Before
  <2> QED BY <2>1, <1>1, <1>2 DEF Before
<1>7. ASSUME NEW c, NEW d, Before(t, c, d) PROVE Before(st, c, d)
  <2>1. PICK i \in 1 .. n, j \in 1 .. n : i < j /\ t[i] = c /\ t[j] = d
      BY <1>7, <1>1 DEF Before
  <2>2. i + m < j + m
      BY <2>1, <1>1
  <2> QED BY <2>1, <2>2, <1>1, <1>3 DEF Before
<1>8. ASSUME NEW c \in Range(s), NEW d \in Range(t) PROVE Before(st, c, d)
  <2>1. PICK i \in 1 .. m, j \in 1 .. n : s[i] = c /\ t[j] = d
      BY <1>8, <1>1 DEF Range
  <2>2. i < j + m
      BY <2>1, <1>1
  <2> QED BY <2>1, <2>2, <1>1, <1>2, <1>3 DEF Before
<1>9. st \in Seq(S) /\ Range(st) = Range(s) \cup Range(t)
    BY <1>1, <1>4
<1>10. \A c, d : Before(st, c, d) <=>
                 \/ Before(s, c, d) \/ Before(t, c, d)
                 \/ c \in Range(s) /\ d \in Range(t)
    BY <1>5, <1>6, <1>7, <1>8
<1> QED BY <1>9, <1>10 DEF st

LEMMA HeadAndTail ==
    ASSUME NEW S, NEW s \in Seq(S), s # <<>>
    PROVE  /\ Head(s) \in S /\ Tail(s) \in Seq(S)
           /\ s = <<Head(s)>> \o Tail(s)
           /\ Range(s) = {Head(s)} \cup Range(Tail(s))
           /\ \A c, d : Before(s, c, d) <=>
                 Before(Tail(s), c, d) \/ (c = Head(s) /\ d \in Range(Tail(s)))
<1>1. /\ Head(s) \in S /\ Tail(s) \in Seq(S) /\ Len(Tail(s)) = Len(s) - 1
      /\ \A i \in 1 .. Len(Tail(s)) : Tail(s)[i] = s[i + 1]
    BY HeadTailProperties
<1>2. s = <<Head(s)>> \o Tail(s)
    OBVIOUS
<1>3. <<Head(s)>> \in Seq(S) /\ Range(<<Head(s)>>) = {Head(s)} /\ \A c, d : ~ Before(<<Head(s)>>, c, d)
    BY <1>1, OneMember
<1>4. /\ Range(<<Head(s)>> \o Tail(s)) = Range(<<Head(s)>>) \cup Range(Tail(s))
      /\ \A c, d : Before(<<Head(s)>> \o Tail(s), c, d) <=>
             \/ Before(<<Head(s)>>, c, d) \/ Before(Tail(s), c, d)
             \/ c \in Range(<<Head(s)>>) /\ d \in Range(Tail(s))
    BY <1>1, <1>3, Concatenation
<1>5. Range(s) = {Head(s)} \cup Range(Tail(s))
    BY <1>2, <1>3, <1>4
<1>6. \A c, d : Before(s, c, d) <=>
                 Before(Tail(s), c, d) \/ (c = Head(s) /\ d \in Range(Tail(s)))
    BY <1>2, <1>3, <1>4
<1> QED BY <1>1, <1>2, <1>5, <1>6


-----------------------------------------------------------------------------
(* Lists in which a fetch is at most once *)

Once(seq) == \A i, j \in DOMAIN seq : seq[i] = seq[j] => i = j

LEMMA Appended ==
    ASSUME NEW S, NEW seq \in Seq(S), Once(seq), NEW f \in S, f \notin Range(seq)
    PROVE  /\ Append(seq, f) \in Seq(S)
           /\ Range(Append(seq, f)) = Range(seq) \cup {f}
           /\ Once(Append(seq, f))
<1> DEFINE n == Len(seq)
           new == Append(seq, f)
<1>1. /\ n \in Nat /\ DOMAIN seq = 1 .. n /\ \A i \in 1 .. n : seq[i] \in S
      /\ new \in Seq(S) /\ DOMAIN new = 1 .. n + 1
      /\ \A i \in 1 .. n : new[i] = seq[i] /\ seq[i] # f
      /\ new[n + 1] = f
    BY DEF Range
<1> HIDE DEF n, new
<1>2. Range(new) = Range(seq) \cup {f}
  <2>1. \A i \in 1 .. n + 1 : i \in 1 .. n \/ i = n + 1
      BY <1>1
  <2>2. \A i \in 1 .. n : i \in 1 .. n + 1
      BY <1>1
  <2>3. n + 1 \in 1 .. n + 1
      BY <1>1
  <2> QED BY <2>1, <2>2, <2>3, <1>1 DEF Range
<1>3. ASSUME NEW i \in 1 .. n + 1, NEW j \in 1 .. n + 1, new[i] = new[j] PROVE i = j
  <2>1. CASE i \in 1 .. n /\ j \in 1 .. n
      BY <2>1, <1>1, <1>3 DEF Once
  <2>2. CASE i = n + 1 /\ j = n + 1
      BY <2>2
  <2>3. CASE i \in 1 .. n /\ j = n + 1
      BY <2>3, <1>1, <1>3
  <2>4. CASE i = n + 1 /\ j \in 1 .. n
      BY <2>4, <1>1, <1>3
  <2> QED BY <2>1, <2>2, <2>3, <2>4, <1>1
<1>4. Once(new)
    BY <1>1, <1>3 DEF Once
<1> QED BY <1>1, <1>2, <1>4 DEF new

LEMMA Dequeued ==
    ASSUME NEW S, NEW seq \in Seq(S), Once(seq), seq # <<>>
    PROVE  /\ Head(seq) \in Range(seq)
           /\ Tail(seq) \in Seq(S)
           /\ Range(Tail(seq)) = Range(seq) \ {Head(seq)}
           /\ Once(Tail(seq))
<1> DEFINE n == Len(seq)
           rest == Tail(seq)
<1>1. /\ n \in Nat \ {0} /\ DOMAIN seq = 1 .. n /\ rest \in Seq(S) /\ DOMAIN rest = 1 .. n - 1
      /\ \A i \in 1 .. n - 1 : rest[i] = seq[i + 1]
      /\ Head(seq) = seq[1]
    BY HeadTailProperties, LenProperties, EmptySeq
<1>2. Range(seq) = {Head(seq)} \cup Range(rest) /\ Head(seq) \in Range(seq)
    BY HeadAndTail
<1> HIDE DEF n, rest
<1>3. Head(seq) \notin Range(rest)
  <2>1. ASSUME NEW i \in 1 .. n - 1 PROVE rest[i] # seq[1]
    <3>1. i + 1 \in DOMAIN seq /\ 1 \in DOMAIN seq /\ i + 1 # 1
        BY <1>1
    <3> QED BY <3>1, <1>1 DEF Once
  <2> QED BY <2>1, <1>1 DEF Range
<1>4. ASSUME NEW i \in 1 .. n - 1, NEW j \in 1 .. n - 1, rest[i] = rest[j] PROVE i = j
  <2>1. i + 1 \in DOMAIN seq /\ j + 1 \in DOMAIN seq /\ seq[i + 1] = seq[j + 1]
      BY <1>1, <1>4
  <2>2. i + 1 = j + 1
      BY <2>1 DEF Once
  <2> QED BY <2>2, <1>1
<1>5. Once(rest)
    BY <1>1, <1>4 DEF Once
<1> QED BY <1>1, <1>2, <1>3, <1>5 DEF rest

LEMMA Removed ==
    ASSUME NEW S, NEW seq \in Seq(S), Once(seq), NEW f
    PROVE  /\ Without(seq, f) \in Seq(S)
           /\ Range(Without(seq, f)) = Range(seq) \ {f}
           /\ Once(Without(seq, f))
<1>1. CASE f \notin Range(seq)
    BY <1>1 DEF Without
<1>2. CASE f \in Range(seq)
  <2> DEFINE n == Len(seq)
             p == Position(seq, f)
             new == [i \in 1 .. n - 1 |-> IF i < p THEN seq[i] ELSE seq[i + 1]]
  <2>1. /\ Without(seq, f) = new
        /\ n \in Nat /\ DOMAIN seq = 1 .. n /\ \A i \in 1 .. n : seq[i] \in S
      BY <1>2, LenProperties, ElementOfSeq DEF Without
  <2>2. p \in 1 .. n /\ seq[p] = f
      BY <1>2, <2>1 DEF Range, Position
  <2>3. n - 1 \in Nat
      BY <2>1, <2>2
  <2> HIDE DEF n, p
  <2>4. \A i \in 1 .. n - 1 : (IF i < p THEN seq[i] ELSE seq[i + 1]) \in S
      BY <2>1, <2>2
  <2>5. new \in Seq(S)
      BY <2>3, <2>4, IsASeq
  <2>6. DOMAIN new = 1 .. n - 1 /\ \A i \in 1 .. n - 1 : new[i] = IF i < p THEN seq[i] ELSE seq[i + 1]
      OBVIOUS
  <2> HIDE DEF new
  <2>7. ASSUME NEW x \in Range(new) PROVE x \in Range(seq) \ {f}
    <3>1. PICK i \in 1 .. n - 1 : new[i] = x
        BY <2>7, <2>6 DEF Range
    <3>2. CASE i < p
        BY <3>1, <3>2, <2>1, <2>2, <2>6 DEF Range, Once
    <3>3. CASE ~ (i < p)
      <4>1. i + 1 \in 1 .. n /\ i + 1 # p /\ seq[i + 1] = x
          BY <3>1, <3>3, <2>1, <2>2, <2>6
      <4> QED BY <4>1, <2>1, <2>2 DEF Range, Once
    <3> QED BY <3>2, <3>3
  <2>8. ASSUME NEW x \in Range(seq), x # f PROVE x \in Range(new)
    <3>1. PICK i \in 1 .. n : seq[i] = x
        BY <2>8, <2>1 DEF Range
    <3>2. i # p
        BY <3>1, <2>8, <2>2
    <3>3. CASE i < p
      <4>1. i \in 1 .. n - 1 /\ new[i] = x
          BY <3>1, <3>3, <2>1, <2>2, <2>6
      <4> QED BY <4>1, <2>6 DEF Range
    <3>4. CASE p < i
      <4>1. i - 1 \in 1 .. n - 1 /\ ~ (i - 1 < p) /\ i - 1 + 1 = i
          BY <3>1, <3>4, <2>1, <2>2
      <4>2. new[i - 1] = x
          BY <4>1, <3>1, <2>6
      <4> QED BY <4>1, <4>2, <2>6 DEF Range
    <3> QED BY <3>2, <3>3, <3>4, <2>2
  <2>9. ASSUME NEW i \in 1 .. n - 1, NEW j \in 1 .. n - 1, new[i] = new[j] PROVE i = j
    <3> DEFINE k == IF i < p THEN i ELSE i + 1
               l == IF j < p THEN j ELSE j + 1
    <3>1. k \in 1 .. n /\ l \in 1 .. n /\ new[i] = seq[k] /\ new[j] = seq[l]
        BY <2>1, <2>2, <2>6
    <3>2. k = l
        BY <3>1, <2>9, <2>1 DEF Once
    <3> QED BY <3>2, <2>1, <2>2
  <2>10. Once(new)
      BY <2>6, <2>9 DEF Once
  <2> QED BY <2>1, <2>5, <2>7, <2>8, <2>10
<1> QED BY <1>1, <1>2

LEMMA Inserted ==
    ASSUME NEW S, NEW seq \in Seq(S), Once(seq), NEW f \in S, f \notin Range(seq), NEW image \in BOOLEAN
    PROVE  /\ Addtoqueue(seq, f, image) \in Seq(S)
           /\ Range(Addtoqueue(seq, f, image)) = Range(seq) \cup {f}
           /\ Once(Addtoqueue(seq, f, image))
<1> DEFINE n == Len(seq)
           Others == {i \in DOMAIN seq : fetch[seq[i]].url \notin Images}
           p == IF image THEN n ELSE Cardinality(Others)
           new == [i \in 1 .. n + 1 |->
                     IF i =< p THEN seq[i] ELSE IF i = p + 1 THEN f ELSE seq[i - 1]]
<1>1. /\ n \in Nat /\ DOMAIN seq = 1 .. n /\ \A i \in 1 .. n : seq[i] \in S /\ seq[i] # f
    BY LenProperties, ElementOfSeq DEF Range
<1>2. p \in 0 .. n
  <2>1. IsFiniteSet(1 .. n) /\ Cardinality(1 .. n) = n
      BY <1>1, FS_Interval
  <2>2. Others \subseteq 1 .. n
      BY <1>1
  <2>3. Cardinality(Others) \in Nat /\ Cardinality(Others) =< n
      BY <2>1, <2>2, FS_Subset, FS_CardinalityType
  <2> QED BY <2>3, <1>1
<1>3. Addtoqueue(seq, f, image) = new
    BY DEF Addtoqueue
<1> HIDE DEF n, p, Others
<1>4. \A i \in 1 .. n + 1 : (IF i =< p THEN seq[i] ELSE IF i = p + 1 THEN f ELSE seq[i - 1]) \in S
    BY <1>1, <1>2
<1>5. n + 1 \in Nat
    BY <1>1
<1>6. new \in Seq(S)
    BY <1>4, <1>5, IsASeq
<1>7. /\ DOMAIN new = 1 .. n + 1
      /\ \A i \in 1 .. n + 1 : new[i] = IF i =< p THEN seq[i] ELSE IF i = p + 1 THEN f ELSE seq[i - 1]
    OBVIOUS
<1> HIDE DEF new
<1>8. ASSUME NEW x \in Range(new) PROVE x \in Range(seq) \cup {f}
  <2>1. PICK i \in 1 .. n + 1 : new[i] = x
      BY <1>8, <1>7 DEF Range
  <2>2. i \in 1 .. n \/ i - 1 \in 1 .. n \/ i = p + 1
      BY <2>1, <1>1, <1>2
  <2>3. \/ i \in 1 .. n /\ x = seq[i]
        \/ i - 1 \in 1 .. n /\ x = seq[i - 1]
        \/ x = f
      BY <2>1, <1>1, <1>2, <1>7
  <2> QED BY <2>3, <1>1 DEF Range
<1>9. ASSUME NEW x \in Range(seq) PROVE x \in Range(new)
  <2>1. PICK i \in 1 .. n : seq[i] = x
      BY <1>9, <1>1 DEF Range
  <2>2. CASE i =< p
    <3>1. i \in 1 .. n + 1 /\ new[i] = x
        BY <2>1, <2>2, <1>1, <1>7
    <3> QED BY <3>1, <1>7 DEF Range
  <2>3. CASE ~ (i =< p)
    <3>1. i + 1 \in 1 .. n + 1 /\ ~ (i + 1 =< p) /\ i + 1 # p + 1 /\ i + 1 - 1 = i
        BY <2>1, <2>3, <1>1, <1>2
    <3>2. new[i + 1] = x
        BY <3>1, <2>1, <1>7
    <3> QED BY <3>1, <3>2, <1>7 DEF Range
  <2> QED BY <2>2, <2>3
<1>10. p + 1 \in 1 .. n + 1 /\ new[p + 1] = f
    BY <1>1, <1>2, <1>7
<1>11. f \in Range(new)
    BY <1>10, <1>7 DEF Range
<1>12. ASSUME NEW i \in 1 .. n + 1, NEW j \in 1 .. n + 1, new[i] = new[j] PROVE i = j
  <2> DEFINE At(k) == IF k =< p THEN k ELSE k - 1
  <2>1. \A k \in 1 .. n + 1 : k # p + 1 => At(k) \in 1 .. n /\ new[k] = seq[At(k)] /\ new[k] # f
      BY <1>1, <1>2, <1>7
  <2>2. CASE i = p + 1
      BY <2>1, <2>2, <1>10, <1>12
  <2>3. CASE j = p + 1
      BY <2>1, <2>3, <1>10, <1>12
  <2>4. CASE i # p + 1 /\ j # p + 1
    <3>1. At(i) = At(j)
      <4>1. seq[At(i)] = seq[At(j)] /\ At(i) \in DOMAIN seq /\ At(j) \in DOMAIN seq
          BY <2>1, <2>4, <1>1, <1>12
      <4> HIDE DEF At
      <4> QED BY <4>1 DEF Once
    <3> QED BY <3>1, <2>4, <1>1, <1>2
  <2> QED BY <2>2, <2>3, <2>4
<1>13. Once(new)
    BY <1>7, <1>12 DEF Once
<1> QED BY <1>3, <1>6, <1>8, <1>9, <1>11, <1>13

=============================================================================
