----------------------------- MODULE AuthProofs -----------------------------
(***************************************************************************)
(* Proofs about Auth, for any transfers, realms, passwords, addresses and  *)
(* calls: its types, that a realm has one entry, that only entries are     *)
(* written to, that the file has what is not marked as changed, and that   *)
(* the window shows the list when it waits.                                *)
(*                                                                         *)
(* The invariant adds to the types what the semaphore protects: a transfer *)
(* that has searched the list holds authsema until it has inserted, so     *)
(* what it found is still so; main holds it while the file is written.     *)
(* For the window it has the order of what main has left to do (Ordered),  *)
(* that one update at most waits for an answer (RequestInv), and when      *)
(* there is a process (OpenInv).                                           *)
(***************************************************************************)
EXTENDS Auth, TLAPS, SequenceTheorems

Steps == Operands(Dos)
Updating == Operands({"delete", "change", "dim", "closed"})

---------------------------------------------------------------------------
(* The invariant. *)

\* The list links no address twice, and what it links is an entry of a realm.
ListInv ==
    /\ \A i, j \in DOMAIN auths : auths[i] = auths[j] => i = j
    /\ \A n \in Live : entry[n].realm \in Realm

\* What a transfer asks for, or has been given, is of a realm.
AskInv ==
    \A t \in Transfer :
        /\ transfer[t].at \in {"ask", "remember"} => transfer[t].auth.realm \in Realm
        /\ transfer[t].at = "send" /\ ~transfer[t].tried =>
              transfer[t].auth = Freed \/ transfer[t].auth.realm \in Realm
        /\ transfer[t].at = "notify" => transfer[t].then = "done"
              \/ (transfer[t].then = "send" /\ transfer[t].auth.realm \in Realm)

\* A transfer that has searched holds authsema, and what it found is so.
FoundInv ==
    \A t \in Transfer : transfer[t].at = "remember" =>
        authsema = t /\ transfer[t].found = Findauth(transfer[t].auth.realm)

\* Main holds authsema exactly from Writes to Written, and flushes at quit.
TodoInv ==
    /\ authsema = "main" <=> Doing("saved")
    /\ \A i \in DOMAIN todo : todo[i].do = "saved" => i = 1
    /\ \A i \in DOMAIN todo : todo[i].do = "flush" => left.quit

\* The file has what is not marked as changed, or what is being written.
SavedInv ==
    /\ ~saved.changed /\ ~left.quit => ToSet(Contents) = ToSet(saved.file)
    /\ authsema = "main" => saved.file = Contents

Invs == ListInv /\ OneEntryForRealm /\ AskInv /\ FoundInv /\ TodoInv /\ SavedInv
IInv == TypeOK /\ Invs

\* The types of what is not the list or its semaphore.
OwnTypes ==
    /\ transfer \in [Transfer -> [at : {"idle", "send", "ask", "remember", "notify", "done"},
          auth : AuthRecord, tried : BOOLEAN, found : SUBSET Node, then : {None, "done", "send"}]]
    /\ todo \in Seq(Steps)
    /\ aew \in [exists : BOOLEAN, known : BOOLEAN, task : BOOLEAN,
                breaking : BOOLEAN, wasopen : BOOLEAN, screen : BOOLEAN]
    /\ port \in Seq(Updating)
    /\ inbox \in Nat /\ missed \in BOOLEAN
    /\ window \in [at : Ats, back : {"top", "done"}, break : BOOLEAN,
                   shown : Seq([an : Node, auth : AuthRecord])]
    /\ left \in [calls : Nat, inputs : Nat, quit : BOOLEAN]

ListTypes ==
    /\ auths \in Seq(Node) /\ entry \in [Node -> AuthRecord]
    /\ \A n \in Node : n \in Live <=> entry[n] # Freed
    /\ saved \in [changed : BOOLEAN, file : Seq(AuthRecord)]

SemaTypes ==
    \/ authsema = None
    \/ authsema = "main" /\ Doing("saved")
    \/ authsema \in Transfer /\ transfer[authsema].at = "remember"

LEMMA Types == TypeOK <=> OwnTypes /\ ListTypes /\ SemaTypes
    BY DEF TypeOK, OwnTypes, ListTypes, SemaTypes, Steps, Updating

---------------------------------------------------------------------------
(* What is left alone. *)

\* The list invariants depend on the list, the transfers and todo only.
LEMMA Frame ==
    ASSUME Invs, UNCHANGED <<listvars, transfer, todo>>, left'.quit = left.quit
    PROVE  Invs'
<1>1. /\ auths' = auths /\ entry' = entry /\ authsema' = authsema /\ saved' = saved
      /\ transfer' = transfer /\ todo' = todo
    BY DEF listvars
<1>2. Live' = Live /\ Contents' = Contents
    BY <1>1 DEF Live, ToSet, Contents
<1>3. ListInv' /\ OneEntryForRealm' /\ AskInv'
    BY <1>1, <1>2 DEF Invs, ListInv, OneEntryForRealm, AskInv
<1>4. FoundInv'
    BY <1>1, <1>2 DEF Invs, FoundInv, Findauth
<1>5. TodoInv'
    BY <1>1 DEF Invs, TodoInv, Doing
<1>6. SavedInv'
    BY <1>1, <1>2 DEF Invs, SavedInv, ToSet
<1> QED
    BY <1>3, <1>4, <1>5, <1>6 DEF Invs

LEMMA ListFrame ==
    ASSUME ListTypes, UNCHANGED <<auths, entry, saved>>
    PROVE  ListTypes'
    BY DEF ListTypes, Live, ToSet

\* What the window shows after a look at the list.
LEMMA Shown ==
    ASSUME ListTypes
    PROVE  Allocnodes \in Seq([an : Node, auth : AuthRecord])
<1>1. auths \in Seq(Node) /\ entry \in [Node -> AuthRecord]
    BY DEF ListTypes
<1>2. DOMAIN auths = 1..Len(auths) /\ Len(auths) \in Nat
    BY <1>1
<1>3. \A i \in 1..Len(auths) :
        [an |-> auths[i], auth |-> entry[auths[i]]] \in [an : Node, auth : AuthRecord]
    BY <1>1
<1> QED
    BY <1>2, <1>3 DEF Allocnodes

LEMMA UpdateTyped ==
    ASSUME port \in Seq(Updating), NEW u \in Updating, Updates(u)
    PROVE  port' \in Seq(Updating)
<1>1. port' = Append(port, u)
    BY DEF Updates
<1> QED
    BY <1>1, AppendProperties

---------------------------------------------------------------------------
(* The window's task and the user. *)

LEMMA WindowPreserves ==
    ASSUME IInv, WindowStep
    PROVE  IInv'
<1> USE DEF IInv, None
<1>1. OwnTypes /\ ListTypes /\ SemaTypes
    BY Types
<1>2. UNCHANGED <<listvars, transfer, todo, left>>
    BY DEF WindowStep, Buildautheditwindow, Stops, Modified, Redraws, Closeautheditwindow,
           Freelbnodes, Ends
<1>3. Invs' /\ ListTypes' /\ SemaTypes'
    BY <1>1, <1>2, Frame, ListFrame DEF listvars, SemaTypes, Doing
<1>4. OwnTypes'
  <2> DEFINE W == [at : Ats, back : {"top", "done"}, break : BOOLEAN,
                   shown : Seq([an : Node, auth : AuthRecord])]
  <2>1. window \in W /\ port \in Seq(Updating) /\ inbox \in Nat /\ missed \in BOOLEAN
    BY <1>1 DEF OwnTypes
  <2>2. Allocnodes \in Seq([an : Node, auth : AuthRecord])
    BY <1>1, Shown
  <2>3. Step("closed") \in Updating /\ Step("dim") \in Updating
    BY DEF Step, Updating, Operands
  <2>4. ASSUME window.at = "redraw" \/ window.at = "top" \/ window.at = "build", Allocates
        PROVE window' \in W
    BY <2>1, <2>2, <2>4 DEF Allocates, Ats
  <2>5. window' \in W
    <3>1. CASE Buildautheditwindow
        BY <2>1, <2>4, <3>1 DEF Buildautheditwindow, Ats
    <3>2. CASE Stops
        BY <2>1, <3>2 DEF Stops, Ats
    <3>3. CASE Modified
        BY <2>4, <3>3 DEF Modified
    <3>4. CASE Redraws
        BY <2>4, <3>4 DEF Redraws, Answered
    <3>5. CASE Closeautheditwindow
        BY <2>1, <3>5 DEF Closeautheditwindow, Ats
    <3>6. CASE Freelbnodes
        BY <2>1, <3>6, EmptySeq DEF Freelbnodes, Ats
    <3>7. CASE Ends
        BY <2>1, <3>7 DEF Ends, Ats
    <3> QED
        BY <3>1, <3>2, <3>3, <3>4, <3>5, <3>6, <3>7 DEF WindowStep
  <2>7. port' \in Seq(Updating)
    <3>1. port' = port \/ Updates(Step("closed")) \/ Updates(Step("dim"))
        BY DEF WindowStep, Buildautheditwindow, Stops, Modified, Redraws, Closeautheditwindow,
               Freelbnodes, Ends
    <3> QED
        BY <2>1, <2>3, <3>1, UpdateTyped
  <2>8. inbox' \in Nat
    <3>1. inbox' = inbox \/ inbox' = 0 \/ (inbox > 0 /\ inbox' = inbox - 1)
        BY DEF WindowStep, Buildautheditwindow, Stops, Modified, Redraws, Closeautheditwindow,
               Freelbnodes, Ends
    <3> QED
        BY <2>1, <3>1
  <2>9. missed' \in BOOLEAN
    <3>1. missed' = missed \/ missed' = FALSE
        BY DEF WindowStep, Buildautheditwindow, Stops, Modified, Redraws, Answered,
               Closeautheditwindow, Freelbnodes, Ends
    <3> QED
        BY <2>1, <3>1
  <2>6. UNCHANGED aew
    BY DEF WindowStep, Buildautheditwindow, Stops, Modified, Redraws, Closeautheditwindow,
           Freelbnodes, Ends
  <2> QED
    BY <1>1, <1>2, <2>5, <2>6, <2>7, <2>8, <2>9 DEF OwnTypes, listvars
<1> QED
    BY <1>3, <1>4, Types DEF TypeOK, OwnTypes, ListTypes, SemaTypes, Steps, Updating

LEMMA UserPreserves ==
    ASSUME IInv, User
    PROVE  IInv'
<1> DEFINE W == [at : Ats, back : {"top", "done"}, break : BOOLEAN,
                 shown : Seq([an : Node, auth : AuthRecord])]
<1>1. OwnTypes /\ ListTypes /\ SemaTypes
    BY Types DEF IInv
<1>2. /\ UNCHANGED <<listvars, transfer, todo, aew, inbox, missed>>
      /\ Input /\ left' = [left EXCEPT !.inputs = @ - 1]
    BY DEF User, Closes, Delentry, Changeentry, Entry, SemaForUpdate, Input, listvars
<1>3. left \in [calls : Nat, inputs : Nat, quit : BOOLEAN] /\ left.inputs > 0
    BY <1>1, <1>2 DEF OwnTypes, Input
<1>4. left' \in [calls : Nat, inputs : Nat, quit : BOOLEAN] /\ left'.quit = left.quit
    BY <1>2, <1>3
<1>5. Invs' /\ ListTypes' /\ SemaTypes'
    BY <1>1, <1>2, <1>4, Frame, ListFrame DEF IInv, listvars, SemaTypes, Doing
<1>6. window \in W /\ port \in Seq(Updating)
    BY <1>1 DEF OwnTypes
<1>7. window' \in W /\ port' \in Seq(Updating)
  <2>1. CASE Closes
    <3>1. window' = [window EXCEPT !.at = "done"] /\ port' = port
        BY <2>1 DEF Closes
    <3> QED
        BY <1>6, <3>1 DEF Ats
  <2>2. ASSUME NEW do \in {"delete", "change"}, NEW i \in DOMAIN window.shown,
               NEW s \in Secret \cup {None}, Entry(do, window.shown[i].an, s)
        PROVE  window' \in W /\ port' \in Seq(Updating)
    <3>1. window' = [window EXCEPT !.at = "sync", !.back = window.at]
        BY <2>2 DEF Entry
    <3>2. window.at \in {"top", "done"}
        BY <1>2 DEF Input
    <3>3. window' \in W
        BY <1>6, <3>1, <3>2 DEF Ats
    <3>4. window.shown[i] \in [an : Node, auth : AuthRecord]
      <4>1. window.shown \in Seq([an : Node, auth : AuthRecord])
        BY <1>6
      <4> QED
        BY <4>1, LenProperties, ElementOfSeq
    <3>5. [do |-> do, an |-> window.shown[i].an, s |-> s] \in Updating
        BY <3>4 DEF Updating, Operands
    <3>6. Updates([do |-> do, an |-> window.shown[i].an, s |-> s])
        BY <2>2 DEF Entry
    <3> QED
        BY <1>6, <3>3, <3>5, <3>6, UpdateTyped
  <2> QED
    BY <2>1, <2>2 DEF User, Delentry, Changeentry
<1>8. OwnTypes'
    BY <1>1, <1>2, <1>4, <1>7 DEF OwnTypes
<1> QED
    BY <1>5, <1>8, Types DEF IInv, TypeOK, OwnTypes, ListTypes, SemaTypes, Steps, Updating

---------------------------------------------------------------------------
(* Transfers. *)

TransferRecord ==
    [at : {"idle", "send", "ask", "remember", "notify", "done"},
     auth : AuthRecord, tried : BOOLEAN, found : SUBSET Node, then : {None, "done", "send"}]

\* A transfer goes on to r and keeps what is promised of it.
Promised(r) ==
    /\ r \in TransferRecord
    /\ r.at \in {"ask", "remember"} => r.auth.realm \in Realm
    /\ r.at = "send" /\ ~r.tried => r.auth = Freed \/ r.auth.realm \in Realm
    /\ r.at = "notify" => r.then = "done" \/ (r.then = "send" /\ r.auth.realm \in Realm)

LEMMA TransferTypes ==
    ASSUME OwnTypes, NEW t \in Transfer, NEW r \in TransferRecord, Goes(t, r),
           UNCHANGED <<todo, aew, port, window, left>>,
           (inbox' = inbox /\ missed' = missed) \/ Modifiedlist
    PROVE  OwnTypes'
<1>1. transfer' \in [Transfer -> TransferRecord]
    BY DEF OwnTypes, Goes, TransferRecord
<1>2. inbox \in Nat /\ missed \in BOOLEAN
    BY DEF OwnTypes
<1>3. inbox' \in Nat
  <2>1. inbox' = inbox \/ inbox' = inbox + 1
    BY DEF Modifiedlist
  <2> QED
    BY <1>2, <2>1
<1>4. missed' \in BOOLEAN
    BY <1>2 DEF Modifiedlist
<1> QED
    BY <1>1, <1>3, <1>4 DEF OwnTypes, TransferRecord

\* A transfer that neither starts nor ends a search.
LEMMA TransferFrame ==
    ASSUME Invs, ListTypes, SemaTypes, OwnTypes,
           NEW t \in Transfer, NEW r, Promised(r), Goes(t, r),
           transfer[t].at # "remember", r.at # "remember", UNCHANGED <<listvars, todo, left>>
    PROVE  Invs' /\ ListTypes' /\ SemaTypes'
<1>1. /\ auths' = auths /\ entry' = entry /\ authsema' = authsema /\ saved' = saved
      /\ todo' = todo /\ left' = left
    BY DEF listvars
<1>2. Live' = Live /\ Contents' = Contents
    BY <1>1 DEF Live, ToSet, Contents
<1>3. /\ transfer'[t] = r
      /\ \A u \in Transfer : u # t => transfer'[u] = transfer[u]
    BY DEF OwnTypes, Goes
<1>4. ListInv' /\ OneEntryForRealm'
    BY <1>1, <1>2 DEF Invs, ListInv, OneEntryForRealm
<1>5. AskInv'
    BY <1>3 DEF Invs, AskInv, Promised
<1>6. FoundInv'
    BY <1>1, <1>2, <1>3 DEF Invs, FoundInv, Findauth
<1>7. TodoInv'
    BY <1>1 DEF Invs, TodoInv, Doing
<1>8. SavedInv'
    BY <1>1, <1>2 DEF Invs, SavedInv, ToSet
<1>9. SemaTypes'
    BY <1>1, <1>3 DEF SemaTypes, Doing
<1> QED
    BY <1>1, <1>4, <1>5, <1>6, <1>7, <1>8, <1>9, ListFrame DEF Invs

\* The steps of a transfer that leave the list and its semaphore alone.
LEMMA TransferPromises ==
    ASSUME IInv, NEW t \in Transfer,
           Start(t) \/ Responds(t) \/ Refused(t) \/ Cancels(t) \/ Notifies(t)
    PROVE  /\ UNCHANGED listvars
           /\ transfer[t].at # "remember"
           /\ \E r \in TransferRecord : Goes(t, r) /\ Promised(r) /\ r.at # "remember"
<1> DEFINE tr == transfer[t]
<1>1. tr \in TransferRecord /\ AskInv /\ ListInv /\ ListTypes
    BY Types DEF IInv, Invs, OwnTypes, TransferRecord
<1>2. Done \in TransferRecord /\ Promised(Done) /\ Done.at = "done" /\ Freed \in AuthRecord
    BY DEF Done, Idle, Freed, TransferRecord, Promised, AuthRecord
<1>3. \A n \in Live : n \in Node /\ entry[n] \in AuthRecord /\ entry[n].realm \in Realm
    BY <1>1 DEF ListTypes, ListInv, Live, ToSet
<1>4. CASE Start(t)
  <2>1. auths # <<>> => Head(auths) \in Live
    BY <1>1 DEF ListTypes, Live, ToSet
  <2> DEFINE guess == IF auths = <<>> THEN Freed ELSE entry[Head(auths)]
             named == [realm |-> Dummyrealm, cookie |-> Dummyrealm]
             r == [tr EXCEPT !.at = "send", !.auth = guess]
             q == [tr EXCEPT !.at = "send", !.tried = TRUE, !.auth = named]
  <2>2. guess \in AuthRecord /\ (guess = Freed \/ guess.realm \in Realm)
    BY <1>2, <1>3, <2>1
  <2>3. r \in TransferRecord /\ Promised(r) /\ r.at = "send"
    BY <1>1, <2>2 DEF TransferRecord, Promised
  <2>4. q \in TransferRecord /\ Promised(q) /\ q.at = "send"
    BY <1>1 DEF TransferRecord, Promised, AuthRecord
  <2>5. Goes(t, r) \/ Goes(t, q)
    BY <1>4 DEF Start
  <2> QED
    BY <1>4, <2>3, <2>4, <2>5 DEF Start
<1>5. CASE Responds(t)
    BY <1>2, <1>5 DEF Responds
<1>6. CASE Cancels(t)
    BY <1>2, <1>6 DEF Cancels
<1>7. CASE Refused(t)
  <2>1. PICK auth \in {tr.auth} \cup {[realm |-> r, cookie |-> None] : r \in Realm} :
          LET known == Findauth(auth.realm)
              cookie == IF auth = tr.auth THEN auth.cookie
                        ELSE IF known = {} THEN None ELSE entry[CHOOSE n \in known : TRUE].cookie
          IN Goes(t, IF auth = Freed THEN Done
                     ELSE [tr EXCEPT !.at = IF cookie = None THEN "ask" ELSE "send",
                                     !.tried = TRUE,
                                     !.auth = [realm |-> auth.realm, cookie |-> cookie]])
    BY <1>7 DEF Refused
  <2> DEFINE known == Findauth(auth.realm)
             cookie == IF auth = tr.auth THEN auth.cookie
                       ELSE IF known = {} THEN None ELSE entry[CHOOSE n \in known : TRUE].cookie
             r == [tr EXCEPT !.at = IF cookie = None THEN "ask" ELSE "send",
                             !.tried = TRUE,
                             !.auth = [realm |-> auth.realm, cookie |-> cookie]]
  <2>2. auth \in AuthRecord /\ (auth = Freed \/ auth.realm \in Realm)
    <3>1. tr.at = "send" /\ ~tr.tried
        BY <1>7 DEF Refused
    <3>2. tr.auth \in AuthRecord /\ (tr.auth = Freed \/ tr.auth.realm \in Realm)
        BY <1>1, <3>1 DEF AskInv, TransferRecord
    <3>3. \A q \in Realm : /\ [realm |-> q, cookie |-> None] \in AuthRecord
                           /\ [realm |-> q, cookie |-> None].realm \in Realm
        BY DEF AuthRecord
    <3> QED
        BY <3>2, <3>3
  <2>3. known # {} => (CHOOSE n \in known : TRUE) \in Live
    BY DEF Findauth
  <2>4. cookie \in Secret \cup {Dummyrealm, None}
    BY <1>3, <2>2, <2>3 DEF AuthRecord
  <2>5. r \in TransferRecord /\ r.at # "remember" /\ (auth # Freed => Promised(r))
    <3>1. [realm |-> auth.realm, cookie |-> cookie] \in AuthRecord
        BY <2>2, <2>4 DEF AuthRecord
    <3>2. (IF cookie = None THEN "ask" ELSE "send") \in {"ask", "send"}
        OBVIOUS
    <3> HIDE DEF cookie
    <3> QED
        BY <1>1, <2>2, <3>1, <3>2 DEF TransferRecord, Promised
  <2>6. Goes(t, IF auth = Freed THEN Done ELSE r)
    BY <2>1
  <2> QED
    BY <1>2, <1>7, <2>5, <2>6 DEF Refused
<1>8. CASE Notifies(t)
  <2> DEFINE r == [tr EXCEPT !.at = tr.then, !.then = None]
  <2>1. tr.at = "notify" /\ Goes(t, IF tr.then = "done" THEN Done ELSE r) /\ UNCHANGED listvars
    BY <1>8 DEF Notifies
  <2>2. tr.then # "done" => tr.then = "send" /\ tr.auth.realm \in Realm
    BY <1>1, <2>1 DEF AskInv
  <2>3. tr.then # "done" => r \in TransferRecord /\ Promised(r) /\ r.at # "remember"
    BY <1>1, <2>2 DEF TransferRecord, Promised
  <2> QED
    BY <1>2, <2>1, <2>3
<1> QED
    BY <1>4, <1>5, <1>6, <1>7, <1>8

---------------------------------------------------------------------------
(* Changes of the list. *)

LEMMA RemoveAtElements ==
    ASSUME NEW S, NEW s \in Seq(S), NEW i \in 1..Len(s)
    PROVE  /\ RemoveAt(s, i) \in Seq(S)
           /\ Len(RemoveAt(s, i)) = Len(s) - 1
           /\ \A j \in 1..Len(s) - 1 : RemoveAt(s, i)[j] = s[IF j < i THEN j ELSE j + 1]
<1> DEFINE a == SubSeq(s, 1, i - 1)
           b == SubSeq(s, i + 1, Len(s))
<1>1. Len(s) \in Nat /\ \A k \in 1..Len(s) : s[k] \in S
    BY LenProperties, ElementOfSeq
<1>2. a \in Seq(S) /\ Len(a) = i - 1 /\ \A j \in 1..i - 1 : a[j] = s[j]
    BY <1>1, SubSeqProperties
<1>3. b \in Seq(S) /\ Len(b) = Len(s) - i /\ \A j \in 1..Len(s) - i : b[j] = s[i + j]
    BY <1>1, SubSeqProperties
<1> HIDE DEF a, b
<1>4. a \o b \in Seq(S) /\ Len(a \o b) = Len(s) - 1
  <2>1. a \o b \in Seq(S) /\ Len(a \o b) = Len(a) + Len(b)
    BY <1>2, <1>3, ConcatProperties
  <2>2. i \in Nat
    OBVIOUS
  <2> QED
    BY <1>1, <1>2, <1>3, <2>1, <2>2
<1>5. ASSUME NEW j \in 1..Len(s) - 1
      PROVE  (a \o b)[j] = s[IF j < i THEN j ELSE j + 1]
    BY <1>1, <1>2, <1>3, <1>5, ConcatProperties
<1> QED
    BY <1>4, <1>5 DEF RemoveAt, a, b

\* Changed list: types and invariants, and only entries were written to.
Kept ==
    /\ auths' \in Seq(Node) /\ entry' \in [Node -> AuthRecord]
    /\ \A n \in Node : n \in Live' <=> entry'[n] # Freed
    /\ ListInv' /\ OneEntryForRealm'
    /\ \A n \in Node : entry'[n] # entry[n] => n \in Live \cup Live'

LEMMA FreesKeeps ==
    ASSUME ListTypes, ListInv, OneEntryForRealm, NEW found, Frees(found)
    PROVE  Kept
<1>1. auths \in Seq(Node) /\ entry \in [Node -> AuthRecord]
      /\ \A n \in Node : n \in Live <=> entry[n] # Freed
    BY DEF ListTypes
<1>2. CASE UNCHANGED <<auths, entry>>
    BY <1>1, <1>2 DEF Kept, ListInv, OneEntryForRealm, Live, ToSet
<1>3. CASE \E i \in DOMAIN auths : /\ auths' = RemoveAt(auths, i)
                                   /\ entry' = [entry EXCEPT ![auths[i]] = Freed]
  <2>1. PICK i \in 1..Len(auths) : /\ auths' = RemoveAt(auths, i)
                                   /\ entry' = [entry EXCEPT ![auths[i]] = Freed]
    <3>1. DOMAIN auths = 1..Len(auths)
        BY <1>1
    <3> QED
        BY <1>3, <3>1
  <2>2. /\ auths' \in Seq(Node) /\ Len(auths') = Len(auths) - 1
        /\ \A j \in 1..Len(auths) - 1 : auths'[j] = auths[IF j < i THEN j ELSE j + 1]
    BY <1>1, <2>1, RemoveAtElements
  <2>3. Len(auths) \in Nat /\ DOMAIN auths = 1..Len(auths) /\ DOMAIN auths' = 1..Len(auths) - 1
    BY <1>1, <2>2
  <2>4. \A j, k \in DOMAIN auths : auths[j] = auths[k] => j = k
    BY DEF ListInv
  <2>5. \A j, k \in DOMAIN auths' : auths'[j] = auths'[k] => j = k
    BY <2>2, <2>3, <2>4
  <2>6. ASSUME NEW n \in Live'
        PROVE  n \in Live /\ n # auths[i]
    <3>1. PICK j \in 1..Len(auths) - 1 : n = auths'[j]
        BY <2>3 DEF Live, ToSet
    <3>2. PICK k \in 1..Len(auths) : k # i /\ n = auths[k]
      <4>1. CASE j < i
        BY <2>2, <2>3, <3>1, <4>1
      <4>2. CASE ~(j < i)
        BY <2>2, <2>3, <3>1, <4>2
      <4> QED
        BY <4>1, <4>2
    <3> QED
        BY <2>3, <2>4, <3>2 DEF Live, ToSet
  <2>7. ASSUME NEW n \in Live, n # auths[i]
        PROVE  n \in Live'
    <3>1. PICK k \in 1..Len(auths) : n = auths[k] /\ k # i
        BY <2>3, <2>7 DEF Live, ToSet
    <3>2. CASE k < i
        BY <2>2, <2>3, <3>1, <3>2 DEF Live, ToSet
    <3>3. CASE k > i
      <4>1. k - 1 \in 1..Len(auths) - 1 /\ auths'[k - 1] = auths[k]
        BY <2>2, <2>3, <3>1, <3>3
      <4> QED
        BY <2>3, <3>1, <4>1 DEF Live, ToSet
    <3> QED
        BY <2>3, <3>1, <3>2, <3>3
  <2>8. auths[i] \in Node /\ auths[i] \in Live
    BY <1>1, <2>3 DEF Live, ToSet
  <2>9. entry' \in [Node -> AuthRecord]
    BY <1>1, <2>1 DEF AuthRecord, Freed
  <2>10. \A n \in Node : n \in Live' <=> entry'[n] # Freed
    BY <1>1, <2>1, <2>6, <2>7, <2>8
  <2>11. Live \subseteq Node /\ \A n \in Live' : entry'[n] = entry[n]
    BY <1>1, <2>1, <2>6 DEF Live, ToSet
  <2>12. ListInv' /\ OneEntryForRealm'
    BY <2>5, <2>6, <2>11 DEF ListInv, OneEntryForRealm
  <2>13. \A n \in Node : entry'[n] # entry[n] => n \in Live
    BY <1>1, <2>1, <2>8
  <2> QED
    BY <2>2, <2>9, <2>10, <2>12, <2>13 DEF Kept
<1> QED
    BY <1>2, <1>3 DEF Frees

\* The insertion, or the change of the password, of Rememberauth: nobody has
\* changed the list since the search.
LEMMA RememberKeeps ==
    ASSUME IInv, NEW t \in Transfer, Rememberauth(t)
    PROVE  Kept
<1> DEFINE tr == transfer[t]
<1>1. auths \in Seq(Node) /\ entry \in [Node -> AuthRecord]
      /\ \A n \in Node : n \in Live <=> entry[n] # Freed
    BY Types DEF IInv, ListTypes
<1>2. tr \in TransferRecord /\ tr.at = "remember"
    BY Types DEF IInv, OwnTypes, TransferRecord, Rememberauth
<1>3. tr.found = Findauth(tr.auth.realm) /\ tr.auth.realm \in Realm
    BY <1>2 DEF IInv, Invs, FoundInv, AskInv
<1>4. ListInv /\ OneEntryForRealm
    BY DEF IInv, Invs
<1>5. CASE \E n \in Node \ Live : /\ auths' = <<n>> \o auths
                                  /\ entry' = [entry EXCEPT ![n] = tr.auth]
                                  /\ tr.found = {}
  <2>1. PICK n \in Node \ Live : /\ auths' = <<n>> \o auths
                                 /\ entry' = [entry EXCEPT ![n] = tr.auth]
                                 /\ tr.found = {}
    BY <1>5
  <2>2. /\ <<n>> \in Seq(Node) /\ Len(<<n>>) = 1 /\ <<n>>[1] = n
        /\ Len(auths) \in Nat /\ DOMAIN auths = 1..Len(auths)
    BY <1>1
  <2>3. /\ auths' \in Seq(Node) /\ Len(auths') = 1 + Len(auths)
        /\ auths'[1] = n /\ \A i \in 1..Len(auths) : auths'[i + 1] = auths[i]
    BY <1>1, <2>1, <2>2, ConcatProperties
  <2>4. DOMAIN auths' = 1..Len(auths) + 1
    BY <2>2, <2>3
  <2>5. Live' = Live \cup {n}
    <3>1. ASSUME NEW m \in Live' PROVE m \in Live \cup {n}
      <4>1. PICK i \in 1..Len(auths) + 1 : m = auths'[i]
        BY <2>4 DEF Live, ToSet
      <4>2. CASE i = 1
        BY <2>3, <4>1, <4>2
      <4>3. CASE i # 1
        <5>1. i - 1 \in 1..Len(auths) /\ m = auths[i - 1]
            BY <2>2, <2>3, <4>1, <4>3
        <5> QED
            BY <2>2, <5>1 DEF Live, ToSet
      <4> QED
        BY <4>2, <4>3
    <3>2. ASSUME NEW m \in Live PROVE m \in Live'
      <4>1. PICK i \in 1..Len(auths) : m = auths[i]
        BY <2>2 DEF Live, ToSet
      <4>2. i + 1 \in 1..Len(auths) + 1 /\ m = auths'[i + 1]
        BY <2>2, <2>3, <4>1
      <4> QED
        BY <2>4, <4>2 DEF Live, ToSet
    <3>3. n \in Live'
        BY <2>2, <2>3, <2>4 DEF Live, ToSet
    <3> QED
        BY <3>1, <3>2, <3>3
  <2>6. \A i, j \in DOMAIN auths' : auths'[i] = auths'[j] => i = j
    <3>1. \A i \in 1..Len(auths) + 1 : i # 1 => auths'[i] \in Live /\ i - 1 \in 1..Len(auths)
                                               /\ auths'[i] = auths[i - 1]
      <4>1. \A i \in 1..Len(auths) : auths[i] \in Live
        BY <2>2 DEF Live, ToSet
      <4>2. \A i \in 1..Len(auths) + 1 : i # 1 => i - 1 \in 1..Len(auths) /\ i = (i - 1) + 1
        BY <2>2
      <4> QED
        BY <2>3, <4>1, <4>2
    <3>2. n \notin Live
        OBVIOUS
    <3>3. \A i, j \in 1..Len(auths) : auths[i] = auths[j] => i = j
        BY <1>4, <2>2 DEF ListInv
    <3> QED
        BY <2>2, <2>3, <2>4, <3>1, <3>2, <3>3
  <2>7. /\ entry' \in [Node -> AuthRecord] /\ entry'[n] = tr.auth
        /\ \A m \in Node : m # n => entry'[m] = entry[m]
    BY <1>1, <1>2, <2>1 DEF TransferRecord
  <2>8. tr.auth # Freed
    BY <1>3, Names DEF Freed
  <2>9. Live \subseteq Node
    BY <1>1, <2>2 DEF Live, ToSet
  <2>10. \A m \in Node : m \in Live' <=> entry'[m] # Freed
    BY <1>1, <2>5, <2>7, <2>8
  <2>11. \A m \in Live : entry[m].realm # tr.auth.realm
    BY <1>3, <2>1 DEF Findauth
  <2>12. ListInv'
    BY <1>3, <1>4, <2>5, <2>6, <2>7, <2>9 DEF ListInv
  <2>13. OneEntryForRealm'
    BY <1>4, <2>5, <2>7, <2>9, <2>11 DEF OneEntryForRealm
  <2> QED
    BY <2>3, <2>5, <2>7, <2>10, <2>12, <2>13 DEF Kept
<1>6. CASE /\ \E n \in tr.found : entry' = [entry EXCEPT ![n].cookie = tr.auth.cookie]
           /\ UNCHANGED auths
  <2>1. PICK n \in tr.found : entry' = [entry EXCEPT ![n].cookie = tr.auth.cookie]
    BY <1>6
  <2>2. n \in Live /\ Live' = Live /\ Live \subseteq Node
    BY <1>1, <1>3, <1>6 DEF Findauth, Live, ToSet
  <2>3. entry[n].realm \in Realm /\ entry[n] \in AuthRecord
    BY <1>1, <1>4, <2>2 DEF ListInv
  <2>4. /\ entry' \in [Node -> AuthRecord] /\ entry'[n].realm = entry[n].realm
        /\ \A m \in Node : m # n => entry'[m] = entry[m]
    BY <1>1, <1>2, <2>1, <2>2, <2>3 DEF TransferRecord, AuthRecord
  <2>5. entry'[n] # Freed
    BY <2>3, <2>4, Names DEF Freed
  <2>6. \A m \in Node : m \in Live' <=> entry'[m] # Freed
    BY <1>1, <2>2, <2>4, <2>5
  <2>7. \A m \in Live : entry'[m].realm = entry[m].realm
    BY <2>2, <2>4
  <2>8. ListInv' /\ OneEntryForRealm'
    BY <1>4, <1>6, <2>2, <2>7 DEF ListInv, OneEntryForRealm
  <2> QED
    BY <1>1, <1>6, <2>2, <2>4, <2>6, <2>8 DEF Kept
<1> QED
    BY <1>5, <1>6 DEF Rememberauth

---------------------------------------------------------------------------
(* The transfers preserve the invariant. *)

\* After a change of the list it is marked as changed, or AWeb quits, and
\* nobody holds the semaphore.
LEMMA ChangePreserves ==
    ASSUME Kept, \A t \in Transfer : transfer'[t].at # "remember", authsema' = None,
           saved' \in [changed : BOOLEAN, file : Seq(AuthRecord)],
           ~saved'.changed => left'.quit
    PROVE  ListTypes' /\ SemaTypes' /\ ListInv' /\ OneEntryForRealm' /\ FoundInv' /\ SavedInv'
<1>1. ListTypes' /\ ListInv' /\ OneEntryForRealm'
    BY DEF Kept, ListTypes
<1>2. SemaTypes' /\ FoundInv'
    BY DEF SemaTypes, FoundInv
<1>3. SavedInv'
    BY DEF SavedInv, None
<1> QED
    BY <1>1, <1>2, <1>3

LEMMA TransferPreserves ==
    ASSUME IInv, NEW t \in Transfer, TransferStep(t)
    PROVE  IInv'
<1> DEFINE tr == transfer[t]
<1>1. OwnTypes /\ ListTypes /\ SemaTypes /\ Invs
    BY Types DEF IInv
<1>2. ListInv /\ OneEntryForRealm /\ AskInv /\ FoundInv /\ TodoInv /\ SavedInv
    BY <1>1 DEF Invs
<1>3. tr \in TransferRecord /\ saved \in [changed : BOOLEAN, file : Seq(AuthRecord)]
    BY <1>1 DEF OwnTypes, ListTypes, TransferRecord
<1>4. UNCHANGED <<todo, aew, port, window, left>>
      /\ ((inbox' = inbox /\ missed' = missed) \/ Modifiedlist)
    BY DEF TransferStep, Start, Responds, Refused, RefusedAgain, Cancels, Answers, Rememberauth,
           Notifies, Quiet
<1>5. ASSUME authsema' # "main", authsema # "main"
      PROVE  TodoInv'
    BY <1>2, <1>4, <1>5 DEF TodoInv, Doing
<1>6. CASE Start(t) \/ Responds(t) \/ Refused(t) \/ Cancels(t) \/ Notifies(t)
  <2>1. UNCHANGED listvars /\ tr.at # "remember"
    BY <1>6, TransferPromises
  <2>2. PICK r \in TransferRecord : Goes(t, r) /\ Promised(r) /\ r.at # "remember"
    BY <1>6, TransferPromises
  <2>3. Invs' /\ ListTypes' /\ SemaTypes'
    BY <1>1, <1>4, <2>1, <2>2, TransferFrame
  <2>4. OwnTypes'
    BY <1>1, <1>4, <2>2, TransferTypes
  <2> QED
    BY <2>3, <2>4, Types DEF IInv, TypeOK, OwnTypes, ListTypes, SemaTypes, Steps, Updating
<1>7. CASE Answers(t)
  <2>1. PICK s \in Secret : Goes(t, [tr EXCEPT !.at = "remember", !.auth.cookie = s,
                                               !.found = Findauth(tr.auth.realm)])
    BY <1>7 DEF Answers
  <2> DEFINE r == [tr EXCEPT !.at = "remember", !.auth.cookie = s,
                             !.found = Findauth(tr.auth.realm)]
  <2>2. tr.at = "ask" /\ authsema = None /\ authsema' = t /\ UNCHANGED <<auths, entry, saved>>
    BY <1>7 DEF Answers, Free, Held
  <2>3. tr.auth \in AuthRecord /\ tr.auth.realm \in Realm
    BY <1>2, <1>3, <2>2 DEF AskInv, TransferRecord
  <2>4. Findauth(tr.auth.realm) \subseteq Node
    BY <1>1 DEF ListTypes, Findauth, Live, ToSet
  <2>5. r \in TransferRecord /\ r.at = "remember" /\ r.auth.realm = tr.auth.realm
        /\ r.found = Findauth(tr.auth.realm)
    BY <1>3, <2>3, <2>4 DEF TransferRecord, AuthRecord
  <2> HIDE DEF r
  <2>6. /\ transfer'[t] = r
        /\ \A u \in Transfer : u # t => transfer'[u] = transfer[u]
    BY <1>1, <2>1 DEF OwnTypes, Goes, r
  <2>7. \A u \in Transfer : transfer[u].at # "remember"
    BY <1>2, <2>2, Names DEF FoundInv
  <2>8. Live' = Live /\ Contents' = Contents
    BY <2>2 DEF Live, ToSet, Contents
  <2>9. ListInv' /\ OneEntryForRealm' /\ ListTypes'
    BY <1>1, <1>2, <2>2, <2>8, ListFrame DEF ListInv, OneEntryForRealm
  <2>10. AskInv'
    BY <1>2, <2>3, <2>5, <2>6 DEF AskInv
  <2>11. FoundInv'
    BY <2>2, <2>5, <2>6, <2>7, <2>8 DEF FoundInv, Findauth
  <2>12. TodoInv' /\ SavedInv'
    BY <1>2, <1>4, <1>5, <2>2, <2>8, Names DEF SavedInv, ToSet, None
  <2>13. SemaTypes'
    BY <2>2, <2>5, <2>6 DEF SemaTypes
  <2>14. OwnTypes'
    BY <1>1, <1>4, <2>1, <2>5, TransferTypes DEF r
  <2> QED
    BY <2>9, <2>10, <2>11, <2>12, <2>13, <2>14, Types
       DEF IInv, Invs, TypeOK, OwnTypes, ListTypes, SemaTypes, Steps, Updating
<1>8. CASE RefusedAgain(t) \/ Rememberauth(t)
  <2>1. Kept
    BY <1>1, <1>2, <1>8, FreesKeeps, RememberKeeps DEF RefusedAgain
  <2>2. saved' = [saved EXCEPT !.changed = TRUE] /\ authsema' = None
    BY <1>8 DEF RefusedAgain, Rememberauth, Free
  <2>3. \A u \in Transfer : u # t => transfer[u].at # "remember"
    BY <1>2, <1>8, Names DEF FoundInv, RefusedAgain, Rememberauth, Free
  <2>4. \E r \in TransferRecord : Goes(t, r) /\ Promised(r) /\ r.at = "notify"
    <3>1. CASE RefusedAgain(t)
      <4> DEFINE r == [tr EXCEPT !.at = "notify", !.then = "done"]
      <4>1. r \in TransferRecord /\ Promised(r) /\ r.at = "notify"
        BY <1>3 DEF TransferRecord, Promised
      <4> QED
        BY <3>1, <4>1 DEF RefusedAgain
    <3>2. CASE Rememberauth(t)
      <4> DEFINE r == [tr EXCEPT !.at = "notify", !.then = "send", !.found = {}]
      <4>1. tr.auth.realm \in Realm
        BY <1>2, <3>2 DEF AskInv, Rememberauth
      <4>2. r \in TransferRecord /\ Promised(r) /\ r.at = "notify"
        BY <1>3, <4>1 DEF TransferRecord, Promised
      <4> QED
        BY <3>2, <4>2 DEF Rememberauth
    <3> QED
        BY <1>8, <3>1, <3>2
  <2>5. PICK r \in TransferRecord : Goes(t, r) /\ Promised(r) /\ r.at = "notify"
    BY <2>4
  <2>6. /\ transfer'[t] = r
        /\ \A u \in Transfer : u # t => transfer'[u] = transfer[u]
    BY <1>1, <2>5 DEF OwnTypes, Goes
  <2>7. AskInv' /\ \A u \in Transfer : transfer'[u].at # "remember"
    BY <1>2, <2>3, <2>5, <2>6 DEF AskInv, Promised
  <2>8. saved' \in [changed : BOOLEAN, file : Seq(AuthRecord)] /\ saved'.changed
    BY <1>3, <2>2
  <2>9. ListTypes' /\ SemaTypes' /\ ListInv' /\ OneEntryForRealm' /\ FoundInv' /\ SavedInv'
    BY <2>1, <2>2, <2>7, <2>8, ChangePreserves
  <2>10. authsema # "main"
    BY <1>2, <1>8, Names DEF RefusedAgain, Rememberauth, Free, FoundInv, None
  <2>11. TodoInv'
    BY <1>5, <2>2, <2>10 DEF None
  <2>12. OwnTypes'
    BY <1>1, <1>4, <2>5, TransferTypes
  <2> QED
    BY <2>7, <2>9, <2>11, <2>12, Types
       DEF IInv, Invs, TypeOK, OwnTypes, ListTypes, SemaTypes, Steps, Updating
<1> QED
    BY <1>6, <1>7, <1>8 DEF TransferStep

---------------------------------------------------------------------------
(* Main: what is left to do. *)

\* The steps that neither flush the list nor end a saving.
Plain == {s \in Steps : s.do \notin {"saved", "flush"}}

LEMMA StepPlain == \A do \in Dos \ {"saved", "flush"} : Step(do) \in Plain
    BY DEF Step, Plain, Steps, Operands

\* What has to hold of todo after a step that neither flushes nor saves.
PlainLeft ==
    /\ todo' \in Seq(Steps)
    /\ \A i \in DOMAIN todo' : todo'[i].do # "saved" /\ (todo'[i].do = "flush" => left.quit)

LEMMA PlainTodo ==
    ASSUME todo \in Seq(Steps), TodoInv, NEW steps \in Seq(Plain),
           \/ todo # <<>> /\ todo' = steps \o Tail(todo)
           \/ ~Doing("saved") /\ todo' = steps \o todo
    PROVE  PlainLeft
<1>1. steps \in Seq(Steps) /\ \A i \in 1..Len(steps) : steps[i].do \notin {"saved", "flush"}
    BY DEF Plain
<1>2. ASSUME NEW rest \in Seq(Steps), todo' = steps \o rest,
             \A i \in 1..Len(rest) : rest[i].do # "saved" /\ (rest[i].do = "flush" => left.quit)
      PROVE  PlainLeft
  <2>1. /\ todo' \in Seq(Steps) /\ Len(todo') = Len(steps) + Len(rest)
        /\ \A i \in 1..Len(todo') : todo'[i] = IF i <= Len(steps) THEN steps[i]
                                               ELSE rest[i - Len(steps)]
    BY <1>1, <1>2, ConcatProperties
  <2>2. Len(steps) \in Nat /\ Len(rest) \in Nat /\ DOMAIN todo' = 1..Len(todo')
    BY <1>1, <2>1, LenProperties
  <2>3. ASSUME NEW i \in 1..Len(todo')
        PROVE  todo'[i].do # "saved" /\ (todo'[i].do = "flush" => left.quit)
    <3>1. CASE i <= Len(steps)
        BY <1>1, <2>1, <2>2, <3>1
    <3>2. CASE ~(i <= Len(steps))
      <4>1. i - Len(steps) \in 1..Len(rest) /\ todo'[i] = rest[i - Len(steps)]
        BY <2>1, <2>2, <3>2
      <4> QED
        BY <1>2, <4>1
    <3> QED
        BY <3>1, <3>2
  <2> QED
    BY <2>1, <2>2, <2>3 DEF PlainLeft
<1>3. /\ Len(todo) \in Nat /\ DOMAIN todo = 1..Len(todo)
      /\ \A i \in 1..Len(todo) : (todo[i].do = "saved" => i = 1)
                                  /\ (todo[i].do = "flush" => left.quit)
    BY LenProperties DEF TodoInv
<1>4. CASE todo # <<>> /\ todo' = steps \o Tail(todo)
  <2>1. /\ Tail(todo) \in Seq(Steps) /\ Len(Tail(todo)) = Len(todo) - 1
        /\ \A i \in 1..Len(todo) - 1 : Tail(todo)[i] = todo[i + 1]
    BY <1>4, HeadTailProperties
  <2>2. \A i \in 1..Len(todo) - 1 : i + 1 \in 1..Len(todo) /\ i + 1 # 1
    BY <1>3
  <2>3. \A i \in 1..Len(Tail(todo)) : /\ Tail(todo)[i].do # "saved"
                                      /\ Tail(todo)[i].do = "flush" => left.quit
    BY <1>3, <2>1, <2>2
  <2> QED
    BY <1>2, <1>4, <2>1, <2>3
<1>5. CASE ~Doing("saved") /\ todo' = steps \o todo
  <2>1. \A i \in 1..Len(todo) : todo[i].do # "saved"
    <3>1. todo # <<>> => Head(todo) = todo[1]
        BY HeadTailProperties
    <3> QED
        BY <1>3, <1>5, <3>1, EmptySeq DEF Doing
  <2> QED
    BY <1>2, <1>3, <1>5, <2>1
<1> QED
    BY <1>4, <1>5

\* Nothing is left to be ended: nor does main hold the semaphore.
LEMMA PlainTodoInv ==
    ASSUME PlainLeft, authsema' # "main", left'.quit = left.quit
    PROVE  TodoInv'
<1>1. todo' \in Seq(Steps) /\ DOMAIN todo' = 1..Len(todo') /\ Len(todo') \in Nat
    BY LenProperties DEF PlainLeft
<1>2. todo' # <<>> => Head(todo') = todo'[1] /\ 1 \in DOMAIN todo'
    BY <1>1, HeadTailProperties, EmptySeq
<1>3. ~Doing("saved")'
    BY <1>2 DEF Doing, PlainLeft
<1> QED
    BY <1>3 DEF TodoInv, PlainLeft

\* What a step of main puts before what is left.
LEMMA PlainSeqs ==
    /\ <<>> \in Seq(Plain)
    /\ \A a, b, c \in Dos \ {"saved", "flush"} :
          /\ <<Step(a)>> \in Seq(Plain)
          /\ <<Step(a), Step(b)>> \in Seq(Plain)
          /\ <<Step(a), Step(b), Step(c)>> \in Seq(Plain)
<1>1. \A a, b, c \in Plain : /\ <<a>> \in Seq(Plain)
                             /\ <<a, b>> \in Seq(Plain)
                             /\ <<a, b, c>> \in Seq(Plain)
    OBVIOUS
<1> QED
    BY <1>1, StepPlain, EmptySeq

LEMMA UpdatePlain ==
    ASSUME NEW u \in Updating
    PROVE  Updateauthedit(u) \in Seq(Plain)
<1>1. u \in Plain
    BY DEF Updating, Plain, Steps, Operands, Dos
<1>2. Step("answer") \in Plain
    BY StepPlain DEF Dos
<1>3. <<u, Step("answer")>> \in Seq(Plain) /\ <<Step("answer")>> \in Seq(Plain)
      /\ <<u>> \in Seq(Plain)
    BY <1>1, <1>2
<1>4. u.do \in {"delete", "change", "dim", "closed"}
    BY DEF Updating, Operands
<1> QED
    BY <1>3, <1>4 DEF Updateauthedit

\* Main leaves the list alone and does not flush or save next.
LEMMA MainFrame ==
    ASSUME Invs, ListTypes, SemaTypes, ~Doing("saved"), PlainLeft,
           UNCHANGED <<listvars, transfer, left>>
    PROVE  Invs' /\ ListTypes' /\ SemaTypes'
<1>1. /\ auths' = auths /\ entry' = entry /\ authsema' = authsema /\ saved' = saved
      /\ transfer' = transfer /\ left' = left
    BY DEF listvars
<1>2. Live' = Live /\ Contents' = Contents
    BY <1>1 DEF Live, ToSet, Contents
<1>3. authsema' # "main" /\ TodoInv'
    BY <1>1, PlainTodoInv DEF Invs, TodoInv
<1>4. ListInv' /\ OneEntryForRealm' /\ AskInv' /\ FoundInv'
    BY <1>1, <1>2 DEF Invs, ListInv, OneEntryForRealm, AskInv, FoundInv, Findauth
<1>5. SavedInv'
    BY <1>1, <1>2 DEF Invs, SavedInv, ToSet
<1>6. SemaTypes'
    BY <1>1, <1>3 DEF SemaTypes
<1> QED
    BY <1>1, <1>3, <1>4, <1>5, <1>6, ListFrame DEF Invs

\* The steps of main that leave the list alone.
MainPlain ==
    \/ Processtask \/ Answer \/ IfSave \/ MainModified \/ Openauthedit \/ Opened
    \/ Disposeauthedit \/ Disposed \/ Closeauthedit \/ Stoptask \/ Dodisposetask \/ Stopped
    \/ CloseUpdate \/ Screen \/ Setauthedit

LEMMA MainPlainTodo ==
    ASSUME OwnTypes, TodoInv, MainPlain
    PROVE  PlainLeft /\ ~Doing("saved")
<1> DEFINE Puts(steps) == steps \in Seq(Plain) /\ todo # <<>> /\ Then(steps)
<1>1. todo \in Seq(Steps) /\ port \in Seq(Updating)
    BY DEF OwnTypes
<1>2. port # <<>> => Updateauthedit(Head(port)) \in Seq(Plain)
    BY <1>1, UpdatePlain, HeadTailProperties
<1>3. ASSUME NEW steps, Puts(steps)
      PROVE  PlainLeft
    BY <1>1, <1>3, PlainTodo DEF Then
<1>4. CASE Processtask
  <2>1. Updateauthedit(Head(port)) \in Seq(Plain) /\ todo = <<>>
    BY <1>2, <1>4 DEF Processtask
  <2>2. todo' = Updateauthedit(Head(port)) \o todo
    BY <1>4, <2>1, ConcatEmptySeq DEF Processtask
  <2> QED
    BY <1>1, <2>1, <2>2, PlainTodo DEF Doing
<1>5. CASE Dodisposetask
  <2>1. ~Doing("saved") /\ todo # <<>>
    BY <1>5 DEF Dodisposetask, Doing
  <2>2. CASE port # <<>> /\ todo' = Updateauthedit(Head(port)) \o todo
    BY <1>1, <1>2, <2>1, <2>2, PlainTodo
  <2>3. CASE Then(<<>>)
    BY <1>3, <2>1, <2>3, PlainSeqs
  <2> QED
    BY <1>5, <2>1, <2>2, <2>3 DEF Dodisposetask
<1>6. CASE Answer \/ IfSave \/ MainModified \/ Openauthedit \/ Opened
  <2>1. ~Doing("saved") /\ todo # <<>>
    BY <1>6 DEF Doing, Answer, IfSave, MainModified, Openauthedit, Opened
  <2>2. Then(<<>>) \/ Then(<<Step("save")>>) \/ Then(<<Step("opened")>>)
    BY <1>6 DEF Answer, IfSave, MainModified, Openauthedit, Opened
  <2>3. <<>> \in Seq(Plain) /\ <<Step("save")>> \in Seq(Plain) /\ <<Step("opened")>> \in Seq(Plain)
    BY PlainSeqs DEF Dos
  <2> QED
    BY <1>3, <2>1, <2>2, <2>3
<1>7. CASE Disposeauthedit \/ Disposed \/ Closeauthedit \/ Stoptask \/ Stopped
  <2>1. ~Doing("saved") /\ todo # <<>>
    BY <1>7 DEF Doing, Disposeauthedit, Disposed, Closeauthedit, Stoptask, Stopped
  <2>2. \/ Then(<<>>) \/ Then(<<Step("stop"), Step("stopped"), Step("gone")>>)
        \/ Then(<<Step("gone")>>) \/ Then(<<Step("ended")>>)
    BY <1>7 DEF Disposeauthedit, Disposed, Closeauthedit, Stoptask, Stopped
  <2>3. /\ <<>> \in Seq(Plain) /\ <<Step("stop"), Step("stopped"), Step("gone")>> \in Seq(Plain)
        /\ <<Step("gone")>> \in Seq(Plain) /\ <<Step("ended")>> \in Seq(Plain)
    BY PlainSeqs DEF Dos
  <2> QED
    BY <1>3, <2>1, <2>2, <2>3
<1>8. CASE CloseUpdate \/ Screen \/ Setauthedit
  <2>1. ~Doing("saved") /\ todo # <<>>
    BY <1>8 DEF Doing, CloseUpdate, Screen, Setauthedit
  <2>2. \/ Then(<<>>) \/ Then(<<Step("stop")>>) \/ Then(<<Step("screenvalid")>>)
        \/ Then(<<Step("stop"), Step("stopped")>>)
    BY <1>8 DEF CloseUpdate, Screen, Setauthedit
  <2>3. /\ <<>> \in Seq(Plain) /\ <<Step("stop")>> \in Seq(Plain)
        /\ <<Step("screenvalid")>> \in Seq(Plain) /\ <<Step("stop"), Step("stopped")>> \in Seq(Plain)
    BY PlainSeqs DEF Dos
  <2> QED
    BY <1>3, <2>1, <2>2, <2>3
<1> QED
    BY <1>4, <1>5, <1>6, <1>7, <1>8 DEF MainPlain

AewRecord == [exists : BOOLEAN, known : BOOLEAN, task : BOOLEAN,
              breaking : BOOLEAN, wasopen : BOOLEAN, screen : BOOLEAN]
WindowRecord == [at : Ats, back : {"top", "done"}, break : BOOLEAN,
                 shown : Seq([an : Node, auth : AuthRecord])]

LEMMA MainPlainTypes ==
    ASSUME OwnTypes, PlainLeft, MainPlain
    PROVE  OwnTypes' /\ UNCHANGED <<listvars, transfer, left>>
<1>1. /\ aew \in AewRecord /\ window \in WindowRecord /\ port \in Seq(Updating)
      /\ inbox \in Nat /\ missed \in BOOLEAN
    BY DEF OwnTypes, AewRecord, WindowRecord
<1>2. UNCHANGED <<listvars, transfer, left>>
    BY DEF MainPlain, Processtask, Answer, IfSave, MainModified, Openauthedit, Opened,
           Disposeauthedit, Disposed, Closeauthedit, Stoptask, Dodisposetask, Stopped,
           CloseUpdate, Screen, Setauthedit, listvars
<1>3. aew' \in AewRecord
  <2>1. CASE UNCHANGED aew
    BY <1>1, <2>1
  <2>2. CASE Openauthedit
    BY <1>1, <2>2 DEF Openauthedit, AewRecord
  <2>3. CASE Opened \/ Disposed \/ Closeauthedit \/ Stopped
    BY <1>1, <2>3 DEF Opened, Disposed, Closeauthedit, Stopped, AewRecord
  <2>4. CASE Disposeauthedit
    BY <1>1, <2>4 DEF Disposeauthedit, AewRecord
  <2>5. CASE CloseUpdate
    BY <1>1, <2>5 DEF CloseUpdate, AewRecord
  <2>6. CASE Screen
    <3>1. PICK on \in BOOLEAN : aew' = [aew EXCEPT !.screen = on]
        BY <2>6 DEF Screen
    <3> QED
        BY <1>1, <3>1 DEF AewRecord
  <2>7. CASE Setauthedit
    BY <1>1, <2>7 DEF Setauthedit, AewRecord
  <2> QED
    BY <2>1, <2>2, <2>3, <2>4, <2>5, <2>6, <2>7
       DEF MainPlain, Processtask, Answer, IfSave, MainModified, Stoptask, Dodisposetask
<1>4. window' \in WindowRecord
  <2>1. CASE UNCHANGED window
    BY <1>1, <2>1
  <2>2. CASE Answer
    BY <1>1, <2>2 DEF Answer, WindowRecord, Ats
  <2>3. CASE Starttask
    BY <1>1, <2>3 DEF Starttask, WindowRecord, Ats
  <2>4. CASE Stoptask
    <3>1. PICK b \in BOOLEAN : window' = [window EXCEPT !.break = b]
        BY <2>4 DEF Stoptask, Alive
    <3> QED
        BY <1>1, <3>1 DEF WindowRecord
  <2>5. CASE window' = [window EXCEPT !.at = None]
    BY <1>1, <2>5 DEF WindowRecord, Ats
  <2> QED
    BY <2>1, <2>2, <2>3, <2>4, <2>5
       DEF MainPlain, Processtask, IfSave, MainModified, Openauthedit, Opened, Disposeauthedit,
           Disposed, Closeauthedit, Dodisposetask, Stopped, CloseUpdate, Screen, Setauthedit,
           winvars
<1>5. port' \in Seq(Updating)
  <2>1. port' = port \/ (port # <<>> /\ port' = Tail(port))
    BY DEF MainPlain, Processtask, Answer, IfSave, MainModified, Openauthedit, Opened,
           Disposeauthedit, Disposed, Closeauthedit, Stoptask, Dodisposetask, Stopped,
           CloseUpdate, Screen, Setauthedit, winvars
  <2> QED
    BY <1>1, <2>1, HeadTailProperties
<1>6. inbox' \in Nat /\ missed' \in BOOLEAN
  <2>1. (inbox' = inbox /\ missed' = missed) \/ Modifiedlist
    BY DEF MainPlain, Processtask, Answer, IfSave, MainModified, Openauthedit, Opened,
           Disposeauthedit, Disposed, Closeauthedit, Stoptask, Dodisposetask, Stopped,
           CloseUpdate, Screen, Setauthedit, winvars
  <2>2. inbox' = inbox \/ inbox' = inbox + 1
    BY <2>1 DEF Modifiedlist
  <2>3. missed' \in BOOLEAN
    BY <1>1, <2>1 DEF Modifiedlist
  <2> QED
    BY <1>1, <2>2, <2>3
<1> QED
    BY <1>2, <1>3, <1>4, <1>5, <1>6 DEF OwnTypes, PlainLeft, AewRecord, WindowRecord

LEMMA MainPlainPreserves ==
    ASSUME IInv, MainPlain
    PROVE  IInv'
<1>1. OwnTypes /\ ListTypes /\ SemaTypes /\ Invs /\ TodoInv
    BY Types DEF IInv, Invs
<1>2. PlainLeft /\ ~Doing("saved")
    BY <1>1, MainPlainTodo
<1>3. OwnTypes' /\ UNCHANGED <<listvars, transfer, left>>
    BY <1>1, <1>2, MainPlainTypes
<1>4. Invs' /\ ListTypes' /\ SemaTypes'
    BY <1>1, <1>2, <1>3, MainFrame
<1> QED
    BY <1>3, <1>4, Types DEF IInv, TypeOK, OwnTypes, ListTypes, SemaTypes, Steps, Updating

---------------------------------------------------------------------------
(* Main: changes of the list, saving and stopping the transfers. *)

\* The types do not depend on the list.
LEMMA OwnFrame ==
    ASSUME OwnTypes, PlainLeft, UNCHANGED <<transfer, aew, winvars, left>>
    PROVE  OwnTypes'
    BY DEF OwnTypes, PlainLeft, winvars

\* With authsema free no transfer is between search and insertion.
LEMMA NoneRemembers ==
    ASSUME FoundInv, authsema = None \/ authsema = "main"
    PROVE  \A t \in Transfer : transfer[t].at # "remember"
    BY Names DEF FoundInv

\* What the window asks main to change in an entry that is still there.
LEMMA FindchangeKeeps ==
    ASSUME IInv, Findchangenode
    PROVE  Kept
<1> DEFINE an == Head(todo).an
           s == Head(todo).s
<1>1. auths \in Seq(Node) /\ entry \in [Node -> AuthRecord]
      /\ \A n \in Node : n \in Live <=> entry[n] # Freed
    BY Types DEF IInv, ListTypes
<1>2. ListInv /\ OneEntryForRealm
    BY DEF IInv, Invs
<1>3. s \in Secret \cup {None}
  <2>1. todo \in Seq(Steps) /\ todo # <<>>
    BY Types DEF IInv, OwnTypes, Findchangenode, Doing
  <2>2. Head(todo) \in Steps
    BY <2>1, HeadTailProperties
  <2> QED
    BY <2>2 DEF Steps, Operands
<1> HIDE DEF an, s
<1>4. auths' = auths
      /\ entry' = [n \in Node |-> IF n \in Findnode(an) THEN [entry[n] EXCEPT !.cookie = s]
                                  ELSE entry[n]]
    BY DEF Findchangenode, an, s
<1>5. Live' = Live /\ Findnode(an) \subseteq Live /\ Live \subseteq Node
    BY <1>1, <1>4 DEF Findnode, Live, ToSet
<1>6. \A n \in Node : entry'[n] \in AuthRecord /\ entry'[n].realm = entry[n].realm
                      /\ (n \notin Live => entry'[n] = entry[n])
    BY <1>1, <1>3, <1>4, <1>5 DEF AuthRecord
<1>7. entry' \in [Node -> AuthRecord]
    BY <1>4, <1>6
<1>8. \A n \in Node : n \in Live' <=> entry'[n] # Freed
    BY <1>1, <1>2, <1>5, <1>6, Names DEF ListInv, Freed
<1>9. ListInv' /\ OneEntryForRealm'
    BY <1>2, <1>4, <1>5, <1>6 DEF ListInv, OneEntryForRealm
<1> QED
    BY <1>1, <1>4, <1>5, <1>6, <1>7, <1>8, <1>9 DEF Kept

LEMMA FlushKeeps ==
    ASSUME ListTypes, Flushauthor
    PROVE  Kept
<1>1. auths' = <<>> /\ entry' = [n \in Node |-> Freed] /\ auths' \in Seq(Node)
    BY EmptySeq DEF Flushauthor
<1>2. Live' = {}
    BY <1>1 DEF Live, ToSet
<1>3. entry' \in [Node -> AuthRecord]
    BY <1>1 DEF Freed, AuthRecord
<1>4. ListInv' /\ OneEntryForRealm'
    BY <1>1, <1>2 DEF ListInv, OneEntryForRealm
<1>5. \A n \in Node : entry'[n] # entry[n] => n \in Live
    BY <1>1 DEF ListTypes
<1> QED
    BY <1>1, <1>2, <1>3, <1>4, <1>5 DEF Kept

\* The steps of main that change the list, or look for what they would change.
LEMMA MainChangePreserves ==
    ASSUME IInv, Finddeletenode \/ Findchangenode \/ Flushauthor
    PROVE  IInv'
<1>1. OwnTypes /\ ListTypes /\ SemaTypes /\ Invs
    BY Types DEF IInv
<1>2. ListInv /\ OneEntryForRealm /\ AskInv /\ FoundInv /\ TodoInv /\ SavedInv
    BY <1>1 DEF Invs
<1>3. /\ authsema = None /\ authsema' = None /\ todo # <<>> /\ todo' = <<>> \o Tail(todo)
      /\ ~Doing("saved") /\ UNCHANGED <<transfer, aew, winvars, left>>
    BY DEF Finddeletenode, Findchangenode, Flushauthor, Free, Then, Doing
<1>4. PlainLeft
    BY <1>1, <1>2, <1>3, PlainTodo, PlainSeqs DEF OwnTypes
<1>5. OwnTypes'
    BY <1>1, <1>3, <1>4, OwnFrame
<1>6. saved \in [changed : BOOLEAN, file : Seq(AuthRecord)]
    BY <1>1 DEF ListTypes
<1>7. TodoInv'
    BY <1>3, <1>4, PlainTodoInv DEF None
<1>8. AskInv' /\ \A t \in Transfer : transfer'[t].at # "remember"
    BY <1>2, <1>3, NoneRemembers DEF AskInv
<1>9. CASE Flushauthor
  <2>1. left.quit
    <3>1. Head(todo).do = "flush" /\ todo \in Seq(Steps)
        BY <1>1, <1>9 DEF Flushauthor, Doing, OwnTypes
    <3>2. Head(todo) = todo[1] /\ 1 \in DOMAIN todo
        BY <1>3, <3>1, HeadTailProperties, EmptySeq
    <3> QED
        BY <1>2, <3>1, <3>2 DEF TodoInv
  <2>2. Kept /\ saved' = saved /\ left' = left
    BY <1>1, <1>3, <1>9, FlushKeeps DEF Flushauthor
  <2>3. ListTypes' /\ SemaTypes' /\ ListInv' /\ OneEntryForRealm' /\ FoundInv' /\ SavedInv'
    BY <1>3, <1>6, <1>8, <2>1, <2>2, ChangePreserves
  <2> QED
    BY <1>5, <1>7, <1>8, <2>3, Types
       DEF IInv, Invs, TypeOK, OwnTypes, ListTypes, SemaTypes, Steps, Updating
<1>10. CASE Finddeletenode \/ Findchangenode
  <2> DEFINE found == Findnode(Head(todo).an)
  <2>1. saved' = [saved EXCEPT !.changed = @ \/ found # {}]
    BY <1>10 DEF Finddeletenode, Findchangenode
  <2>2. CASE found = {}
    <3>1. saved' = saved
        BY <1>6, <2>1, <2>2
    <3>2. auths' = auths /\ entry' = entry
      <4>1. CASE Finddeletenode
        BY <2>2, <4>1 DEF Finddeletenode, Frees
      <4>2. CASE Findchangenode
        <5>1. entry \in [Node -> AuthRecord] /\ auths' = auths
              /\ entry' = [n \in Node |-> entry[n]]
            BY <1>1, <2>2, <4>2 DEF Findchangenode, ListTypes
        <5> QED
            BY <5>1
      <4> QED
        BY <1>10, <4>1, <4>2
    <3>3. UNCHANGED <<listvars, transfer, left>>
        BY <1>3, <3>1, <3>2 DEF listvars
    <3>4. Invs' /\ ListTypes' /\ SemaTypes'
        BY <1>1, <1>3, <1>4, <3>3, MainFrame
    <3> QED
        BY <1>5, <3>4, Types
           DEF IInv, TypeOK, OwnTypes, ListTypes, SemaTypes, Steps, Updating
  <2>3. CASE found # {}
    <3>1. Kept
        BY <1>1, <1>2, <1>10, FreesKeeps, FindchangeKeeps DEF Finddeletenode
    <3>2. saved' \in [changed : BOOLEAN, file : Seq(AuthRecord)] /\ saved'.changed
        BY <1>6, <2>1, <2>3
    <3>3. ListTypes' /\ SemaTypes' /\ ListInv' /\ OneEntryForRealm' /\ FoundInv' /\ SavedInv'
        BY <1>3, <1>8, <3>1, <3>2, ChangePreserves
    <3> QED
        BY <1>5, <1>7, <1>8, <3>3, Types
           DEF IInv, Invs, TypeOK, OwnTypes, ListTypes, SemaTypes, Steps, Updating
  <2> QED
    BY <2>2, <2>3
<1> QED
    BY <1>9, <1>10

\* Saveauthor writes the list with the semaphore held, so what it wrote is
\* still the list when it clears changed.
LEMMA WritesPreserves ==
    ASSUME IInv, Writes
    PROVE  IInv'
<1>1. OwnTypes /\ ListTypes /\ SemaTypes /\ Invs
    BY Types DEF IInv
<1>2. ListInv /\ OneEntryForRealm /\ AskInv /\ FoundInv /\ TodoInv /\ SavedInv
    BY <1>1 DEF Invs
<1>3. /\ authsema = None /\ authsema' = "main" /\ todo # <<>>
      /\ todo' = <<Step("saved")>> \o Tail(todo)
      /\ saved' = [saved EXCEPT !.file = Contents]
      /\ UNCHANGED <<auths, entry, transfer, aew, winvars, left>>
    BY DEF Writes, Free, Held, Then, Doing
<1>4. Live' = Live /\ Contents' = Contents
    BY <1>3 DEF Live, ToSet, Contents
<1>5. Contents \in Seq(AuthRecord)
  <2>1. auths \in Seq(Node) /\ entry \in [Node -> AuthRecord]
    BY <1>1 DEF ListTypes
  <2>2. DOMAIN auths = 1..Len(auths) /\ Len(auths) \in Nat
    BY <2>1
  <2>3. \A i \in 1..Len(auths) : entry[auths[i]] \in AuthRecord
    BY <2>1
  <2> QED
    BY <2>2, <2>3 DEF Contents
<1>6. /\ saved' \in [changed : BOOLEAN, file : Seq(AuthRecord)]
      /\ saved'.changed = saved.changed /\ saved'.file = Contents
    BY <1>1, <1>3, <1>5 DEF ListTypes
<1>7. ListTypes'
    BY <1>1, <1>3, <1>4, <1>6 DEF ListTypes
<1>8. ListInv' /\ OneEntryForRealm' /\ AskInv'
    BY <1>2, <1>3, <1>4 DEF ListInv, OneEntryForRealm, AskInv
<1>9. FoundInv'
  <2>1. \A t \in Transfer : transfer'[t].at # "remember"
    BY <1>2, <1>3, NoneRemembers
  <2> QED
    BY <2>1 DEF FoundInv
<1>10. SavedInv'
    BY <1>4, <1>6 DEF SavedInv
<1>11. todo \in Seq(Steps) /\ Step("saved") \in Steps /\ Step("saved").do = "saved"
    BY <1>1 DEF OwnTypes, Step, Steps, Operands, Dos
<1>12. /\ Tail(todo) \in Seq(Steps) /\ Len(todo) \in Nat /\ Len(Tail(todo)) = Len(todo) - 1
       /\ \A i \in 1..Len(todo) - 1 : Tail(todo)[i] = todo[i + 1]
       /\ DOMAIN todo = 1..Len(todo)
    BY <1>3, <1>11, HeadTailProperties, LenProperties
<1>13. <<Step("saved")>> \in Seq(Steps) /\ Len(<<Step("saved")>>) = 1
       /\ <<Step("saved")>>[1] = Step("saved")
    BY <1>11
<1>14. /\ todo' \in Seq(Steps) /\ Len(todo') = 1 + Len(Tail(todo))
       /\ todo'[1] = Step("saved")
       /\ \A i \in 1..Len(Tail(todo)) : todo'[i + 1] = Tail(todo)[i]
    BY <1>3, <1>12, <1>13, ConcatProperties
<1>15. Len(todo') = Len(todo) /\ Len(todo) >= 1 /\ DOMAIN todo' = 1..Len(todo)
    BY <1>3, <1>12, <1>14, EmptySeq, LenProperties
<1>16. ASSUME NEW i \in DOMAIN todo', i # 1
       PROVE  todo'[i].do # "saved" /\ (todo'[i].do = "flush" => left.quit)
  <2>1. i - 1 \in 1..Len(Tail(todo)) /\ todo'[i] = todo[i] /\ i \in DOMAIN todo
    <3> DEFINE j == i - 1
    <3>1. j \in 1..Len(todo) - 1 /\ i = j + 1 /\ i \in 1..Len(todo)
        BY <1>12, <1>15, <1>16
    <3> HIDE DEF j
    <3>2. todo'[j + 1] = todo[j + 1] /\ j \in 1..Len(Tail(todo))
        BY <1>12, <1>14, <3>1
    <3> QED
        BY <1>12, <3>1, <3>2 DEF j
  <2> QED
    BY <1>2, <1>16, <2>1 DEF TodoInv
<1>17. Doing("saved")'
  <2>1. todo' # <<>> /\ Head(todo') = todo'[1]
    BY <1>14, <1>15, EmptySeq, HeadTailProperties
  <2> QED
    BY <1>11, <1>14, <2>1 DEF Doing
<1>18. TodoInv' /\ SemaTypes'
    BY <1>3, <1>11, <1>14, <1>16, <1>17 DEF TodoInv, SemaTypes
<1>19. OwnTypes'
    BY <1>1, <1>3, <1>14 DEF OwnTypes, winvars
<1> QED
    BY <1>7, <1>8, <1>9, <1>10, <1>18, <1>19, Types
       DEF IInv, Invs, TypeOK, OwnTypes, ListTypes, SemaTypes, Steps, Updating

LEMMA WrittenPreserves ==
    ASSUME IInv, Written
    PROVE  IInv'
<1>1. OwnTypes /\ ListTypes /\ SemaTypes /\ Invs
    BY Types DEF IInv
<1>2. ListInv /\ OneEntryForRealm /\ AskInv /\ FoundInv /\ TodoInv /\ SavedInv
    BY <1>1 DEF Invs
<1>3. /\ authsema = "main" /\ authsema' = None /\ todo # <<>> /\ todo' = <<>> \o Tail(todo)
      /\ saved' = [saved EXCEPT !.changed = FALSE]
      /\ UNCHANGED <<auths, entry, transfer, aew, winvars, left>>
    BY <1>2 DEF Written, Then, Doing, TodoInv
<1>4. Live' = Live /\ Contents' = Contents
    BY <1>3 DEF Live, ToSet, Contents
<1>5. PlainLeft
    BY <1>1, <1>2, <1>3, PlainTodo, PlainSeqs DEF OwnTypes
<1>6. OwnTypes' /\ TodoInv'
    BY <1>1, <1>3, <1>5, OwnFrame, PlainTodoInv DEF None
<1>7. /\ saved' \in [changed : BOOLEAN, file : Seq(AuthRecord)]
      /\ saved'.file = Contents
    BY <1>1, <1>2, <1>3 DEF ListTypes, SavedInv
<1>8. ListTypes' /\ ListInv' /\ OneEntryForRealm' /\ AskInv'
    BY <1>1, <1>2, <1>3, <1>4, <1>7 DEF ListTypes, ListInv, OneEntryForRealm, AskInv
<1>9. FoundInv'
  <2>1. \A t \in Transfer : transfer'[t].at # "remember"
    BY <1>2, <1>3, NoneRemembers
  <2> QED
    BY <2>1 DEF FoundInv
<1>10. SavedInv' /\ SemaTypes'
    BY <1>3, <1>4, <1>7 DEF SavedInv, SemaTypes, ToSet, None
<1> QED
    BY <1>6, <1>8, <1>9, <1>10, Types
       DEF IInv, Invs, TypeOK, OwnTypes, ListTypes, SemaTypes, Steps, Updating

LEMMA DeinstalltaskPreserves ==
    ASSUME IInv, Deinstalltask
    PROVE  IInv'
<1>1. OwnTypes /\ ListTypes /\ SemaTypes /\ Invs
    BY Types DEF IInv
<1>2. ListInv /\ OneEntryForRealm /\ AskInv /\ FoundInv /\ TodoInv /\ SavedInv
    BY <1>1 DEF Invs
<1>3. /\ ~Doing("saved") /\ todo # <<>> /\ todo' = <<>> \o Tail(todo)
      /\ transfer' = [t \in Transfer |-> Done]
      /\ auths' = auths /\ entry' = entry /\ authsema' = authsema /\ saved' = saved
      /\ UNCHANGED <<aew, winvars, left>>
    BY DEF Deinstalltask, Then, Doing, listvars
<1>4. Live' = Live /\ Contents' = Contents
    BY <1>3 DEF Live, ToSet, Contents
<1>5. PlainLeft
    BY <1>1, <1>2, <1>3, PlainTodo, PlainSeqs DEF OwnTypes
<1>6. Done \in TransferRecord /\ Done.at = "done"
    BY DEF Done, Idle, Freed, TransferRecord, AuthRecord
<1>7. OwnTypes'
  <2>1. transfer' \in [Transfer -> TransferRecord]
    BY <1>3, <1>6
  <2> QED
    BY <1>1, <1>3, <1>5, <2>1 DEF OwnTypes, PlainLeft, TransferRecord, winvars
<1>8. authsema = None
    BY <1>1, <1>3 DEF SemaTypes, Deinstalltask
<1>9. TodoInv' /\ SemaTypes'
    BY <1>3, <1>5, <1>8, PlainTodoInv DEF SemaTypes, None
<1>10. AskInv' /\ FoundInv'
    BY <1>3, <1>6 DEF AskInv, FoundInv
<1>11. ListTypes' /\ ListInv' /\ OneEntryForRealm'
    BY <1>1, <1>2, <1>3, <1>4, ListFrame DEF ListInv, OneEntryForRealm
<1>12. SavedInv'
    BY <1>2, <1>3, <1>4 DEF SavedInv, ToSet
<1> QED
    BY <1>7, <1>9, <1>10, <1>11, <1>12, Types
       DEF IInv, Invs, TypeOK, OwnTypes, ListTypes, SemaTypes, Steps, Updating

\* Only quitting flushes.
LEMMA CallSteps ==
    ASSUME NEW c \in Calls
    PROVE  /\ Stepsof(c) \in Seq(Steps)
           /\ \A i \in DOMAIN Stepsof(c) : /\ Stepsof(c)[i].do # "saved"
                                           /\ Stepsof(c)[i].do = "flush" => c = "quit"
<1> DEFINE Safe(s) == /\ s \in Seq(Steps)
                      /\ \A i \in DOMAIN s : s[i].do # "saved" /\ (s[i].do = "flush" => c = "quit")
<1>1. \A do \in Dos : Step(do) \in Steps /\ Step(do).do = do
    BY DEF Step, Steps, Operands
<1>2. c \in {"open", "close", "save", "screen", "quit"}
    BY Names
<1>3. ASSUME NEW a \in Dos \ {"saved", "flush"}
      PROVE  Safe(<<Step(a)>>)
    BY <1>1
<1>4. Safe(<<Step("dispose"), Step("forget")>>)
    BY <1>1 DEF Dos
<1>5. CASE c = "quit"
  <2> DEFINE a == <<Step("ifsave"), Step("flush"), Step("modified")>>
             b == <<Step("screenoff"), Step("deinstall"), Step("dispose")>>
  <2>1. Safe(a) /\ Safe(b)
    BY <1>1, <1>5 DEF Dos
  <2> HIDE DEF a, b
  <2>2. a \o b \in Seq(Steps) /\ DOMAIN (a \o b) = 1..Len(a) + Len(b)
        /\ \A i \in 1..Len(a) + Len(b) :
              (a \o b)[i] = IF i <= Len(a) THEN a[i] ELSE b[i - Len(a)]
    BY <2>1, ConcatProperties
  <2>3. /\ Len(a) \in Nat /\ Len(b) \in Nat /\ DOMAIN a = 1..Len(a) /\ DOMAIN b = 1..Len(b)
    BY <2>1, LenProperties
  <2>4. ASSUME NEW i \in 1..Len(a) + Len(b)
        PROVE  (a \o b)[i].do # "saved"
    <3>1. CASE i <= Len(a)
        BY <2>1, <2>2, <2>3, <3>1
    <3>2. CASE ~(i <= Len(a))
      <4>1. i - Len(a) \in 1..Len(b) /\ (a \o b)[i] = b[i - Len(a)]
        BY <2>2, <2>3, <3>2
      <4> QED
        BY <2>1, <2>3, <4>1
    <3> QED
        BY <3>1, <3>2
  <2>5. Safe(a \o b)
    BY <1>5, <2>2, <2>4
  <2> QED
    BY <1>5, <2>5 DEF Stepsof, Freeauthor, a, b
<1> QED
    BY <1>2, <1>3, <1>4, <1>5 DEF Stepsof, Dos

LEMMA CallPreserves ==
    ASSUME IInv, Call
    PROVE  IInv'
<1>1. OwnTypes /\ ListTypes /\ SemaTypes /\ Invs
    BY Types DEF IInv
<1>2. ListInv /\ OneEntryForRealm /\ AskInv /\ FoundInv /\ TodoInv /\ SavedInv
    BY <1>1 DEF Invs
<1>3. PICK c \in Calls : /\ todo' = Stepsof(c)
                         /\ left' = [left EXCEPT !.calls = @ - 1, !.quit = c = "quit"]
    BY DEF Call
<1>4. /\ auths' = auths /\ entry' = entry /\ authsema' = authsema /\ saved' = saved
      /\ UNCHANGED <<transfer, aew, winvars>> /\ todo = <<>> /\ left.calls > 0 /\ ~left.quit
    BY DEF Call, listvars
<1>5. Live' = Live /\ Contents' = Contents
    BY <1>4 DEF Live, ToSet, Contents
<1>6. left \in [calls : Nat, inputs : Nat, quit : BOOLEAN]
    BY <1>1 DEF OwnTypes
<1>7. left' \in [calls : Nat, inputs : Nat, quit : BOOLEAN] /\ left'.quit = (c = "quit")
  <2>1. left.calls - 1 \in Nat /\ (c = "quit") \in BOOLEAN
    BY <1>4, <1>6
  <2> QED
    BY <1>3, <1>6, <2>1
<1>8. /\ todo' \in Seq(Steps)
      /\ \A i \in DOMAIN todo' : todo'[i].do # "saved" /\ (todo'[i].do = "flush" => left'.quit)
    BY <1>3, <1>7, CallSteps
<1>9. OwnTypes'
    BY <1>1, <1>4, <1>7, <1>8 DEF OwnTypes, winvars
<1>10. ~Doing("saved")'
  <2>1. todo' # <<>> => Head(todo') = todo'[1] /\ 1 \in DOMAIN todo'
    BY <1>8, HeadTailProperties, EmptySeq
  <2> QED
    BY <1>8, <2>1 DEF Doing
<1>11. authsema # "main"
    BY <1>2, <1>4 DEF TodoInv, Doing
<1>12. TodoInv'
    BY <1>4, <1>8, <1>10, <1>11 DEF TodoInv
<1>13. SemaTypes'
    BY <1>1, <1>4, <1>11 DEF SemaTypes
<1>14. ListTypes' /\ ListInv' /\ OneEntryForRealm' /\ AskInv' /\ FoundInv'
    BY <1>1, <1>2, <1>4, <1>5, ListFrame
       DEF ListInv, OneEntryForRealm, AskInv, FoundInv, Findauth
<1>15. SavedInv'
    BY <1>2, <1>4, <1>5, <1>11 DEF SavedInv, ToSet
<1> QED
    BY <1>9, <1>12, <1>13, <1>14, <1>15, Types
       DEF IInv, Invs, TypeOK, OwnTypes, ListTypes, SemaTypes, Steps, Updating

---------------------------------------------------------------------------
(* The theorems. *)

\* Loadauthor: an entry of the file is in the list, and nothing has changed.
LEMMA InitHolds ==
    ASSUME Init
    PROVE  IInv
<1>1. authsema = None /\ todo = <<>> /\ port = <<>> /\ inbox = 0 /\ missed = FALSE
      /\ transfer = [t \in Transfer |-> Idle] /\ ~left.quit
    BY DEF Init
<1>2. OwnTypes
  <2>1. Idle \in TransferRecord
    BY DEF Idle, Freed, TransferRecord, AuthRecord
  <2>2. transfer \in [Transfer -> TransferRecord]
    BY <1>1, <2>1
  <2>3. aew \in AewRecord
    BY DEF Init, AewRecord
  <2>4. window \in WindowRecord
    BY EmptySeq DEF Init, WindowRecord, Ats
  <2>5. left \in [calls : Nat, inputs : Nat, quit : BOOLEAN]
    BY Bounds DEF Init
  <2>6. todo \in Seq(Steps) /\ port \in Seq(Updating)
    BY <1>1, EmptySeq
  <2> QED
    BY <1>1, <2>2, <2>3, <2>4, <2>5, <2>6 DEF OwnTypes, TransferRecord, AewRecord, WindowRecord
<1>3. SemaTypes /\ TodoInv /\ AskInv /\ FoundInv
  <2>1. ~Doing("saved") /\ DOMAIN todo = {}
    BY <1>1 DEF Doing
  <2>2. \A t \in Transfer : transfer[t].at = "idle"
    BY <1>1 DEF Idle
  <2> QED
    BY <1>1, <2>1, <2>2 DEF SemaTypes, TodoInv, AskInv, FoundInv, None
<1>4. ListTypes /\ ListInv /\ OneEntryForRealm /\ SavedInv
  <2>1. CASE /\ auths = <<>> /\ entry = [n \in Node |-> Freed]
             /\ saved = [changed |-> FALSE, file |-> <<>>]
    <3>1. Live = {} /\ Contents = <<>> /\ auths \in Seq(Node) /\ <<>> \in Seq(AuthRecord)
        BY <2>1, EmptySeq DEF Live, ToSet, Contents
    <3>2. entry \in [Node -> AuthRecord]
        BY <2>1 DEF Freed, AuthRecord
    <3>3. ListTypes
        BY <2>1, <3>1, <3>2 DEF ListTypes
    <3> QED
        BY <1>1, <2>1, <3>1, <3>3 DEF ListInv, OneEntryForRealm, SavedInv, None
  <2>2. ASSUME NEW r \in Realm, NEW s \in Secret, NEW n \in Node, auths = <<n>>,
               entry = [m \in Node |-> IF m = n THEN [realm |-> r, cookie |-> s] ELSE Freed],
               saved = [changed |-> FALSE, file |-> Contents]
        PROVE  ListTypes /\ ListInv /\ OneEntryForRealm /\ SavedInv
    <3>1. auths \in Seq(Node) /\ DOMAIN auths = {1} /\ auths[1] = n /\ Len(auths) = 1
        BY <2>2
    <3>2. Live = {n}
        BY <3>1 DEF Live, ToSet
    <3>3. entry[n] = [realm |-> r, cookie |-> s] /\ entry[n] \in AuthRecord
        BY <2>2 DEF AuthRecord
    <3>4. entry \in [Node -> AuthRecord] /\ \A m \in Node : m = n <=> entry[m] # Freed
        BY <2>2, <3>3, Names DEF Freed, AuthRecord
    <3>5. Contents \in Seq(AuthRecord)
      <4>1. \A i \in 1..Len(auths) : entry[auths[i]] \in AuthRecord
        BY <3>1, <3>3
      <4>2. DOMAIN auths = 1..Len(auths) /\ Len(auths) \in Nat
        BY <3>1
      <4> QED
        BY <4>1, <4>2 DEF Contents
    <3>6. saved \in [changed : BOOLEAN, file : Seq(AuthRecord)] /\ saved.file = Contents
        BY <2>2, <3>5
    <3>7. ListTypes
        BY <3>1, <3>2, <3>4, <3>6 DEF ListTypes
    <3> QED
        BY <1>1, <3>1, <3>2, <3>3, <3>6, <3>7 DEF ListInv, OneEntryForRealm, SavedInv, None
  <2> QED
    BY <2>1, <2>2 DEF Init
<1> QED
    BY <1>2, <1>3, <1>4, Types DEF IInv, Invs

LEMMA StepHolds ==
    ASSUME IInv, [Next]_vars
    PROVE  IInv'
<1>1. CASE UNCHANGED vars
  <2>1. UNCHANGED <<listvars, transfer, todo>> /\ left'.quit = left.quit
    BY <1>1 DEF vars, listvars
  <2>2. Invs'
    BY <2>1, Frame DEF IInv
  <2>3. TypeOK'
    BY <1>1 DEF vars, IInv, TypeOK, Live, ToSet, Doing
  <2> QED
    BY <2>2, <2>3 DEF IInv
<1>2. CASE MainStep
  <2>1. \/ MainPlain \/ Finddeletenode \/ Findchangenode \/ Flushauthor \/ Writes \/ Written
        \/ Deinstalltask
    BY <1>2 DEF MainStep, MainPlain
  <2> QED
    BY <2>1, MainPlainPreserves, MainChangePreserves, WritesPreserves, WrittenPreserves,
       DeinstalltaskPreserves
<1> QED
    BY <1>1, <1>2, CallPreserves, WindowPreserves, UserPreserves, TransferPreserves DEF Next

\* The invariant: it needs the promises of FoundInv and TodoInv, since that a
\* realm has one entry, and that the file has the list, is broken by steps
\* whose guard has been looked at one step earlier, under the semaphore.
LEMMA Inductive == Spec => []IInv
<1>1. Init => IInv
    BY InitHolds
<1>2. IInv /\ [Next]_vars => IInv'
    BY StepHolds
<1> QED
    BY <1>1, <1>2, PTL DEF Spec

\* Main, the window, any transfers and the user keep the types, and who holds
\* authsema across a step is the one that gives it back (author.c:69, 449).
THEOREM TypeCorrect == Spec => []TypeOK
<1>1. IInv => TypeOK
    BY DEF IInv
<1> QED
    BY <1>1, Inductive, PTL

\* However many transfers remember, forget and are refused at once, a realm has
\* one entry (Rememberauth, author.c:67).
THEOREM OneEntry == Spec => []OneEntryForRealm
<1>1. IInv => OneEntryForRealm
    BY DEF IInv, Invs
<1> QED
    BY <1>1, Inductive, PTL

\* While changed is not set the file has the passwords of the list: none that
\* is remembered while the list is written is lost (Saveauthor, author.c:447).
THEOREM FileIsRight == Spec => []UnchangedIsSaved
<1>1. IInv => UnchangedIsSaved
    BY DEF IInv, Invs, SavedInv, UnchangedIsSaved
<1> QED
    BY <1>1, Inductive, PTL

LEMMA StepWritesEntries ==
    ASSUME IInv, [Next]_vars
    PROVE  \A n \in Node : entry'[n] # entry[n] => n \in Live \cup ToSet(auths')
<1>1. ToSet(auths') = Live'
    BY DEF Live, ToSet
<1>2. CASE UNCHANGED entry
    BY <1>2
<1>3. CASE Kept
    BY <1>1, <1>3 DEF Kept
<1>4. ListTypes /\ ListInv /\ OneEntryForRealm
    BY Types DEF IInv, Invs
<1>5. ASSUME MainStep
      PROVE  UNCHANGED entry \/ Finddeletenode \/ Findchangenode \/ Flushauthor
    BY <1>5 DEF MainStep, Processtask, Answer, Writes, Written, IfSave, MainModified,
           Openauthedit, Opened, Disposeauthedit, Disposed, Closeauthedit, Stoptask,
           Dodisposetask, Stopped, CloseUpdate, Screen, Setauthedit, Deinstalltask, listvars
<1>6. CASE MainStep
    BY <1>2, <1>3, <1>4, <1>5, <1>6, FreesKeeps, FindchangeKeeps, FlushKeeps DEF Finddeletenode
<1>7. ASSUME NEW t \in Transfer, TransferStep(t)
      PROVE  UNCHANGED entry \/ RefusedAgain(t) \/ Rememberauth(t)
    BY <1>7 DEF TransferStep, Start, Responds, Refused, Cancels, Answers, Notifies, listvars
<1>8. ASSUME NEW t \in Transfer, TransferStep(t)
      PROVE  UNCHANGED entry \/ Kept
    BY <1>4, <1>7, <1>8, FreesKeeps, RememberKeeps DEF RefusedAgain
<1>9. CASE Call \/ WindowStep \/ User \/ UNCHANGED vars
    BY <1>2, <1>9 DEF Call, WindowStep, Buildautheditwindow, Stops, Modified, Redraws,
       Closeautheditwindow, Freelbnodes, Ends, User, Closes, Delentry, Changeentry, Entry,
       Input, listvars, vars
<1> QED
    BY <1>2, <1>3, <1>6, <1>8, <1>9 DEF Next

\* No step writes through an address that is not in the list, or gets there:
\* what the window still shows is looked for before it is changed
\* (Finddeletenode, Findchangenode, author.c:183, 200).
THEOREM OnlyEntriesWritten == Spec => WritesOnlyEntries
<1>1. IInv /\ [Next]_vars
      => [\A n \in Node : entry'[n] # entry[n] => n \in Live \cup ToSet(auths')]_vars
    BY StepWritesEntries
<1> QED
    BY <1>1, Inductive, PTL DEF Spec, WritesOnlyEntries

---------------------------------------------------------------------------
(* What the window shows: the order of the steps that main has left.       *)

\* Main's steps have a step of this kind among them.
Has(q, do) == \E i \in DOMAIN q : q[i].do = do

\* What is done while Dodisposetask serves the updates of the window's task.
Served == {"delete", "change", "answer", "closed"}

\* A step s can be done before q: what an update asks for is done at once, then it
\* is answered; what ends the task is followed by what depends on its end; and
\* Freeauthor tells the window after it has flushed the list.
Fits(s, q) ==
    /\ q # <<>> => /\ q[1].do \notin {"delete", "change", "stop"}
                   /\ q[1].do = "answer" => s.do \in {"delete", "change"}
                   /\ q[1].do = "stopped" => s.do \in {"stop", "ended"}
                   /\ q[1].do = "gone" => s.do = "stopped"
                   /\ q[1].do = "forget" => s.do \in {"gone", "dispose"}
    /\ s.do \in {"delete", "change"} => q # <<>> /\ q[1].do = "answer"
    /\ s.do = "flush" => q # <<>> /\ q[1].do = "modified"
    /\ Has(q, "ended") => s.do \in Served
    /\ s.do = "ended" => s = Step("ended")

\* All steps of q fit.
Ordered(q) ==
    /\ \A i \in DOMAIN q : q[i].do \in {"delete", "change", "stop"} => i = 1
    /\ \A i \in DOMAIN q : i > 1 =>
          /\ q[i].do = "answer" => q[i - 1].do \in {"delete", "change"}
          /\ q[i].do = "stopped" => q[i - 1].do \in {"stop", "ended"}
          /\ q[i].do = "gone" => q[i - 1].do = "stopped"
          /\ q[i].do = "forget" => q[i - 1].do \in {"gone", "dispose"}
    /\ \A i \in DOMAIN q :
          /\ q[i].do \in {"delete", "change"} => i < Len(q) /\ q[i + 1].do = "answer"
          /\ q[i].do = "flush" => i < Len(q) /\ q[i + 1].do = "modified"
    /\ \A i \in DOMAIN q : q[i].do = "ended" =>
          q[i] = Step("ended") /\ \A j \in 1..(i - 1) : q[j].do \in Served

\* A step put before the others.
LEMMA Put ==
    ASSUME NEW q \in Seq(Steps), NEW s \in Steps
    PROVE  /\ <<s>> \o q \in Seq(Steps) /\ <<s>> \o q # <<>>
           /\ Len(<<s>> \o q) = Len(q) + 1 /\ (<<s>> \o q)[1] = s
           /\ \A i \in DOMAIN q : (<<s>> \o q)[i + 1] = q[i]
           /\ DOMAIN (<<s>> \o q) = 1..(Len(q) + 1) /\ DOMAIN q = 1..Len(q) /\ Len(q) \in Nat
<1>1. <<s>> \in Seq(Steps) /\ Len(<<s>>) = 1 /\ <<s>>[1] = s
    OBVIOUS
<1>2. /\ <<s>> \o q \in Seq(Steps) /\ Len(<<s>> \o q) = 1 + Len(q)
      /\ \A i \in 1..(1 + Len(q)) : (<<s>> \o q)[i] = IF i <= 1 THEN <<s>>[i] ELSE q[i - 1]
    BY <1>1, ConcatProperties
<1>3. DOMAIN q = 1..Len(q) /\ Len(q) \in Nat
    BY LenProperties
<1>4. DOMAIN (<<s>> \o q) = 1..(Len(q) + 1) /\ Len(<<s>> \o q) = Len(q) + 1
    BY <1>2, <1>3, LenProperties
<1>5. (<<s>> \o q)[1] = s
  <2>1. 1 \in 1..(1 + Len(q))
    BY <1>3
  <2> QED BY <1>1, <1>2, <2>1
<1>6. ASSUME NEW i \in DOMAIN q PROVE (<<s>> \o q)[i + 1] = q[i]
  <2>1. i + 1 \in 1..(1 + Len(q)) /\ ~(i + 1 <= 1) /\ (i + 1) - 1 = i
    BY <1>3
  <2> QED BY <1>2, <2>1
<1>7. <<s>> \o q # <<>>
    BY <1>2, <1>3, <1>4, EmptySeq
<1> QED
    BY <1>2, <1>3, <1>4, <1>5, <1>6, <1>7

LEMMA HasPut ==
    ASSUME NEW q \in Seq(Steps), NEW s \in Steps, NEW do
    PROVE  Has(<<s>> \o q, do) <=> s.do = do \/ Has(q, do)
<1> DEFINE p == <<s>> \o q
<1>1. /\ Len(q) \in Nat /\ DOMAIN p = 1..(Len(q) + 1) /\ DOMAIN q = 1..Len(q) /\ p[1] = s
      /\ \A i \in DOMAIN q : p[i + 1] = q[i]
    BY Put
<1> HIDE DEF p
<1>2. ASSUME NEW i \in DOMAIN p PROVE i = 1 \/ (i - 1 \in DOMAIN q /\ p[i] = q[i - 1])
  <2>1. CASE i # 1
    <3>1. i - 1 \in DOMAIN q /\ (i - 1) + 1 = i
        BY <1>1, <2>1
    <3> QED BY <1>1, <3>1
  <2> QED BY <2>1
<1>3. 1 \in DOMAIN p /\ \A i \in DOMAIN q : i + 1 \in DOMAIN p
    BY <1>1
<1>4. Has(p, do) => s.do = do \/ Has(q, do)
    BY <1>1, <1>2 DEF Has
<1>5. s.do = do \/ Has(q, do) => Has(p, do)
    BY <1>1, <1>3 DEF Has
<1> QED
    BY <1>4, <1>5 DEF p

LEMMA OrderedPut ==
    ASSUME NEW q \in Seq(Steps), NEW s \in Steps, Ordered(q), Fits(s, q)
    PROVE  Ordered(<<s>> \o q)
<1> DEFINE p == <<s>> \o q
<1>1. /\ Len(p) = Len(q) + 1 /\ p[1] = s /\ \A i \in DOMAIN q : p[i + 1] = q[i]
      /\ DOMAIN p = 1..(Len(q) + 1) /\ DOMAIN q = 1..Len(q) /\ Len(q) \in Nat
    BY Put
<1> HIDE DEF p
<1>2. ASSUME NEW i \in DOMAIN p, i # 1 PROVE i - 1 \in DOMAIN q /\ p[i] = q[i - 1]
  <2>1. i - 1 \in DOMAIN q /\ (i - 1) + 1 = i
    BY <1>1, <1>2
  <2> QED BY <1>1, <2>1
<1>3. q = <<>> <=> Len(q) = 0
    BY EmptySeq
<1>4. Len(q) > 0 => p[2] = q[1] /\ 1 \in DOMAIN q
  <2>1. CASE Len(q) > 0
    <3>1. 1 \in DOMAIN q /\ 1 + 1 = 2 BY <1>1, <2>1
    <3> QED BY <1>1, <3>1
  <2> QED BY <2>1
<1>5. \A i \in DOMAIN p : p[i].do \in {"delete", "change", "stop"} => i = 1
  <2> SUFFICES ASSUME NEW i \in DOMAIN p, i # 1 PROVE p[i].do \notin {"delete", "change", "stop"}
    OBVIOUS
  <2>1. i - 1 \in DOMAIN q /\ p[i] = q[i - 1] BY <1>2
  <2>2. q[i - 1].do \in {"delete", "change", "stop"} => i - 1 = 1 BY <2>1 DEF Ordered
  <2>3. q # <<>> BY <1>1, <1>3, <2>1
  <2> QED BY <2>1, <2>2, <2>3 DEF Fits
<1>6. \A i \in DOMAIN p : i > 1 =>
          /\ p[i].do = "answer" => p[i - 1].do \in {"delete", "change"}
          /\ p[i].do = "stopped" => p[i - 1].do \in {"stop", "ended"}
          /\ p[i].do = "gone" => p[i - 1].do = "stopped"
          /\ p[i].do = "forget" => p[i - 1].do \in {"gone", "dispose"}
  <2> SUFFICES ASSUME NEW i \in DOMAIN p, i > 1
               PROVE  /\ p[i].do = "answer" => p[i - 1].do \in {"delete", "change"}
                      /\ p[i].do = "stopped" => p[i - 1].do \in {"stop", "ended"}
                      /\ p[i].do = "gone" => p[i - 1].do = "stopped"
                      /\ p[i].do = "forget" => p[i - 1].do \in {"gone", "dispose"}
    OBVIOUS
  <2>1. i - 1 \in DOMAIN q /\ p[i] = q[i - 1] /\ q # <<>> /\ i \in Nat BY <1>1, <1>2, <1>3
  <2>2. CASE i = 2
    <3>1. p[i] = q[1] /\ p[i - 1] = s BY <1>1, <2>1, <2>2
    <3> QED BY <2>1, <3>1 DEF Fits
  <2>3. CASE i # 2
    <3>1. i - 1 \in DOMAIN p /\ i - 1 # 1 /\ i - 1 > 1 BY <1>1, <2>1, <2>3
    <3>2. p[i - 1] = q[(i - 1) - 1] BY <1>2, <3>1
    <3> QED BY <2>1, <3>1, <3>2 DEF Ordered
  <2> QED BY <2>2, <2>3
<1>7. \A i \in DOMAIN p :
          /\ p[i].do \in {"delete", "change"} => i < Len(p) /\ p[i + 1].do = "answer"
          /\ p[i].do = "flush" => i < Len(p) /\ p[i + 1].do = "modified"
  <2> SUFFICES ASSUME NEW i \in DOMAIN p
               PROVE  /\ p[i].do \in {"delete", "change"} => i < Len(p) /\ p[i + 1].do = "answer"
                      /\ p[i].do = "flush" => i < Len(p) /\ p[i + 1].do = "modified"
    OBVIOUS
  <2>1. CASE i = 1
    <3>1. p[i] = s /\ (q # <<>> => p[i + 1] = q[1] /\ i < Len(p)) BY <1>1, <1>3, <1>4, <2>1
    <3> QED BY <3>1 DEF Fits
  <2>2. CASE i # 1
    <3>1. i - 1 \in DOMAIN q /\ p[i] = q[i - 1] BY <1>2, <2>2
    <3>2. i - 1 < Len(q) => i < Len(p) /\ i \in DOMAIN q BY <1>1, <3>1
    <3>3. i - 1 < Len(q) => p[i + 1] = q[(i - 1) + 1] BY <1>1, <3>2
    <3> QED BY <3>1, <3>2, <3>3 DEF Ordered
  <2> QED BY <2>1, <2>2
<1>8. \A i \in DOMAIN p : p[i].do = "ended" => \A j \in 1..(i - 1) : p[j].do \in Served
  <2> SUFFICES ASSUME NEW i \in DOMAIN p, p[i].do = "ended", NEW j \in 1..(i - 1)
               PROVE  p[j].do \in Served
    OBVIOUS
  <2>1. i # 1 /\ i \in Nat BY <1>1
  <2>2. i - 1 \in DOMAIN q /\ p[i] = q[i - 1] BY <1>2, <2>1
  <2>3. CASE j = 1
    <3>1. Has(q, "ended") BY <2>2 DEF Has
    <3> QED BY <1>1, <2>3, <3>1 DEF Fits
  <2>4. CASE j # 1
    <3>1. j \in DOMAIN p /\ j - 1 \in 1..((i - 1) - 1) BY <1>1, <2>1, <2>4
    <3>2. p[j] = q[j - 1] BY <1>2, <2>4, <3>1
    <3> QED BY <2>2, <3>1, <3>2 DEF Ordered
  <2> QED BY <2>3, <2>4
<1>9. \A i \in DOMAIN p : p[i].do = "ended" => p[i] = Step("ended")
  <2> SUFFICES ASSUME NEW i \in DOMAIN p, p[i].do = "ended" PROVE p[i] = Step("ended")
    OBVIOUS
  <2>1. CASE i = 1
    BY <1>1, <2>1 DEF Fits
  <2>2. CASE i # 1
    <3>1. i - 1 \in DOMAIN q /\ p[i] = q[i - 1] BY <1>2, <2>2
    <3> QED BY <3>1 DEF Ordered
  <2> QED BY <2>1, <2>2
<1> QED
    BY <1>5, <1>6, <1>7, <1>8, <1>9 DEF Ordered, p

\* The first step taken from the others.
LEMMA Taken ==
    ASSUME NEW q \in Seq(Steps), q # <<>>
    PROVE  /\ Tail(q) \in Seq(Steps) /\ Head(q) \in Steps /\ Head(q) = q[1] /\ 1 \in DOMAIN q
           /\ Len(Tail(q)) = Len(q) - 1 /\ DOMAIN Tail(q) = 1..(Len(q) - 1)
           /\ DOMAIN q = 1..Len(q) /\ Len(q) \in Nat \ {0}
           /\ \A i \in DOMAIN Tail(q) : Tail(q)[i] = q[i + 1]
           /\ q = <<Head(q)>> \o Tail(q)
<1>1. Len(q) \in Nat /\ Len(q) # 0 /\ DOMAIN q = 1..Len(q)
    BY EmptySeq, LenProperties
<1>2. /\ Tail(q) \in Seq(Steps) /\ Len(Tail(q)) = Len(q) - 1
      /\ \A i \in 1..Len(q) - 1 : Tail(q)[i] = q[i + 1]
    BY HeadTailProperties
<1>3. DOMAIN Tail(q) = 1..(Len(q) - 1)
    BY <1>2, LenProperties
<1>4. Head(q) \in Steps /\ Head(q) = q[1] /\ 1 \in DOMAIN q
    BY <1>1, HeadTailProperties
<1>5. q = <<Head(q)>> \o Tail(q)
    BY HeadTailProperties, <1>4
<1> QED
    BY <1>1, <1>2, <1>3, <1>4, <1>5

LEMMA OrderedTaken ==
    ASSUME NEW q \in Seq(Steps), q # <<>>, Ordered(q)
    PROVE  Ordered(Tail(q)) /\ Fits(Head(q), Tail(q))
<1> DEFINE r == Tail(q)
<1>1. /\ Head(q) = q[1] /\ 1 \in DOMAIN q /\ Len(r) = Len(q) - 1 /\ DOMAIN r = 1..(Len(q) - 1)
      /\ DOMAIN q = 1..Len(q) /\ Len(q) \in Nat \ {0} /\ \A i \in DOMAIN r : r[i] = q[i + 1]
    BY Taken
<1>2. r # <<>> => 1 \in DOMAIN r /\ 2 \in DOMAIN q /\ r[1] = q[2]
  <2>1. r # <<>> => Len(r) # 0 BY Taken, EmptySeq
  <2>2. CASE Len(r) # 0
    <3>1. 1 \in DOMAIN r /\ 2 \in DOMAIN q /\ 1 + 1 = 2 BY <1>1, <2>2
    <3> QED BY <1>1, <3>1
  <2> QED BY <2>1, <2>2
<1>3. 1 < Len(q) => r # <<>> /\ q[1 + 1] = r[1]
  <2>1. CASE 1 < Len(q)
    <3>1. Len(r) # 0 BY <1>1, <2>1
    <3>2. r # <<>> BY <3>1, Taken, EmptySeq
    <3> QED BY <1>2, <3>2
  <2> QED BY <2>1
<1> HIDE DEF r
<1>4. \A i \in DOMAIN r : i + 1 \in DOMAIN q /\ r[i] = q[i + 1] /\ i \in Nat \ {0}
    BY <1>1
<1>5. Fits(Head(q), r)
  <2>1. r # <<>> => /\ r[1].do \notin {"delete", "change", "stop"}
                    /\ r[1].do = "answer" => q[1].do \in {"delete", "change"}
                    /\ r[1].do = "stopped" => q[1].do \in {"stop", "ended"}
                    /\ r[1].do = "gone" => q[1].do = "stopped"
                    /\ r[1].do = "forget" => q[1].do \in {"gone", "dispose"}
    <3>1. 2 > 1 /\ 2 - 1 = 1 /\ 2 # 1 OBVIOUS
    <3> QED BY <1>2, <3>1 DEF Ordered
  <2>2. q[1].do \in {"delete", "change"} => r # <<>> /\ r[1].do = "answer"
    BY <1>1, <1>3 DEF Ordered
  <2>3. q[1].do = "flush" => r # <<>> /\ r[1].do = "modified"
    BY <1>1, <1>3 DEF Ordered
  <2>4. Has(r, "ended") => q[1].do \in Served
    <3> SUFFICES ASSUME NEW i \in DOMAIN r, r[i].do = "ended" PROVE q[1].do \in Served
        BY DEF Has
    <3>1. i + 1 \in DOMAIN q /\ q[i + 1].do = "ended" /\ 1 \in 1..((i + 1) - 1) BY <1>4
    <3> QED BY <3>1 DEF Ordered
  <2>5. q[1].do = "ended" => q[1] = Step("ended")
    BY <1>1 DEF Ordered
  <2> QED BY <1>1, <2>1, <2>2, <2>3, <2>4, <2>5 DEF Fits
<1>6. \A i \in DOMAIN r : r[i].do \in {"delete", "change", "stop"} => i = 1
  <2> SUFFICES ASSUME NEW i \in DOMAIN r, r[i].do \in {"delete", "change", "stop"} PROVE i = 1
    OBVIOUS
  <2>1. i + 1 \in DOMAIN q /\ r[i] = q[i + 1] /\ i \in Nat \ {0} BY <1>4
  <2>2. i + 1 = 1 BY <2>1 DEF Ordered
  <2> QED BY <2>1, <2>2
<1>7. \A i \in DOMAIN r : i > 1 =>
          /\ r[i].do = "answer" => r[i - 1].do \in {"delete", "change"}
          /\ r[i].do = "stopped" => r[i - 1].do \in {"stop", "ended"}
          /\ r[i].do = "gone" => r[i - 1].do = "stopped"
          /\ r[i].do = "forget" => r[i - 1].do \in {"gone", "dispose"}
  <2> SUFFICES ASSUME NEW i \in DOMAIN r, i > 1
               PROVE  /\ r[i].do = "answer" => r[i - 1].do \in {"delete", "change"}
                      /\ r[i].do = "stopped" => r[i - 1].do \in {"stop", "ended"}
                      /\ r[i].do = "gone" => r[i - 1].do = "stopped"
                      /\ r[i].do = "forget" => r[i - 1].do \in {"gone", "dispose"}
    OBVIOUS
  <2>1. i + 1 \in DOMAIN q /\ r[i] = q[i + 1] /\ i \in Nat \ {0} BY <1>4
  <2>2. i - 1 \in DOMAIN r /\ (i - 1) + 1 = i /\ (i + 1) - 1 = i /\ i + 1 > 1 BY <1>1, <2>1
  <2>3. r[i - 1] = q[i] BY <1>4, <2>2
  <2> QED BY <2>1, <2>2, <2>3 DEF Ordered
<1>8. \A i \in DOMAIN r :
          /\ r[i].do \in {"delete", "change"} => i < Len(r) /\ r[i + 1].do = "answer"
          /\ r[i].do = "flush" => i < Len(r) /\ r[i + 1].do = "modified"
  <2> SUFFICES ASSUME NEW i \in DOMAIN r
               PROVE  /\ r[i].do \in {"delete", "change"} => i < Len(r) /\ r[i + 1].do = "answer"
                      /\ r[i].do = "flush" => i < Len(r) /\ r[i + 1].do = "modified"
    OBVIOUS
  <2>1. i + 1 \in DOMAIN q /\ r[i] = q[i + 1] /\ i \in Nat \ {0} BY <1>4
  <2>2. i + 1 < Len(q) => i < Len(r) /\ i + 1 \in DOMAIN r BY <1>1, <2>1
  <2>3. i + 1 < Len(q) => r[i + 1] = q[(i + 1) + 1] BY <1>4, <2>2
  <2> QED BY <2>1, <2>2, <2>3 DEF Ordered
<1>9. \A i \in DOMAIN r : r[i].do = "ended" => \A j \in 1..(i - 1) : r[j].do \in Served
  <2> SUFFICES ASSUME NEW i \in DOMAIN r, r[i].do = "ended", NEW j \in 1..(i - 1)
               PROVE  r[j].do \in Served
    OBVIOUS
  <2>1. i + 1 \in DOMAIN q /\ r[i] = q[i + 1] /\ i \in Nat \ {0} BY <1>4
  <2>2. j \in DOMAIN r /\ j + 1 \in 1..((i + 1) - 1) BY <1>1, <2>1
  <2>3. r[j] = q[j + 1] BY <1>4, <2>2
  <2> QED BY <2>1, <2>2, <2>3 DEF Ordered
<1>10. \A i \in DOMAIN r : r[i].do = "ended" => r[i] = Step("ended")
  <2> SUFFICES ASSUME NEW i \in DOMAIN r, r[i].do = "ended" PROVE r[i] = Step("ended")
    OBVIOUS
  <2>1. i + 1 \in DOMAIN q /\ r[i] = q[i + 1] BY <1>4
  <2> QED BY <2>1 DEF Ordered
<1> QED
    BY <1>5, <1>6, <1>7, <1>8, <1>9, <1>10 DEF Ordered, r

LEMMA HasTaken ==
    ASSUME NEW q \in Seq(Steps), q # <<>>, NEW do
    PROVE  Has(q, do) <=> Head(q).do = do \/ Has(Tail(q), do)
<1>1. Tail(q) \in Seq(Steps) /\ Head(q) \in Steps /\ q = <<Head(q)>> \o Tail(q)
    BY Taken
<1>2. Has(<<Head(q)>> \o Tail(q), do) <=> Head(q).do = do \/ Has(Tail(q), do)
    BY <1>1, HasPut
<1> QED
    BY <1>1, <1>2

\* An answer is left only first, or after the update that it answers.
LEMMA AnswerFirst ==
    ASSUME NEW q \in Seq(Steps), q # <<>>, Ordered(q), Has(Tail(q), "answer")
    PROVE  Head(q).do \in {"delete", "change"}
<1>1. /\ Head(q) = q[1] /\ DOMAIN Tail(q) = 1..(Len(q) - 1) /\ DOMAIN q = 1..Len(q)
      /\ Len(q) \in Nat \ {0} /\ \A i \in DOMAIN Tail(q) : Tail(q)[i] = q[i + 1]
    BY Taken
<1>2. PICK i \in DOMAIN Tail(q) : Tail(q)[i].do = "answer"
    BY DEF Has
<1>3. i + 1 \in DOMAIN q /\ i + 1 > 1 /\ (i + 1) - 1 = i /\ i \in DOMAIN q /\ q[i + 1].do = "answer"
    BY <1>1, <1>2
<1>4. q[i].do \in {"delete", "change"}
    BY <1>3 DEF Ordered
<1>5. i = 1
    BY <1>3, <1>4 DEF Ordered
<1> QED
    BY <1>1, <1>4, <1>5

\* Main takes the first step from what is left, and adds none.
LEMMA PopTodo ==
    ASSUME todo \in Seq(Steps), todo # <<>>, Ordered(todo), Then(<<>>)
    PROVE  /\ Ordered(todo')
           /\ \A do : Has(todo, do) <=> Doing(do) \/ Has(todo', do)
           /\ Doing("gone")' => Doing("stopped")
           /\ Doing("forget")' => Doing("gone") \/ Doing("dispose")
           /\ Doing("stopped")' => Doing("stop") \/ Doing("ended")
           /\ Has(todo', "answer") => Doing("delete") \/ Doing("change")
           /\ Doing("flush") => Doing("modified")'
<1>1. Tail(todo) \in Seq(Steps) /\ Head(todo) \in Steps
    BY Taken
<1>2. todo' = Tail(todo)
    BY <1>1, ConcatEmptySeq DEF Then
<1>3. Ordered(Tail(todo)) /\ Fits(Head(todo), Tail(todo))
    BY OrderedTaken
<1>4. Tail(todo) # <<>> => Head(Tail(todo)) = Tail(todo)[1]
    BY <1>1, Taken
<1>5. \A do : Has(todo, do) <=> Doing(do) \/ Has(todo', do)
    BY <1>2, HasTaken DEF Doing
<1>6. Has(todo', "answer") => Doing("delete") \/ Doing("change")
    BY <1>2, AnswerFirst DEF Doing
<1>7. /\ Doing("gone")' => Doing("stopped")
      /\ Doing("forget")' => Doing("gone") \/ Doing("dispose")
      /\ Doing("stopped")' => Doing("stop") \/ Doing("ended")
      /\ Doing("flush") => Doing("modified")'
    BY <1>2, <1>3, <1>4 DEF Doing, Fits
<1> QED
    BY <1>2, <1>3, <1>5, <1>6, <1>7

\* Main is to do a first, and has got the steps S in place of the first one.
Pushed(a, S) ==
    /\ Ordered(todo')
    /\ \A do : Doing(do)' <=> do = a
    /\ \A do : Has(todo', do) <=> do \in S \/ Has(Tail(todo), do)
    /\ \A do : Has(todo, do) <=> Doing(do) \/ Has(Tail(todo), do)
    /\ Has(Tail(todo), "answer") => Doing("delete") \/ Doing("change")

LEMMA StepIn == \A do \in Dos : Step(do) \in Steps /\ Step(do).do = do
    BY DEF Step, Steps, Operands

LEMMA PushOne ==
    ASSUME todo \in Seq(Steps), todo # <<>>, Ordered(todo), NEW a \in Dos,
           Fits(Step(a), Tail(todo)), Then(<<Step(a)>>)
    PROVE  Pushed(a, {a})
<1> DEFINE T == Tail(todo)
<1>1. T \in Seq(Steps) /\ Step(a) \in Steps /\ Step(a).do = a /\ Ordered(T)
    BY Taken, StepIn, OrderedTaken
<1>2. todo' = <<Step(a)>> \o T
    BY DEF Then
<1>3. Ordered(<<Step(a)>> \o T)
    BY <1>1, OrderedPut
<1>4. \A do : Has(<<Step(a)>> \o T, do) <=> Step(a).do = do \/ Has(T, do)
    BY <1>1, HasPut
<1>5. <<Step(a)>> \o T # <<>> /\ (<<Step(a)>> \o T)[1] = Step(a) /\ <<Step(a)>> \o T \in Seq(Steps)
    BY <1>1, Put
<1>6. Head(<<Step(a)>> \o T) = Step(a)
    BY <1>5, Taken
<1>7. \A do : Has(todo, do) <=> Doing(do) \/ Has(T, do)
    BY HasTaken DEF Doing
<1>8. Has(T, "answer") => Doing("delete") \/ Doing("change")
    BY AnswerFirst DEF Doing
<1> HIDE DEF T
<1>9. \A do : Doing(do)' <=> do = a
    BY <1>1, <1>2, <1>5, <1>6 DEF Doing
<1>10. \A do : Has(todo', do) <=> do \in {a} \/ Has(T, do)
    BY <1>1, <1>2, <1>4
<1>11. Ordered(todo')
    BY <1>2, <1>3
<1> QED
    BY <1>7, <1>8, <1>9, <1>10, <1>11 DEF Pushed, T

LEMMA PushTwo ==
    ASSUME todo \in Seq(Steps), todo # <<>>, Ordered(todo), NEW a \in Dos, NEW b \in Dos,
           Fits(Step(b), Tail(todo)), Fits(Step(a), <<Step(b)>> \o Tail(todo)),
           Then(<<Step(a), Step(b)>>)
    PROVE  Pushed(a, {a, b})
<1> DEFINE T == <<Step(b)>> \o Tail(todo)
<1>1. /\ Tail(todo) \in Seq(Steps) /\ Step(a) \in Steps /\ Step(b) \in Steps
      /\ Step(a).do = a /\ Step(b).do = b /\ Ordered(Tail(todo))
    BY Taken, StepIn, OrderedTaken
<1>2. T \in Seq(Steps) /\ Ordered(T)
    BY <1>1, Put, OrderedPut
<1>3. todo' = <<Step(a)>> \o T
  <2>1. <<Step(a), Step(b)>> = <<Step(a)>> \o <<Step(b)>>
    OBVIOUS
  <2>2. <<Step(a)>> \in Seq(Steps) /\ <<Step(b)>> \in Seq(Steps)
    BY <1>1
  <2> QED BY <1>1, <2>1, <2>2, ConcatAssociative DEF Then
<1>4. Ordered(<<Step(a)>> \o T)
    BY <1>1, <1>2, OrderedPut
<1>5. \A do : Has(<<Step(a)>> \o T, do) <=> Step(a).do = do \/ Has(T, do)
    BY <1>1, <1>2, HasPut
<1>6. \A do : Has(T, do) <=> Step(b).do = do \/ Has(Tail(todo), do)
    BY <1>1, HasPut
<1>7. <<Step(a)>> \o T # <<>> /\ (<<Step(a)>> \o T)[1] = Step(a) /\ <<Step(a)>> \o T \in Seq(Steps)
    BY <1>1, <1>2, Put
<1>8. Head(<<Step(a)>> \o T) = Step(a)
    BY <1>7, Taken
<1>9. \A do : Has(todo, do) <=> Doing(do) \/ Has(Tail(todo), do)
    BY HasTaken DEF Doing
<1>10. Has(Tail(todo), "answer") => Doing("delete") \/ Doing("change")
    BY AnswerFirst DEF Doing
<1> HIDE DEF T
<1>11. \A do : Doing(do)' <=> do = a
    BY <1>1, <1>3, <1>7, <1>8 DEF Doing
<1>12. \A do : Has(todo', do) <=> do \in {a, b} \/ Has(Tail(todo), do)
    BY <1>1, <1>3, <1>5, <1>6
<1>13. Ordered(todo')
    BY <1>3, <1>4
<1> QED
    BY <1>9, <1>10, <1>11, <1>12, <1>13 DEF Pushed

LEMMA PushThree ==
    ASSUME todo \in Seq(Steps), todo # <<>>, Ordered(todo),
           NEW a \in Dos, NEW b \in Dos, NEW c \in Dos,
           Fits(Step(c), Tail(todo)), Fits(Step(b), <<Step(c)>> \o Tail(todo)),
           Fits(Step(a), <<Step(b)>> \o (<<Step(c)>> \o Tail(todo))),
           Then(<<Step(a), Step(b), Step(c)>>)
    PROVE  Pushed(a, {a, b, c})
<1> DEFINE U == <<Step(c)>> \o Tail(todo)
           T == <<Step(b)>> \o U
<1>1. /\ Tail(todo) \in Seq(Steps) /\ Step(a) \in Steps /\ Step(b) \in Steps /\ Step(c) \in Steps
      /\ Step(a).do = a /\ Step(b).do = b /\ Step(c).do = c /\ Ordered(Tail(todo))
    BY Taken, StepIn, OrderedTaken
<1>2. U \in Seq(Steps) /\ Ordered(U)
    BY <1>1, Put, OrderedPut
<1>3. T \in Seq(Steps) /\ Ordered(T)
    BY <1>1, <1>2, Put, OrderedPut
<1>4. todo' = <<Step(a)>> \o T
  <2>1. <<Step(a), Step(b), Step(c)>> = <<Step(a)>> \o (<<Step(b)>> \o <<Step(c)>>)
    OBVIOUS
  <2>2. /\ <<Step(a)>> \in Seq(Steps) /\ <<Step(b)>> \in Seq(Steps) /\ <<Step(c)>> \in Seq(Steps)
        /\ <<Step(b)>> \o <<Step(c)>> \in Seq(Steps)
    BY <1>1
  <2>3. <<Step(a), Step(b), Step(c)>> \o Tail(todo)
            = <<Step(a)>> \o ((<<Step(b)>> \o <<Step(c)>>) \o Tail(todo))
    BY <1>1, <2>1, <2>2, ConcatAssociative
  <2>4. (<<Step(b)>> \o <<Step(c)>>) \o Tail(todo) = T
    BY <1>1, <2>2, ConcatAssociative
  <2> QED BY <2>3, <2>4 DEF Then
<1>5. Ordered(<<Step(a)>> \o T)
    BY <1>1, <1>3, OrderedPut
<1>6. \A do : Has(<<Step(a)>> \o T, do) <=> Step(a).do = do \/ Has(T, do)
    BY <1>1, <1>3, HasPut
<1>7. \A do : Has(T, do) <=> Step(b).do = do \/ Has(U, do)
    BY <1>1, <1>2, HasPut
<1>8. \A do : Has(U, do) <=> Step(c).do = do \/ Has(Tail(todo), do)
    BY <1>1, HasPut
<1>9. <<Step(a)>> \o T # <<>> /\ (<<Step(a)>> \o T)[1] = Step(a) /\ <<Step(a)>> \o T \in Seq(Steps)
    BY <1>1, <1>3, Put
<1>10. Head(<<Step(a)>> \o T) = Step(a)
    BY <1>9, Taken
<1>11. \A do : Has(todo, do) <=> Doing(do) \/ Has(Tail(todo), do)
    BY HasTaken DEF Doing
<1>12. Has(Tail(todo), "answer") => Doing("delete") \/ Doing("change")
    BY AnswerFirst DEF Doing
<1> HIDE DEF T, U
<1>13. \A do : Doing(do)' <=> do = a
    BY <1>1, <1>4, <1>9, <1>10 DEF Doing
<1>14. \A do : Has(todo', do) <=> do \in {a, b, c} \/ Has(Tail(todo), do)
    BY <1>1, <1>4, <1>6, <1>7, <1>8
<1>15. Ordered(todo')
    BY <1>4, <1>5
<1> QED
    BY <1>11, <1>12, <1>13, <1>14, <1>15 DEF Pushed

\* What asks main for an answer.
Asks == {"delete", "change", "dim"}

\* Main serves an update from the event loop or from Dodisposetask.
LEMMA ServeTodo ==
    ASSUME todo \in Seq(Steps), Ordered(todo), NEW u \in Updating,
           todo = <<>> \/ Doing("ended"), todo' = Updateauthedit(u) \o todo
    PROVE  /\ Ordered(todo') /\ ~Has(todo, "answer")
           /\ \A do : Doing(do)' => do \in Served
           /\ \A do : Has(todo, do) => Has(todo', do)
           /\ Has(todo', "answer") => u.do \in Asks
<1>1. /\ u \in Steps /\ Step("answer") \in Steps /\ Step("answer").do = "answer"
      /\ u.do \in {"delete", "change", "dim", "closed"}
    BY StepIn DEF Updating, Operands, Steps, Dos
<1>2. todo # <<>> => todo[1].do = "ended"
    BY Taken DEF Doing
<1>3. ~Has(todo, "answer")
  <2>1. CASE todo = <<>>
    BY <2>1, EmptySeq DEF Has
  <2>2. CASE todo # <<>>
    <3>1. Has(todo, "answer") => Head(todo).do = "answer" \/ Has(Tail(todo), "answer")
        BY <2>2, HasTaken
    <3> QED BY <1>2, <2>2, <3>1, Taken, AnswerFirst
  <2> QED BY <2>1, <2>2
<1>4. ASSUME NEW s \in Steps, s.do \in {"answer", "closed"}
      PROVE  Fits(s, todo)
    BY <1>2, <1>4 DEF Fits, Served
<1>5. ASSUME NEW s \in Steps, s.do \in {"answer", "closed"}, todo' = <<s>> \o todo
      PROVE  /\ Ordered(todo') /\ \A do : Doing(do)' => do = s.do
             /\ \A do : Has(todo', do) <=> do = s.do \/ Has(todo, do)
  <2>1. Ordered(<<s>> \o todo)
    BY <1>4, <1>5, OrderedPut
  <2>2. <<s>> \o todo \in Seq(Steps) /\ <<s>> \o todo # <<>> /\ (<<s>> \o todo)[1] = s
    BY <1>5, Put
  <2>3. Head(<<s>> \o todo) = s
    BY <2>2, Taken
  <2>4. \A do : Has(<<s>> \o todo, do) <=> s.do = do \/ Has(todo, do)
    BY <1>5, HasPut
  <2> QED BY <1>5, <2>1, <2>3, <2>4 DEF Doing
<1>6. CASE u.do = "closed"
  <2>1. todo' = <<u>> \o todo BY <1>6 DEF Updateauthedit
  <2> QED BY <1>1, <1>3, <1>5, <1>6, <2>1 DEF Served
<1>7. CASE u.do = "dim"
  <2>1. todo' = <<Step("answer")>> \o todo BY <1>7 DEF Updateauthedit
  <2> QED BY <1>1, <1>3, <1>5, <1>7, <2>1 DEF Served, Asks
<1>8. CASE u.do \in {"delete", "change"}
  <2> DEFINE q == <<Step("answer")>> \o todo
  <2>1. todo' = <<u>> \o q
    <3>1. <<u, Step("answer")>> = <<u>> \o <<Step("answer")>> OBVIOUS
    <3>2. <<u>> \in Seq(Steps) /\ <<Step("answer")>> \in Seq(Steps) BY <1>1
    <3>3. todo' = <<u, Step("answer")>> \o todo BY <1>8 DEF Updateauthedit
    <3> QED BY <3>1, <3>2, <3>3, ConcatAssociative
  <2>2. Ordered(q) BY <1>1, <1>4, OrderedPut
  <2>3. q \in Seq(Steps) /\ q # <<>> /\ q[1] = Step("answer") BY <1>1, Put
  <2>4. Fits(u, q) BY <1>1, <1>8, <2>3 DEF Fits, Served
  <2>5. \A do : Has(q, do) <=> "answer" = do \/ Has(todo, do) BY <1>1, HasPut
  <2> HIDE DEF q
  <2>6. Ordered(<<u>> \o q) BY <1>1, <2>2, <2>3, <2>4, OrderedPut
  <2>7. \A do : Has(<<u>> \o q, do) <=> u.do = do \/ Has(q, do) BY <1>1, <2>3, HasPut
  <2>8. <<u>> \o q \in Seq(Steps) /\ <<u>> \o q # <<>> /\ (<<u>> \o q)[1] = u BY <1>1, <2>3, Put
  <2>9. Head(<<u>> \o q) = u BY <2>8, Taken
  <2> QED BY <1>3, <1>8, <2>1, <2>5, <2>6, <2>7, <2>9 DEF Doing, Served, Asks
<1> QED
    BY <1>1, <1>6, <1>7, <1>8

---------------------------------------------------------------------------
(* What the window shows: its task and its updates.                        *)

\* One update at most waits for its answer, and only while the window's task does.
RequestInv ==
    /\ \A i \in DOMAIN port : port[i].do \in Asks =>
          /\ window.at \in {"sync", "place"} /\ ~Has(todo, "answer")
          /\ \A j \in DOMAIN port : port[j].do \in Asks => j = i
    /\ Has(todo, "answer") => window.at \in {"sync", "place"}

\* The object is there for its task, and known but while it is being opened; and
\* there is a process only while the object has the task or its end is awaited.
OpenInv ==
    /\ aew.task => aew.exists
    /\ aew.exists /\ ~aew.known => Doing("opened")
    /\ Doing("gone") => ~aew.task
    /\ Doing("forget") => ~aew.exists
    /\ Doing("stopped") => window.at = None
    /\ window.at # None => aew.task \/ Has(todo, "stop") \/ Has(todo, "ended")

\* What a step of main leaves as it was, and that it asks for no answer.
OpenKept ==
    Ordered(todo') /\ OpenInv' /\ (Has(todo', "answer") => Has(todo, "answer"))

\* Nobody waits for the end of the task when main does something else.
LEMMA NotEnding ==
    ASSUME todo \in Seq(Steps), Ordered(todo), NEW d, Doing(d), d \notin Served,
           d # "stop", d # "ended"
    PROVE  ~Has(todo, "stop") /\ ~Has(todo, "ended")
<1>1. todo # <<>> /\ Head(todo).do = d
    BY DEF Doing
<1>2. Fits(Head(todo), Tail(todo))
    BY <1>1, OrderedTaken
<1>3. ~Has(todo, "ended")
    BY <1>1, <1>2, HasTaken DEF Fits
<1>4. \A i \in DOMAIN todo : todo[i].do = "stop" => todo[1].do = "stop"
    BY DEF Ordered
<1>5. ~Has(todo, "stop")
    BY <1>1, <1>4, Taken DEF Has
<1> QED
    BY <1>3, <1>5

\* The first step is done, and nothing is opened or closed.
LEMMA PopKeeps ==
    ASSUME todo \in Seq(Steps), Ordered(todo), OpenInv, NEW d, Doing(d), Then(<<>>),
           d \notin {"opened", "stopped", "gone", "dispose", "stop", "ended"},
           aew'.task = aew.task, aew'.exists = aew.exists, aew'.known = aew.known,
           window'.at = None => window.at = None, window.at = None => window'.at = None
    PROVE  OpenKept
<1>1. todo # <<>> /\ \A e : Doing(e) => e = d
    BY DEF Doing
<1>2. /\ Ordered(todo')
      /\ \A do : Has(todo, do) <=> Doing(do) \/ Has(todo', do)
      /\ Doing("gone")' => Doing("stopped")
      /\ Doing("forget")' => Doing("gone") \/ Doing("dispose")
      /\ Doing("stopped")' => Doing("stop") \/ Doing("ended")
    BY <1>1, PopTodo
<1>3. ~Doing("gone")' /\ ~Doing("forget")' /\ ~Doing("stopped")' /\ ~Doing("opened")
      /\ ~Doing("stop") /\ ~Doing("ended")
    BY <1>1, <1>2
<1>4. OpenInv' <=>
      (/\ aew'.task => aew'.exists
       /\ aew'.exists /\ ~aew'.known => Doing("opened")'
       /\ Doing("gone")' => ~aew'.task
       /\ Doing("forget")' => ~aew'.exists
       /\ Doing("stopped")' => window'.at = None
       /\ window'.at # None => aew'.task \/ Has(todo', "stop") \/ Has(todo', "ended"))
    BY DEF OpenInv
<1>5. Has(todo, "stop") => Has(todo', "stop")
    BY <1>2, <1>3
<1>6. Has(todo, "ended") => Has(todo', "ended")
    BY <1>2, <1>3
<1>7. OpenInv'
    BY <1>3, <1>4, <1>5, <1>6 DEF OpenInv
<1>8. Has(todo', "answer") => Has(todo, "answer")
    BY <1>2
<1> QED
    BY <1>2, <1>7, <1>8 DEF OpenKept

\* Main goes on with a step a of what it has begun.
LEMMA PushKeeps ==
    ASSUME todo \in Seq(Steps), Ordered(todo), OpenInv, NEW d \in Dos, NEW a \in Dos, Doing(d),
           d \in {"save", "ifsave", "screen", "screenoff"}, a \in {"saved", "save", "screenvalid"},
           Then(<<Step(a)>>),
           aew'.task = aew.task, aew'.exists = aew.exists, aew'.known = aew.known,
           window'.at = window.at
    PROVE  OpenKept
<1>1. todo # <<>> /\ Head(todo).do = d /\ \A e : Doing(e) => e = d
    BY DEF Doing
<1>2. Fits(Step(a), Tail(todo))
    BY <1>1, OrderedTaken, StepIn DEF Fits, Served
<1>3. Pushed(a, {a})
    BY <1>1, <1>2, PushOne
<1>4. ~Has(todo, "stop") /\ ~Has(todo, "ended")
    BY NotEnding DEF Served
<1>5. ~Doing("gone")' /\ ~Doing("forget")' /\ ~Doing("stopped")' /\ ~Doing("opened")
    BY <1>1, <1>3 DEF Pushed
<1>6. OpenInv'
    BY <1>4, <1>5 DEF OpenInv
<1>7. Has(todo', "answer") => Has(todo, "answer")
    BY <1>3 DEF Pushed
<1> QED
    BY <1>3, <1>6, <1>7 DEF OpenKept, Pushed

\* Newauthedit finds that no process is left of an earlier window.
LEMMA OpenFinds ==
    ASSUME todo \in Seq(Steps), Ordered(todo), OpenInv, Doing("open"), ~(aew.known /\ aew.task)
    PROVE  window.at = None
<1>1. ~Has(todo, "stop") /\ ~Has(todo, "ended") /\ ~Doing("opened")
    BY NotEnding DEF Served, Doing
<1> QED
    BY <1>1 DEF OpenInv

LEMMA OpenKeeps ==
    ASSUME OwnTypes, Ordered(todo), OpenInv, Openauthedit
    PROVE  OpenKept
<1>1. todo \in Seq(Steps) /\ aew \in AewRecord /\ window \in WindowRecord /\ Doing("open") /\ todo # <<>>
      /\ Head(todo).do = "open"
    BY DEF OwnTypes, AewRecord, WindowRecord, Openauthedit, Doing
<1>2. CASE aew.known /\ aew.task
  <2>1. Then(<<>>) /\ aew' = aew /\ window' = window
    BY <1>2 DEF Openauthedit
  <2> QED BY <1>1, <2>1, PopKeeps
<1>3. CASE ~(aew.known /\ aew.task)
  <2>1. /\ Then(<<Step("opened")>>)
        /\ aew' = [aew EXCEPT !.exists = TRUE, !.known = FALSE, !.task = aew.screen, !.wasopen = FALSE]
        /\ IF aew.screen THEN Starttask ELSE UNCHANGED window
    BY <1>3 DEF Openauthedit
  <2>2. window.at = None
    BY <1>1, <1>3, OpenFinds
  <2>3. Fits(Step("opened"), Tail(todo))
    BY <1>1, OrderedTaken, StepIn DEF Fits, Served, Dos
  <2>4. Pushed("opened", {"opened"})
    BY <1>1, <2>1, <2>3, PushOne DEF Dos
  <2>5. Doing("opened")' /\ ~Doing("gone")' /\ ~Doing("forget")' /\ ~Doing("stopped")'
    BY <2>4 DEF Pushed
  <2>6. aew'.exists /\ aew'.task = aew.screen
    BY <1>1, <2>1 DEF AewRecord
  <2>7. window'.at # None => aew.screen
    BY <2>1, <2>2
  <2>8. OpenInv'
    BY <2>5, <2>6, <2>7 DEF OpenInv
  <2> QED BY <2>4, <2>8 DEF OpenKept, Pushed
<1> QED BY <1>2, <1>3

LEMMA OpenedKeeps ==
    ASSUME OwnTypes, Ordered(todo), OpenInv, Opened \/ Disposed \/ Closeauthedit
    PROVE  OpenKept
<1>1. todo \in Seq(Steps) /\ aew \in AewRecord /\ todo # <<>> /\ Then(<<>>) /\ window' = window
    BY DEF OwnTypes, AewRecord, Opened, Disposed, Closeauthedit, Doing, winvars
<1>2. /\ Ordered(todo')
      /\ \A do : Has(todo, do) <=> Doing(do) \/ Has(todo', do)
      /\ Doing("gone")' => Doing("stopped")
      /\ Doing("forget")' => Doing("gone") \/ Doing("dispose")
      /\ Doing("stopped")' => Doing("stop") \/ Doing("ended")
    BY <1>1, PopTodo
<1>3. ASSUME NEW d \in {"opened", "gone", "forget"}, Doing(d)
      PROVE  \A e : Doing(e) => e = d
    BY <1>3 DEF Doing
<1>4. OpenInv' <=>
      (/\ aew'.task => aew'.exists
       /\ aew'.exists /\ ~aew'.known => Doing("opened")'
       /\ Doing("gone")' => ~aew'.task
       /\ Doing("forget")' => ~aew'.exists
       /\ Doing("stopped")' => window'.at = None
       /\ window'.at # None => aew'.task \/ Has(todo', "stop") \/ Has(todo', "ended"))
    BY DEF OpenInv
<1>5. ASSUME NEW d \in {"opened", "gone", "forget"}, Doing(d)
      PROVE  /\ ~Doing("gone")' /\ ~Doing("stopped")'
             /\ ~Has(todo, "stop") /\ ~Has(todo, "ended")
             /\ d # "gone" => ~Doing("forget")'
  <2>1. \A e : Doing(e) => e = d
    BY <1>3, <1>5
  <2>2. ~Has(todo, "stop") /\ ~Has(todo, "ended")
    BY <1>1, <1>5, NotEnding DEF Served
  <2> QED BY <1>2, <2>1, <2>2
<1>6. CASE Opened
  <2>1. Doing("opened") /\ aew'.known /\ aew'.task = aew.task /\ aew'.exists = aew.exists
    BY <1>1, <1>6 DEF Opened, AewRecord
  <2>2. OpenInv'
    BY <1>1, <1>4, <1>5, <2>1 DEF OpenInv
  <2> QED BY <1>2, <2>2 DEF OpenKept
<1>7. CASE Disposed
  <2>1. Doing("gone") /\ aew'.known = aew.known /\ aew'.task = aew.task /\ ~aew'.exists
    BY <1>1, <1>7 DEF Disposed, AewRecord
  <2>2. OpenInv'
    BY <1>1, <1>4, <1>5, <2>1 DEF OpenInv
  <2> QED BY <1>2, <2>2 DEF OpenKept
<1>8. CASE Closeauthedit
  <2>1. Doing("forget") /\ aew'.exists = aew.exists /\ aew'.task = aew.task
    BY <1>1, <1>8 DEF Closeauthedit, AewRecord
  <2>2. OpenInv'
    BY <1>1, <1>4, <1>5, <2>1 DEF OpenInv
  <2> QED BY <1>2, <2>2 DEF OpenKept
<1> QED BY <1>6, <1>7, <1>8

LEMMA DisposeKeeps ==
    ASSUME OwnTypes, Ordered(todo), OpenInv, Disposeauthedit
    PROVE  OpenKept
<1>1. /\ todo \in Seq(Steps) /\ aew \in AewRecord /\ todo # <<>> /\ window' = window
      /\ Doing("dispose") /\ Head(todo).do = "dispose" /\ ~Doing("opened")
    BY DEF OwnTypes, AewRecord, Disposeauthedit, Doing, winvars
<1>2. ~Has(todo, "stop") /\ ~Has(todo, "ended")
    BY <1>1, NotEnding DEF Served
<1>3. aew'.known = aew.known /\ aew'.task = aew.task /\ aew'.exists = aew.exists
    BY <1>1 DEF Disposeauthedit, AewRecord
<1>4. Tail(todo) \in Seq(Steps) /\ Fits(Step("gone"), Tail(todo))
  <2>1. Step("gone").do = "gone" BY StepIn DEF Dos
  <2>2. Fits(Head(todo), Tail(todo)) /\ Tail(todo) \in Seq(Steps) BY <1>1, OrderedTaken, Taken
  <2> QED BY <1>1, <2>1, <2>2 DEF Fits, Served
<1>5. CASE aew.exists /\ aew.task
  <2> DEFINE q == <<Step("gone")>> \o Tail(todo)
             r == <<Step("stopped")>> \o q
  <2>1. Then(<<Step("stop"), Step("stopped"), Step("gone")>>)
    BY <1>5 DEF Disposeauthedit
  <2>2. /\ Step("stop").do = "stop" /\ Step("stopped").do = "stopped" /\ Step("gone").do = "gone"
        /\ Step("stop") \in Steps /\ Step("stopped") \in Steps /\ Step("gone") \in Steps
    BY StepIn DEF Dos
  <2>3. q \in Seq(Steps) /\ q[1].do = "gone" /\ \A do : Has(q, do) <=> do = "gone" \/ Has(Tail(todo), do)
    <3>1. q \in Seq(Steps) /\ q[1] = Step("gone")
        BY <1>4, <2>2, Put
    <3>2. \A do : Has(q, do) <=> Step("gone").do = do \/ Has(Tail(todo), do)
        BY <1>4, <2>2, HasPut
    <3> HIDE DEF q
    <3> QED BY <2>2, <3>1, <3>2
  <2>4. r[1].do = "stopped" /\ \A do : Has(r, do) <=> do = "stopped" \/ Has(q, do)
    <3> HIDE DEF q
    <3>1. r[1] = Step("stopped")
        BY <2>2, <2>3, Put
    <3>2. \A do : Has(r, do) <=> Step("stopped").do = do \/ Has(q, do)
        BY <2>2, <2>3, HasPut
    <3> HIDE DEF r
    <3> QED BY <2>2, <3>1, <3>2
  <2>5. ~Has(Tail(todo), "ended")
    BY <1>1, <1>2, HasTaken
  <2>6. Fits(Step("stopped"), q)
    BY <2>2, <2>3, <2>5 DEF Fits
  <2>7. Fits(Step("stop"), r)
    BY <2>2, <2>3, <2>4, <2>5 DEF Fits
  <2>8. Pushed("stop", {"stop", "stopped", "gone"})
    BY <1>1, <1>4, <2>1, <2>6, <2>7, PushThree DEF Dos
  <2> HIDE DEF q, r
  <2>9. ~Doing("gone")' /\ ~Doing("forget")' /\ ~Doing("stopped")' /\ Has(todo', "stop")
    BY <2>8 DEF Pushed
  <2>10. OpenInv'
    BY <1>1, <1>3, <2>9 DEF OpenInv
  <2>11. Has(todo', "answer") => Has(todo, "answer")
    BY <2>8 DEF Pushed
  <2> QED BY <2>8, <2>10, <2>11 DEF OpenKept, Pushed
<1>6. CASE ~(aew.exists /\ aew.task)
  <2>1. Then(<<Step("gone")>>)
    BY <1>6 DEF Disposeauthedit
  <2>2. Pushed("gone", {"gone"})
    BY <1>1, <1>4, <2>1, PushOne DEF Dos
  <2>3. ~Doing("forget")' /\ ~Doing("stopped")'
    BY <2>2 DEF Pushed
  <2>4. OpenInv'
    BY <1>1, <1>2, <1>3, <1>6, <2>3 DEF OpenInv
  <2>5. Has(todo', "answer") => Has(todo, "answer")
    BY <2>2 DEF Pushed
  <2> QED BY <2>2, <2>4, <2>5 DEF OpenKept, Pushed
<1> QED BY <1>5, <1>6

\* An awaited end is Dodisposetask's: it has no operands.
LEMMA NoStepEnded ==
    ASSUME todo \in Seq(Steps), todo # <<>>, Ordered(todo), Doing("closed"),
           Step("ended") \notin ToSet(todo)
    PROVE  ~Has(Tail(todo), "ended")
<1>1. ~Has(todo, "ended")
    BY DEF Has, ToSet, Ordered
<1> QED BY <1>1, HasTaken

\* Main's part of the end of a task: the CTRL-C, and what it serves until then.
LEMMA StopKeeps ==
    ASSUME OwnTypes, Ordered(todo), OpenInv, Stoptask
    PROVE  OpenKept
<1>1. /\ todo \in Seq(Steps) /\ todo # <<>> /\ aew' = aew /\ window \in WindowRecord
      /\ Doing("stop") /\ Head(todo).do = "stop" /\ ~Doing("opened") /\ Then(<<Step("ended")>>)
    BY DEF OwnTypes, WindowRecord, Stoptask, Doing
<1>2. window'.at = window.at
    BY <1>1 DEF Stoptask, WindowRecord
<1>3. Fits(Step("ended"), Tail(todo))
  <2>1. Step("ended").do = "ended" BY StepIn DEF Dos
  <2>2. Fits(Head(todo), Tail(todo)) BY <1>1, OrderedTaken
  <2> QED BY <1>1, <2>1, <2>2 DEF Fits, Served
<1>4. Pushed("ended", {"ended"})
    BY <1>1, <1>3, PushOne DEF Dos
<1>5. ~Doing("gone")' /\ ~Doing("forget")' /\ ~Doing("stopped")' /\ Has(todo', "ended")
    BY <1>4 DEF Pushed
<1>6. OpenInv'
    BY <1>1, <1>2, <1>5 DEF OpenInv
<1>7. Has(todo', "answer") => Has(todo, "answer")
    BY <1>4 DEF Pushed
<1> QED BY <1>4, <1>6, <1>7 DEF OpenKept, Pushed

\* Dodisposetask finds that the task has ended.
LEMMA EndedKeeps ==
    ASSUME OwnTypes, Ordered(todo), OpenInv, Dodisposetask, port = <<>>
    PROVE  OpenKept
<1>1. /\ todo \in Seq(Steps) /\ todo # <<>> /\ aew' = aew /\ window'.at = None
      /\ Doing("ended") /\ ~Doing("opened") /\ Then(<<>>) /\ \A e : Doing(e) => e = "ended"
    BY DEF OwnTypes, WindowRecord, Dodisposetask, Doing
<1>2. /\ Ordered(todo')
      /\ \A do : Has(todo, do) <=> Doing(do) \/ Has(todo', do)
      /\ Doing("gone")' => Doing("stopped")
      /\ Doing("forget")' => Doing("gone") \/ Doing("dispose")
    BY <1>1, PopTodo
<1>3. ~Doing("gone")' /\ ~Doing("forget")'
    BY <1>1, <1>2
<1>4. OpenInv'
    BY <1>1, <1>3 DEF OpenInv
<1> QED BY <1>2, <1>4 DEF OpenKept

LEMMA StoppedKeeps ==
    ASSUME OwnTypes, Ordered(todo), OpenInv, Stopped
    PROVE  OpenKept
<1>1. /\ todo \in Seq(Steps) /\ todo # <<>> /\ aew \in AewRecord /\ window' = window
      /\ Doing("stopped") /\ ~Doing("opened") /\ Then(<<>>) /\ \A e : Doing(e) => e = "stopped"
    BY DEF OwnTypes, AewRecord, Stopped, Doing, winvars
<1>2. ~aew'.task /\ aew'.exists = aew.exists /\ aew'.known = aew.known
    BY <1>1 DEF Stopped, AewRecord
<1>3. /\ Ordered(todo')
      /\ \A do : Has(todo, do) <=> Doing(do) \/ Has(todo', do)
      /\ Doing("forget")' => Doing("gone") \/ Doing("dispose")
      /\ Doing("stopped")' => Doing("stop") \/ Doing("ended")
    BY <1>1, PopTodo
<1>4. ~Doing("stopped")' /\ ~Doing("forget")'
    BY <1>1, <1>3
<1>5. OpenInv'
    BY <1>1, <1>2, <1>4 DEF OpenInv
<1> QED BY <1>3, <1>5 DEF OpenKept

LEMMA CloseKeeps ==
    ASSUME OwnTypes, Ordered(todo), OpenInv, CloseUpdate
    PROVE  OpenKept
<1>1. /\ todo \in Seq(Steps) /\ todo # <<>> /\ aew \in AewRecord /\ window' = window
      /\ Doing("closed") /\ Head(todo).do = "closed" /\ ~Doing("opened") /\ \A e : Doing(e) => e = "closed"
    BY DEF OwnTypes, AewRecord, CloseUpdate, Doing, winvars
<1>2. CASE aew.breaking \/ ~aew.task
  <2>1. Then(<<>>) /\ aew' = aew
    BY <1>2 DEF CloseUpdate
  <2> QED BY <1>1, <2>1, PopKeeps
<1>3. CASE ~(aew.breaking \/ ~aew.task) /\ Step("ended") \in ToSet(todo)
  <2>1. Then(<<>>) /\ ~aew'.task /\ aew'.exists = aew.exists /\ aew'.known = aew.known
    BY <1>1, <1>3 DEF CloseUpdate, AewRecord
  <2>2. Has(todo, "ended")
    BY <1>3, StepIn DEF Has, ToSet, Dos
  <2>3. /\ Ordered(todo')
        /\ \A do : Has(todo, do) <=> Doing(do) \/ Has(todo', do)
        /\ Doing("forget")' => Doing("gone") \/ Doing("dispose")
        /\ Doing("stopped")' => Doing("stop") \/ Doing("ended")
    BY <1>1, <2>1, PopTodo
  <2>4. ~Doing("stopped")' /\ ~Doing("forget")' /\ Has(todo', "ended")
    BY <1>1, <2>2, <2>3
  <2>5. OpenInv'
    BY <1>1, <2>1, <2>4 DEF OpenInv
  <2> QED BY <2>3, <2>5 DEF OpenKept
<1>4. CASE ~(aew.breaking \/ ~aew.task) /\ Step("ended") \notin ToSet(todo)
  <2>1. Then(<<Step("stop")>>) /\ ~aew'.task /\ aew'.exists = aew.exists /\ aew'.known = aew.known
    BY <1>1, <1>4 DEF CloseUpdate, AewRecord
  <2>2. ~Has(Tail(todo), "ended")
    BY <1>1, <1>4, NoStepEnded
  <2>3. Fits(Step("stop"), Tail(todo))
    <3>1. Step("stop").do = "stop" BY StepIn DEF Dos
    <3>2. Fits(Head(todo), Tail(todo)) BY <1>1, OrderedTaken
    <3> QED BY <1>1, <2>2, <3>1, <3>2 DEF Fits
  <2>4. Pushed("stop", {"stop"})
    BY <1>1, <2>1, <2>3, PushOne DEF Dos
  <2>5. ~Doing("gone")' /\ ~Doing("forget")' /\ ~Doing("stopped")' /\ Has(todo', "stop")
    BY <2>4 DEF Pushed
  <2>6. OpenInv'
    BY <1>1, <2>1, <2>5 DEF OpenInv
  <2>7. Has(todo', "answer") => Has(todo, "answer")
    BY <2>4 DEF Pushed
  <2> QED BY <2>4, <2>6, <2>7 DEF OpenKept, Pushed
<1> QED BY <1>2, <1>3, <1>4

LEMMA ScreenKeeps ==
    ASSUME OwnTypes, Ordered(todo), OpenInv, Setauthedit
    PROVE  OpenKept /\ (window'.at = window.at \/ window.at = None)
<1>1. /\ todo \in Seq(Steps) /\ todo # <<>> /\ aew \in AewRecord /\ window \in WindowRecord
      /\ Doing("screenvalid") /\ Head(todo).do = "screenvalid" /\ ~Doing("opened")
      /\ \A e : Doing(e) => e = "screenvalid"
    BY DEF OwnTypes, AewRecord, WindowRecord, Setauthedit, Doing
<1>2. ~Has(todo, "stop") /\ ~Has(todo, "ended")
    BY <1>1, NotEnding DEF Served
<1>3. CASE aew.exists /\ ~aew.screen /\ aew.task /\ Then(<<Step("stop"), Step("stopped")>>)
           /\ window' = window /\ aew' = [aew EXCEPT !.breaking = TRUE, !.wasopen = TRUE]
  <2> DEFINE q == <<Step("stopped")>> \o Tail(todo)
  <2>1. aew'.task = aew.task /\ aew'.exists = aew.exists /\ aew'.known = aew.known
    BY <1>1, <1>3 DEF AewRecord
  <2>2. /\ Step("stop").do = "stop" /\ Step("stopped").do = "stopped"
        /\ Step("stop") \in Steps /\ Step("stopped") \in Steps /\ Tail(todo) \in Seq(Steps)
    BY <1>1, StepIn, Taken DEF Dos
  <2>3. q[1] = Step("stopped")
    BY <2>2, Put
  <2>4. \A do : Has(q, do) <=> Step("stopped").do = do \/ Has(Tail(todo), do)
    BY <2>2, HasPut
  <2>5. ~Has(Tail(todo), "ended") /\ Fits(Head(todo), Tail(todo))
    BY <1>1, <1>2, HasTaken, OrderedTaken
  <2>6. Fits(Step("stopped"), Tail(todo))
    BY <1>1, <2>2, <2>5 DEF Fits
  <2>7. Fits(Step("stop"), q)
    BY <2>2, <2>3, <2>4, <2>5 DEF Fits
  <2>8. Pushed("stop", {"stop", "stopped"})
    BY <1>1, <1>3, <2>6, <2>7, PushTwo DEF Dos
  <2> HIDE DEF q
  <2>9. ~Doing("gone")' /\ ~Doing("forget")' /\ ~Doing("stopped")'
    BY <2>8 DEF Pushed
  <2>10. OpenInv'
    BY <1>1, <1>3, <2>1, <2>9 DEF OpenInv
  <2>11. Has(todo', "answer") => Has(todo, "answer")
    BY <2>8 DEF Pushed
  <2> QED BY <1>3, <2>8, <2>10, <2>11 DEF OpenKept, Pushed
<1>4. CASE aew.exists /\ ~aew.task /\ Then(<<>>) /\ Starttask /\ aew' = [aew EXCEPT !.task = TRUE]
  <2>1. aew'.task /\ aew'.exists /\ aew'.known = aew.known
    BY <1>1, <1>4 DEF AewRecord
  <2>2. /\ Ordered(todo')
        /\ \A do : Has(todo, do) <=> Doing(do) \/ Has(todo', do)
        /\ Doing("gone")' => Doing("stopped")
        /\ Doing("forget")' => Doing("gone") \/ Doing("dispose")
        /\ Doing("stopped")' => Doing("stop") \/ Doing("ended")
    BY <1>1, <1>4, PopTodo
  <2>3. ~Doing("gone")' /\ ~Doing("forget")' /\ ~Doing("stopped")'
    BY <1>1, <2>2
  <2>4. OpenInv'
    BY <1>1, <1>4, <2>1, <2>3 DEF OpenInv
  <2>5. window.at = None
    BY <1>2, <1>4 DEF OpenInv
  <2> QED BY <2>2, <2>4, <2>5 DEF OpenKept
<1>5. CASE Then(<<>>) /\ aew' = aew /\ window' = window
    BY <1>1, <1>5, PopKeeps
<1> QED BY <1>3, <1>4, <1>5 DEF Setauthedit

LEMMA RequestFrame ==
    ASSUME RequestInv, port' = port, Has(todo', "answer") => Has(todo, "answer"),
           window'.at = window.at \/ window.at \notin {"sync", "place"}
    PROVE  RequestInv'
<1>1. RequestInv' <=>
      (/\ \A i \in DOMAIN port' : port'[i].do \in Asks =>
             /\ window'.at \in {"sync", "place"} /\ ~Has(todo', "answer")
             /\ \A j \in DOMAIN port' : port'[j].do \in Asks => j = i
       /\ Has(todo', "answer") => window'.at \in {"sync", "place"})
    BY DEF RequestInv
<1> QED BY <1>1 DEF RequestInv

\* Main serves an update.
LEMMA ServeKeeps ==
    ASSUME OwnTypes, Ordered(todo), OpenInv, RequestInv, port # <<>>,
           todo = <<>> \/ Doing("ended"), todo' = Updateauthedit(Head(port)) \o todo,
           port' = Tail(port), UNCHANGED <<aew, window>>
    PROVE  Ordered(todo') /\ OpenInv' /\ RequestInv'
<1> DEFINE u == Head(port)
<1>1. todo \in Seq(Steps) /\ port \in Seq(Updating)
    BY DEF OwnTypes
<1>2. /\ u \in Updating /\ u = port[1] /\ 1 \in DOMAIN port /\ Len(port) \in Nat
      /\ DOMAIN Tail(port) = 1..(Len(port) - 1) /\ DOMAIN port = 1..Len(port)
      /\ \A i \in DOMAIN Tail(port) : Tail(port)[i] = port[i + 1]
  <2>1. Len(port) \in Nat /\ Len(port) # 0 /\ DOMAIN port = 1..Len(port)
    BY <1>1, EmptySeq, LenProperties
  <2>2. /\ Tail(port) \in Seq(Updating) /\ Len(Tail(port)) = Len(port) - 1
        /\ \A i \in 1..Len(port) - 1 : Tail(port)[i] = port[i + 1]
    BY <1>1, HeadTailProperties
  <2>3. Head(port) \in Updating /\ Head(port) = port[1]
    BY <1>1, HeadTailProperties
  <2>4. DOMAIN Tail(port) = 1..(Len(port) - 1)
    BY <2>2, LenProperties
  <2> QED BY <2>1, <2>2, <2>3, <2>4
<1>3. /\ Ordered(todo') /\ ~Has(todo, "answer")
      /\ \A do : Doing(do)' => do \in Served
      /\ \A do : Has(todo, do) => Has(todo', do)
      /\ Has(todo', "answer") => u.do \in Asks
    BY <1>1, <1>2, ServeTodo
<1>4. ~Doing("opened") /\ ~Doing("gone")' /\ ~Doing("forget")' /\ ~Doing("stopped")'
    BY <1>3 DEF Doing, Served
<1>5. OpenInv'
    BY <1>3, <1>4 DEF OpenInv
<1> HIDE DEF u
<1>6. ASSUME NEW i \in DOMAIN Tail(port), Tail(port)[i].do \in Asks
      PROVE  /\ window.at \in {"sync", "place"} /\ ~Has(todo', "answer")
             /\ \A j \in DOMAIN Tail(port) : Tail(port)[j].do \in Asks => j = i
  <2>1. i + 1 \in DOMAIN port /\ port[i + 1].do \in Asks /\ i + 1 # 1 /\ i \in Nat
    BY <1>2, <1>6
  <2>2. window.at \in {"sync", "place"} /\ \A j \in DOMAIN port : port[j].do \in Asks => j = i + 1
    BY <2>1 DEF RequestInv
  <2>3. u.do \notin Asks
    BY <1>2, <2>1, <2>2
  <2>4. ASSUME NEW j \in DOMAIN Tail(port), Tail(port)[j].do \in Asks PROVE j = i
    <3>1. j + 1 \in DOMAIN port /\ port[j + 1].do \in Asks /\ j \in Nat BY <1>2, <2>4
    <3>2. j + 1 = i + 1 BY <2>2, <3>1
    <3> QED BY <2>1, <3>1, <3>2
  <2> QED BY <1>3, <2>2, <2>3, <2>4
<1>7. Has(todo', "answer") => window.at \in {"sync", "place"}
    BY <1>2, <1>3 DEF RequestInv
<1>8. RequestInv' <=>
      (/\ \A i \in DOMAIN port' : port'[i].do \in Asks =>
             /\ window'.at \in {"sync", "place"} /\ ~Has(todo', "answer")
             /\ \A j \in DOMAIN port' : port'[j].do \in Asks => j = i
       /\ Has(todo', "answer") => window'.at \in {"sync", "place"})
    BY DEF RequestInv
<1> QED BY <1>3, <1>5, <1>6, <1>7, <1>8

\* Main answers the update that the window's task waits for.
LEMMA AnswerKeeps ==
    ASSUME OwnTypes, Ordered(todo), OpenInv, RequestInv, Answer
    PROVE  Ordered(todo') /\ OpenInv' /\ RequestInv' /\ window'.at \in {"redraw", "free"}
<1>1. /\ todo \in Seq(Steps) /\ todo # <<>> /\ window \in WindowRecord /\ Then(<<>>)
      /\ aew' = aew /\ port' = port /\ Doing("answer") /\ \A e : Doing(e) => e = "answer"
    BY DEF OwnTypes, WindowRecord, Answer, Doing
<1>2. window'.at \in {"redraw", "free"}
    BY <1>1 DEF Answer, WindowRecord
<1>3. Has(todo, "answer")
    BY <1>1, HasTaken DEF Doing
<1>4. window.at \in {"sync", "place"} /\ \A i \in DOMAIN port : port[i].do \notin Asks
    BY <1>3 DEF RequestInv
<1>5. window.at # None /\ window'.at # None
    BY <1>2, <1>4 DEF None
<1>6. OpenKept
    BY <1>1, <1>5, PopKeeps
<1>7. Has(todo', "answer") => Doing("delete") \/ Doing("change")
    BY <1>1, PopTodo
<1>8. ~Has(todo', "answer")
    BY <1>1, <1>7
<1>9. RequestInv' <=>
      (/\ \A i \in DOMAIN port' : port'[i].do \in Asks =>
             /\ window'.at \in {"sync", "place"} /\ ~Has(todo', "answer")
             /\ \A j \in DOMAIN port' : port'[j].do \in Asks => j = i
       /\ Has(todo', "answer") => window'.at \in {"sync", "place"})
    BY DEF RequestInv
<1> QED BY <1>1, <1>2, <1>4, <1>6, <1>8, <1>9 DEF OpenKept

\* The rest of main's steps.
LEMMA PlainKeeps ==
    ASSUME OwnTypes, Ordered(todo), OpenInv, MainStep, ~Answer, ~Processtask,
           ~(Dodisposetask /\ port # <<>>)
    PROVE  OpenKept /\ port' = port /\ (window'.at = window.at \/ window.at \in {None, "dead"})
<1>1. todo \in Seq(Steps) /\ aew \in AewRecord /\ window \in WindowRecord
    BY DEF OwnTypes, AewRecord, WindowRecord
<1>2. CASE Finddeletenode \/ Findchangenode
  <2>1. Then(<<>>) /\ aew' = aew /\ window' = window /\ port' = port /\ (Doing("delete") \/ Doing("change"))
    BY <1>2 DEF Finddeletenode, Findchangenode, winvars
  <2> QED BY <1>1, <2>1, PopKeeps
<1>3. CASE Written \/ Flushauthor \/ Deinstalltask
  <2>1. /\ Then(<<>>) /\ aew' = aew /\ window' = window /\ port' = port
        /\ Doing("saved") \/ Doing("flush") \/ Doing("deinstall")
    BY <1>3 DEF Written, Flushauthor, Deinstalltask, winvars
  <2> QED BY <1>1, <2>1, PopKeeps
<1>4. CASE MainModified
  <2>1. Then(<<>>) /\ aew' = aew /\ window' = window /\ port' = port /\ Doing("modified")
    BY <1>4 DEF MainModified
  <2> QED BY <1>1, <2>1, PopKeeps
<1>5. CASE Writes
  <2>1. Then(<<Step("saved")>>) /\ aew' = aew /\ window' = window /\ port' = port /\ Doing("save")
    BY <1>5 DEF Writes, winvars
  <2> QED BY <1>1, <2>1, PushKeeps DEF Dos
<1>6. CASE IfSave
  <2>1. /\ Then(<<Step("save")>>) \/ Then(<<>>)
        /\ aew' = aew /\ window' = window /\ port' = port /\ Doing("ifsave")
    BY <1>6 DEF IfSave, winvars
  <2> QED BY <1>1, <2>1, PushKeeps, PopKeeps DEF Dos
<1>7. CASE Screen
  <2>1. /\ Then(<<Step("screenvalid")>>) \/ Then(<<>>)
        /\ window' = window /\ port' = port /\ (Doing("screen") \/ Doing("screenoff"))
    BY <1>7 DEF Screen, winvars
  <2>2. aew'.task = aew.task /\ aew'.exists = aew.exists /\ aew'.known = aew.known
    BY <1>1, <1>7 DEF Screen, AewRecord
  <2> QED BY <1>1, <2>1, <2>2, PushKeeps, PopKeeps DEF Dos
<1>8. CASE Openauthedit
  <2>1. port' = port /\ (window'.at = window.at \/ window.at = None)
    BY <1>1, <1>8, OpenFinds DEF Openauthedit
  <2> QED BY <1>8, <2>1, OpenKeeps
<1>9. CASE Opened \/ Disposed \/ Closeauthedit \/ Disposeauthedit \/ Stopped \/ CloseUpdate
  <2>1. port' = port /\ window' = window
    BY <1>9 DEF Opened, Disposed, Closeauthedit, Disposeauthedit, Stopped, CloseUpdate, winvars
  <2> QED BY <1>9, <2>1, OpenedKeeps, DisposeKeeps, StoppedKeeps, CloseKeeps
<1>10. CASE Stoptask
  <2>1. port' = port /\ window'.at = window.at
    BY <1>1, <1>10 DEF Stoptask, WindowRecord
  <2> QED BY <1>10, <2>1, StopKeeps
<1>11. CASE Dodisposetask
  <2>1. port = <<>> /\ port' = port /\ window.at = "dead"
    BY <1>11 DEF Dodisposetask
  <2> QED BY <1>11, <2>1, EndedKeeps
<1>12. CASE Setauthedit
  <2>1. port' = port
    BY <1>12 DEF Setauthedit
  <2> QED BY <1>12, <2>1, ScreenKeeps
<1> QED
    BY <1>2, <1>3, <1>4, <1>5, <1>6, <1>7, <1>8, <1>9, <1>10, <1>11, <1>12 DEF MainStep

LEMMA MainKeeps ==
    ASSUME OwnTypes, Ordered(todo), OpenInv, RequestInv, MainStep
    PROVE  Ordered(todo') /\ OpenInv' /\ RequestInv'
<1>1. CASE Processtask
  <2>1. todo = <<>> /\ port # <<>> /\ todo' = Updateauthedit(Head(port)) /\ port' = Tail(port)
        /\ UNCHANGED <<aew, window>>
    BY <1>1 DEF Processtask
  <2>2. todo' = Updateauthedit(Head(port)) \o todo
    <3>1. port \in Seq(Updating) BY DEF OwnTypes
    <3>2. Head(port) \in Updating BY <2>1, <3>1, HeadTailProperties
    <3>3. Updateauthedit(Head(port)) \in Seq(Plain) BY <3>2, UpdatePlain
    <3> QED BY <2>1, <3>3, ConcatEmptySeq
  <2> QED BY <2>1, <2>2, ServeKeeps
<1>2. CASE Dodisposetask /\ port # <<>>
  <2>1. Doing("ended") /\ todo' = Updateauthedit(Head(port)) \o todo /\ port' = Tail(port)
        /\ UNCHANGED <<aew, window>>
    BY <1>2 DEF Dodisposetask
  <2> QED BY <1>2, <2>1, ServeKeeps
<1>3. CASE Answer
    BY <1>3, AnswerKeeps
<1>4. CASE ~Answer /\ ~Processtask /\ ~(Dodisposetask /\ port # <<>>)
  <2>1. OpenKept /\ port' = port /\ (window'.at = window.at \/ window.at \in {None, "dead"})
    BY <1>4, PlainKeeps
  <2>2. RequestInv'
    BY <2>1, RequestFrame DEF OpenKept, None
  <2> QED BY <2>1, <2>2 DEF OpenKept
<1> QED BY <1>1, <1>2, <1>3, <1>4

\* The window's task asks for one thing at most before it waits.
LEMMA AskKeeps ==
    ASSUME OwnTypes, RequestInv, window.at \notin {"sync", "place"}, todo' = todo,
           \/ port' = port
           \/ \E u \in Updating : Updates(u) /\ (u.do \in Asks => window'.at \in {"sync", "place"})
    PROVE  RequestInv'
<1>1. port \in Seq(Updating) /\ ~Has(todo, "answer") /\ \A i \in DOMAIN port : port[i].do \notin Asks
    BY DEF OwnTypes, RequestInv
<1>2. RequestInv' <=>
      (/\ \A i \in DOMAIN port' : port'[i].do \in Asks =>
             /\ window'.at \in {"sync", "place"} /\ ~Has(todo', "answer")
             /\ \A j \in DOMAIN port' : port'[j].do \in Asks => j = i
       /\ Has(todo', "answer") => window'.at \in {"sync", "place"})
    BY DEF RequestInv
<1>3. CASE port' = port
    BY <1>1, <1>2, <1>3
<1>4. ASSUME NEW u \in Updating, Updates(u), u.do \in Asks => window'.at \in {"sync", "place"}
      PROVE  RequestInv'
  <2>1. /\ Len(port) \in Nat /\ DOMAIN port = 1..Len(port)
        /\ DOMAIN port' = 1..(Len(port) + 1) /\ port'[Len(port) + 1] = u
        /\ \A i \in 1..Len(port) : port'[i] = port[i]
    <3>1. port' = Append(port, u) BY <1>4 DEF Updates
    <3>2. Len(port) \in Nat /\ DOMAIN port = 1..Len(port) BY <1>1, LenProperties
    <3>3. /\ Append(port, u) \in Seq(Updating) /\ Len(Append(port, u)) = Len(port) + 1
          /\ \A i \in 1..Len(port) : Append(port, u)[i] = port[i]
          /\ Append(port, u)[Len(port) + 1] = u
        BY <1>1, AppendProperties
    <3>4. DOMAIN Append(port, u) = 1..(Len(port) + 1) BY <3>3, LenProperties
    <3> QED BY <3>1, <3>2, <3>3, <3>4
  <2>2. \A i \in DOMAIN port' : port'[i].do \in Asks => i = Len(port) + 1 /\ u.do \in Asks
    BY <1>1, <2>1
  <2> QED BY <1>1, <1>2, <1>4, <2>2
<1> QED BY <1>3, <1>4

LEMMA OpenFrame ==
    ASSUME OpenInv, UNCHANGED <<todo, aew>>, window.at # None \/ window'.at = None
    PROVE  OpenInv'
<1>1. OpenInv' <=>
      (/\ aew'.task => aew'.exists
       /\ aew'.exists /\ ~aew'.known => Doing("opened")'
       /\ Doing("gone")' => ~aew'.task
       /\ Doing("forget")' => ~aew'.exists
       /\ Doing("stopped")' => window'.at = None
       /\ window'.at # None => aew'.task \/ Has(todo', "stop") \/ Has(todo', "ended"))
    BY DEF OpenInv
<1>2. \A do : Doing(do)' <=> Doing(do)
    BY DEF Doing
<1> QED BY <1>1, <1>2 DEF OpenInv

\* The window's task and the user leave main's steps alone.
LEMMA WindowKeeps ==
    ASSUME OwnTypes, Ordered(todo), OpenInv, RequestInv, WindowStep \/ User
    PROVE  Ordered(todo') /\ OpenInv' /\ RequestInv'
<1>1. window \in WindowRecord /\ UNCHANGED <<todo, aew>>
    BY DEF OwnTypes, WindowRecord, WindowStep, Buildautheditwindow, Stops, Modified, Redraws,
           Closeautheditwindow, Freelbnodes, Ends, User, Closes, Delentry, Changeentry, Entry, Input
<1>2. window.at \notin {None, "sync", "place"}
    BY DEF None, WindowStep, Buildautheditwindow, Stops, Modified, Redraws, Answered,
           Closeautheditwindow, Freelbnodes, Ends, User, Closes, Delentry, Changeentry, Entry, Input
<1>3. OpenInv'
    BY <1>1, <1>2, OpenFrame
<1>4. /\ Step("closed") \in Updating /\ Step("closed").do = "closed"
      /\ Step("dim") \in Updating
    BY DEF Step, Updating, Operands
<1>5. ASSUME UNCHANGED port PROVE RequestInv'
    BY <1>1, <1>2, <1>5, AskKeeps
<1>6. ASSUME Updates(Step("closed")) PROVE RequestInv'
    BY <1>1, <1>2, <1>4, <1>6, AskKeeps DEF Asks
<1>7. ASSUME Closeautheditwindow PROVE RequestInv'
  <2>1. Updates(Step("dim")) /\ window'.at = "place"
    BY <1>1, <1>7 DEF Closeautheditwindow, WindowRecord
  <2> QED BY <1>1, <1>2, <1>4, <2>1, AskKeeps
<1>8. ASSUME NEW do \in {"delete", "change"}, NEW i \in DOMAIN window.shown,
             NEW s \in Secret \cup {None}, Entry(do, window.shown[i].an, s)
      PROVE  RequestInv'
  <2>1. window.shown[i].an \in Node
    <3>1. window.shown \in Seq([an : Node, auth : AuthRecord]) BY <1>1 DEF WindowRecord
    <3>2. window.shown[i] \in [an : Node, auth : AuthRecord] BY <3>1, LenProperties, ElementOfSeq
    <3> QED BY <3>2
  <2>2. [do |-> do, an |-> window.shown[i].an, s |-> s] \in Updating
    BY <2>1 DEF Updating, Operands
  <2>3. Updates([do |-> do, an |-> window.shown[i].an, s |-> s]) /\ window'.at = "sync"
    BY <1>1, <1>8 DEF Entry, WindowRecord
  <2> QED BY <1>1, <1>2, <2>2, <2>3, AskKeeps
<1>9. CASE WindowStep
  <2>1. UNCHANGED port \/ Updates(Step("closed")) \/ Closeautheditwindow
    BY <1>9 DEF WindowStep, Buildautheditwindow, Stops, Modified, Redraws, Freelbnodes, Ends
  <2> QED BY <1>1, <1>3, <1>5, <1>6, <1>7, <2>1
<1>10. CASE User
  <2>1. RequestInv'
    BY <1>5, <1>8, <1>10 DEF User, Closes, Delentry, Changeentry
  <2> QED BY <1>1, <1>3, <2>1
<1> QED BY <1>9, <1>10

LEMMA NoneLeft ==
    Ordered(<<>>) /\ \A do : ~Has(<<>>, do)
    BY DEF Ordered, Has

\* What the user and ARexx call is in order.
LEMMA CallOrdered ==
    ASSUME NEW c \in Calls
    PROVE  /\ Ordered(Stepsof(c)) /\ Stepsof(c) # <<>> /\ ~Has(Stepsof(c), "answer")
           /\ Head(Stepsof(c)).do \in {"open", "dispose", "screen", "save", "ifsave"}
<1>1. c \in {"open", "close", "save", "screen", "quit"}
    BY Names
<1>2. \A do \in Dos : Step(do) \in Steps /\ Step(do).do = do
    BY StepIn
<1>3. CASE c \in {"open", "save", "screen"}
  <2>1. PICK s \in Steps : Stepsof(c) = <<s>> /\ s.do = c
    BY <1>2, <1>3 DEF Stepsof, Dos
  <2>2. Fits(s, <<>>)
    BY <1>3, <2>1, NoneLeft DEF Fits
  <2>3. Len(<<s>>) = 1 /\ <<s>>[1] = s /\ DOMAIN <<s>> = {1}
    OBVIOUS
  <2>4. Ordered(<<s>>)
    BY <1>3, <2>1, <2>3 DEF Ordered
  <2> QED BY <1>3, <2>1, <2>3, <2>4 DEF Has
<1>4. CASE c = "close"
  <2> DEFINE q == <<Step("dispose"), Step("forget")>>
  <2>1. Stepsof(c) = q
    BY <1>4 DEF Stepsof
  <2>2. /\ Len(q) = 2 /\ DOMAIN q = 1..2 /\ q # <<>> /\ Head(q) = q[1]
        /\ q[1].do = "dispose" /\ q[2].do = "forget"
    BY <1>2 DEF Dos
  <2> HIDE DEF q
  <2>3. Ordered(q)
    BY <2>2 DEF Ordered
  <2> QED BY <2>1, <2>2, <2>3 DEF Has
<1>5. CASE c = "quit"
  <2> DEFINE a == <<Step("ifsave"), Step("flush"), Step("modified")>>
             b == <<Step("screenoff"), Step("deinstall"), Step("dispose")>>
             q == a \o b
  <2>1. Stepsof(c) = q
    BY <1>5 DEF Stepsof, Freeauthor
  <2>4. /\ a \in Seq(Steps) /\ Len(a) = 3 /\ a[1] = Step("ifsave") /\ a[2] = Step("flush")
        /\ a[3] = Step("modified")
    BY <1>2 DEF Dos
  <2>5. /\ b \in Seq(Steps) /\ Len(b) = 3 /\ b[1] = Step("screenoff")
        /\ b[2] = Step("deinstall") /\ b[3] = Step("dispose")
    BY <1>2 DEF Dos
  <2> HIDE DEF a, b
  <2>6. /\ q \in Seq(Steps) /\ Len(q) = 6
        /\ \A i \in 1..6 : q[i] = IF i <= 3 THEN a[i] ELSE b[i - 3]
    <3>1. /\ q \in Seq(Steps) /\ Len(q) = Len(a) + Len(b)
          /\ \A i \in 1..(Len(a) + Len(b)) : q[i] = IF i <= Len(a) THEN a[i] ELSE b[i - Len(a)]
        BY <2>4, <2>5, ConcatProperties
    <3> HIDE DEF q
    <3>2. Len(a) + Len(b) = 6
        BY <2>4, <2>5
    <3> QED BY <2>4, <3>1, <3>2
  <2>7. DOMAIN q = 1..6 /\ q # <<>> /\ Head(q) = q[1]
    <3> HIDE DEF q
    <3>1. q # <<>>
      <4>1. Len(q) = 6
        BY <2>6
      <4>2. Len(<<>>) # 6
        BY EmptySeq
      <4> QED BY <4>1, <4>2, Zenon
    <3>2. DOMAIN q = 1..6
        BY <2>6, LenProperties
    <3> QED BY <2>6, <3>1, <3>2, HeadTailProperties
  <2>2. /\ Len(q) = 6 /\ DOMAIN q = 1..6 /\ q # <<>> /\ Head(q) = q[1]
        /\ q[1].do = "ifsave" /\ q[2].do = "flush" /\ q[3].do = "modified"
        /\ q[4].do = "screenoff" /\ q[5].do = "deinstall" /\ q[6].do = "dispose"
    <3>1. /\ q[1] = a[1] /\ q[2] = a[2] /\ q[3] = a[3]
          /\ q[4] = b[1] /\ q[5] = b[2] /\ q[6] = b[3]
        BY <2>6
    <3> HIDE DEF q
    <3> QED BY <1>2, <2>4, <2>5, <2>6, <2>7, <3>1 DEF Dos
  <2> HIDE DEF q
  <2>3. Ordered(q)
    BY <2>2 DEF Ordered
  <2> QED BY <2>1, <2>2, <2>3 DEF Has
<1> QED BY <1>1, <1>3, <1>4, <1>5

LEMMA CallKeeps ==
    ASSUME OwnTypes, OpenInv, RequestInv, Call
    PROVE  Ordered(todo') /\ OpenInv' /\ RequestInv'
<1>1. PICK c \in Calls : todo' = Stepsof(c)
    BY DEF Call
<1>2. todo = <<>> /\ UNCHANGED <<aew, port, window>>
    BY DEF Call, winvars
<1>3. /\ Ordered(todo') /\ ~Has(todo', "answer")
      /\ ~Doing("gone")' /\ ~Doing("forget")' /\ ~Doing("stopped")'
    BY <1>1, CallOrdered DEF Doing
<1>4. ~Doing("opened") /\ ~Has(todo, "stop") /\ ~Has(todo, "ended")
    BY <1>2, NoneLeft DEF Doing
<1>5. OpenInv'
    BY <1>2, <1>3, <1>4 DEF OpenInv
<1>6. RequestInv'
    BY <1>2, <1>3, RequestFrame
<1> QED BY <1>3, <1>5, <1>6

---------------------------------------------------------------------------
(* What the window shows.                                                  *)

\* A step that changes neither the list nor what the window shows, and does not
\* end what tells the window of a change.
LEMMA QuietFrame ==
    ASSUME QuietWindowIsCurrent, UNCHANGED <<auths, entry>>,
           window'.at = "top" => window.at = "top" /\ window'.shown = window.shown,
           inbox' = 0 => inbox = 0 \/ window'.at # "top", missed' = missed, ~Doing("modified"),
           \A t \in Transfer : transfer[t].at = "notify" => transfer'[t].at = "notify"
    PROVE  QuietWindowIsCurrent'
<1>1. Allocnodes' = Allocnodes
    BY DEF Allocnodes
<1>2. QuietWindowIsCurrent' <=>
      (/\ window'.at = "top" /\ inbox' = 0 /\ ~missed'
       /\ ~Doing("modified")' /\ (\A t \in Transfer : transfer'[t].at # "notify")
       => window'.shown = Allocnodes')
    BY DEF QuietWindowIsCurrent
<1> QED BY <1>1, <1>2 DEF QuietWindowIsCurrent

\* The window is told, or it misses the change.
LEMMA QuietTold ==
    ASSUME inbox \in Nat, Modifiedlist, window' = window
    PROVE  QuietWindowIsCurrent'
<1>1. window.at = "top" => inbox' = inbox + 1 \/ missed'
    BY DEF Modifiedlist, Alive, None
<1>2. window'.at = "top" => inbox' # 0 \/ missed'
    BY <1>1
<1> QED BY <1>2 DEF QuietWindowIsCurrent

LEMMA QuietMain ==
    ASSUME OwnTypes, Ordered(todo), OpenInv, RequestInv, QuietWindowIsCurrent, MainStep
    PROVE  QuietWindowIsCurrent'
<1>1. /\ todo \in Seq(Steps) /\ window \in WindowRecord /\ inbox \in Nat
      /\ \A d, e : Doing(d) /\ Doing(e) => d = e
    BY DEF OwnTypes, WindowRecord, Doing
<1>2. CASE Finddeletenode \/ Findchangenode
  <2>1. /\ Doing("delete") \/ Doing("change")
        /\ window' = window /\ todo # <<>>
    BY <1>2 DEF Finddeletenode, Findchangenode, winvars, Doing
  <2>2. Fits(Head(todo), Tail(todo)) /\ Tail(todo) \in Seq(Steps)
    BY <1>1, <2>1, OrderedTaken, Taken
  <2>3. Tail(todo) # <<>> /\ Tail(todo)[1].do = "answer"
    BY <2>1, <2>2 DEF Fits, Doing
  <2>4. Has(Tail(todo), "answer")
    BY <2>2, <2>3, Taken DEF Has
  <2>5. window.at # "top"
    BY <1>1, <2>1, <2>4, HasTaken DEF RequestInv
  <2> QED BY <2>1, <2>5 DEF QuietWindowIsCurrent
<1>3. CASE Flushauthor
  <2>1. Doing("flush") /\ todo # <<>> /\ Then(<<>>)
    BY <1>3 DEF Flushauthor, Doing
  <2>2. Doing("modified")'
    BY <1>1, <2>1, PopTodo
  <2> QED BY <2>2 DEF QuietWindowIsCurrent
<1>4. CASE MainModified
  <2>1. Modifiedlist /\ window' = window
    BY <1>4 DEF MainModified
  <2> QED BY <1>1, <2>1, QuietTold
<1>5. CASE Answer
  <2>1. window'.at \in {"redraw", "free"}
    BY <1>1, <1>5 DEF Answer, WindowRecord
  <2> QED BY <2>1 DEF QuietWindowIsCurrent
<1>6. CASE Deinstalltask
  <2>1. /\ UNCHANGED <<auths, entry, window, inbox, missed>> /\ Doing("deinstall")
        /\ \A t \in Transfer : transfer[t].at # "notify"
    BY <1>6 DEF Deinstalltask, listvars, winvars
  <2>2. ~Doing("modified")
    BY <1>1, <2>1
  <2> QED BY <2>1, <2>2, QuietFrame
<1>7. ASSUME UNCHANGED <<auths, entry, transfer, inbox, missed>>, ~Doing("modified"),
             window'.at = "top" => window.at = "top" /\ window'.shown = window.shown
      PROVE  QuietWindowIsCurrent'
    BY <1>7, QuietFrame
<1>8. CASE Writes \/ Written \/ IfSave \/ Opened \/ Disposeauthedit \/ Disposed \/ Closeauthedit
           \/ Stopped \/ CloseUpdate \/ Screen
  <2>1. UNCHANGED <<auths, entry, transfer, inbox, missed, window>>
    BY <1>8 DEF Writes, Written, IfSave, Opened, Disposeauthedit, Disposed, Closeauthedit,
                Stopped, CloseUpdate, Screen, listvars, winvars
  <2>2. ~Doing("modified")
    BY <1>8 DEF Writes, Written, IfSave, Opened, Disposeauthedit, Disposed, Closeauthedit,
                Stopped, CloseUpdate, Screen, Doing
  <2> QED BY <1>7, <2>1, <2>2
<1>9. CASE Processtask \/ Stoptask \/ Dodisposetask \/ Openauthedit \/ Setauthedit
  <2>1. UNCHANGED <<auths, entry, transfer, inbox, missed>>
    BY <1>9 DEF Processtask, Stoptask, Dodisposetask, Openauthedit, Setauthedit, listvars
  <2>2. ~Doing("modified")
    BY <1>9 DEF Processtask, Stoptask, Dodisposetask, Openauthedit, Setauthedit, Doing
  <2>3. \/ window' = window \/ Starttask \/ window' = [window EXCEPT !.break = Alive]
        \/ window' = [window EXCEPT !.at = None]
    BY <1>9 DEF Processtask, Stoptask, Dodisposetask, Openauthedit, Setauthedit
  <2>4. window'.at = "top" => window.at = "top" /\ window'.shown = window.shown
    BY <1>1, <2>3 DEF Starttask, WindowRecord, None
  <2> QED BY <1>7, <2>1, <2>2, <2>4
<1> QED
    BY <1>2, <1>3, <1>4, <1>5, <1>6, <1>8, <1>9 DEF MainStep

LEMMA QuietTransfer ==
    ASSUME OwnTypes, QuietWindowIsCurrent, NEW t \in Transfer, TransferStep(t)
    PROVE  QuietWindowIsCurrent'
<1>1. transfer \in [Transfer -> TransferRecord] /\ inbox \in Nat
      /\ UNCHANGED <<todo, aew, port, window, left>>
    BY DEF OwnTypes, TransferRecord, TransferStep, Start, Responds, Refused, RefusedAgain, Cancels,
           Answers, Rememberauth, Notifies, Quiet
<1>2. CASE RefusedAgain(t) \/ Rememberauth(t)
  <2>1. PICK r : Goes(t, r) /\ r.at = "notify"
    <3>1. transfer[t] \in TransferRecord BY <1>1
    <3>2. CASE RefusedAgain(t)
      <4>1. Goes(t, [transfer[t] EXCEPT !.at = "notify", !.then = "done"]) BY <3>2 DEF RefusedAgain
      <4>2. [transfer[t] EXCEPT !.at = "notify", !.then = "done"].at = "notify" BY <3>1 DEF TransferRecord
      <4> QED BY <4>1, <4>2
    <3>3. CASE Rememberauth(t)
      <4>1. Goes(t, [transfer[t] EXCEPT !.at = "notify", !.then = "send", !.found = {}])
        BY <3>3 DEF Rememberauth
      <4>2. [transfer[t] EXCEPT !.at = "notify", !.then = "send", !.found = {}].at = "notify"
        BY <3>1 DEF TransferRecord
      <4> QED BY <4>1, <4>2
    <3> QED BY <1>2, <3>2, <3>3
  <2>2. transfer'[t].at = "notify"
    BY <1>1, <2>1 DEF Goes
  <2> QED BY <2>2 DEF QuietWindowIsCurrent
<1>3. CASE Notifies(t)
    BY <1>1, <1>3, QuietTold DEF Notifies
<1>4. CASE Start(t) \/ Responds(t) \/ Refused(t) \/ Cancels(t) \/ Answers(t)
  <2>1. transfer[t].at # "notify" /\ UNCHANGED <<auths, entry, inbox, missed>> /\ \E r : Goes(t, r)
    BY <1>4 DEF Start, Responds, Refused, Cancels, Answers, listvars
  <2>2. \A u \in Transfer : transfer[u].at = "notify" => transfer'[u].at = "notify"
    BY <1>1, <2>1 DEF Goes
  <2>3. CASE ~Doing("modified")
    BY <1>1, <2>1, <2>2, <2>3, QuietFrame
  <2>4. CASE Doing("modified")
    BY <1>1, <2>4 DEF Doing, QuietWindowIsCurrent
  <2> QED BY <2>3, <2>4
<1> QED BY <1>2, <1>3, <1>4 DEF TransferStep

LEMMA QuietWindow ==
    ASSUME OwnTypes, WindowStep \/ User
    PROVE  QuietWindowIsCurrent'
<1>1. window \in WindowRecord /\ UNCHANGED <<auths, entry>>
    BY DEF OwnTypes, WindowRecord, WindowStep, Buildautheditwindow, Stops, Modified, Redraws,
           Closeautheditwindow, Freelbnodes, Ends, User, Closes, Delentry, Changeentry, Entry, Input,
           listvars
<1>2. Allocnodes' = Allocnodes
    BY <1>1 DEF Allocnodes
<1>3. CASE Allocates
  <2>1. window'.shown = Allocnodes
    BY <1>1, <1>3 DEF Allocates, WindowRecord
  <2> QED BY <1>2, <2>1 DEF QuietWindowIsCurrent
<1>4. CASE window'.at # "top"
    BY <1>4 DEF QuietWindowIsCurrent
<1>5. CASE WindowStep
  <2>1. Allocates \/ window'.at # "top"
    <3>1. CASE Buildautheditwindow
        BY <1>1, <3>1 DEF Buildautheditwindow, WindowRecord
    <3>2. CASE Stops
        BY <1>1, <3>2 DEF Stops, WindowRecord
    <3>3. CASE Modified \/ Redraws
        BY <3>3 DEF Modified, Redraws, Answered
    <3>4. CASE Closeautheditwindow
        BY <1>1, <3>4 DEF Closeautheditwindow, WindowRecord
    <3>5. CASE Freelbnodes \/ Ends
        BY <1>1, <3>5 DEF Freelbnodes, Ends, WindowRecord
    <3> QED BY <1>5, <3>1, <3>2, <3>3, <3>4, <3>5 DEF WindowStep
  <2> QED BY <1>3, <1>4, <2>1
<1>6. CASE User
  <2>1. window'.at # "top"
    BY <1>1, <1>6 DEF User, Closes, Delentry, Changeentry, Entry, WindowRecord
  <2> QED BY <1>4, <2>1
<1> QED BY <1>5, <1>6

\* What the window shows, with the order of main's steps and the window's task.
WindowInv == Ordered(todo) /\ OpenInv /\ RequestInv /\ QuietWindowIsCurrent

LEMMA WindowInductive ==
    /\ Init => WindowInv
    /\ IInv /\ WindowInv /\ [Next]_vars => WindowInv'
<1>1. ASSUME Init PROVE WindowInv
  <2>1. todo = <<>> /\ port = <<>> /\ window.at = None /\ ~aew.exists /\ ~aew.task
    BY <1>1 DEF Init
  <2>2. Ordered(todo) /\ \A do : ~Has(todo, do) /\ ~Doing(do)
    BY <2>1, NoneLeft DEF Doing
  <2>3. DOMAIN port = {}
    BY <2>1
  <2>4. OpenInv /\ RequestInv /\ QuietWindowIsCurrent
    BY <2>1, <2>2, <2>3 DEF OpenInv, RequestInv, QuietWindowIsCurrent, None
  <2> QED BY <2>2, <2>4 DEF WindowInv
<1>2. ASSUME IInv, WindowInv, [Next]_vars PROVE WindowInv'
  <2>1. OwnTypes /\ Ordered(todo) /\ OpenInv /\ RequestInv /\ QuietWindowIsCurrent
    BY <1>2, Types DEF IInv, WindowInv
  <2>2. CASE UNCHANGED vars
    <3>1. UNCHANGED <<auths, entry, transfer, todo, aew, port, inbox, window, missed>>
        BY <2>2 DEF vars
    <3>2. Ordered(todo') /\ OpenInv' BY <2>1, <3>1, OpenFrame
    <3>3. RequestInv' BY <2>1, <3>1, RequestFrame
    <3>4. QuietWindowIsCurrent' BY <2>1, <3>1 DEF QuietWindowIsCurrent, Allocnodes, Doing
    <3> QED BY <3>2, <3>3, <3>4 DEF WindowInv
  <2>3. CASE MainStep
    BY <2>1, <2>3, MainKeeps, QuietMain DEF WindowInv
  <2>4. CASE WindowStep \/ User
    BY <2>1, <2>4, WindowKeeps, QuietWindow DEF WindowInv
  <2>5. CASE Call
    <3>1. UNCHANGED <<auths, entry, transfer, inbox, window, missed>> /\ ~Doing("modified")
        BY <2>5 DEF Call, listvars, winvars, Doing
    <3>2. QuietWindowIsCurrent' BY <2>1, <3>1, QuietFrame
    <3> QED BY <2>1, <2>5, <3>2, CallKeeps DEF WindowInv
  <2>6. ASSUME NEW t \in Transfer, TransferStep(t) PROVE WindowInv'
    <3>1. UNCHANGED <<todo, aew, port, window>>
        BY <2>6 DEF TransferStep, Start, Responds, Refused, RefusedAgain, Cancels, Answers,
                    Rememberauth, Notifies, Quiet
    <3>2. Ordered(todo') /\ OpenInv' BY <2>1, <3>1, OpenFrame
    <3>3. RequestInv' BY <2>1, <3>1, RequestFrame
    <3>4. QuietWindowIsCurrent' BY <2>1, <2>6, QuietTransfer
    <3> QED BY <3>2, <3>3, <3>4 DEF WindowInv
  <2> QED BY <1>2, <2>2, <2>3, <2>4, <2>5, <2>6 DEF Next
<1> QED BY <1>1, <1>2

\* A window that waits with nothing to hear, and that missed nothing, shows the list,
\* whoever changed it: main looks for its entry, and changes it for the window, only
\* while the window waits for the answer and rebuilds its list (Delentry and Changeentry, authorlib.c:525, 542).
THEOREM QuietWindowShows == Spec => []QuietWindowIsCurrent
<1>1. WindowInv => QuietWindowIsCurrent
    BY DEF WindowInv
<1>2. Init => WindowInv
    BY WindowInductive
<1>3. IInv /\ IInv' /\ WindowInv /\ [Next]_vars => WindowInv'
    BY WindowInductive
<1>4. Spec => []WindowInv
    BY <1>2, <1>3, Inductive, PTL DEF Spec
<1> QED BY <1>1, <1>4, PTL
=============================================================================
