-------------------------------- MODULE Http --------------------------------
(***************************************************************************)
(* HTTP transfers and the keep-alive pool: Source/AWebAPL/http.c.          *)
(*                                                                         *)
(* Every transfer is a subtask that runs Httptask with an Httpinfo of its  *)
(* own.  Shared by all of them, and by main, which closes idle connections *)
(* when the user follows a link, are the pool of idle connections under    *)
(* keepalive_sema and the counter redirect_count, which has no semaphore.  *)
(* A connection is three things that are opened and closed apart: a        *)
(* socket, an SSL structure on a secure host, and the task's opening of    *)
(* the socket library.  The pool's functions take nodes out of the list    *)
(* under the semaphore and free them after it: meanwhile they are in kill. *)
(*                                                                         *)
(* Names, requests, headers and data are left out: a server's answer is    *)
(* any answer.  Memory is never short, but socket, SSL and library may not *)
(* be had.  Without a proxy hi->connect is the host.                       *)
(***************************************************************************)
EXTENDS Naturals, Sequences, FiniteSets, Functions

CONSTANTS
    Task,            \* the transfers that can run at a time
    Main,            \* the main process
    Host,            \* host and port
    Secure,          \* the hosts that are reached with https
    Proxied,         \* the hosts that are reached through a proxy
    Conn,            \* what the system can give at a time, bounds the model
    NoConn,          \* sock -1, a NULL assl or socketbase
    MaxIdle,         \* MAX_IDLE_CONNECTIONS
    MaxRedirects     \* the limit in Httptask

ASSUME HttpAssumption ==
    /\ Main \notin Task /\ NoConn \notin Conn
    /\ Secure \subseteq Host /\ Proxied \subseteq Host
    /\ MaxIdle \in Nat /\ MaxIdle > 1 /\ MaxRedirects \in Nat \ {0}
    /\ IsFiniteSet(Task) /\ Host # {}

VARIABLES
    hi,              \* the Httpinfo of each task, and where Httptask is
    pool,            \* keepalive_pool, first node first
    kill,            \* the nodes each process has taken out and not freed yet
    res,             \* what is open, and what happened to it
    redirect_count

vars == <<hi, pool, kill, res, redirect_count>>

Places == {"idle", "top", "open", "dial", "connect", "send", "body",
           "clean", "finish"}
Codes == {401, 407}
HttpinfoRecord ==
    [at: Places, host: Host,
     sock: Conn \cup {NoConn}, assl: Conn \cup {NoConn}, base: Conn \cup {NoConn},
     reused: BOOLEAN,        \* connection_reused
     keep: BOOLEAN,          \* HTTPIF_KEEPALIVE and HTTPIF_KEEPALIVE_REQ
     status: {0} \cup Codes,
     auth: SUBSET Codes,     \* HTTPIF_AUTH, HTTPIF_PRXAUTH
     retried: BOOLEAN,       \* retry_count # 0
     error: BOOLEAN,
     settled: BOOLEAN]       \* the request was sent, or the user knows why not
Httpinfo(at, host) ==
    [at |-> at, host |-> host, sock |-> NoConn, assl |-> NoConn, base |-> NoConn,
     reused |-> FALSE, keep |-> FALSE, status |-> 0, auth |-> {},
     retried |-> FALSE, error |-> FALSE, settled |-> FALSE]
Idle == Httpinfo("idle", CHOOSE h \in Host : TRUE)
Node == [conn: Conn, host: Host, old: BOOLEAN]
Fields == {"sock", "assl", "base"}

Init ==
    /\ hi = [t \in Task |-> Idle]
    /\ pool = <<>>
    /\ kill = [a \in Task \cup {Main} |-> {}]
    /\ res = [sock |-> {}, assl |-> {}, base |-> {}, answered |-> {}, reused |-> {}]
    /\ redirect_count = 0

-----------------------------------------------------------------------------
(* Opening and closing *)

Pooled == {pool[i].conn : i \in DOMAIN pool}
Killed == UNION {kill[a] : a \in Task \cup {Main}}
Holds(t, c) == \E f \in Fields : hi[t][f] = c
Unused == {c \in Conn : /\ c \notin Pooled \cup Killed
                        /\ \A f \in Fields : c \notin res[f]
                        /\ \A t \in Task : ~ Holds(t, c)}

\* The resources without those of the set C, of the kinds fs.
Closed(C, fs) ==
    [f \in DOMAIN res |-> IF f \in fs \/ f \notin Fields THEN res[f] \ C ELSE res[f]]

\* Task t goes to the place at, with the changes in rec.
At(t, at) == hi[t].at = at /\ kill[t] = {}
Goes(t, at, rec) == hi' = [hi EXCEPT ![t] = [rec EXCEPT !.at = at]]

\* FreeConnectionNode, for one of the nodes taken out of the pool.
FreeConnectionNode(a) ==
    /\ \E c \in kill[a] :
        /\ res' = Closed({c}, Fields)
        /\ kill' = [kill EXCEPT ![a] = @ \ {c}]
    /\ UNCHANGED <<hi, pool, redirect_count>>

\* The nodes at the places S are taken out of the list, for process a to free.
Increasing(n, I) == {e \in [1 .. n -> I] : \A i, j \in 1 .. n : i < j => e[i] < e[j]}
Kept(S) ==
    LET left == DOMAIN pool \ S
        e == CHOOSE order \in Increasing(Cardinality(left), left) : TRUE
    IN  [k \in DOMAIN e |-> pool[e[k]]]
Kills(a, S) == kill' = [kill EXCEPT ![a] = @ \cup {pool[i].conn : i \in S}]

-----------------------------------------------------------------------------
(* The pool *)

\* A node has been idle for KEEPALIVE_TIMEOUT.
Ages(i) ==
    /\ ~ pool[i].old
    /\ pool' = [pool EXCEPT ![i].old = TRUE]
    /\ UNCHANGED <<hi, kill, res, redirect_count>>

Expired == {i \in DOMAIN pool : pool[i].old}

\* GetKeepAliveConnection: the first node for the host that is not expired; the
\* expired ones before it are taken out as well.
Matching(host) == {i \in DOMAIN pool : pool[i].host = host}
Found(host) == {i \in Matching(host) \ Expired :
                  \A j \in Matching(host) \ Expired : i =< j}
Passed(host) == {i \in Matching(host) \cap Expired : \A j \in Found(host) : i < j}

\* Mutant of TakenOut: the node that is handed out stays in the list.
TakenOutExpired(host) == Passed(host)
TakenOut(host) == Passed(host) \cup Found(host)

\* ReturnKeepAliveConnection counts the nodes that are left, the last one twice,
\* and takes nodes from the tail until the count is below the limit.
Count(n) == IF n = 0 THEN 0 ELSE n + 1
\* Mutant of Excess: the pool is never cut down.
ExcessNone(n) == n - n
Excess(n) == IF Count(n) < MaxIdle THEN 0
             ELSE IF Count(n) - MaxIdle + 1 > n THEN n ELSE Count(n) - MaxIdle + 1
Culled ==
    LET young == Cardinality(DOMAIN pool \ Expired)
    IN  Expired \cup {i \in DOMAIN pool \ Expired :
            Cardinality({j \in DOMAIN pool \ Expired : j >= i}) =< Excess(young)}

\* CloseIdleKeepAliveConnections, called by main for a new page.
CloseIdleKeepAliveConnections ==
    /\ kill[Main] = {} /\ pool # <<>>
    /\ Kills(Main, DOMAIN pool)
    /\ pool' = <<>>
    /\ UNCHANGED <<hi, res, redirect_count>>

-----------------------------------------------------------------------------
(* Httptask *)

Starts(t) ==
    /\ At(t, "idle")
    /\ \E host \in Host : Goes(t, "top", Httpinfo("top", host))
    /\ UNCHANGED <<pool, kill, res, redirect_count>>

\* Mutant of TooMany: the limit is not tested.
TooManyNever == redirect_count > MaxRedirects + MaxRedirects
TooMany == redirect_count >= MaxRedirects

Ended(t) == Goes(t, "idle", Idle)
Top(t) ==
    /\ At(t, "top")
    /\ IF TooMany
       THEN /\ redirect_count' = 0
            /\ Ended(t)
            /\ UNCHANGED res
       ELSE /\ res' = Closed({hi[t].assl}, {"assl"})
            /\ Goes(t, "open", [hi[t] EXCEPT
                  !.status = 0, !.assl = NoConn, !.sock = NoConn, !.base = NoConn,
                  !.retried = FALSE, !.error = FALSE, !.settled = FALSE])
            /\ UNCHANGED redirect_count
    /\ UNCHANGED <<pool, kill>>

\* Openlibraries: a pooled connection, which Httpretrieve then has no more to do
\* with than to set its timeouts, or a new opening of the libraries.  The user
\* may refuse to send a form.
Direct(t) == hi[t].host \notin Proxied
IsSecure(t) == hi[t].host \in Secure
Openlibraries(t) ==
    /\ At(t, "open")
    /\ IF Direct(t)
       THEN /\ Kills(t, Passed(hi[t].host))
            /\ pool' = Kept(TakenOut(hi[t].host))
       ELSE UNCHANGED <<kill, pool>>
    /\ IF Direct(t) /\ Found(hi[t].host) # {}
       THEN LET c == pool[CHOOSE i \in Found(hi[t].host) : TRUE].conn
            IN  /\ Goes(t, "finish", [hi[t] EXCEPT !.sock = c, !.base = c, !.reused = TRUE,
                                        !.assl = IF c \in res.assl THEN c ELSE NoConn])
                /\ res' = [res EXCEPT !.reused = @ \cup {c}]
       ELSE \/ Goes(t, "finish", [hi[t] EXCEPT !.settled = TRUE, !.base = NoConn]) /\ UNCHANGED res
            \/ \E c \in Unused :
                 \/ /\ res' = [res EXCEPT !.base = @ \cup {c}]
                    /\ Goes(t, "finish", [hi[t] EXCEPT !.settled = TRUE, !.base = c])
                 \/ LET secure == IF IsSecure(t) THEN {c} ELSE {} IN
                    /\ res' = [res EXCEPT !.base = @ \cup {c}, !.assl = @ \cup secure]
                    /\ Goes(t, "dial", [hi[t] EXCEPT !.base = c,
                                          !.assl = IF IsSecure(t) THEN c ELSE NoConn])
    /\ UNCHANGED redirect_count

\* Lookup, and Opensocket with its CleanupKeepAlivePool.  After a failure of
\* Opensocket Httpretrieve goes on to send.
Lookupfails(t) ==
    /\ At(t, "dial")
    /\ Goes(t, "finish", [hi[t] EXCEPT !.settled = TRUE])
    /\ UNCHANGED <<pool, kill, res, redirect_count>>
Opensocket(t) ==
    /\ At(t, "dial")
    /\ Kills(t, Expired) /\ pool' = Kept(Expired)
    /\ \/ /\ res' = [res EXCEPT !.sock = @ \cup {hi[t].base}]
          /\ Goes(t, "connect", [hi[t] EXCEPT !.sock = hi[t].base])
       \/ /\ res' = Closed({hi[t].assl}, {"assl"})
          /\ Goes(t, "send", [hi[t] EXCEPT !.assl = NoConn])
    /\ UNCHANGED redirect_count

\* Closes what the task has of the kinds fs.
Closes(t, fs) ==
    [f \in DOMAIN res |-> CASE f \in fs -> res[f] \ {hi[t][f]}
                            [] f \notin Fields /\ "sock" \in fs -> res[f] \ {hi[t].sock}
                            [] OTHER -> res[f]]
Without(rec, fs) == [f \in DOMAIN rec |-> IF f \in fs THEN NoConn ELSE rec[f]]
\* Mutant of RetryCloses: the retry leaves the failed socket open.
RetryClosesSsl == {"assl"}
RetryCloses == {"sock", "assl"}

\* Once, everything but the library is closed and opened again.
Retries(t, rec) ==
    /\ ~ hi[t].retried
    /\ res' = Closes(t, RetryCloses)
    /\ Goes(t, "open", [Without(rec, {"sock", "assl"}) EXCEPT !.retried = TRUE])

\* A break seen by Httpretrieve closes the socket at once.
Breaks(t, fs) ==
    /\ res' = Closes(t, fs)
    /\ Goes(t, "clean", [Without(hi[t], fs) EXCEPT !.error = TRUE, !.settled = TRUE])

\* A failed Connect may have freed the SSL structure, and closed the socket
\* after a break.
Connect(t) ==
    /\ At(t, "connect")
    /\ \/ Goes(t, "send", hi[t]) /\ UNCHANGED res
       \/ Breaks(t, {"sock", "assl"})
       \/ Retries(t, hi[t])
       \/ /\ hi[t].retried
          /\ \E fs \in {{}} \cup (IF IsSecure(t) THEN {{"assl"}, {"sock", "assl"}} ELSE {}) :
               /\ res' = Closes(t, fs)
               /\ Goes(t, "clean", [Without(hi[t], fs) EXCEPT !.settled = TRUE])
    /\ UNCHANGED <<pool, kill, redirect_count>>

Sendfails(t) ==
    /\ At(t, "send")
    /\ Goes(t, "clean", [hi[t] EXCEPT !.error = TRUE, !.settled = TRUE])
    /\ UNCHANGED <<pool, kill, res, redirect_count>>

\* The request is sent, and Httpresponse reads.  The answer may be no HTTP at all,
\* or nothing; or headers that break off; or they ask for authorization, move the
\* document, or precede it.
Sent(t) == [hi[t] EXCEPT !.settled = TRUE]
NoHeader(t) == Goes(t, "body", Sent(t)) /\ UNCHANGED <<res, redirect_count>>
\* Mutant of Asked: authorization is asked for again and again.
AskedAlways(t, code) == code \in Codes
Asked(t, code) == code \notin hi[t].auth
Header(t) ==
    /\ res' = [res EXCEPT !.answered = @ \cup {hi[t].sock}]
    /\ \E keep \in IF Direct(t) THEN BOOLEAN ELSE {FALSE} :
        LET rec == [Sent(t) EXCEPT !.keep = keep] IN
        \/ Goes(t, "body", rec) /\ UNCHANGED redirect_count
        \/ Goes(t, "clean", rec) /\ UNCHANGED redirect_count
        \/ /\ \E code \in Codes : /\ Asked(t, code) /\ (code = 407 => ~ Direct(t))
                                  /\ Goes(t, "clean", [rec EXCEPT !.status = code])
           /\ UNCHANGED redirect_count
        \/ Goes(t, "clean", rec) /\ redirect_count' = redirect_count + 1
Httpresponse(t) ==
    /\ At(t, "send") /\ hi[t].sock # NoConn
    /\ \/ NoHeader(t)
       \/ Header(t)
       \/ Breaks(t, {"sock"}) /\ UNCHANGED redirect_count
    /\ UNCHANGED <<pool, kill>>

\* Readdata: without keep-alive it closes everything.  An incomplete transfer
\* from a server that has Range is tried once more.
Readdata(t) ==
    /\ At(t, "body")
    /\ IF hi[t].sock # NoConn /\ ~ hi[t].keep
       THEN res' = Closes(t, Fields) /\ Goes(t, "clean", Without(hi[t], Fields))
       ELSE UNCHANGED res /\ Goes(t, "clean", hi[t])
    /\ UNCHANGED <<pool, kill, redirect_count>>
ReaddataIncomplete(t) ==
    /\ At(t, "body") /\ ~ hi[t].retried
    /\ IF hi[t].keep
       THEN Retries(t, hi[t])
       ELSE /\ res' = Closes(t, Fields)
            /\ Goes(t, "open", [Without(hi[t], Fields) EXCEPT !.retried = TRUE])
    /\ UNCHANGED <<pool, kill, redirect_count>>

\* ReturnKeepAliveConnection, or close.
\* Mutant of GivenAway: the task forgets only the socket it has pooled.
GivenAwaySocket == {"sock"}
GivenAway == Fields
MayPool(t) == hi[t].keep /\ ~ hi[t].error
ReturnKeepAliveConnection(t) ==
    /\ At(t, "clean") /\ MayPool(t)
    /\ IF hi[t].sock = NoConn
       THEN /\ Goes(t, "finish", [hi[t] EXCEPT !.reused = FALSE])
            /\ UNCHANGED <<pool, kill>>
       ELSE /\ Kills(t, Culled)
            /\ pool' = <<[conn |-> hi[t].sock, host |-> hi[t].host, old |-> FALSE]>>
                          \o Kept(Culled)
            /\ Goes(t, "finish", [Without(hi[t], GivenAway) EXCEPT !.reused = FALSE])
    /\ UNCHANGED <<res, redirect_count>>
Closessl(t) ==
    /\ At(t, "clean") /\ ~ MayPool(t)
    /\ res' = Closes(t, {"sock"})
    /\ Goes(t, "finish", [Without(hi[t], {"sock"}) EXCEPT !.reused = FALSE])
    /\ UNCHANGED <<pool, kill, redirect_count>>

\* The end of Httpretrieve: Assl_cleanup and CloseLibrary, unless the connection
\* is a reused one.  Back in Httptask there is one more try with authorization,
\* if the user has one, or the end.
LeftInUse(t) == hi[t].reused
Cleanup(t) ==
    LET fs == IF LeftInUse(t) THEN {} ELSE {"assl", "base"} IN
    /\ At(t, "finish")
    /\ res' = Closes(t, fs)
    /\ \/ /\ hi[t].status \in Codes
          /\ Goes(t, "top", [Without(hi[t], fs) EXCEPT !.auth = @ \cup {hi[t].status}])
       \/ Ended(t)
    /\ UNCHANGED <<pool, kill, redirect_count>>

-----------------------------------------------------------------------------

HttpStep(t) ==
    \/ Top(t) \/ Openlibraries(t) \/ Lookupfails(t) \/ Opensocket(t) \/ Connect(t)
    \/ Sendfails(t) \/ Httpresponse(t) \/ Readdata(t) \/ ReaddataIncomplete(t)
    \/ ReturnKeepAliveConnection(t) \/ Closessl(t) \/ Cleanup(t)
Next ==
    \/ \E t \in Task : Starts(t) \/ HttpStep(t)
    \/ \E a \in Task \cup {Main} : FreeConnectionNode(a)
    \/ \E i \in DOMAIN pool : Ages(i)
    \/ CloseIdleKeepAliveConnections
Spec == Init /\ [][Next]_vars

\* Exec runs every process, and every network call ends: by an answer, by the
\* timeouts of the sockets, or by the break signal.
FairSpec ==
    /\ Spec
    /\ \A t \in Task : WF_vars(HttpStep(t)) /\ WF_vars(FreeConnectionNode(t))
    /\ WF_vars(FreeConnectionNode(Main))

-----------------------------------------------------------------------------
(* Properties *)

TypeOK ==
    /\ hi \in [Task -> HttpinfoRecord]
    /\ pool \in Seq(Node)
    /\ kill \in [Task \cup {Main} -> SUBSET Conn]
    /\ res \in [Fields \cup {"answered", "reused"} -> SUBSET Conn]
    /\ redirect_count \in Nat

\* A connection has one owner: a transfer, one node of the pool, or the process
\* that has taken its node out and is about to close it.
OneOwner ==
    \A c \in Conn :
        Cardinality({t \in Task : Holds(t, c)}) + Cardinality({i \in DOMAIN pool : pool[i].conn = c})
          + Cardinality({a \in Task \cup {Main} : c \in kill[a]}) =< 1

\* Nobody holds what is closed: a second close or CloseLibrary would hit another
\* opening.
HeldIsOpen ==
    /\ \A t \in Task, f \in Fields : hi[t][f] # NoConn => hi[t][f] \in res[f]
    /\ Pooled \subseteq res.sock \cap res.base

\* What has no owner any more is closed: sockets and SSL structures do not leak,
\* but for the connections that were reused, which nobody gives back.
Owned == Pooled \cup Killed \cup UNION {{hi[t][f] : f \in Fields} : t \in Task}
OnlyReusedLeak == (res.sock \cup res.assl) \ Owned \subseteq res.reused

\* "Hard limit on idle connections" (http.c:182): as the last node is counted
\* twice, the pool stays below MAX_IDLE_CONNECTIONS, whoever returns meanwhile.
PoolBounded == Len(pool) < MaxIdle

\* Endless redirection is noticed: between the test and the count there is at
\* most one redirection of each transfer that runs.
RedirectsBounded == redirect_count =< MaxRedirects - 1 + Cardinality(Task)

\* A transfer ends: no step of it leads back, whatever servers and users answer.
\* The retries of Httpretrieve and the tries with authorization use themselves up.
Place == [top |-> 7, open |-> 6, dial |-> 5, connect |-> 4, send |-> 3, body |-> 2,
          clean |-> 1, finish |-> 0]
Lower(s, r) ==
    \/ r.auth \subseteq s.auth /\ r.auth # s.auth
    \/ /\ s.auth = r.auth
       /\ \/ r.at = "top" /\ s.at # "top"
          \/ s.at # "top" /\ s.retried /\ ~ r.retried
          \/ s.retried = r.retried /\ Place[s.at] < Place[r.at]
TransferProgresses ==
    [][\A t \in Task : hi[t].at # "idle" /\ hi'[t] # hi[t] =>
            hi'[t].at = "idle" \/ Lower(hi'[t], hi[t])]_vars

\* "The connection is already established and ready to use" (http.c:5618): a
\* transfer that nobody stopped and that reported no error has sent its request.
RequestSent == \A t \in Task : hi[t].at = "finish" => hi[t].settled

\* "Do NOT pool if server requested close" (http.c:373): a pooled connection is
\* one whose server has answered, and has its SSL structure.
PooledIsReady ==
    \A i \in DOMAIN pool : /\ pool[i].conn \in res.answered
                           /\ pool[i].host \in Secure => pool[i].conn \in res.assl
=============================================================================
