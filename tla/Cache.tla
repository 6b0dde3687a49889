------------------------------- MODULE Cache -------------------------------
(***************************************************************************)
(* The disk cache (cache.c): objects, each with a file, in a list that     *)
(* main alone changes, and the registration by which the next session      *)
(* finds the files.  While AWeb runs the registration is the log AWCU;     *)
(* now and then, and when AWeb quits, it is written anew as AWCR, which    *)
(* then becomes the log.  Which of the two exists when AWeb starts tells   *)
(* how the last session ended.  The computer may stop between any two of   *)
(* the steps below.                                                        *)
(*                                                                         *)
(* What main has still to do is the sequence todo.  A URL (url.c) has      *)
(* three pointers to cache objects: cache, ocache while it is reloaded,    *)
(* vcache while it is verified.  The transfers themselves are in module    *)
(* Url; here they bring any messages in any number.  Data is counted in    *)
(* blocks, and all Expires dates come at once.  Left out: redirections,    *)
(* volatile URLs, external scripts, files that cannot be written, and the  *)
(* window that shows the cache.                                            *)
(***************************************************************************)
EXTENDS Naturals, FiniteSetsExt, SequencesExt

CONSTANTS
    Url,
    Expiring,     \* the URLs whose documents have an Expires date
    MaxObjects,   \* bound: objects in memory
    MaxNr,        \* bound: of cachenr
    MaxData,      \* bound: blocks of one object
    MaxStops,     \* bound: how often AWeb stops; after that nothing more is loaded
    NRCHKPT,      \* files to add before AWCR is saved again
    CHKAFTER,     \* blocks to add before the excess is flushed
    Disksize      \* prefs.cadisksize, in blocks

ASSUME CacheAssumption ==
    /\ Expiring \subseteq Url
    /\ {MaxNr, MaxData, MaxStops, NRCHKPT, CHKAFTER, Disksize} \subseteq Nat
    /\ MaxObjects \in Nat \ {0}

None == "none"
NoFile == [url |-> None, whole |-> FALSE]

\* A registration file.
Absent == [is |-> None, lastnr |-> 0, entries |-> <<>>]
Torn == [Absent EXCEPT !.is = "torn"]      \* AWCR while it is written
Empty == [Absent EXCEPT !.is = "there"]
Obj == 1 .. MaxObjects
Nr == 1 .. MaxNr

VARIABLES
    cache,      \* the list, least recently used first
    obj,        \* struct Cache at each address
    nrs,        \* cachenr, nradded
    size,       \* cadisksize, sizeadded
    loads,      \* the transfers of each URL: fetch, rfetch, vfetch
    disk,       \* AWCR, AWCU and the cache files
    todo,       \* main: the steps left
    mode,       \* up, exitting (since Exitcache), down, wild
    stops,      \* how often AWeb has stopped
    late,       \* whether the Expires dates have come
    kept        \* history: the complete files that Exitcache registered

memory == <<cache, obj, nrs, size>>
world == <<stops, late, kept>>
vars == <<memory, loads, disk, todo, mode, world>>

-----------------------------------------------------------------------------
(* Objects and pointers. *)

Freed == [role |-> None]

\* The pointer of u that is called role, as a sequence of one object or none.
Pointer(u, role) ==
    SelectSeq(cache, LAMBDA o : obj[o].role = role /\ obj[o].url = u)
Cached(u) == Pointer(u, "cache") # <<>>
Expired(x) == x.expires /\ late
Old(u) == Cached(u) /\ Expired(obj[Head(Pointer(u, "cache"))])

Step(do, o) == [do |-> do, o |-> o]
Clearobject(u, role) ==
    [i \in DOMAIN Pointer(u, role) |-> Step("dispose", Pointer(u, role)[i])]
Becomes(u, from, to) ==
    [i \in DOMAIN Pointer(u, from) |-> [do |-> "assign", o |-> Pointer(u, from)[i], role |-> to]]
Newcache(u, role) == <<[do |-> "new", u |-> u, role |-> role]>>

\* What AUMST_DELETECACHE for cac->url disposes of.  A URL that was read in
\* twice is two URL objects, each with a copy, until Dupcheck has found them.
Deletes(o) ==
    IF obj[o].role = "dup" THEN <<Step("dispose", o)>> ELSE Clearobject(obj[o].url, "cache")

\* Flushexcess begins at the head of the list.
Flushexcess ==
    <<[do |-> "walk", o |-> IF cache = <<>> THEN 0 ELSE Head(cache), all |-> FALSE]>>
Successor(o) ==
    LET i == CHOOSE j \in DOMAIN cache : cache[j] = o
    IN IF i = Len(cache) THEN 0 ELSE cache[i + 1]

Running == mode \in {"up", "exitting"}
Idle == Running /\ todo = <<>>
Ready(do) == Running /\ todo # <<>> /\ Head(todo).do = do
Does(steps) == todo' = steps \o Tail(todo)

-----------------------------------------------------------------------------
(* The registration. *)

\* Savecachereg writes the objects that are the cache of their URL.
InRegister(o) == obj[o].role \in {"cache", "dup"}
Entry(o, del) ==
    [nr |-> obj[o].nr, url |-> obj[o].url, del |-> del, size |-> obj[o].size,
     expires |-> obj[o].expires]
Snapshot ==
    LET saved == SelectSeq(cache, InRegister)
    IN [Empty EXCEPT !.lastnr = nrs.cachenr, !.entries = [i \in DOMAIN saved |-> Entry(saved[i], FALSE)]]

\* Mutant of Savecachereg: the old log is deleted before AWCR is complete.
DeletesFirst(nodelete) ==
    <<Step("opencr", 0), Step("delcu", 0), [do |-> "closecr", nodelete |-> nodelete]>>
Savecachereg(nodelete) ==
    <<Step("opencr", 0), [do |-> "closecr", nodelete |-> nodelete], Step("delcu", 0)>>
Checkpoint == Savecachereg(FALSE) \o <<Step("rename", 0)>>

Opens ==
    /\ Ready("opencr")
    /\ disk' = [disk EXCEPT !.awcr = Torn]
    /\ Does(<<>>)
    /\ UNCHANGED <<memory, loads, mode, world>>

\* An object whose file is complete, and that no other object has.
HasOwnFile(o) ==
    /\ obj[o].name /\ disk.files[obj[o].nr] = [url |-> obj[o].url, whole |-> TRUE]
    /\ \A p \in Obj \ {o} : obj[p] # Freed => obj[p].nr # obj[o].nr

\* CACF_NODELETE, set by Exitcache.  Its mutant forgets the flag.
Unprotected(o) == FALSE
Nodelete(o) == InRegister(o)

Closes ==
    /\ Ready("closecr")
    /\ disk' = [disk EXCEPT !.awcr = Snapshot]
    /\ obj' = [o \in Obj |-> IF obj[o] = Freed THEN Freed ELSE
                 [obj[o] EXCEPT !.keep = @ \/ (Head(todo).nodelete /\ Nodelete(o)),
                                !.skipped = @ \/ ~InRegister(o)]]
    /\ kept' = IF ~Head(todo).nodelete THEN kept
               ELSE {[nr |-> obj[o].nr, url |-> obj[o].url] :
                        o \in {p \in Obj : InRegister(p) /\ HasOwnFile(p)}}
    /\ Does(<<>>)
    /\ UNCHANGED <<cache, nrs, size, loads, mode, stops, late>>

Deletescu ==
    /\ Ready("delcu")
    /\ disk' = [disk EXCEPT !.awcu = Absent]
    /\ Does(<<>>)
    /\ UNCHANGED <<memory, loads, mode, world>>

\* Rename fails if there is an AWCU.
Renames ==
    /\ Ready("rename")
    /\ disk' = IF disk.awcu # Absent \/ disk.awcr = Absent THEN disk
               ELSE [disk EXCEPT !.awcu = disk.awcr, !.awcr = Absent]
    /\ Does(<<>>)
    /\ UNCHANGED <<memory, loads, mode, world>>

\* For an object that is complete, and for one that is gone (o = 0).
Addregentry ==
    /\ Ready("log")
    /\ LET st == Head(todo)
           full == nrs.nradded + 1 > NRCHKPT IN
       IF mode = "exitting" THEN Does(<<>>) /\ UNCHANGED <<obj, nrs, disk>>
       ELSE /\ disk' = [disk EXCEPT !.awcu.entries = Append(@, st.entry)]
            /\ obj' = IF st.o = 0 THEN obj ELSE [obj EXCEPT ![st.o].done = "now"]
            /\ nrs' = [nrs EXCEPT !.nradded = IF full THEN 0 ELSE @ + 1]
            /\ Does(IF full THEN Checkpoint ELSE <<>>)
    /\ UNCHANGED <<cache, size, loads, mode, world>>

-----------------------------------------------------------------------------
(* The life of an object. *)

Free == {o \in Obj : obj[o] = Freed}
Object(u, role, nr) ==
    [role |-> role, url |-> u, nr |-> nr, size |-> 0, expires |-> u \in Expiring,
     name |-> FALSE, open |-> FALSE, keep |-> FALSE, done |-> None, skipped |-> FALSE]

\* Newcache.
New ==
    /\ Ready("new") /\ Free # {} /\ nrs.cachenr < MaxNr
    /\ LET o == CHOOSE free \in Free : TRUE IN
       /\ obj' = [obj EXCEPT ![o] = Object(Head(todo).u, Head(todo).role, nrs.cachenr + 1)]
       /\ cache' = Append(cache, o)
    /\ nrs' = [nrs EXCEPT !.cachenr = @ + 1]
    /\ Does(<<>>)
    /\ UNCHANGED <<size, loads, disk, mode, world>>

\* Disposecache, up to the entry of Deletecache in the log.  A file that is being
\* read cannot be deleted.
Disposes ==
    LET o == Head(todo).o
        c == obj[o]
        deletes == c.name /\ ~c.keep IN
    /\ Ready("dispose")
    /\ cache' = Remove(cache, o)
    /\ obj' = [obj EXCEPT ![o] = Freed]
    /\ size' = [size EXCEPT !.cadisksize = @ - c.size]
    /\ \/ disk' = IF deletes THEN [disk EXCEPT !.files[c.nr] = NoFile] ELSE disk
       \/ deletes /\ c.role = "cache" /\ "rfetch" \in loads[c.url] /\ UNCHANGED disk
    /\ Does(IF deletes THEN <<[do |-> "log", o |-> 0, entry |-> Entry(o, TRUE)]>> ELSE <<>>)
    /\ UNCHANGED <<nrs, loads, mode, world>>

\* An assignment between the pointers of a URL, and AOCAC_Touched.
Assigns ==
    /\ Ready("assign")
    /\ obj' = [obj EXCEPT ![Head(todo).o].role = Head(todo).role]
    /\ Does(<<>>)
    /\ UNCHANGED <<cache, nrs, size, loads, disk, mode, world>>
Touches ==
    /\ Ready("touch")
    /\ cache' = Append(Remove(cache, Head(todo).o), Head(todo).o)
    /\ Does(<<>>)
    /\ UNCHANGED <<obj, nrs, size, loads, disk, mode, world>>

\* Srcupdatecache with data: the first opens the file.
Data ==
    LET o == Head(todo).o
        c == obj[o]
        writes == c.open \/ ~c.name
        more == IF writes THEN 1 ELSE 0 IN
    /\ Ready("data")
    /\ disk' = IF c.name THEN disk
               ELSE [disk EXCEPT !.files[c.nr] = [url |-> c.url, whole |-> FALSE]]
    /\ obj' = [obj EXCEPT ![o] = [c EXCEPT !.name = TRUE, !.open = writes, !.size = @ + more]]
    /\ size' = [cadisksize |-> size.cadisksize + more, sizeadded |-> size.sizeadded + more]
    /\ Does(IF writes /\ size.sizeadded + more > CHKAFTER THEN Flushexcess ELSE <<>>)
    /\ UNCHANGED <<cache, nrs, loads, mode, world>>

\* Srcupdatecache with AOURL_Eof or AOURL_Terminate.
Eof ==
    LET o == Head(todo).o
        c == obj[o] IN
    /\ Ready("eof")
    /\ IF c.name /\ ~c.open THEN Does(<<>>) /\ UNCHANGED <<obj, disk>>
       ELSE /\ disk' = [disk EXCEPT !.files[c.nr] = [url |-> c.url, whole |-> TRUE]]
            /\ obj' = [obj EXCEPT ![o] = [c EXCEPT !.name = TRUE, !.open = FALSE]]
            /\ Does(<<[do |-> "log", o |-> o, entry |-> Entry(o, FALSE)], Step("excess", 0)>>)
    /\ UNCHANGED <<cache, nrs, size, loads, mode, world>>

\* Flushexcess is called.
Excess ==
    /\ Ready("excess")
    /\ Does(Flushexcess)
    /\ UNCHANGED <<memory, loads, disk, mode, world>>

\* The loop of Flushexcess and of Flushtype (all), which takes some objects.  It
\* knows the next object before it deletes, and what it deletes is the cache of
\* the URL.  If that was the next one, the loop reads freed memory.
Walkends == Head(todo).o = 0 \/ (~Head(todo).all /\ size.cadisksize <= Disksize)
Walks ==
    LET st == Head(todo) IN
    /\ Ready("walk")
    /\ \/ /\ Walkends
          /\ size' = IF st.all THEN size ELSE [size EXCEPT !.sizeadded = 0]
          /\ Does(<<>>) /\ UNCHANGED mode
       \/ /\ ~Walkends /\ obj[st.o] = Freed
          /\ mode' = "wild" /\ todo' = <<>> /\ UNCHANGED size
       \/ /\ ~Walkends /\ obj[st.o] # Freed
          /\ \/ Does(Deletes(st.o) \o <<[st EXCEPT !.o = Successor(st.o)]>>)
             \/ st.all /\ Does(<<[st EXCEPT !.o = Successor(st.o)]>>)
          /\ UNCHANGED <<size, mode>>
    /\ UNCHANGED <<cache, obj, nrs, loads, disk, world>>

\* Fixcachereg, for one object that has no file; it may be gone.
Fixes ==
    LET o == Head(todo).o IN
    /\ Ready("fix")
    /\ IF obj[o] = Freed THEN mode' = "wild" /\ todo' = <<>>
       ELSE Does(Deletes(o)) /\ UNCHANGED mode
    /\ UNCHANGED <<memory, loads, disk, world>>

-----------------------------------------------------------------------------
(* What a URL does with its cache objects. *)

Room == Free # {} /\ nrs.cachenr < MaxNr
Elsewhere == <<memory, disk, mode, world>>

\* Loadurl with AUMLF_RELOAD: a download has no object of its own.
Reload(u) ==
    /\ mode = "up" /\ Idle /\ Room /\ stops < MaxStops
    /\ loads' = [loads EXCEPT ![u] = {"fetch"}]
    /\ \E new \in {<<>>, Newcache(u, "cache")} :
          todo' = Clearobject(u, "vcache") \o Clearobject(u, "ocache")
                  \o Becomes(u, "cache", "ocache") \o new
    /\ UNCHANGED Elsewhere

\* What Loadurl may start otherwise: the copy in the cache is taken, or verified,
\* or both, or what is in memory is good enough; or the document is fetched.
Starts(u, history) ==
    {{}} \cup (IF Cached(u) /\ ~Old(u) THEN {{"rfetch"}} ELSE {{"fetch"}})
    \cup (IF history \/ Old(u) THEN {} ELSE {{"vfetch"}})
    \cup (IF history \/ Old(u) \/ ~Cached(u) THEN {} ELSE {{"rfetch", "vfetch"}})

\* The steps to it.  An expired copy is disposed of, but for the window history
\* it stays, and is forgotten if the document is fetched.  An object is made if
\* the URL may be cached and this is no download.
Loading(u, get, history) ==
    LET clears == IF history \/ ~Old(u) THEN <<>> ELSE Clearobject(u, "cache")
        takes == IF "rfetch" \in get THEN <<Step("touch", Head(Pointer(u, "cache")))>> ELSE <<>>
        makes == CASE "fetch" \in get ->
                        {<<>>, (IF clears = <<>> THEN Becomes(u, "cache", "lost") ELSE <<>>)
                               \o Newcache(u, "cache")}
                   [] "vfetch" \in get -> {<<>>, Newcache(u, "vcache")}
                   [] OTHER -> {<<>>} IN
    {clears \o takes \o new : new \in makes}

Loadurl(u) ==
    /\ mode = "up" /\ Idle /\ Room /\ stops < MaxStops /\ loads[u] = {}
    /\ \E history \in BOOLEAN : \E get \in Starts(u, history) :
          /\ loads' = [loads EXCEPT ![u] = get]
          /\ todo' \in Loading(u, get, history)
    /\ UNCHANGED Elsewhere

\* Srcupdatefetch, for one message each.
Message(u, fetch) == Idle /\ fetch \in loads[u] /\ UNCHANGED Elsewhere
Datamsg(u) ==
    /\ Message(u, "fetch") /\ Cached(u) /\ obj[Head(Pointer(u, "cache"))].size < MaxData
    /\ todo' = <<Step("data", Head(Pointer(u, "cache")))>>
    /\ UNCHANGED loads

\* The copy from before the reload is taken back.
Errormsg(u) ==
    /\ Message(u, "fetch")
    /\ todo' = Clearobject(u, "cache") \o Becomes(u, "ocache", "cache")
    /\ UNCHANGED loads
Nocachemsg(u) ==
    /\ Message(u, "fetch") /\ Cached(u)
    /\ todo' = Clearobject(u, "cache")
    /\ UNCHANGED loads
Reloadmsg(u) ==
    /\ Message(u, "fetch") /\ Room
    /\ todo' = Clearobject(u, "cache") \o Newcache(u, "cache")
    /\ UNCHANGED loads

\* The end of a part of a server push.
Eofmsg(u) ==
    /\ Message(u, "fetch") /\ Cached(u)
    /\ todo' = <<Step("eof", Head(Pointer(u, "cache")))>>
    /\ UNCHANGED loads

\* The end of a transfer.  An object that is not told of it has no file: the
\* messages went to a save-as source or to an external program instead.
Terminatemsg(u, fetch) ==
    /\ Message(u, fetch)
    /\ \/ todo' = Clearobject(u, "ocache") \o
                  (IF fetch = "fetch" /\ Cached(u)
                   THEN <<Step("eof", Head(Pointer(u, "cache")))>> ELSE <<>>)
       \/ /\ fetch = "fetch" /\ Cached(u) /\ ~obj[Head(Pointer(u, "cache"))].name
          /\ todo' = Clearobject(u, "ocache")
    /\ loads' = [loads EXCEPT ![u] = @ \ {"fetch", "rfetch"}]

\* Srcupdatevfetch: the document is new, and its object takes over and gets the
\* data that said so.
Promoted(u) ==
    /\ Message(u, "vfetch")
    /\ loads' = [loads EXCEPT ![u] = {"fetch"}]
    /\ todo' = Clearobject(u, "cache") \o Becomes(u, "vcache", "cache") \o
               [i \in DOMAIN Pointer(u, "vcache") |-> Step("data", Pointer(u, "vcache")[i])]

\* Or the copy is good: without fast response it is loaded now, as if for the
\* window history.
Verified(u) ==
    /\ Message(u, "vfetch") /\ Room
    /\ LET running == loads[u] \ {"vfetch"} IN
       \E get \in IF running = {} THEN Starts(u, TRUE) ELSE {{}} :
          /\ loads' = [loads EXCEPT ![u] = running \cup get]
          /\ \E steps \in Loading(u, get, TRUE) : todo' = Clearobject(u, "vcache") \o steps

Srcupdateurl(u) ==
    \/ Datamsg(u) \/ Errormsg(u) \/ Nocachemsg(u) \/ Reloadmsg(u) \/ Eofmsg(u)
    \/ Terminatemsg(u, "fetch") \/ Terminatemsg(u, "rfetch")
    \/ Promoted(u) \/ Verified(u)

-----------------------------------------------------------------------------
(* Deleting. *)

\* AUMST_DELETECACHE from the cache browser, or a source that is not to be cached.
Delete(u) ==
    /\ Idle /\ Cached(u)
    /\ todo' = Clearobject(u, "cache")
    /\ UNCHANGED <<Elsewhere, loads>>

\* Flushcache for the excess, or for documents, images or a pattern.
Flushcache ==
    /\ Idle /\ cache # <<>>
    /\ \E all \in BOOLEAN : todo' = <<[Head(Flushexcess) EXCEPT !.all = all]>>
    /\ UNCHANGED <<Elsewhere, loads>>

\* Of two URL objects of one name the older is given up.
Dupcheck(o) ==
    /\ Idle /\ obj[o].role = "dup"
    /\ todo' = <<Step("dispose", o)>>
    /\ UNCHANGED <<Elsewhere, loads>>

\* Files that no object has are deleted, as is an old AWCR; each file is good for
\* one object, and the others with a name are deleted.  The user may cancel it
\* before some of the files are, and then nothing more is done.
Dofixcache ==
    /\ mode = "up" /\ Idle
    /\ LET named == SelectSeq(cache, LAMBDA o : obj[o].name)
           hasfile(i) == /\ disk.files[obj[named[i]].nr] # NoFile
                         /\ \A j \in 1 .. i - 1 : obj[named[j]].nr # obj[named[i]].nr
           left == SelectSeq([i \in DOMAIN named |-> i], LAMBDA i : ~hasfile(i))
           unused == {n \in Nr : \A i \in DOMAIN named : obj[named[i]].nr # n} IN
       \E gone \in SUBSET unused :
          /\ disk' = [disk EXCEPT !.awcr = Absent,
                        !.files = [n \in Nr |-> IF n \in gone THEN NoFile ELSE @[n]]]
          /\ \/ todo' = <<>>
             \/ /\ gone = unused
                /\ todo' = [i \in DOMAIN left |-> Step("fix", named[left[i]])] \o Checkpoint
    /\ UNCHANGED <<memory, loads, mode, world>>

-----------------------------------------------------------------------------
(* Stopping and starting. *)

\* Cleanup: the registration is saved, then transfers still end, then all
\* objects are disposed of.
Exitcache ==
    /\ mode = "up" /\ Idle /\ stops < MaxStops
    /\ mode' = "exitting" /\ todo' = Savecachereg(TRUE)
    /\ UNCHANGED <<memory, loads, disk, world>>
Deinstallcache ==
    /\ mode = "exitting" /\ Idle
    /\ todo' = [i \in DOMAIN cache |-> Step("dispose", cache[i])] \o <<Step("halt", 0)>>
    /\ UNCHANGED <<Elsewhere, loads>>

Forgets ==
    /\ cache' = <<>> /\ obj' = [o \in Obj |-> Freed] /\ todo' = <<>>
    /\ nrs' = [cachenr |-> 0, nradded |-> 0] /\ size' = [cadisksize |-> 0, sizeadded |-> 0]
    /\ loads' = [u \in Url |-> {}]
    /\ mode' = "down" /\ stops' = stops + 1
    /\ UNCHANGED <<disk, late, kept>>
Halts == Ready("halt") /\ Forgets
Crash == mode # "down" /\ stops < MaxStops /\ Forgets

\* Readcachereg.  Writeregentry writes an ETag after every entry; the reader
\* skips it only when it makes an object.  So what follows an entry that deletes
\* or has expired is misread from its first byte on, and reading ends there.
LastRead(entries) ==
    LET odd == {i \in DOMAIN entries : entries[i].del \/ Expired(entries[i])}
    IN IF odd = {} THEN Len(entries) ELSE CHOOSE i \in odd : \A j \in odd : i <= j
Once(entries, nr) == \E i \in DOMAIN entries :
    entries[i].nr = nr /\ \A j \in DOMAIN entries \ {i} : entries[j].nr # nr

\* What is read in counts for cadisksize; in the mutant it does not.
NotCounted(c) == 0
ReadSize(c) == c.size

\* Each entry makes an object and a new URL object, so that the last for a URL is
\* the one that is found by its name, which matters for a deleting entry.
Readcachereg(reg) ==
    LET n == LastRead(reg.entries)
        adds == SelectSeq(SubSeq(reg.entries, 1, n), LAMBDA e : ~e.del /\ ~Expired(e))
        last == IF n = 0 THEN [del |-> FALSE, expires |-> FALSE] ELSE reg.entries[n]
        newest(i) == \A j \in i + 1 .. Len(adds) : adds[j].url # adds[i].url
        gone == {i \in DOMAIN adds : last.del /\ newest(i)
                                     /\ adds[i].nr = last.nr /\ adds[i].url = last.url}
        deleted == {adds[i].nr : i \in gone} \cup (IF Expired(last) /\ ~last.del THEN {last.nr} ELSE {}) IN
    /\ Len(adds) <= MaxObjects
    /\ obj' = [o \in Obj |->
         IF o \notin DOMAIN adds \ gone THEN Freed
         ELSE [Object(adds[o].url, IF newest(o) THEN "cache" ELSE "dup", adds[o].nr) EXCEPT
                 !.size = adds[o].size, !.name = TRUE,
                 !.done = IF Once(reg.entries, adds[o].nr) THEN "read" ELSE None]]
    /\ cache' = SelectSeq([i \in DOMAIN adds |-> i], LAMBDA i : i \notin gone)
    /\ nrs' = [cachenr |-> CHOOSE m \in {reg.lastnr} \cup {adds[i].nr : i \in DOMAIN adds} :
                              m >= reg.lastnr /\ \A i \in DOMAIN adds : m >= adds[i].nr,
               nradded |-> 0]
    /\ size' = [cadisksize |-> MapThenSumSet(LAMBDA i : ReadSize(adds[i]), DOMAIN adds \ gone),
                sizeadded |-> 0]
    /\ disk' = [disk EXCEPT !.files = [m \in Nr |-> IF m \in deleted THEN NoFile ELSE @[m]]]

\* With AWCU the last session did not end well.
Initcache ==
    /\ mode = "down"
    /\ IF disk.awcu # Absent THEN Readcachereg(disk.awcu) /\ todo' = Checkpoint
       ELSE IF disk.awcr # Absent THEN Readcachereg(disk.awcr) /\ todo' = <<Step("rename", 0)>>
       ELSE disk' = [disk EXCEPT !.awcu = Empty] /\ UNCHANGED <<memory, todo>>
    /\ mode' = "up" /\ kept' = {}
    /\ UNCHANGED <<loads, stops, late>>

\* Time passes.
Expires == ~late /\ late' = TRUE /\ UNCHANGED <<memory, loads, disk, todo, mode, stops, kept>>

-----------------------------------------------------------------------------
Init ==
    /\ cache = <<>> /\ obj = [o \in Obj |-> Freed] /\ todo = <<>>
    /\ nrs = [cachenr |-> 0, nradded |-> 0] /\ size = [cadisksize |-> 0, sizeadded |-> 0]
    /\ loads = [u \in Url |-> {}]
    /\ disk = [awcr |-> Absent, awcu |-> Absent, files |-> [n \in Nr |-> NoFile]]
    /\ mode = "down" /\ stops = 0 /\ late = FALSE /\ kept = {}

MainStep ==
    \/ Opens \/ Closes \/ Deletescu \/ Renames \/ Addregentry \/ New \/ Disposes \/ Assigns
    \/ Touches \/ Data \/ Eof \/ Excess \/ Walks \/ Fixes \/ Halts
Next ==
    \/ MainStep \/ Exitcache \/ Deinstallcache \/ Crash \/ Initcache \/ Expires
    \/ \E u \in Url : Reload(u) \/ Loadurl(u) \/ Srcupdateurl(u) \/ Delete(u)
    \/ Flushcache \/ Dofixcache \/ \E o \in Obj : Dupcheck(o)
Spec == Init /\ [][Next]_vars

-----------------------------------------------------------------------------
(* Properties. *)

\* The state, in types.
Entries == Seq([nr : Nr, url : Url, del : BOOLEAN, size : 0 .. MaxData, expires : BOOLEAN])
TypeOK ==
    /\ cache \in Seq(Obj) /\ IsInjective(cache)
    /\ ToSet(cache) = Obj \ Free
    /\ \A o \in Obj \ Free :
         /\ obj[o].role \in {"cache", "ocache", "vcache", "dup", "lost"}
         /\ obj[o].url \in Url /\ obj[o].nr \in Nr /\ obj[o].size \in 0 .. MaxData
    /\ nrs.cachenr \in Nr \cup {0}
    /\ \A u \in Url : loads[u] \subseteq {"fetch", "rfetch", "vfetch"}
    /\ \A u \in Url, role \in {"cache", "ocache", "vcache"} : Len(Pointer(u, role)) <= 1
    /\ disk.awcr.entries \in Entries /\ disk.awcu.entries \in Entries
    /\ mode \in {"up", "exitting", "down", "wild"}

\* The registration that the next session would read if AWeb stopped now.
Registration == IF disk.awcu # Absent THEN disk.awcu ELSE disk.awcr

\* Its meaning: the last entry about a copy says that it is there.
Registered(c) ==
    \E i \in DOMAIN Registration.entries :
          LET e == Registration.entries[i] IN
          /\ e.nr = c.nr /\ e.url = c.url /\ ~e.del
          /\ \A j \in i + 1 .. Len(Registration.entries) :
                Registration.entries[j].nr = c.nr => ~Registration.entries[j].del

\* Addregentry, Savecachereg, Initcache: a copy that was completed or read in, and
\* is still the cache of its URL, is in the registration, whenever the computer
\* stops, also in the middle of a checkpoint; and if it was completed in this
\* session its file is whole and of that URL.  The exception is a copy that was
\* set aside during a checkpoint and then taken back (skipped).
CompleteIsKept ==
    Running => \A o \in Obj : InRegister(o) /\ obj[o].done # None =>
        /\ obj[o].skipped \/ Registered(obj[o])
        /\ obj[o].done = "now" => disk.files[obj[o].nr] = [url |-> obj[o].url, whole |-> TRUE]

\* Exitcache, Initcache: what was complete when AWeb quit is in the cache of the
\* next session, with its file, whatever came in while AWeb closed down.
QuitKeeps ==
    [][Initcache /\ disk.awcu = Absent /\ ~late =>
          \A k \in kept : \E o \in Obj :
             /\ obj'[o] # Freed /\ obj'[o].nr = k.nr /\ obj'[o].url = k.url
             /\ disk'.files[k.nr] = [url |-> k.url, whole |-> TRUE]]_vars

\* Flushexcess: when it is done the objects fit on the disk, or there is none
\* left that may be deleted, also after a restart or a reload.
FlushMakesRoom ==
    [][Walks /\ Walkends /\ ~Head(todo).all =>
          \/ MapThenSumSet(LAMBDA o : obj[o].size, Obj \ Free) <= Disksize
          \/ \A o \in Obj : ~InRegister(o)]_vars

=============================================================================
