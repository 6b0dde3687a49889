# A verification of AWeb's subtasks, transfers and shared lists

AWeb (`Source/AWebAPL`) is a web browser for AmigaOS, written in C. One *main*
process runs everything that touches an AWeb object; network transfers, disk
reads, image decoders and some windows run in *subtasks* that talk to main with
messages and share lists with it under semaphores. This directory has TLA+ models
of that machinery and of the parts of the browser that depend on it most: the subtask
framework, fetches and URLs, HTTP connections, the hotlist with its windows, the
remembered passwords, and the disk cache with its recovery. It has the TLC configurations that check the models,
and proofs about the subtask framework, the fetches with their URLs, the HTTP connections, the hotlist and the passwords.

Paths below are relative to `Source/AWebAPL` unless they begin with `Source`.

## 1. Inventory

### The parts and their state

| Part | State | Operations | Correct when |
|---|---|---|---|
| Subtask framework, `task.c` | per task: state, flags, target, subport, `runsema`, `sema`; main's `taskport`, `semaport` and their signals; main's recursion | start, stop, suspend, message (sync, async, "vanilla"), dispose, update, quit | nothing is freed under a running process or a pending message; a sync call returns; a disposal ends |
| Fetches, `fetch.c` | `running`, `netqueue`, `localqueue`, `nrnet`, `nrlocal`, flags and driver of each fetch, `waitrequests` | start, queue, update, end, cancel, dispose, retry as GET, retry after "incomplete", cancel a window's fetches, ARexx WAIT | a slot is given back exactly once; no queue is forgotten; no fetch outlives or dies before its driver |
| URLs, `url.c` | `fetch`, `rfetch`, `vfetch`, source, cache object, moved-to chain | load, reload, verify, redirect, cancel, update | one loader at a time; no pointer to a dead fetch; the URL can be loaded again |
| HTTP, `http.c` | per-task `Httpinfo`; shared: keep-alive pool, redirect counter, accepted certificates | request, retry, redirect, authorize, reuse and return a connection | one user per connection; nothing leaks; retries and redirections end |
| Hotlist, `hotlist.c` `hotviewer.c` `hotmanager.c` | the list under `hotsema`; a viewer and a manager task with their own nodes | add, follow, move, delete, save, restore, open, close, quit | main and the tasks never wait on each other; the list is not freed under the manager; changes are saved |
| Passwords, `author.c` `authorlib.c` | the list under `authsema`, `changed`; a window task with pointers into it | guess, look up, remember, forget, edit, delete, save, open, close, quit | one entry for a realm; no pointer to a freed entry is followed; the file follows the list |
| Cache, `cache.c` `cabrtask.c` | cache objects with a file and a date, their log and size | find, open, write, flush, recover | file, log and object agree; a file in use is not deleted |
| Cookies, name server cache, CID registry | a list each, under a semaphore | look up, add, expire | entries are not used after they are freed |
| Sources, documents, copies, `source.c` `document.c` `copy.c` | a driver per content type, the list of displayed copies, `serverpush` | receive data, notify, dispose | a copy sees each piece of data once and never a dead source |
| XMLHttpRequest, `xhrjs.c` | ready state, a source and a fetch | open, send, abort | a request completes and its fetch is not used later |
| Timers, editors, save-as, netstat, history windows | small objects with a target or a raw pointer | | no use after free |
| Interpreter, parsers, layout, image decoders, settings | sequential | | the result, not the order |

### How they interact

- A *subtask* calls `Updatetaskattrs`; the message goes to `taskport`; main's
  `Processtask` calls the update handler of the task's target. For a
  transfer this is `Updatefetch`, which calls `Srcupdateurl` of the URL, which calls
  `Srcupdatesource` of the source and so on: one chain of calls, and any part of it
  may cancel, dispose of or load something.
- *Main* sends messages to a subtask and may wait (`Waitformsg`), or
  disposes of it and waits for its end (`Stoptask`). While it waits it processes the
  messages of that subtask, whose handlers run inside the call that waits.
- Fetches compete for `maxconnect` network and `maxdiskread` disk slots.
- Subtasks share lists with each other and with main under semaphores (hotlist, passwords,
  keep-alive connections, cookies, names). A process that waits for a semaphore
  serves no messages.

### What is hard

Recursion of main into handlers while it waits; the signal bits that a nested
wait clears; objects that are disposed of by their own update; a cancel whose
notification causes the next load before the cancel has finished; several
updates under way when a load is replaced; the driver's last, asynchronous
message; retries; queues that are looked at only when something else ends; a semaphore
held while a message is waited for; pointers into a list that are kept in a window; a connection
that changes its owner between two critical sections. The
`hazards` of `PROJECT.json` list these at their lines.

## 2. Plan

| Order | Module | Composes | State |
|---|---|---|---|
| 1 | `Task`, `TaskProofs`, `TaskWaits` | the subtask framework | written, checked, safety proved |
| 2 | `TaskLife`, `TaskRefines` | what a task promises to the rest of AWeb; `Task` implements it | written, checked, proved |
| 3 | `Fetch`, `Url`, `FetchProofs`, `UrlProofs` | fetches; URLs, drivers and the user over `Fetch` | written, checked, safety proved |
| 4 | `Http`, `HttpProofs` | HTTP transfers over the pool and the redirect counter | written, checked, safety proved |
| 5 | `Hotlist`, `HotlistProofs` | main, viewer and manager over the list | written, checked, safety proved |
| 6 | `Auth`, `AuthProofs` | transfers, main and the window over the passwords | written, checked, safety proved |
| 7 | `Cache` | cache objects, their files and the registration, with stops and restarts | written, checked |
| 8 | `CacheProofs`, more in `HotlistProofs` | `CompleteIsKept`, `QuitKeeps`; `ManagerLetsGo` | next |
| 9 | `Xhr`, `Editor` | an XMLHttpRequest over `Fetch` and `Url`; an editor over the interface of `Task` | later |
| 10 | the rest of `Url` | moved-to chain, `Finalurl`, `Disposeurl` at quit, saveas and file loads | later |
| 11 | `Cookie`, `Nameserv`, `Timer`, `Winhis`, `Cid` | one small module each | as far as it goes |

## 3. The modules

### `Task`: the subtask framework (`task.c`, `task.h`)

| Variable | In the code |
|---|---|
| `task[t]` | `struct Atask` as main sees it: state, `TSKF_` flags, whether it has a target |
| `proc[t]` | the process: where it is in `Subtask`, `Waittask`, `Gettaskmsg`, `Updatetask`; its subport, its signals, the message it holds |
| `port`, `psig`, `mask` | `taskport`, its signal bit, and the bit in the mask the main loop is working through |
| `semaport`, `ssig`, `procured` | the port that `Procure` replies to, its bit, and the `runsema` main is queued for |
| `stack` | main's recursion: activations of `Processtask`, `Processreply`, `Waitformsg`, `Dodisposetask` |
| `quitting` | `Deinstalltask` |

`stack` is what the module is about. `Processreply` is three steps (begin, handler,
end) and a handler is an activation on top of which any call may begin: so every
nesting that the C stack can have is a value of `stack`. `IdleCalls`, `OwnCalls` and
`OtherCalls` say what main calls from its event loop, what a handler calls on
the task it serves and what on another task; the configurations take the combinations that
clients of `task.c` really have.

A critical section of `portsema` or `task->sema` is one step, but for the epilogue of
`Subtask`, which keeps `task->sema` while it drains the port: `SemaFree` makes the
other side wait. Left out: memory failures (a process or port that cannot be created is
in), and `AOTSK_Stop` without `AOTSK_Async`, which no caller uses. A stop message that
`Gettaskmsg` makes up for CTRL-C and the test of `Checktaskbreak` are one: the subtask
is `leaving`.

### `TaskLife`: what the framework promises

Three variables: whether the object exists, whether its process runs, and which tasks have been disposed of. A
process is started once and not after the disposal; an object is freed once, after the disposal, and not while
its process runs. `TaskRefines` instantiates it over the variables of `Task` (`LifeSpec`). The
modules `Fetch`, `Hotlist` and `Auth`, which are clients of tasks, use no more of the framework than
this and the properties of the runs `task_dispose` and `task_sync`.

### `Fetch`: transfers, queues, slots (`fetch.c`, `fetchdriver.h`)

| Variable | In the code |
|---|---|
| `fetch[f]` | `struct Fetch`: the URL, its `FCHF_` flags, "`sofar < total`" (`more`), whether `postmsg` is set |
| `driver[f]` | its task and driver function: running, waiting for an answer, with its last message in `taskport`, ended |
| `lists` | `running`, `netqueue`, `localqueue` |
| `slots` | `nrnet`, `nrlocal` |
| `prefs` | `maxconnect`, `maxdiskread`, `fastresponse` |
| `waits` | `waitrequests` |
| `todo` | what main has still to do in the handler it is in |

Main is single threaded and its handlers run to completion, but the functions call each
other in long chains and the state *between* two calls matters: `todo` is the sequence
of the calls still to be made, the next one first. An action takes the first call,
does what the function does up to the next call that it makes, and puts that
call and the remainder of the function in front of the rest. `Setfetch` with
`AOFCH_Cancel` for a running fetch, for instance, becomes `srcupdate` (tell the URL)
and then `stop` (tell the driver); whatever the URL does comes in between. The drivers
take steps all the while.

A driver is modelled by the messages it can send (`DriverTags`) and its way of ending (`Ends`,
`EndsSilently`), taken from `http.c`, `local.c`, `gemini.c`, `ciddataurls.c` and their like. Of the framework
below, the model uses what `Task` is about: a sync update is answered when its handler is
done, updates of one task arrive in order, and a task that is disposed of has ended.

Left out: channel fetches, memory failures but for the creation of the fetch and of its task
(which may fail at every start), the reuse of freed memory (a fetch object is
never used again, so an access to a freed one is visible); `AOURL_Reload` between the parts of a multipart answer (`http.c:4782`), which
resets counters of the fetch (`fetch.c:1009`) and gives the URL a new cache object and a new save-as source (`url.c:946`; its cache side is `Reloadmsg` of `Cache`), and
`AOURL_Error` with FALSE before a retry (`http.c:5875`, 5904), which no handler acts on. No property depends on them.

### `Url`: loading, verifying, cancelling (`url.c`, `source.c`)

`url[u]` has the three pointers `fetch`, `rfetch`, `vfetch`, the source's `serverpush`
and whether the source is displayed. `Loadurl` has the whole decision table; what the cache and
the sources answer (`csrc`, `ccac`, `cval`, `visited`) is any value. `Srcupdateurl` has its three
forms; `Promoted` is the step where a verification finds the copy outdated and becomes the
load itself. The user (`User`, `Answer`) loads, reloads, cancels a URL, one transfer or all, shows
and hides a page, changes the settings, answers the requester for an incomplete transfer, and runs ARexx
`WAIT`. `Next` is here: `Url` composes the URLs, the fetches, the drivers and the user.

The call `overflow` stands for an endless recursion (section 5). A
redirection is to any other URL, or to none when it goes in a circle.

Left out: `Finalurl` and the moved-to chain, `AOURL_Seeother`, file and save-as loads, cache objects,
XMLHttpRequest, and `Disposeurl`, which happens only at quit.

### `Http`: connections (`http.c`)

| Variable | In the code |
|---|---|
| `hi[t]` | `struct Httpinfo` of each HTTP task and its place in `Httptask`: socket, SSL structure and library opening apart, since each is opened and closed on its own; `connection_reused`, keep-alive, status, authorization, retry |
| `pool` | `keepalive_pool`, in order |
| `kill` | the nodes that a process took out of the pool under `keepalive_sema` and frees after it |
| `res` | what is open, what a server has answered on, what was reused |
| `redirect_count` | the counter that all tasks share without a semaphore |

The places `top`, `open`, `dial`, `connect`, `send`, `body`, `clean`, `finish` are those between which another
process can see or change something shared; what a task does between two of them is one step. Servers and users answer anything. All three
retries are in (`Retries` for a failed connect, the body's second try for an incomplete transfer, the second round with
authorization). Main closes idle connections at any time.

The tunnel to a secure host through a proxy, with the status it reads on the way (`http.c:5372-5475`), is the connect step as for any other host.

Left out: the request and header text, chunks, FTP over a proxy, `limitproxy`, the name server cache, memory
failures and the freeing of the pool at quit.

### `Hotlist`: main, viewer, manager (`hotlist.c`, `hotviewer.c`, `hotmanager.c`)

| Variable | In the code |
|---|---|
| `todo` | main's steps, innermost activation first: a call puts its steps in front |
| `hot[w]` | `hotwindowv`, `hotwindowm`: object, task, break sent, to be opened again |
| `port`, `inbox` | `taskport` and the port of each task |
| `proc[w]` | where each subtask is |
| `hotsema` | who holds the semaphore across a step |
| `nodes[w]` | whether the list nodes of a window point to current, outdated or no entries |
| `locked` | the static flag of `hotmanager.c`, which outlives the window |
| `list` | `hotchanged`, and whether the list differs from its file |

An input of the user on a window is a chain of steps that begins with taking `hotsema` and may send sync updates before
it gives it back, as the code does. Closing a window is `Adisposeobject`: main waits for the process and serves the updates of that task
meanwhile, its `Close` included. How the list looks, which entry is chosen and the format of the file are left out, and so is `Gethotlistcontents`,
which changes nothing (but walks without the semaphore, `hotlist.c:1085`).

### `Auth`: passwords (`author.c`, `authorlib.c`, `http.c`)

| Variable | In the code |
|---|---|
| `auths`, `entry` | the list of `struct Authnode`: addresses in order, and what is at each address |
| `authsema` | who holds the semaphore across a step |
| `saved` | `changed`, and what is in the file |
| `transfer[t]` | an HTTP task: place, `hi->auth`, `HTTPIF_AUTH`, and what `Findauth` gave it |
| `todo` | main's steps |
| `aew` | `authedit` (made known only after the task was started), the object, its task |
| `port`, `inbox` | updates of the window's task; `AOAEW_Modified` messages for it |
| `window` | the window's task, with the copies and pointers it shows |
| `missed` | history: a change that happened when the window existed and `authedit` did not say so |

Addresses are used again after they have been freed: a pointer that is kept too long may meet another entry. All
realms are on one server; the passwords of a proxy go the same way and are left out. A transfer that reads
`authedit` or `authedit->task` while main disposes of it or makes it anew (`author.c:47`, 173, 348) reads freed memory; in the model it only finds that there is no window to tell.

### `Cache`: the disk cache (`cache.c`, `url.c`)

| Variable | In the code |
|---|---|
| `cache`, `obj[o]` | the list `cache`, and `struct Cache` at each address; `role` is the pointer of `struct Url` that has the object (`cache`, `ocache`, `vcache`, none) |
| `nrs`, `size` | `cachenr`, `nradded`; `cadisksize`, `sizeadded` |
| `loads[u]` | which of `fetch`, `rfetch`, `vfetch` the URL has |
| `disk` | the files `AWCR` and `AWCU` and the cache files |
| `todo` | main's steps; `Flushexcess` is a step that repeats itself |
| `mode`, `stops`, `late` | `exitting`, AWeb not running; how often it has stopped; whether `Expires` dates have come |
| `obj[o].done`, `.skipped`, `kept` | history: completed or read in; left out by a checkpoint; what the last `Exitcache` registered |

`AWCU` is the log of a running session and `AWCR` the registration of one that ended well; a checkpoint (`Savecachereg` and
`Rename`, after `NRCHKPT` files, after a repair and at the start) writes `AWCR`, deletes `AWCU` and renames. Each of these steps is an action, and
`Crash` may come between any two: what is in memory is forgotten and `Initcache` reads whichever file it finds. What a URL does with its three cache
objects in a load, a reload, a verification, an error and at the end is translated from `url.c`; the messages come in any order that module `Url` allows.
Here the two modules meet: `Url` takes any answer from the cache, `Cache` any messages from the transfers.

Left out: redirections in the registration, volatile URLs, files that cannot be written, the cache browser's window, external scripts.
A file's name is its number: all URLs have the same extension. A crash leaves a
cache file that is not whole, or an `AWCR` without entries, if it was being written; the appending of one entry to `AWCU` is one step. The repair
deletes its files in one step; when it is cancelled some of them are left and the registration is not touched. While a save-as source or an external program gets the
document its cache object hears nothing, not even of the end (`url.c:988`), and stays without a file.

`CompleteIsKept` counts a copy as complete with its entry in the log (`done`), not with the end of its file. A crash between the two (`Eof`, `Addregentry`) leaves
a whole file without an entry, which the next session does not know and only a repair deletes; the property does not judge that. Nor does it say
that the reader gets as far as the entry: one that deletes or has expired before it ends the reading (section 5).

### `MCTask`, `MCUrl`, `MCHttp`, `MCHotlist`, `MCAuth`

Symmetry sets, and the schemes and settings of the URL runs.

## 4. Runs that pass

| Run | Instance | Shows |
|---|---|---|
| `task_dispose` | 2 tasks, 2 updates each; disposal from the event loop; handlers stop and dispose of their own and of the other task | no message or activation outlives its object (`FreedTaskHasNoMessages`, `NoFrameOnFreedTask`); a waiting subtask will be answered (`SyncUpdateIsPending`); a wait for the end of a process loses its grant only to a wait for another task that is nested in it (`GrantIsKept`); no disposal is forgotten (`NoneLeftDisposing`); CTRL-C reaches only a living process (`BreaksOnlyTheLiving`); the whole implements `TaskLife` (`LifeSpec`) |
| `task_sync` | 2 tasks, 1 update and 1 message each; sync calls, async ones from handlers, disposal and quitting | the awaited message comes back (`AwaitedMessageExists`); main does not sleep over a message (`MainIsSignalled`) |
| `task_live` | 1 task, sync, `Asetattrsasync` and suspend messages, disposal, quitting, fair | sync calls return, disposals and quitting end |
| `url_cancel` | 1 page with server push, hidden and shown, 2 fetches, 1 slot of each kind, fair | slots are counted right; no dangling pointer, `serverpush` included; one loader; no driver without its fetch; what is stopped is freed |
| `url_queue` | 2 files, also as downloads, 3 fetches, 1 disk slot | the queue moves on; walks and handlers meet no freed fetch; WAIT is answered exactly when the transfers are gone |
| `url_live` | 1 page with a POST, 1 image, 2 fetches, 1 or 2 slots and slow or fast verification that change, fair | queued fetches are served and loads end |
| `http` | 2 transfers at a time, a secure host and one behind a proxy, 3 connections, a pool of 2 | one owner per connection; nobody holds what is closed; only reused connections leak (a defect, see below); the pool and the redirections are bounded; a transfer only moves forward |
| `hotlist` | both windows with all inputs, 3 calls of 12 kinds, 2 inputs, fair | a quiet window shows the list as it is; changes are saved; the manager has let go of the list when it is freed; what a window begins is answered; main comes back, unless in the deadlock below or when a nested call took its reply |
| `auth` | 2 transfers, 1 realm, 2 passwords, 2 addresses, 2 calls, 2 inputs | one entry for a realm; the file has what `changed` denies; a quiet window shows the list unless it `missed` a change; writes go to entries only |
| `cache` | 2 URLs (one with an `Expires` date), 2 objects, 2 numbers, 1 block, 2 stops, a checkpoint after every second entry | a complete copy is in the registration at every moment from its entry in the log on (`CompleteIsKept`); quitting loses none, whatever still comes in (`QuitKeeps`); a flush makes room, also after a restart (`FlushMakesRoom`) |

Every property has a mutant: a definition of the model replaced by a plausible mistake
(a slot that is not given back, a node that stays in the pool, a semaphore given back between the search and the
insertion) under which TLC finds the property violated. The `TypeOK` of `Task`, `Url` (with
`Fetch`), `Http` and `Auth` is proved; those of `Hotlist` and `Cache`, which no run lists, document the state (`TypeInv` of
`HotlistProofs`, which is proved, is stronger but for the flags of a window that does not exist).

### Bounds and why they are enough

- Two tasks: a wait for one task nested in a handler of another needs two; a third would
  be another instance of the second, as a wait looks at its own task's messages only, and the shared
  `semaport` is a queue of grants that two waits already confuse: in `task_dispose` main disposes of one task from the
  event loop and of the other in a handler, so that two `Stoptask` calls nest and the inner one takes the grant of the outer one.
- `MaxUpdates` and `MaxMessages` bound what is sent in one life of a task: one update in flight,
  one being handled and one message cover every pair of kinds of activation on the stack.
- Two fetches of one URL: one that is on its way out and its replacement, or a load and its
  verification. Three when `Cancelwindowfetches` walks: the one that is cancelled, its saved
  successor and one that is started from the queue meanwhile.
- One slot of each kind makes the second transfer queue; with more slots there is less queueing.
  `url_live` also changes between one and two.
- A driver sends one update before its last message (`MaxUpdates`), of any kind. Two updates of one driver interact only through
  the flags they leave in the fetch; the order of an update, the retry with GET and its updates is in the runs.
- `http`: tasks are used again and again, so two at a time are any number in sequence. Three connections: one per task and one in the pool,
  or two in the pool and one in use; `MaxIdle` 2 is the least that the code's count of excess nodes treats in a regular way.
  `MaxRedirects` 1 lets both transfers pass the test together.
- `hotlist`: three calls let one run inside another while the third was first (open, restore, close); two inputs are one per window, or the
  two that a static flag connects.
- `auth`: two transfers for one realm give every pair of remember, forget and look up; two addresses are needed for one to
  be freed and used again while the other lives.
- `cache`: two objects are two copies of different URLs, or the two that one URL has during a reload, a verification or
  after it was read in twice. Two numbers and two stops: a file that a crash left behind meets a new object with its number. After the second stop the cache is
  read in, deleted from, flushed and repaired, but nothing more is loaded. One entry beyond `NRCHKPT`
  makes a checkpoint, and `Disksize` 1 makes the second block one too many.
- Deadlock is not checked by TLC's own test: a browser where the user does nothing stops, and with bounded
  objects every behaviour does. `NoDeadlock` of `Hotlist` and the liveness properties say what may not stop.

### Fairness

`Task`: Exec runs every ready process, so main and the steps that a subtask takes without a
choice have weak fairness. Replying a message, looking for one, and returning after a break are the contract
that `task.h` states for subtasks, and that they may do other things in between makes it strong fairness.

`Url`: weak fairness for main. Strong fairness for taking a driver's message: main is busy now and then, but
its loop empties `taskport` before it sleeps (`MainIsSignalled` of `Task`). Weak fairness for the return of a driver that was told to stop
(`StoppedEnds`): drivers test `Checktaskbreak` in their loops and CTRL-C breaks their network calls. The runs under `FairSpec` assume no more.
`LiveSpec` adds that transfers end by themselves (servers answer or the stack's timeouts
fire) and that the user answers every requester with cancel or OK; with "retry" forever a load need not end.

`Hotlist`: weak fairness for main and for each window's task. The user owes nothing.

`Http`, `Auth` and `Cache` have no temporal property: `TransferProgresses` says that no step leads a transfer back, which bounds its length
whatever the servers do, and waiting for the user is not bounded.

## 5. Runs that find a violation

| Run | What the run shows |
|---|---|
| `http_reuse` | A transfer that gets a connection from the pool sends no request: everything from the name lookup to the clean-up is in the else branch of `if(hi->connection_reused)` (`http.c:5619`, `5663`). The page is empty and the connection leaks. |
| `hotlist_deadlock` | A window sends a sync update with `hotsema` held while main waits for `hotsema` (`hotmanager.c:1425`, `hotviewer.c:235`, `hotlist.c:1059`). |

The passing runs stay clear of these two by their properties: `OnlyReusedLeak` excepts the reused connections, and `MainReturns`
the deadlock (`NoDeadlock` names the state). `StoppedIsFreed` excepts the endless recursion of a hidden server push, below, which ends the program.

### Other disagreements that the models show

Each can be reproduced by a configuration of a few lines, given here; the passing runs avoid them by their constants.

- *A close update during a sync call* (`task.c:437`, `380`). Main waits for a sync message; the subtask's close update, processed meanwhile, has the
  task disposed of and the awaited message is freed. `MCTask`, `Spec`, `Task = {t1}`, `IdleCalls = {"new", "start", "sync"}`,
  `OwnCalls = {"dispose"}`, `OtherCalls = {}`, one update, one message: `AwaitedMessageExists` fails.
- *Suspended for good* (`task.c:644-647`). `AOTSK_Suspend` set to FALSE does not resume: the second test in `Settask` repeats
  the first. `IdleCalls = {"new", "start", "suspend"}`, no updates, two messages: `ResumeReleases` fails.
- *A gemini transfer that is cancelled never ends* (`gemini.c:1437`), and a `data:` driver neither after an error (`ciddataurls.c:306`).
  `url_cancel` with one fetch, no pushed page, `cancelurl` and plain loads and the scheme `Gemini`: `StoppedIsFreed` fails.
- *A POST that is refused and cancelled is tried again with a GET* (`fetch.c:1053`). `Posted = {page}`: `CancelledIsStopping` fails.
- *A hidden page with server push* cancels it from within the update of that cancellation, endlessly (`source.c:893`).
  Loads and `show`, `Pushed = {page}`: `CancelIsNotReentered` fails.
- *The pool keeps dead sockets.* The keep-alive flag of the first answer survives a retry or a second round with a password, so
  a connection whose server has not answered is pooled (`http.c:5977`; the comment at 373 denies it). `PooledIsReady` in `http`.
- `CloseIdleKeepAliveConnections` closes all idle connections (`event.c:441`), though its comment says only expired ones (`http.c:534`);
  `redirect_count` is never reset by a success, so redirections of unrelated pages add up.
- *Hotlist*: the viewer gets `Addentry` between its `Dispose` and main's reload, and its nodes are outdated or double (`hotlist.h:75`); adding with a group
  sends `Newlist` without `Dispose`, and entries show twice; of two Reverts the inner wait takes the reply of the outer one and main hangs (`Lost`); when the user closes
  the manager during a restore the reply is freed and main hangs; the static `locked` (`hotmanager.c:87`) survives a window that was
  closed between `Dispose` and `Newlist`, and the next manager ignores all input. For these `QuietWindowIsCurrent` lets the viewer have outdated nodes
  besides the current ones, and `MainReturns` has its exceptions.
- *Passwords*: `authedit` is assigned only after the window's task was started (`author.c:349`), so a change in between is not told (`missed`; the comment
  at 45 promises it); an HTTP task reads `authedit` while main disposes of it; a second refusal that comes late removes a newer password that another
  transfer was just given (`author.c:471`); the order of the list is reversed by saving and loading, and an entry that is remembered again does not move to the head
  (comment at 65); the passwords are freed at quit before the transfers are stopped, so the last ones are not saved; a Delete in the window may hit
  another entry that has got the same address.
- *Disk cache*: `Flushexcess`, `Flushtype` and `Fixcachereg` save a pointer to the next object, and delete the cache of the *URL* of the current one; after a
  second reload the two differ and the next pointer is to freed memory (`cache.c:406`; `mode # "wild"` as an invariant of the run `cache`). The reader does not skip
  the ETag of an entry that deletes or has expired, so that all later entries are lost at the start (`cache.c:158`). `Savecachereg` registers objects that are
  still being written, even without a file yet, like complete ones; after a crash such an entry may name another URL's file. An object that is set aside by a reload during a checkpoint
  and taken back after an error is not in the log any more (`skipped`). A copy that was registered by a checkpoint while it was loaded is registered again when it
  ends; after a crash two objects share its file, and the one that is given up (`Dupcheck`, or the repair) deletes it. When a page is loaded from the window history with an expired
  copy, the pointer to the copy's object is overwritten (`url.c:645`). `DeleteFile` of a copy that is being read fails, and the file is left without an object.
  At the end of a file the object is given to the cache browser's window before `Flushexcess` may free it (`cache.c:824-825`).
- `saveas.c:170` keeps the pointer of the fetch that first wrote to it, whatever became of that fetch; the disposal of an editor's task handles its close update,
  which disposes of the whole editor under `Disposeeditorreal` (`editor.c:137`).
- The library of a window is closed in the handler of its close update, before its process has ended (`hotlist.c`, `author.c`).
- With `MAXNETWORK` or `MAXLOCAL` set to 0 by ARexx
  a queue never moves (the settings window excludes 0).
- *A nested `Stoptask` takes the grant of the outer one* (`task.c:497`). All of them wait at `semaport`, and a message that is not the own one is
  dropped. AWeb can nest two: ARexx `WINDOW HISTORY CLOSE` disposes of the history window's task from the event loop (`winrexx.c:1275`, `whiswin.c:230`). While
  its `Stoptask` waits, the window's last `AOWHW_Display` is handled (`whiswin.c:108`); when the page it shows is in memory the frame changes at once (`frame.c:1030`,
  846), and the sound of the old page is disposed of (`document.c:883`, `soundcopy.c:215`), a second `Stoptask`. If the window's process ends
  meanwhile its grant is taken there, and main waits for ever, against the comment "Wait until subtask has terminated" (`task.c:489`). Two grants may also come with
  one signal: then the inner call waits without a signal over its own grant. `task_dispose` has these
  nestings. `GrantIsKept` excepts exactly the grant that an inner `Stoptask` takes: without its last disjunct, or with `MainIsSignalled` as an invariant, TLC
  finds a violation in that run.

## 6. What is proved

`TaskProofs`, for every set of tasks, every choice of calls and all bounds, from
`ConstantsAssumption` alone:

- `TypeCorrect`: `Spec => []TypeOK`. `TypeOK` is not inductive: `Processreply` uses the task of its
  message, and the startup message has none. `TypeInv` adds where messages without task may be:
  every other message has a task (`GoodMsg`, `GoodProc`, `GoodFrame`), and
  as long as a task is `created` or its startup message is in `taskport`, there is only that one and
  main's innermost activation waits for it (`StartupAwaited`). The proof has one lemma for the subtasks
  (`SubtaskTyped`, `SubtaskStartup`), one for main (`MainTypeInv`) and one for the calls (`CallTypeInv`).
- `FreedTaskIsSafe`: `Spec => []FreedTaskHasEnded`. The invariant `Life` follows the chain that makes it
  true: `Frees` is reached only through `Granted`; a grant in `semaport` is put there only for a process that has
  ended (`semaport \in Seq(EndedTasks)`), and an activation that is `final` has taken one
  (`SafeFrame`); a task is disposed of once (`procured`, `MUSTDISPOSE` imply `DISPOSING`), and a disposed task starts no process. It holds
  however main's activations nest. (No run checks it apart: `LifeSpec` implies it.)
- `BreakIsSafe`: `Spec => BreaksOnlyTheLiving`, from the same invariant: a state that is RUN or SUSPEND means that
  the port exists, because both change under `task->sema`.
- `FreedTaskIsForgotten`: `Spec => []FreedTaskHasNoMessages`. The epilogue of `Subtask` answers what main has sent, and `Dodisposetask`
  drains `taskport` once more after it has the `runsema` of a process that sends nothing any more; `NothingStray` says that what is left then is another task's.
- `NoDisposalIsForgotten`: `Spec => []NoneLeftDisposing`. A task that is disposed of has an activation that will free it: the one that
  disposes of it, or the handler of its own update, which finds `MUSTDISPOSE` when it ends.
- `UpdateIsAnsweredOnce`: `Spec => []SyncUpdateIsPending`. A subtask that waits in `Updatetask` has its message in one place: in its subport,
  in `taskport` or in the activation that handles it, whatever main stops or disposes of meanwhile.

`TaskWaits` has the properties that are about what main's activations do to each other. Where a grant goes is followed for every choice of calls. The
other three are not true of every choice, since handlers that wait and dispose at the same time do break the code. Each of them names what the handlers must not do, as a condition on the constants alone:
`DisposesOutside` (no handler disposes of a task), `DisposesOwn` (none of another task than its own), `NoWaits` (nobody waits for a message, but for the startup message),
`WaitsOutside` (no handler waits for one).

| Theorem | Property | Under |
|---|---|---|
| `NoFrameIsLeft` | `NoFrameOnFreedTask` | `DisposesOutside \/ NoWaits` |
| `GrantIsNotLost` | `GrantIsKept` | no condition |
| `GrantsAreAwaited` | `GrantHasItsWaiter` | no condition |
| `MainIsAwake` | `MainIsSignalled` | `DisposesOutside \/ (NoWaits /\ DisposesOwn)` |
| `WaitIsForSomething` | `AwaitedMessageExists` | `(DisposesOutside /\ WaitsOutside) \/ NoWaits` |

The first disjuncts are the clients that wait for their tasks (the run `task_sync` is one), the second ones those whose tasks send updates only.
Without them: a wait that processes a close update goes back to a task that is freed; a wait in a handler takes the reply that
an outer wait of the same task waits for; a disposal in a handler of another task takes the grant of an outer one, or leaves main waiting
over a grant whose signal is gone (section 5). `MainIsAwake` therefore does not cover the constants of `task_dispose`; `NoFrameIsLeft` and the theorems about the grants do.

`GrantIsNotLost` and `GrantsAreAwaited` rest on two invariants. `OneStoptask`: a task has one `Dodisposetask` at most, and none before a disposal that was put off begins,
because `DISPOSING` is tested first and `MUSTDISPOSE` taken back. `Owed`: whatever `runsema` main is queued for or has in `semaport` is there once, and a `Stoptask` of that task
still waits for it. So a `Stoptask` that takes its own grant is the only one who wants it, one that queues finds no old grant of its task, and what a
step takes from anybody else is the message at the head of `semaport`, as the property says.

The other invariants: only the outermost activation waits for a message or disposes (`Bottom`, when handlers do neither); under the hypotheses of `MainIsAwake`
at most one task is queued for its `runsema`, and `semaport` is empty or holds its grant with its signal set (`Granting`); a message in `taskport` has its signal pending, in the mask or a main that
looks for it (`Signalled`, which holds without hypotheses); a message that is waited for was sent and is with its task, in its port or in `taskport` (`Expected`, `Carried`, and `StartupComes` for
the startup message).

`TaskRefines`:

- `TaskImplementsLife`: `Spec => LifeSpec`. Under the invariant of `TaskProofs` every step of a subtask, of main and of a call is a step of
  `TaskLife` or leaves its variables alone.

`UrlProofs`, for every finite set of fetches, all URLs, every scheme, setting and limit, whatever the user and the servers do, from
`FetchConstants` and `UrlConstants` alone:

- `TypeCorrect`: `Spec => []TypeOK`, of `Url` and `Fetch` together.
- `SlotsAreAccounted`: `nrnet` and `nrlocal` are the numbers of fetches that hold a slot, whichever way they are
  started, retried, cancelled and ended.
- `DriversHaveTheirFetch`: a driver that runs has a fetch that was not freed, and it is marked running.
- `CallsAreMadeOnLiveFetches`, `UrlPointersAreLive`: no pending call of main and no pointer of a URL, `serverpush` included, is to a freed fetch.
- `FetchesHaveTheirOwner`: a fetch belongs to one of the three pointers of its URL, to one only, or it is being cancelled or ended.
- `WaitsAwaitTransfers`, `WaitsAreForAll`: who gave ARexx `WAIT` waits for something that is under way, and is answered only when nothing is.

The invariant is `IInv == TypeOK /\ Data /\ Pointers /\ StackOK /\ EndsWell`. `Data` is about the lists, slots, flags and waits and `Pointers` about the URLs, and
neither is inductive: what a handler may find depends on the calls that are still to be made when it is called. `StackOK` says it call by call:
`CallOK` which state a call needs for as long as it is pending (`newfetch` an empty pointer, `finish` a driver that has ended), and `PairOK` which call may be pending before
which (nothing that disposes of a fetch before a call that uses it, no start of the queues before a call on a queued fetch). `EndsWell` says that no fetch is forgotten on the way:
one whose last update is pending, or that its URL has let go, has a call pending that ends it, after the URL let it go. These say what the
code relies on and states nowhere: for instance that the source may dispose of the fetch whose update it handles only because
that fetch is running or has its requester open, so that `Disposefetch` marks it and leaves the freeing to its end. Each action has a lemma (`...Next`), with a step for each part. `FetchProofs` holds the
lemmas about the operators: the members and the order of a sequence under `Append`, `Tail`, `Without` and `Addtoqueue`, where the order of the
calls is what `PairOK` is about.

`HttpProofs`, for every finite set of tasks, at least one host and a pool that may keep two or more:

- `TypeCorrect`: `Spec => []TypeOK`.
- `ConnectionsHaveOneOwner`: a socket, an SSL structure and an opening of the library belong to one transfer, one node of the pool or one process that frees it.
- `NothingHeldIsClosed`: whoever has them finds them open.
- `OnlyReusedConnectionsLeak`: what is open and belongs to nobody was taken from the pool once (the defect of `http_reuse`, and no other way).
- `PoolStaysBounded`: the pool stays below `MAX_IDLE_CONNECTIONS`; `RedirectsStayBounded`: the shared counter exceeds its limit at most by the
  number of tasks that test it together.
- `TransfersProgress`: no step leads a transfer back, so that retries and redirections end.

`IInv == TypeOK /\ PlaceInv /\ Conns /\ PoolBounded /\ CountInv`. `PlaceInv` says what a transfer has at each of its places. `Conns` has what keeps owners apart: socket, SSL
structure and opening stay together (`OneConnection`), nothing has two owners (`Exclusive`), and the two properties about what is open. `CountInv`
counts the transfers that have passed the test of `redirect_count` and may still increment it, as no lock joins the two. The pool is a sequence
that is filtered when main closes idle connections; that the filtered one keeps its nodes once each rests on an enumeration by the least element of a set of numbers.

`AuthProofs`, for every set of transfers, realms, passwords and addresses, and all bounds:

- `TypeCorrect`: `Spec => []TypeOK`.
- `OneEntry`: `Spec => []OneEntryForRealm`. What makes it true is that `authsema` is held from the search of the list to the
  insertion: what a transfer has found is still all there is (`FoundInv`).
- `FileIsRight`: `Spec => []UnchangedIsSaved`. `Saveauthor` clears `changed` after it has written, and holds the semaphore from the one
  to the other, so no password can come in between (`TodoInv`, `SavedInv`).
- `OnlyEntriesWritten`: `Spec => WritesOnlyEntries`. The window's pointers are looked up in the list before main follows them, in one critical section;
  freed addresses are not in the list (`ListInv`).
- `QuietWindowShows`: `Spec => []QuietWindowIsCurrent`. A transfer or main that has changed the list tells the window next: until it does it is at `notify`, or `modified` is on
  `todo`, and then the `AOAEW_Modified` is in the window's port, unless it is `missed`. `WindowInv` adds why the window's own messages do not get in between: the
  order of main's steps (`Ordered`: an update is served at once and then answered, a flush is followed by `modified`), that one update at most waits for its answer, and
  only while the window is in its own update (`RequestInv`), and that the window has a process only while the object has its task or main waits for the end (`OpenInv`).

The invariant is `IInv == TypeOK /\ Invs`, and `WindowInv` beside it; each action has a lemma, and under it a step for each part it can disturb.

`HotlistProofs`, for every choice of calls and every number of calls and inputs (`Named` only says which calls there are):

- `HolderIsAnswered`: `Spec => []BegunIsAnswered`. A window that holds `hotsema` over an update (`Follow`, `Manager`) gets its answer before main
  takes the semaphore or waits for anything: between the update and the answer stands at most one step, which shows a window or tells one (`Answers` in `AnswerInv`).
  The updates whose handlers do take `hotsema`, `Save` first, are sent with the semaphore released. The deadlock of `hotlist_deadlock` is the other order: main had begun to wait
  before it began to handle the update.
- `NoChangeIsLost`: `Spec => []ChangesAreSaved`. `SavedInv`: a list that differs from its file has `hotchanged`, or the `Changed` in `taskport` or being handled; `Stoptask`
  handles what it finds there, so none is freed with its task (`HotInv`, `PortInv`). `QuitInv`: while AWeb quits, the disposal of both windows comes before the last save
  and nothing opens one again.
- `QuietWindowShowsTheList`: `Spec => []QuietWindowIsCurrent`. `NodesInv`: a window with outdated nodes, or with a `Dispose` to come, is to get a message after it that
  makes it rebuild them (`Renewed`): it is in its inbox, or among main's steps, or the manager's `Changed` will bring it.

The invariant is `HInv`, proved in `HotlistInvariant`: the parts above with `TypeInv` and `Ordered`, which is what the others rest on. Main's steps are a stack that calls
of the user, the application and the windows push on, each inside whatever was waiting; `Fits` says which step can stand on which others (the end of a task is awaited once and what
depends on it follows at once, each window has one answer to come, whoever changes the list tells the windows afterwards). Each action has a lemma for each part it can disturb.

Only model-checked:

- all liveness, as the prover has neither fairness nor `ENABLED` here: the temporal properties of `Task`, `Url` and `Hotlist`;
- `QueueWillMove` of `Url`. It is not true of all constants: a limit of 0 and the gemini and `data:` drivers that end without a message (section 5) leave
  a queue behind, and the assumptions on the constants do not exclude them;
- `CancelledIsStopping` of `Url` likewise: a refused POST breaks it (section 5);
- `ManagerLetsGo` of `Hotlist`, which compares where the manager is with the innermost wait of main when the list is freed, and everything of `Cache` (plan, row 8);
- the three properties of `TaskWaits` that have hypotheses, beyond them: TLC checks them for the combinations of calls in the runs.

The provers cannot use the library's induction theorems, which take an operator as a parameter, so what a recursive definition
computes for every input is not proved either. None of the modules with proofs needs one. Where a proof needs an induction over numbers it takes the least
element of a set instead. Nothing that is proved depends on the bounds of the runs.

## 7. What is not modelled

Each component that has no module is listed in `PROJECT.json` with the reason. In short: parsers, layout, the JavaScript
interpreter and the image decoders are sequential and their correctness is about data; socket, SSL and file
calls are I/O; `Source/zlib`, PCRE, the plug-in decoders and `vendor` are third-party code. On the plan are XMLHttpRequest, the external editor, cookies and the name server cache. In the jar of cookies, which has no module yet, reading found
that an added cookie is counted with the wrong size (`cookie.c:324`), that a cookie may be read after `Addcookie` freed it (`cookie.c:674`), and that flushing
and the ARexx list walk without `cookiesema`.
