----------------------------- MODULE JavaClient -----------------------------
(***************************************************************************)
(* The Java client of a Festival server, festival/src/modules/java:        *)
(* threads that make requests of a Session, the Festival thread that sends *)
(* them to the server one by one and notifies the requests, and the main   *)
(* thread of Client.java that terminates the session in the end.           *)
(*                                                                         *)
(* A step is one synchronized method, one unsynchronized access of a       *)
(* shared field, or one call of suspend() or resume(): the threads         *)
(* interleave between them.  resume() does nothing to a thread that is not *)
(* suspended, and notifyAll() nothing to one that is not waiting.          *)
(***************************************************************************)
EXTENDS Naturals, Sequences, FiniteSets

CONSTANTS
    Callers,        \* threads that make requests
    MaxRequests,    \* bound: requests of each caller
    MaxResults,     \* bound: results of one request
    ServerMayDie

\* The n-th request a caller makes.
Requests == UNION {{c} \X (1..MaxRequests[c]) : c \in Callers}

ASSUME ClientAssumption ==
    /\ MaxRequests \in [Callers -> Nat \ {0}] /\ IsFiniteSet(Requests)
    /\ MaxResults \in Nat
    /\ ServerMayDie \in BOOLEAN

VARIABLES
    pc,             \* where each caller is in request() and in its waiting
    count,          \* the requests it has begun
    tmp,            \* lastID as the caller read it
    lastID,
    requests,       \* Session's table: id -> request, as a set of pairs
    jobs,           \* JobQueue: jobs are an id and a command
    req,            \* the fields of each Request
    fpc,            \* where the Festival thread is in run()
    job,            \* the job it handles: <<job>> or <<>>
    found,          \* the request notifyFinished has looked up: <<r>> or <<>>
    ok,
    server,         \* "up", or "gone": its end of the connection is closed
    twice,          \* an id was given twice: a history variable
    mpc             \* where the main thread is in terminate()

vars == <<pc, count, tmp, lastID, requests, jobs, req, fpc, job, found, ok, server, twice, mpc>>
callerVars == <<pc, count, tmp, lastID, twice>>
festivalVars == <<fpc, job, found>>

NewRequest == [running |-> FALSE, results |-> 0, error |-> FALSE, finished |-> FALSE]

Init ==
    /\ pc = [c \in Callers |-> "newID"] /\ count = [c \in Callers |-> 1]
    /\ tmp = [c \in Callers |-> 0] /\ lastID = 0
    /\ requests = {} /\ jobs = <<>>
    /\ req = [r \in Requests |-> NewRequest]
    /\ fpc = "isEmpty" /\ job = <<>> /\ found = <<>> /\ ok = TRUE
    /\ server = "up" /\ mpc = "running" /\ twice = FALSE

Current(c) == <<c, count[c]>>

\* Mutant: newID() is called once for the request and once for its job.
IdAgain(c) == tmp[c] + 2

Id(c) == tmp[c] + 1

Go(c, where) == pc' = [pc EXCEPT ![c] = where]

\* resume() of the Festival thread.
Resumed == fpc' = IF fpc = "suspended" THEN "isEmpty" ELSE fpc

-----------------------------------------------------------------------------
(***************************************************************************)
(* Session.request: ++lastID is a read and a write, nothing guards it.     *)
(***************************************************************************)
newID_read(c) ==
    /\ pc[c] = "newID" /\ Go(c, "newID2")
    /\ tmp' = [tmp EXCEPT ![c] = lastID]
    /\ UNCHANGED <<count, lastID, twice, requests, jobs, req, ok, server, mpc>>
    /\ UNCHANGED festivalVars

newID_write(c) ==
    /\ pc[c] = "newID2" /\ Go(c, "put")
    /\ lastID' = Id(c)
    /\ twice' = (twice \/ Id(c) <= lastID)
    /\ UNCHANGED <<count, tmp, requests, jobs, req, ok, server, mpc>>
    /\ UNCHANGED festivalVars

\* requests.put replaces what the table had under that id.
put(c) ==
    /\ pc[c] = "put" /\ Go(c, "add")
    /\ requests' = {e \in requests : e.id # Id(c)}
                     \cup {[id |-> Id(c), req |-> Current(c)]}
    /\ UNCHANGED <<count, tmp, lastID, twice, jobs, req, ok, server, mpc>>
    /\ UNCHANGED festivalVars

\* Mutant: the new job goes before the others.
add_first(c) ==
    /\ pc[c] = "add" /\ Go(c, "resume")
    /\ jobs' = <<[id |-> Id(c), cmd |-> Current(c)]>> \o jobs
    /\ UNCHANGED <<count, tmp, lastID, twice, requests, req, ok, server, mpc>>
    /\ UNCHANGED festivalVars

\* newJob: jobs.add, then resume().
add(c) ==
    /\ pc[c] = "add" /\ Go(c, "resume")
    /\ jobs' = Append(jobs, [id |-> Id(c), cmd |-> Current(c)])
    /\ UNCHANGED <<count, tmp, lastID, twice, requests, req, ok, server, mpc>>
    /\ UNCHANGED festivalVars

\* A caller goes on to its next request, or is done.
NextRequest(c) ==
    IF count[c] < MaxRequests[c]
    THEN Go(c, "newID") /\ count' = [count EXCEPT ![c] = @ + 1]
    ELSE Go(c, "done") /\ UNCHANGED count

\* After that the caller waits for the request (synchronousRequest, --sync)
\* or goes on.
resume(c) ==
    /\ pc[c] = "resume" /\ Resumed
    /\ \/ Go(c, "isFinished") /\ UNCHANGED count
       \/ NextRequest(c)
    /\ UNCHANGED <<tmp, lastID, twice, requests, jobs, req, job, found, ok, server, mpc>>

(***************************************************************************)
(* while (!r.isFinished()) r.waitForUpdate(): two synchronized methods.    *)
(***************************************************************************)
isFinished(c) ==
    /\ pc[c] = "isFinished"
    /\ IF req[Current(c)].finished
       THEN NextRequest(c)
       ELSE Go(c, "waitForUpdate") /\ UNCHANGED count
    /\ UNCHANGED <<tmp, lastID, twice, requests, jobs, req, ok, server, mpc>>
    /\ UNCHANGED festivalVars

waitForUpdate(c) ==
    /\ pc[c] = "waitForUpdate" /\ Go(c, "waiting")
    /\ UNCHANGED <<count, tmp, lastID, twice, requests, jobs, req, ok, server, mpc>>
    /\ UNCHANGED festivalVars

-----------------------------------------------------------------------------
(***************************************************************************)
(* Festival.run.                                                           *)
(***************************************************************************)
isEmpty ==
    /\ fpc = "isEmpty"
    /\ fpc' = IF jobs = <<>> THEN "ok" ELSE "get"
    /\ UNCHANGED callerVars /\ UNCHANGED <<requests, jobs, req, job, found, ok, server, mpc>>

testOk ==
    /\ fpc = "ok"
    /\ fpc' = IF ok THEN "suspend" ELSE "finally"
    /\ UNCHANGED callerVars /\ UNCHANGED <<requests, jobs, req, job, found, ok, server, mpc>>

suspend ==
    /\ fpc = "suspend" /\ fpc' = "suspended"
    /\ UNCHANGED callerVars /\ UNCHANGED <<requests, jobs, req, job, found, ok, server, mpc>>

\* jobs.get, and the command is written; nobody hears if the server is gone.
get ==
    /\ fpc = "get" /\ fpc' = "notifyRunning"
    /\ job' = <<Head(jobs)>> /\ jobs' = Tail(jobs)
    /\ UNCHANGED callerVars /\ UNCHANGED <<requests, req, found, ok, server, mpc>>

\* Session looks the id up; notifyAll wakes the caller that waits for that
\* request.  Without an entry the thread ends with a NullPointerException;
\* only this thread removes entries, so that shows in the first lookup of a job.
Known == {e \in requests : e.id = job[1].id}

Notify(r, fields) ==
    /\ req' = [req EXCEPT ![r] = fields]
    /\ pc' = [c \in Callers |-> IF pc[c] = "waiting" /\ Current(c) = r
                                THEN "isFinished" ELSE pc[c]]

NoSuchRequest ==
    /\ Known = {} /\ fpc' = "finally" /\ UNCHANGED <<pc, requests, req, job>>

notifyRunning ==
    /\ fpc = "notifyRunning"
    /\ \/ \E e \in Known : /\ Notify(e.req, [req[e.req] EXCEPT !.running = TRUE])
                           /\ fpc' = "getStatus" /\ UNCHANGED <<requests, job>>
       \/ NoSuchRequest
    /\ UNCHANGED <<count, tmp, lastID, twice, jobs, found, ok, server, mpc>>

\* The server's next answer: LP or WV with a result, ER, or OK.  The server
\* sends nothing else (server.cc), so the branch for other answers is dead.
getStatus ==
    /\ fpc = "getStatus" /\ server = "up"
    /\ \/ /\ \E e \in Known :
               /\ req[e.req].results < MaxResults
               /\ Notify(e.req, [req[e.req] EXCEPT !.results = @ + 1])
          /\ UNCHANGED <<fpc, requests, job>>
       \/ /\ \E e \in Known : Notify(e.req, [req[e.req] EXCEPT !.error = TRUE])
          /\ fpc' = "notifyFinished" /\ UNCHANGED <<requests, job>>
       \/ fpc' = "notifyFinished" /\ UNCHANGED <<pc, requests, req, job>>
    /\ UNCHANGED <<count, tmp, lastID, twice, jobs, found, ok, server, mpc>>

\* Mutant: the end of the connection is read again and again.
getStatus_again ==
    /\ fpc = "getStatus" /\ server = "gone" /\ UNCHANGED vars

\* readTo at the end of the connection asks for an array of size -1.
getStatus_eof ==
    /\ fpc = "getStatus" /\ server = "gone" /\ fpc' = "finally"
    /\ UNCHANGED callerVars /\ UNCHANGED <<requests, jobs, req, job, found, ok, server, mpc>>

\* Session.notifyFinished looks the request up, removes what the table has
\* under that id by then, and finishes the request it has found.  The last two
\* are one step: in between the others see what they see before the one or
\* after the other.
notifyFinished ==
    /\ fpc = "notifyFinished" /\ fpc' = "remove"
    /\ \E e \in Known : found' = <<e.req>>
    /\ UNCHANGED callerVars /\ UNCHANGED <<requests, jobs, req, job, ok, server, mpc>>

\* Mutant: a request in error stays unfinished.
remove_noError ==
    /\ fpc = "remove" /\ fpc' = "isEmpty"
    /\ requests' = requests \ Known
    /\ Notify(found[1], [req[found[1]] EXCEPT !.finished = ~req[found[1]].error])
    /\ job' = <<>> /\ found' = <<>>
    /\ UNCHANGED <<count, tmp, lastID, twice, jobs, ok, server, mpc>>

remove ==
    /\ fpc = "remove" /\ fpc' = "isEmpty"
    /\ requests' = requests \ Known
    /\ Notify(found[1], [req[found[1]] EXCEPT !.finished = TRUE])
    /\ job' = <<>> /\ found' = <<>>
    /\ UNCHANGED <<count, tmp, lastID, twice, jobs, ok, server, mpc>>

\* finally: the socket is closed and the jobs left are thrown away.
finally ==
    /\ fpc = "finally" /\ fpc' = "dead"
    /\ jobs' = <<>> /\ job' = <<>> /\ found' = <<>>
    /\ UNCHANGED callerVars /\ UNCHANGED <<requests, req, ok, server, mpc>>

Festival == \/ isEmpty \/ testOk \/ suspend \/ get \/ notifyRunning
            \/ getStatus \/ getStatus_eof \/ notifyFinished \/ remove \/ finally

ServerDies ==
    /\ ServerMayDie /\ server = "up" /\ server' = "gone"
    /\ UNCHANGED callerVars /\ UNCHANGED festivalVars
    /\ UNCHANGED <<requests, jobs, req, ok, mpc>>

-----------------------------------------------------------------------------
(***************************************************************************)
(* Session.terminate, called when the callers have made their requests:    *)
(* Festival.disconnect with ok=false, resume() and join() or stop().       *)
(***************************************************************************)
disconnect ==
    /\ mpc = "running" /\ \A c \in Callers : pc[c] = "done"
    /\ ok' = FALSE /\ mpc' = "resume"
    /\ UNCHANGED callerVars /\ UNCHANGED festivalVars
    /\ UNCHANGED <<requests, jobs, req, server>>

disconnect_resume ==
    /\ mpc = "resume" /\ Resumed
    /\ mpc' \in {"join", "stop"}                     \* carefully or not
    /\ UNCHANGED callerVars /\ UNCHANGED <<requests, jobs, req, job, found, ok, server>>

join ==
    /\ mpc = "join" /\ fpc = "dead" /\ mpc' = "joined"
    /\ UNCHANGED callerVars /\ UNCHANGED festivalVars
    /\ UNCHANGED <<requests, jobs, req, ok, server>>

\* Mutant: stop() without the resume() that is part of it.
stop_awake ==
    /\ mpc = "stop" /\ mpc' = "stopped"
    /\ fpc' = IF fpc \in {"dead", "suspend", "suspended"} THEN fpc ELSE "finally"
    /\ UNCHANGED callerVars /\ UNCHANGED <<requests, jobs, req, job, found, ok, server>>

\* stop() resumes the thread and makes it throw ThreadDeath where it is.
stop ==
    /\ mpc = "stop" /\ mpc' = "stopped"
    /\ fpc' = IF fpc = "dead" THEN "dead" ELSE "finally"
    /\ UNCHANGED callerVars /\ UNCHANGED <<requests, jobs, req, job, found, ok, server>>

Main == disconnect \/ disconnect_resume \/ join \/ stop

Caller(c) == \/ newID_read(c) \/ newID_write(c) \/ put(c) \/ add(c) \/ resume(c)
             \/ isFinished(c) \/ waitForUpdate(c)

Next == (\E c \in Callers : Caller(c)) \/ Festival \/ Main \/ ServerDies

Spec == Init /\ [][Next]_vars

\* Every thread runs, and the server answers as long as it is there; a
\* request has MaxResults results at most.
FairSpec == /\ Spec /\ WF_vars(Festival) /\ WF_vars(Main)
            /\ \A c \in Callers : WF_vars(Caller(c))

-----------------------------------------------------------------------------
(***************************************************************************)
(* Properties.                                                             *)
(***************************************************************************)
TypeOK ==
    /\ pc \in [Callers -> {"newID", "newID2", "put", "add", "resume",
                           "isFinished", "waitForUpdate", "waiting", "done"}]
    /\ count \in [Callers -> Nat] /\ \A c \in Callers : Current(c) \in Requests
    /\ lastID \in 0..Cardinality(Requests)
    /\ tmp \in [Callers -> 0..Cardinality(Requests)]
    /\ requests \subseteq [id : 1..Cardinality(Requests), req : Requests]
    /\ \A e, d \in requests : e.id = d.id => e = d
    /\ jobs \in Seq([id : 1..Cardinality(Requests), cmd : Requests])
    /\ req \in [Requests -> [running : BOOLEAN, results : 0..MaxResults,
                             error : BOOLEAN, finished : BOOLEAN]]
    /\ fpc \in {"isEmpty", "ok", "suspend", "suspended", "get", "notifyRunning",
                "getStatus", "notifyFinished", "remove", "finally", "dead"}
    /\ Len(job) <= 1 /\ Len(found) <= 1
    /\ ok \in BOOLEAN /\ twice \in BOOLEAN /\ server \in {"up", "gone"}
    /\ mpc \in {"running", "resume", "join", "stop", "joined", "stopped"}

\* A session is a queue of requests served in order, each result given to the
\* request whose command the server executed, each finished once: until an id
\* is given to two requests.
Served == INSTANCE RequestQueue WITH
    pending  <- [i \in 1..(Len(job) + Len(jobs)) |-> (job \o jobs)[i].cmd],
    results  <- [r \in Requests |-> req[r].results],
    finished <- {r \in Requests : req[r].finished}
ServedInOrder ==
    Served!Init /\ [][twice' \/ Served!Next]_(Served!vars)

\* A thread that is not asleep works its queue off.
QueueDrains == jobs # <<>> ~> jobs = <<>> \/ fpc \in {"suspended", "dead"}

\* terminate(false) ends the thread wherever it is, asleep or in a wait for
\* the server, and whatever the ids of the requests.
StopEndsThread == mpc = "stopped" ~> fpc = "dead"

\* A caller waits for a request that is queued, being served, finished (the
\* notifyAll() came before the wait(), a race that is lost) or was dropped
\* with a thread that is dead; never for one that the session has lost, unless
\* its id was given twice.
WaitersHaveAReason ==
    \A c \in Callers : pc[c] = "waiting" /\ ~twice =>
        \/ req[Current(c)].finished
        \/ fpc = "dead"
        \/ \E i \in 1..Len(job \o jobs) : (job \o jobs)[i].cmd = Current(c)

\* Client --sync: "Wait for each expression to finish executing before
\* reading next", --wait: "Wait for all expressions to finish executing before
\* exiting".  So the client comes to its end, and when it has not been told to
\* stop, with every request finished.  It may never end, and it may end with a
\* job thrown away.
SessionEnds ==
    <>(mpc = "stopped" \/ (mpc = "joined" /\ \A r \in Requests : req[r].finished))
=============================================================================
