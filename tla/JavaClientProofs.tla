-------------------------- MODULE JavaClientProofs --------------------------
(***************************************************************************)
(* For any number of callers and requests: as long as no id is given       *)
(* twice, the session is the queue of RequestQueue, and a caller never     *)
(* waits for a request that the session has lost.                          *)
(***************************************************************************)
EXTENDS JavaClient, FiniteSetTheorems, SequenceTheorems, TLAPS

Ids     == 1 .. Cardinality(Requests)
Jobs    == [id : Ids, cmd : Requests]
Entries == [id : Ids, req : Requests]

\* The job in hand and those in the queue.
Pend == job \o jobs

Before  == {"newID", "newID2"}
Putting == {"put", "add"}
After   == {"resume", "isFinished", "waitForUpdate", "waiting"}
Places  == Before \cup Putting \cup After \cup {"done"}

\* TypeOK with names for what its sets are made of.
Sorts ==
    /\ pc \in [Callers -> Places]
    /\ count \in [Callers -> Nat] /\ \A c \in Callers : Current(c) \in Requests
    /\ lastID \in 0..Cardinality(Requests)
    /\ tmp \in [Callers -> 0..Cardinality(Requests)]
    /\ requests \subseteq Entries
    /\ \A e, d \in requests : e.id = d.id => e = d
    /\ jobs \in Seq(Jobs)
    /\ req \in [Requests -> [running : BOOLEAN, results : 0..MaxResults,
                             error : BOOLEAN, finished : BOOLEAN]]
    /\ fpc \in {"isEmpty", "ok", "suspend", "suspended", "get", "notifyRunning",
                "getStatus", "notifyFinished", "remove", "finally", "dead"}
    /\ ok \in BOOLEAN /\ twice \in BOOLEAN /\ server \in {"up", "gone"}
    /\ mpc \in {"running", "resume", "join", "stop", "joined", "stopped"}

\* The requests that have been given an id, and those that have been queued.
Issued ==
    {r \in Requests : \/ r[2] < count[r[1]]
                      \/ r[2] = count[r[1]] /\ pc[r[1]] \notin Before}
Submitted ==
    {r \in Requests : \/ r[2] < count[r[1]]
                      \/ r[2] = count[r[1]] /\ pc[r[1]] \notin Before \cup Putting}

\* An id is at most the number of requests that have one.
Numbered ==
    /\ lastID <= Cardinality(Issued)
    /\ \A c \in Callers : tmp[c] <= Cardinality(Issued)
    /\ \A c \in Callers : pc[c] \in Putting => Id(c) <= Cardinality(Issued)

\* Where the Festival thread is with a job in its hand.
InHand ==
    /\ job = <<>> \/ \E j \in Jobs : job = <<j>>
    /\ fpc \in {"notifyRunning", "getStatus", "notifyFinished", "remove"} => job # <<>>
    /\ fpc \notin {"notifyRunning", "getStatus", "notifyFinished", "remove", "finally"}
          => job = <<>>
    /\ fpc = "get" => jobs # <<>>

\* A queued job has an entry of its own in the table.
Registered ==
    /\ \A i \in 1..Len(Pend) :
          /\ Pend[i].id <= lastID /\ Pend[i].cmd \in Submitted
          /\ [id |-> Pend[i].id, req |-> Pend[i].cmd] \in requests
    /\ \A i, k \in 1..Len(Pend) : Pend[i].id = Pend[k].id => i = k

\* A request that is still to be queued has an id that nothing else has.
Claimed ==
    /\ \A c \in Callers : pc[c] \in Putting =>
          Id(c) <= lastID /\ \A i \in 1..Len(Pend) : Pend[i].id # Id(c)
    /\ \A c, d \in Callers :
          pc[c] \in Putting /\ pc[d] \in Putting /\ Id(c) = Id(d) => c = d
    /\ \A c \in Callers : pc[c] = "add" =>
          [id |-> Id(c), req |-> Current(c)] \in requests

\* Requests are finished after they are queued, and not lost in between.
Followed ==
    /\ \A r \in Requests : req[r].finished => r \in Submitted
    /\ \A c \in Callers : pc[c] \in After =>
          \/ req[Current(c)].finished
          \/ fpc = "dead"
          \/ \E i \in 1..Len(Pend) : Pend[i].cmd = Current(c)

Typed == Sorts /\ InHand /\ Numbered

IInv == Typed /\ (~twice => Registered /\ Claimed /\ Followed)

\* The request that was looked up is still that of the job in hand when its
\* entry is removed.
FoundIs ==
    /\ found = <<>> \/ \E r \in Requests : found = <<r>>
    /\ fpc = "remove" => found # <<>> /\ (~twice => found[1] = job[1].cmd)
-----------------------------------------------------------------------------
\* Requests are pairs of a caller and a number.
LEMMA RequestPairs ==
    /\ \A c \in Callers : \A n \in 1..MaxRequests[c] : <<c, n>> \in Requests
    /\ \A r \in Requests : /\ r[1] \in Callers /\ r[2] \in 1..MaxRequests[r[1]]
                           /\ r = <<r[1], r[2]>>
<1>1. ASSUME NEW c \in Callers, NEW n \in 1..MaxRequests[c] PROVE <<c, n>> \in Requests
  BY DEF Requests
<1>2. ASSUME NEW r \in Requests
      PROVE  r[1] \in Callers /\ r[2] \in 1..MaxRequests[r[1]] /\ r = <<r[1], r[2]>>
  <2>1. PICK c \in Callers : r \in {c} \X (1..MaxRequests[c])
    BY DEF Requests
  <2> QED
    BY <2>1
<1> QED
  BY <1>1, <1>2

\* What is assumed, and what follows for the numbers of requests.
LEMMA Numbers ==
    /\ IsFiniteSet(Requests) /\ Cardinality(Requests) \in Nat
    /\ \A S \in SUBSET Requests :
          /\ IsFiniteSet(S) /\ Cardinality(S) \in Nat
          /\ Cardinality(S) <= Cardinality(Requests)
    /\ MaxRequests \in [Callers -> Nat \ {0}] /\ MaxResults \in Nat
  BY ClientAssumption, FS_CardinalityType, FS_Subset

\* A request that was not counted is one more.
LEMMA OneMore ==
    ASSUME NEW S \in SUBSET Requests, NEW r \in Requests, r \notin S
    PROVE  Cardinality(S \cup {r}) = Cardinality(S) + 1
  BY Numbers, FS_AddElement

\* The types of what the actions compute with.
LEMMA Types ==
    ASSUME Sorts
    PROVE  /\ Cardinality(Requests) \in Nat /\ lastID \in Nat
           /\ \A c \in Callers : /\ Current(c) \in Requests /\ tmp[c] \in Nat
                                 /\ Id(c) = tmp[c] + 1 /\ count[c] \in 1..MaxRequests[c]
           /\ Issued \in SUBSET Requests /\ Cardinality(Issued) \in Nat
<1>1. Cardinality(Requests) \in Nat /\ lastID \in Nat
  BY Numbers DEF Sorts
<1>2. ASSUME NEW c \in Callers
      PROVE  /\ Current(c) \in Requests /\ tmp[c] \in Nat
             /\ Id(c) = tmp[c] + 1 /\ count[c] \in 1..MaxRequests[c]
  <2>1. Current(c) \in Requests /\ tmp[c] \in Nat /\ Id(c) = tmp[c] + 1
    BY <1>1 DEF Sorts, Id
  <2>2. <<c, count[c]>>[1] = c /\ <<c, count[c]>>[2] = count[c]
    OBVIOUS
  <2> QED
    BY <2>1, <2>2, RequestPairs DEF Current
<1>3. Issued \in SUBSET Requests
  BY DEF Issued
<1> QED
  BY <1>1, <1>2, <1>3, Numbers

\* Nothing about the ids and the queue changes with a step that leaves every
\* caller in its phase, the table, the queue and what is finished.
LEMMA Unmoved ==
    ASSUME UNCHANGED <<count, lastID, twice, requests>>, Pend' = Pend,
           \A c \in Callers :
              /\ pc'[c] \in Before <=> pc[c] \in Before
              /\ pc'[c] \in Putting <=> pc[c] \in Putting
              /\ pc'[c] \in After => pc[c] \in After
              /\ pc'[c] = "add" => pc[c] = "add"
              /\ pc[c] \in Putting => tmp'[c] = tmp[c],
           \A r \in Requests : req'[r].finished = req[r].finished,
           Sorts, fpc = "dead" => fpc' = "dead"
    PROVE  /\ Issued' = Issued
           /\ Registered /\ Claimed /\ Followed => Registered' /\ Claimed' /\ Followed'
<1>1. Issued' = Issued /\ Submitted' = Submitted
  BY RequestPairs DEF Issued, Submitted
<1>2. \A c \in Callers : Current(c)' = Current(c) /\ Current(c) \in Requests
  BY Types DEF Current
<1>3. \A c \in Callers : pc[c] \in Putting => Id(c)' = Id(c)
  BY DEF Id
<1>4. ASSUME Registered, Claimed, Followed PROVE Registered' /\ Claimed' /\ Followed'
  <2>1. Registered'
    BY <1>1, <1>4 DEF Registered
  <2>2. Claimed'
    <3>1. ASSUME NEW c \in Callers, pc'[c] \in Putting
          PROVE  Id(c)' <= lastID' /\ \A i \in 1..Len(Pend') : Pend'[i].id # Id(c)'
      BY <1>3, <1>4, <3>1 DEF Claimed
    <3>2. ASSUME NEW c \in Callers, NEW d \in Callers,
                 pc'[c] \in Putting, pc'[d] \in Putting, Id(c)' = Id(d)'
          PROVE  c = d
      BY <1>3, <1>4, <3>2 DEF Claimed
    <3>3. ASSUME NEW c \in Callers, pc'[c] = "add"
          PROVE  [id |-> Id(c)', req |-> Current(c)'] \in requests'
      <4>1. pc[c] = "add" /\ pc[c] \in Putting
        BY <3>3 DEF Putting
      <4> QED
        BY <1>2, <1>3, <1>4, <4>1 DEF Claimed
    <3> QED
      BY <3>1, <3>2, <3>3 DEF Claimed
  <2>3. Followed'
    <3>1. \A r \in Requests : req'[r].finished => r \in Submitted'
      BY <1>1, <1>4 DEF Followed
    <3>2. ASSUME NEW c \in Callers, pc'[c] \in After
          PROVE  \/ req'[Current(c)'].finished
                 \/ fpc' = "dead"
                 \/ \E i \in 1..Len(Pend') : Pend'[i].cmd = Current(c)'
      BY <1>2, <1>4, <3>2 DEF Followed
    <3> QED
      BY <3>1, <3>2 DEF Followed
  <2> QED
    BY <2>1, <2>2, <2>3
<1> QED
  BY <1>1, <1>4

\* Numbers stay in their range when no id is given.
LEMMA SameNumbers ==
    ASSUME Sorts, Numbered, Issued' = Issued, UNCHANGED <<lastID, tmp>>,
           \A c \in Callers : pc'[c] \in Putting => pc[c] \in Putting
    PROVE  Numbered'
  BY DEF Numbered, Id

\* TypeOK follows.
LEMMA SortsAreTypes == Sorts /\ InHand /\ FoundIs => TypeOK
<1>1. Places = {"newID", "newID2", "put", "add", "resume",
                "isFinished", "waitForUpdate", "waiting", "done"}
  BY DEF Places, Before, Putting, After
<1>2. Len(<<>>) <= 1 /\ \A x : Len(<<x>>) <= 1
  OBVIOUS
<1>3. (InHand => Len(job) <= 1) /\ (FoundIs => Len(found) <= 1)
  BY <1>2, Zenon DEF InHand, FoundIs
<1> QED
  BY <1>1, <1>2, <1>3 DEF Sorts, TypeOK, Entries, Jobs, Ids

\* The queue is a sequence of jobs.
LEMMA PendType ==
    ASSUME Sorts, InHand
    PROVE  /\ Pend \in Seq(Jobs) /\ Len(Pend) \in Nat /\ jobs \in Seq(Jobs) /\ job \in Seq(Jobs)
           /\ Len(Pend) = Len(job) + Len(jobs)
           /\ \A i \in 1..Len(Pend) : /\ Pend[i] \in Jobs /\ Pend[i].id \in Nat
                                      /\ Pend[i].id \in Ids /\ Pend[i].cmd \in Requests
<1>1. jobs \in Seq(Jobs) /\ job \in Seq(Jobs)
  <2>1. CASE job = <<>>
    BY <2>1, EmptySeq DEF Sorts
  <2>2. CASE \E j \in Jobs : job = <<j>>
    BY <2>2 DEF Sorts
  <2> QED
    BY <2>1, <2>2 DEF Sorts, InHand
<1>2. Pend \in Seq(Jobs) /\ Len(Pend) = Len(job) + Len(jobs) /\ Len(Pend) \in Nat
  BY <1>1, ConcatProperties, LenProperties DEF Pend
<1>3. \A j \in Jobs : j.id \in Nat /\ j.id \in Ids /\ j.cmd \in Requests
  BY Numbers DEF Jobs, Ids
<1> QED
  BY <1>1, <1>2, <1>3, ElementOfSeq

\* The four phases of a caller have no place in common.
LEMMA Phases ==
    /\ "newID" \in Before /\ "newID2" \in Before /\ "put" \in Putting /\ "add" \in Putting
    /\ "resume" \in After /\ "isFinished" \in After /\ "waitForUpdate" \in After
    /\ "waiting" \in After
    /\ \A p \in Before : p \notin Putting /\ p \notin After /\ p # "add"
    /\ \A p \in Putting : p \notin Before /\ p \notin After
    /\ \A p \in After : p \notin Before /\ p \notin Putting /\ p # "add"
    /\ "done" \notin Before \cup Putting \cup After
  BY DEF Before, Putting, After

\* Where the callers are after one of them has gone on.
LEMMA Gone ==
    ASSUME Sorts, NEW c \in Callers, NEW where \in Places, Go(c, where)
    PROVE  /\ pc'[c] = where /\ \A d \in Callers : d # c => pc'[d] = pc[d]
           /\ pc' \in [Callers -> Places]
  BY DEF Sorts, Go

\* The read of lastID moves the caller on and changes nothing else.
LEMMA NewIDReadIInv == ASSUME IInv, NEW c \in Callers, newID_read(c) PROVE IInv'
<1>1. /\ Sorts /\ Numbered /\ InHand /\ pc[c] = "newID" /\ Go(c, "newID2")
      /\ tmp' = [tmp EXCEPT ![c] = lastID]
      /\ UNCHANGED <<count, lastID, twice, requests, jobs, req, ok, server, mpc, fpc, job>>
  BY DEF IInv, Typed, newID_read, festivalVars
<1>2. /\ pc'[c] = "newID2" /\ \A d \in Callers : d # c => pc'[d] = pc[d]
      /\ pc' \in [Callers -> Places]
  BY <1>1, Gone DEF Places, Before
<1>3. \A d \in Callers : /\ pc'[d] \in Before <=> pc[d] \in Before
                         /\ pc'[d] \in Putting <=> pc[d] \in Putting
                         /\ pc'[d] \in After => pc[d] \in After
                         /\ pc'[d] = "add" => pc[d] = "add"
  BY <1>1, <1>2, Phases
<1>4. \A d \in Callers : d # c => tmp'[d] = tmp[d]
  BY <1>1 DEF Sorts
<1>5. tmp'[c] = lastID /\ tmp' \in [Callers -> 0..Cardinality(Requests)]
  BY <1>1 DEF Sorts
<1>6. Pend' = Pend
  BY <1>1 DEF Pend
<1>7. /\ Issued' = Issued
      /\ Registered /\ Claimed /\ Followed => Registered' /\ Claimed' /\ Followed'
  <2>1. \A d \in Callers : pc[d] \in Putting => tmp'[d] = tmp[d]
    BY <1>1, <1>4, Phases
  <2> QED
    BY <1>1, <1>3, <1>6, <2>1, Unmoved
<1>8. Sorts'
  <2>1. \A d \in Callers : Current(d)' = Current(d)
    BY <1>1 DEF Current
  <2> QED
    BY <1>1, <1>2, <1>5, <2>1 DEF Sorts
<1>9. InHand'
  BY <1>1 DEF InHand
<1>10. Numbered'
  <2>1. \A d \in Callers : tmp'[d] <= Cardinality(Issued)
    BY <1>1, <1>4, <1>5 DEF Numbered
  <2>2. \A d \in Callers : pc'[d] \in Putting => Id(d)' = Id(d) /\ pc[d] \in Putting
    BY <1>1, <1>3, <1>4, Phases DEF Id
  <2> QED
    BY <1>1, <1>7, <2>1, <2>2 DEF Numbered
<1> QED
  BY <1>1, <1>7, <1>8, <1>9, <1>10 DEF IInv, Typed

\* The write of lastID gives the request its id, which is a new one or makes
\* twice true.
LEMMA NewIDWriteIInv == ASSUME IInv, NEW c \in Callers, newID_write(c) PROVE IInv'
<1>1. /\ Sorts /\ Numbered /\ InHand /\ pc[c] = "newID2" /\ Go(c, "put")
      /\ lastID' = Id(c) /\ twice' = (twice \/ Id(c) <= lastID)
      /\ UNCHANGED <<count, tmp, requests, jobs, req, ok, server, mpc, fpc, job>>
  BY DEF IInv, Typed, newID_write, festivalVars
<1>2. /\ pc'[c] = "put" /\ \A d \in Callers : d # c => pc'[d] = pc[d]
      /\ pc' \in [Callers -> Places]
  BY <1>1, Gone DEF Places, Putting
<1>3. \A d \in Callers : Current(d)' = Current(d) /\ Id(d)' = Id(d)
  BY <1>1 DEF Current, Id
<1>4. /\ Current(c) \in Requests /\ Current(c) = <<c, count[c]>>
      /\ Id(c) = tmp[c] + 1 /\ tmp[c] \in Nat /\ lastID \in Nat
      /\ \A d \in Callers : Id(d) \in Nat /\ tmp[d] \in Nat
      /\ Cardinality(Requests) \in Nat
      /\ Issued \in SUBSET Requests /\ Cardinality(Issued) \in Nat
  <2>1. \A d \in Callers : tmp[d] \in Nat /\ Id(d) = tmp[d] + 1
    BY <1>1, Types
  <2>2. \A n \in Nat : n + 1 \in Nat
    OBVIOUS
  <2> QED
    BY <1>1, <2>1, <2>2, Types DEF Current
<1>5. Issued' = Issued \cup {Current(c)} /\ Current(c) \notin Issued
  <2>1. Current(c)[1] = c /\ Current(c)[2] = count[c]
    BY <1>4
  <2>2. count[c] \in Nat
    BY <1>1 DEF Sorts
  <2>3. Current(c) \notin Issued
    BY <1>1, <2>1, <2>2, Phases DEF Issued
  <2>4. ASSUME NEW r \in Requests PROVE r \in Issued' <=> r \in Issued \cup {Current(c)}
    <3>1. r[1] \in Callers /\ r = <<r[1], r[2]>>
      BY RequestPairs
    <3>2. CASE r[1] = c
      BY <1>1, <1>2, <1>4, <2>1, <2>2, <3>1, <3>2, Phases DEF Issued
    <3>3. CASE r[1] # c
      BY <1>1, <1>2, <2>1, <3>1, <3>3 DEF Issued
    <3> QED
      BY <3>2, <3>3
  <2>5. Issued' \subseteq Requests
    BY DEF Issued
  <2> QED
    BY <1>4, <2>3, <2>4, <2>5
<1>6. Cardinality(Issued') = Cardinality(Issued) + 1 /\ Issued' \in SUBSET Requests
  BY <1>4, <1>5, OneMore
<1>7. Cardinality(Issued') <= Cardinality(Requests)
  BY <1>6, Numbers
<1>8. Id(c) <= Cardinality(Issued')
  BY <1>1, <1>4, <1>6 DEF Numbered
<1>9. Sorts'
  <2>1. lastID' \in 0..Cardinality(Requests)
    <3>1. \A k, m, n \in Nat : k <= m /\ m <= n => k \in 0..n
      OBVIOUS
    <3> QED
      BY <1>1, <1>4, <1>6, <1>7, <1>8, <3>1
  <2>2. twice' \in BOOLEAN
    BY <1>1 DEF Sorts
  <2> QED
    BY <1>1, <1>2, <1>3, <2>1, <2>2 DEF Sorts
<1>10. InHand'
  BY <1>1 DEF InHand
<1>11. Numbered'
  <2>1. \A d \in Callers : tmp[d] <= Cardinality(Issued')
    BY <1>1, <1>4, <1>6 DEF Numbered
  <2>2. ASSUME NEW d \in Callers, pc'[d] \in Putting PROVE Id(d) <= Cardinality(Issued')
    <3>1. CASE d = c
      BY <1>8, <3>1
    <3>2. CASE d # c
      BY <1>1, <1>2, <1>4, <1>6, <2>2, <3>2 DEF Numbered
    <3> QED
      BY <3>1, <3>2
  <2> QED
    BY <1>1, <1>3, <1>8, <2>1, <2>2 DEF Numbered
<1>12. ASSUME ~twice' PROVE Registered' /\ Claimed' /\ Followed'
  <2>1. /\ Registered /\ Claimed /\ Followed /\ ~(Id(c) <= lastID) /\ Pend' = Pend
    BY <1>1, <1>12 DEF IInv, Sorts, Pend
  <2>2. lastID < lastID'
    BY <1>1, <1>4, <2>1
  <2>3. Submitted' = Submitted
    BY <1>1, <1>2, RequestPairs, Phases DEF Submitted
  <2>4. \A i \in 1..Len(Pend) : Pend[i].id \in Nat
    BY <1>1, PendType
  <2>5. \A i \in 1..Len(Pend) : Pend[i].id <= lastID' /\ Pend[i].id # Id(c)
    <3>1. \A k, m, n \in Nat : k <= m /\ m < n => k <= n /\ k # n
      OBVIOUS
    <3>2. lastID' = Id(c) /\ lastID' \in Nat
      BY <1>1, <1>4
    <3>3. \A i \in 1..Len(Pend) : Pend[i].id <= lastID
      BY <2>1 DEF Registered
    <3> QED
      BY <1>4, <2>2, <2>4, <3>1, <3>2, <3>3
  <2>6. Registered'
    <3>1. \A i \in 1..Len(Pend) : Pend[i].id <= lastID'
      BY <2>5
    <3> QED
      BY <1>1, <2>1, <2>3, <3>1 DEF Registered
  <2>7. Claimed'
    <3>1. ASSUME NEW d \in Callers, pc'[d] \in Putting
          PROVE  Id(d) <= lastID' /\ \A i \in 1..Len(Pend) : Pend[i].id # Id(d)
      <4>1. CASE d = c
        BY <1>1, <1>4, <2>5, <4>1
      <4>2. CASE d # c
        BY <1>1, <1>2, <1>4, <2>1, <2>2, <3>1, <4>2 DEF Claimed
      <4> QED
        BY <4>1, <4>2
    <3>2. ASSUME NEW d \in Callers, NEW e \in Callers,
                 pc'[d] \in Putting, pc'[e] \in Putting, Id(d) = Id(e)
          PROVE  d = e
      <4>1. CASE d # c /\ e # c
        BY <1>2, <2>1, <3>2, <4>1 DEF Claimed
      <4>2. CASE d = c /\ e # c
        BY <1>1, <1>2, <1>4, <2>1, <2>2, <3>2, <4>2 DEF Claimed
      <4>3. CASE d # c /\ e = c
        BY <1>1, <1>2, <1>4, <2>1, <2>2, <3>2, <4>3 DEF Claimed
      <4> QED
        BY <4>1, <4>2, <4>3
    <3>3. ASSUME NEW d \in Callers, pc'[d] = "add"
          PROVE  [id |-> Id(d), req |-> Current(d)] \in requests
      BY <1>2, <2>1, <3>3 DEF Claimed
    <3> QED
      BY <1>1, <1>3, <2>1, <3>1, <3>2, <3>3 DEF Claimed
  <2>8. Followed'
    <3>1. \A r \in Requests : req'[r].finished => r \in Submitted'
      BY <1>1, <2>1, <2>3 DEF Followed
    <3>2. ASSUME NEW d \in Callers, pc'[d] \in After
          PROVE  \/ req[Current(d)].finished
                 \/ fpc = "dead"
                 \/ \E i \in 1..Len(Pend) : Pend[i].cmd = Current(d)
      <4>1. d # c
        BY <1>2, <3>2, Phases
      <4> QED
        BY <1>2, <2>1, <3>2, <4>1 DEF Followed
    <3> QED
      BY <1>1, <1>3, <2>1, <3>1, <3>2 DEF Followed
  <2> QED
    BY <2>6, <2>7, <2>8
<1> QED
  BY <1>9, <1>10, <1>11, <1>12 DEF IInv, Typed

\* The ids that have been given are numbers up to the count of requests.
LEMMA IdRange ==
    ASSUME Sorts, Numbered, NEW c \in Callers, pc[c] \in Putting
    PROVE  Id(c) \in Ids
<1>1. Id(c) = tmp[c] + 1 /\ tmp[c] \in Nat /\ Id(c) <= Cardinality(Issued)
  BY Types DEF Numbered
<1>2. /\ Cardinality(Issued) \in Nat /\ Cardinality(Requests) \in Nat
      /\ Cardinality(Issued) <= Cardinality(Requests)
  BY Types, Numbers
<1>3. \A t, m, n \in Nat : t + 1 <= m /\ m <= n => t + 1 \in 1..n
  OBVIOUS
<1> QED
  BY <1>1, <1>2, <1>3 DEF Ids

\* put enters the request in the table under its id.
LEMMA PutIInv == ASSUME IInv, NEW c \in Callers, put(c) PROVE IInv'
<1> DEFINE entry == [id |-> Id(c), req |-> Current(c)]
<1>1. /\ Sorts /\ Numbered /\ InHand /\ pc[c] = "put" /\ Go(c, "add")
      /\ requests' = {e \in requests : e.id # Id(c)} \cup {entry}
      /\ UNCHANGED <<count, tmp, lastID, twice, jobs, req, ok, server, mpc, fpc, job>>
  BY DEF IInv, Typed, put, festivalVars
<1>2. /\ pc'[c] = "add" /\ \A d \in Callers : d # c => pc'[d] = pc[d]
      /\ pc' \in [Callers -> Places]
  BY <1>1, Gone DEF Places, Putting
<1>3. \A d \in Callers : Current(d)' = Current(d) /\ Id(d)' = Id(d)
  BY <1>1 DEF Current, Id
<1>4. pc[c] \in Putting /\ Id(c) \in Ids /\ Current(c) \in Requests
  BY <1>1, IdRange, Types, Phases
<1>5. entry \in Entries /\ entry.id = Id(c) /\ entry.req = Current(c)
  BY <1>4 DEF Entries
<1>6. \A d \in Callers : /\ pc'[d] \in Before <=> pc[d] \in Before
                         /\ pc'[d] \in Putting <=> pc[d] \in Putting
                         /\ pc'[d] \in After <=> pc[d] \in After
  BY <1>1, <1>2, Phases
<1>7. Issued' = Issued /\ Submitted' = Submitted
  BY <1>1, <1>6, RequestPairs DEF Issued, Submitted
<1>8. Sorts'
  <2>1. requests' \subseteq Entries
    BY <1>1, <1>5 DEF Sorts
  <2>2. \A e, d \in requests' : e.id = d.id => e = d
    BY <1>1, <1>5 DEF Sorts
  <2> HIDE DEF entry
  <2> QED
    BY <1>1, <1>2, <1>3, <2>1, <2>2 DEF Sorts
<1>9. InHand' /\ Numbered'
  BY <1>1, <1>3, <1>6, <1>7 DEF InHand, Numbered
<1>10. ASSUME ~twice' PROVE Registered' /\ Claimed' /\ Followed'
  <2>1. Registered /\ Claimed /\ Followed /\ Pend' = Pend
    BY <1>1, <1>10 DEF IInv, Pend
  <2>2. ASSUME NEW n, NEW r, n # Id(c), [id |-> n, req |-> r] \in requests
        PROVE  [id |-> n, req |-> r] \in requests'
    BY <1>1, <2>2
  <2>3. Registered'
    <3>1. \A i \in 1..Len(Pend) : Pend[i].id # Id(c)
      BY <1>4, <2>1 DEF Claimed
    <3>2. \A i \in 1..Len(Pend) : [id |-> Pend[i].id, req |-> Pend[i].cmd] \in requests'
      BY <2>1, <2>2, <3>1 DEF Registered
    <3> QED
      BY <1>1, <1>7, <2>1, <3>2 DEF Registered
  <2>4. Claimed'
    <3>1. ASSUME NEW d \in Callers, pc'[d] = "add"
          PROVE  [id |-> Id(d), req |-> Current(d)] \in requests'
      <4>1. CASE d = c
        BY <1>1, <4>1
      <4>2. CASE d # c
        <5>1. pc[d] = "add" /\ pc[d] \in Putting
          BY <1>2, <3>1, <4>2, Phases
        <5>2. Id(d) # Id(c)
          BY <1>4, <2>1, <4>2, <5>1 DEF Claimed
        <5> QED
          BY <2>1, <2>2, <5>1, <5>2 DEF Claimed
      <4> QED
        BY <4>1, <4>2
    <3> QED
      BY <1>1, <1>3, <1>6, <2>1, <3>1 DEF Claimed
  <2>5. Followed'
    BY <1>1, <1>3, <1>6, <1>7, <2>1 DEF Followed
  <2> QED
    BY <2>3, <2>4, <2>5
<1> QED
  BY <1>8, <1>9, <1>10 DEF IInv, Typed

\* The queue with one job more.
LEMMA PendAppend ==
    ASSUME Sorts, InHand, NEW j \in Jobs, jobs' = Append(jobs, j), job' = job
    PROVE  /\ Pend' = Append(Pend, j) /\ Len(Pend') = Len(Pend) + 1
           /\ Pend'[Len(Pend) + 1] = j
           /\ \A i \in 1..Len(Pend) : Pend'[i] = Pend[i]
<1>1. Pend \in Seq(Jobs) /\ jobs \in Seq(Jobs) /\ job \in Seq(Jobs)
  BY PendType
<1>2. <<j>> \in Seq(Jobs)
  OBVIOUS
<1>3. Pend' = job \o (jobs \o <<j>>)
  BY <1>1, AppendIsConcat DEF Pend
<1>4. Pend' = (job \o jobs) \o <<j>>
  BY <1>1, <1>2, <1>3, ConcatAssociative
<1>5. Pend' = Append(Pend, j)
  BY <1>1, <1>4, AppendIsConcat DEF Pend
<1> QED
  BY <1>1, <1>5, AppendProperties

\* add appends a job for the request, whose entry is in the table.
LEMMA AddIInv == ASSUME IInv, NEW c \in Callers, add(c) PROVE IInv'
<1> DEFINE new == [id |-> Id(c), cmd |-> Current(c)]
<1>1. /\ Sorts /\ Numbered /\ InHand /\ pc[c] = "add" /\ Go(c, "resume")
      /\ jobs' = Append(jobs, new)
      /\ UNCHANGED <<count, tmp, lastID, twice, requests, req, ok, server, mpc, fpc, job>>
  BY DEF IInv, Typed, add, festivalVars
<1>2. /\ pc'[c] = "resume" /\ \A d \in Callers : d # c => pc'[d] = pc[d]
      /\ pc' \in [Callers -> Places]
  BY <1>1, Gone DEF Places, After
<1>3. \A d \in Callers : Current(d)' = Current(d) /\ Id(d)' = Id(d)
  BY <1>1 DEF Current, Id
<1>4. pc[c] \in Putting /\ Id(c) \in Ids /\ Current(c) \in Requests
  BY <1>1, IdRange, Types, Phases
<1>5. new \in Jobs /\ new.id = Id(c) /\ new.cmd = Current(c)
  BY <1>4 DEF Jobs
<1>6. \A d \in Callers : /\ pc'[d] \in Before <=> pc[d] \in Before
                         /\ pc'[d] \in Putting => pc[d] \in Putting /\ d # c
                         /\ pc'[d] \in After => pc[d] \in After \/ d = c
  BY <1>1, <1>2, Phases
<1> HIDE DEF new
<1>7. Issued' = Issued
  BY <1>1, <1>6, RequestPairs DEF Issued
<1>8. Submitted \subseteq Submitted' /\ Current(c) \in Submitted'
  <2>1. Submitted \subseteq Submitted'
    BY <1>1, <1>2, <1>6, RequestPairs, Phases DEF Submitted
  <2>2. Current(c)[1] = c /\ Current(c)[2] = count[c]
    BY DEF Current
  <2> QED
    BY <1>1, <1>2, <1>4, <2>1, <2>2, Phases DEF Submitted
<1>9. /\ Len(Pend') = Len(Pend) + 1 /\ Pend'[Len(Pend) + 1] = new
      /\ \A i \in 1..Len(Pend) : Pend'[i] = Pend[i]
      /\ Len(Pend) \in Nat
  BY <1>1, <1>5, PendAppend, PendType
<1>10. Sorts'
  <2>1. jobs' \in Seq(Jobs)
    BY <1>1, <1>5, AppendProperties DEF Sorts
  <2> QED
    BY <1>1, <1>2, <1>3, <2>1 DEF Sorts
<1>11. InHand'
  <2>1. jobs' # <<>>
    BY <1>1, <1>5, AppendProperties DEF Sorts
  <2> QED
    BY <1>1, <2>1 DEF InHand
<1>12. Numbered'
  BY <1>1, <1>3, <1>6, <1>7 DEF Numbered
<1>13. ASSUME ~twice' PROVE Registered' /\ Claimed' /\ Followed'
  <2>1. Registered /\ Claimed /\ Followed
    BY <1>1, <1>13 DEF IInv
  <2>2. \A i \in 1..Len(Pend') : i \in 1..Len(Pend) \/ i = Len(Pend) + 1
    BY <1>9
  <2>3. Id(c) <= lastID /\ \A i \in 1..Len(Pend) : Pend[i].id # Id(c)
    BY <1>4, <2>1 DEF Claimed
  <2>4. Registered'
    <3>1. ASSUME NEW i \in 1..Len(Pend')
          PROVE  /\ Pend'[i].id <= lastID /\ Pend'[i].cmd \in Submitted'
                 /\ [id |-> Pend'[i].id, req |-> Pend'[i].cmd] \in requests
      <4>1. CASE i \in 1..Len(Pend)
        BY <1>8, <1>9, <2>1, <4>1 DEF Registered
      <4>2. CASE i = Len(Pend) + 1
        BY <1>1, <1>4, <1>5, <1>8, <1>9, <2>1, <2>3, <4>2 DEF Claimed
      <4> QED
        BY <2>2, <4>1, <4>2
    <3>2. ASSUME NEW i \in 1..Len(Pend'), NEW k \in 1..Len(Pend'), Pend'[i].id = Pend'[k].id
          PROVE  i = k
      <4>1. CASE i \in 1..Len(Pend) /\ k \in 1..Len(Pend)
        BY <1>9, <2>1, <3>2, <4>1 DEF Registered
      <4>2. CASE i = Len(Pend) + 1 /\ k \in 1..Len(Pend)
        BY <1>5, <1>9, <2>3, <3>2, <4>2
      <4>3. CASE i \in 1..Len(Pend) /\ k = Len(Pend) + 1
        BY <1>5, <1>9, <2>3, <3>2, <4>3
      <4> QED
        BY <2>2, <4>1, <4>2, <4>3
    <3> QED
      BY <1>1, <3>1, <3>2 DEF Registered
  <2>5. Claimed'
    <3>1. ASSUME NEW d \in Callers, pc'[d] \in Putting
          PROVE  Id(d) <= lastID /\ \A i \in 1..Len(Pend') : Pend'[i].id # Id(d)
      <4>1. d # c /\ pc[d] \in Putting
        BY <1>6, <3>1
      <4>2. Id(d) # Id(c)
        BY <1>4, <2>1, <4>1 DEF Claimed
      <4>3. Id(d) <= lastID /\ \A i \in 1..Len(Pend) : Pend[i].id # Id(d)
        BY <2>1, <4>1 DEF Claimed
      <4> QED
        BY <1>5, <1>9, <2>2, <4>2, <4>3
    <3>2. ASSUME NEW d \in Callers, pc'[d] = "add"
          PROVE  [id |-> Id(d), req |-> Current(d)] \in requests
      BY <1>2, <2>1, <3>2 DEF Claimed
    <3> QED
      BY <1>1, <1>3, <1>6, <2>1, <3>1, <3>2 DEF Claimed
  <2>6. Followed'
    <3>1. \A r \in Requests : req'[r].finished => r \in Submitted'
      BY <1>1, <1>8, <2>1 DEF Followed
    <3>2. ASSUME NEW d \in Callers, pc'[d] \in After
          PROVE  \/ req[Current(d)].finished
                 \/ fpc = "dead"
                 \/ \E i \in 1..Len(Pend') : Pend'[i].cmd = Current(d)
      <4>1. CASE d = c
        <5>1. Len(Pend) + 1 \in 1..Len(Pend')
          BY <1>9
        <5> QED
          BY <1>5, <1>9, <4>1, <5>1
      <4>2. CASE d # c
        <5>1. pc[d] \in After
          BY <1>6, <3>2, <4>2
        <5>2. \A i \in 1..Len(Pend) : i \in 1..Len(Pend')
          BY <1>9
        <5> QED
          BY <1>9, <2>1, <5>1, <5>2 DEF Followed
      <4> QED
        BY <4>1, <4>2
    <3> QED
      BY <1>1, <1>3, <3>1, <3>2 DEF Followed
  <2> QED
    BY <2>4, <2>5, <2>6
<1> QED
  BY <1>10, <1>11, <1>12, <1>13 DEF IInv, Typed

\* A caller that is through with a request begins another or stops.
LEMMA NextIInvOf ==
    ASSUME IInv, NEW c \in Callers, pc[c] \in After, NextRequest(c),
           fpc' = fpc \/ (fpc = "suspended" /\ fpc' = "isEmpty"),
           UNCHANGED <<tmp, lastID, twice, requests, jobs, req, job, ok, server, mpc>>
    PROVE  IInv'
<1>1. Sorts /\ Numbered /\ InHand /\ Pend' = Pend
  BY DEF IInv, Typed, Pend
<1>2. /\ pc'[c] \in {"newID", "done"} /\ \A d \in Callers : d # c => pc'[d] = pc[d]
      /\ pc' \in [Callers -> Places]
  BY <1>1, Gone DEF NextRequest, Places, Before
<1>3. \A d \in Callers : /\ pc'[d] \in Putting => pc[d] \in Putting
                         /\ pc'[d] \in After => pc[d] \in After /\ d # c
                         /\ pc'[d] = "add" => pc[d] = "add"
  BY <1>2, Phases
<1>4. /\ count' \in [Callers -> Nat] /\ \A d \in Callers : d # c => count'[d] = count[d]
      /\ pc'[c] = "newID" => count'[c] = count[c] + 1 /\ count[c] < MaxRequests[c]
      /\ pc'[c] = "done" => count'[c] = count[c]
      /\ count[c] \in Nat /\ MaxRequests[c] \in Nat
  <2>1. count \in [Callers -> Nat] /\ MaxRequests[c] \in Nat /\ count[c] \in Nat
    BY <1>1, Numbers DEF Sorts
  <2>2. CASE count[c] < MaxRequests[c]
    <3>1. pc'[c] = "newID" /\ count' = [count EXCEPT ![c] = @ + 1]
      BY <1>1, <2>2, Gone DEF NextRequest, Places, Before
    <3> QED
      BY <2>1, <2>2, <3>1
  <2>3. CASE ~(count[c] < MaxRequests[c])
    <3>1. pc'[c] = "done" /\ count' = count
      BY <1>1, <2>3, Gone DEF NextRequest, Places
    <3> QED
      BY <2>1, <3>1
  <2> QED
    BY <2>2, <2>3
<1>5. \A d \in Callers : d # c => Current(d)' = Current(d)
  BY <1>4 DEF Current
<1>6. \A d \in Callers : Id(d)' = Id(d)
  BY DEF Id
<1>7. ASSUME NEW r \in Requests, NEW S \in {Before, Before \cup Putting}
      PROVE  (r[2] < count'[r[1]] \/ (r[2] = count'[r[1]] /\ pc'[r[1]] \notin S))
               <=> (r[2] < count[r[1]] \/ (r[2] = count[r[1]] /\ pc[r[1]] \notin S))
  <2>1. r[1] \in Callers /\ r[2] \in Nat
    BY RequestPairs, Numbers
  <2>2. CASE r[1] # c
    BY <1>2, <1>4, <2>1, <2>2
  <2>3. CASE r[1] = c
    <3>1. "newID" \in S /\ "done" \notin S /\ pc[c] \notin S
      BY Phases
    <3>2. CASE pc'[c] = "newID"
      <4>1. \A m, n \in Nat : m < n + 1 <=> m < n \/ m = n
        OBVIOUS
      <4>2. r[2] < count[c] + 1 <=> r[2] < count[c] \/ r[2] = count[c]
        BY <1>4, <2>1, <4>1
      <4>3. pc'[c] \in S
        BY <3>1, <3>2
      <4>4. r[2] < count'[c] <=> r[2] < count[c] \/ r[2] = count[c]
        BY <1>4, <3>2, <4>2
      <4> HIDE DEF NextRequest
      <4> QED
        BY <2>3, <3>1, <4>3, <4>4
    <3>3. CASE pc'[c] = "done"
      BY <1>4, <2>3, <3>1, <3>3
    <3> QED
      BY <1>2, <3>2, <3>3
  <2> QED
    BY <2>2, <2>3
<1>8. Issued' = Issued
  <2>1. \A r \in Requests :
          (r[2] < count'[r[1]] \/ (r[2] = count'[r[1]] /\ pc'[r[1]] \notin Before))
            <=> (r[2] < count[r[1]] \/ (r[2] = count[r[1]] /\ pc[r[1]] \notin Before))
    BY <1>7
  <2> QED
    BY <2>1 DEF Issued
<1>9. Submitted' = Submitted
  <2> DEFINE S == Before \cup Putting
  <2>1. \A r \in Requests :
          (r[2] < count'[r[1]] \/ (r[2] = count'[r[1]] /\ pc'[r[1]] \notin S))
            <=> (r[2] < count[r[1]] \/ (r[2] = count[r[1]] /\ pc[r[1]] \notin S))
    BY <1>7
  <2> HIDE DEF S
  <2>2. Submitted' = {r \in Requests :
          r[2] < count'[r[1]] \/ (r[2] = count'[r[1]] /\ pc'[r[1]] \notin S)}
    BY DEF Submitted, S
  <2>3. Submitted = {r \in Requests :
          r[2] < count[r[1]] \/ (r[2] = count[r[1]] /\ pc[r[1]] \notin S)}
    BY DEF Submitted, S
  <2> QED
    BY <2>1, <2>2, <2>3
<1>10. Sorts'
  <2>1. Current(c)' \in Requests
    <3>1. CASE pc'[c] = "newID"
      <4>1. count'[c] \in 1..MaxRequests[c]
        <5>1. \A m, n \in Nat : m < n => m + 1 \in 1..n
          OBVIOUS
        <5> QED
          BY <1>4, <3>1, <5>1
      <4> QED
        BY <4>1, RequestPairs DEF Current
    <3>2. CASE pc'[c] = "done"
      BY <1>1, <1>4, <3>2 DEF Current, Sorts
    <3> QED
      BY <1>2, <3>1, <3>2
  <2>2. \A d \in Callers : Current(d)' \in Requests
    BY <1>1, <1>5, <2>1 DEF Sorts
  <2>3. fpc' \in {"isEmpty", "ok", "suspend", "suspended", "get", "notifyRunning",
                  "getStatus", "notifyFinished", "remove", "finally", "dead"}
    BY <1>1 DEF Sorts
  <2> QED
    BY <1>1, <1>2, <1>4, <2>2, <2>3 DEF Sorts
<1>11. InHand'
  BY <1>1 DEF InHand
<1>12. Numbered'
  BY <1>1, <1>3, <1>6, <1>8 DEF Numbered
<1>13. ASSUME ~twice' PROVE Registered' /\ Claimed' /\ Followed'
  <2>1. Registered /\ Claimed /\ Followed
    BY <1>13 DEF IInv
  <2>2. Registered'
    BY <1>1, <1>9, <2>1 DEF Registered
  <2>3. Claimed'
    <3>1. \A d \in Callers : pc'[d] = "add" => d # c
      BY <1>2
    <3> QED
      BY <1>1, <1>3, <1>5, <1>6, <2>1, <3>1 DEF Claimed
  <2>4. Followed'
    BY <1>1, <1>3, <1>5, <1>9, <2>1 DEF Followed
  <2> QED
    BY <2>2, <2>3, <2>4
<1> QED
  BY <1>10, <1>11, <1>12, <1>13 DEF IInv, Typed

\* A caller in its waiting goes on to another place of it.
LEMMA WaitIInv ==
    ASSUME IInv, NEW c \in Callers, pc[c] \in After, NEW where \in After, Go(c, where),
           fpc' = fpc \/ (fpc = "suspended" /\ fpc' = "isEmpty"),
           UNCHANGED <<count, tmp, lastID, twice, requests, jobs, req, job, ok, server, mpc>>
    PROVE  IInv'
<1>1. Sorts /\ Numbered /\ InHand /\ Pend' = Pend
  BY DEF IInv, Typed, Pend
<1>2. /\ pc'[c] = where /\ \A d \in Callers : d # c => pc'[d] = pc[d]
      /\ pc' \in [Callers -> Places]
  BY <1>1, Gone DEF Places
<1>3. \A d \in Callers : /\ pc'[d] \in Before <=> pc[d] \in Before
                         /\ pc'[d] \in Putting <=> pc[d] \in Putting
                         /\ pc'[d] \in After => pc[d] \in After
                         /\ pc'[d] = "add" => pc[d] = "add"
  BY <1>2, Phases
<1>4. /\ Issued' = Issued
      /\ Registered /\ Claimed /\ Followed => Registered' /\ Claimed' /\ Followed'
  BY <1>1, <1>3, Unmoved
<1>5. Sorts'
  <2>1. \A d \in Callers : Current(d)' = Current(d)
    BY DEF Current
  <2>2. fpc' \in {"isEmpty", "ok", "suspend", "suspended", "get", "notifyRunning",
                  "getStatus", "notifyFinished", "remove", "finally", "dead"}
    BY <1>1 DEF Sorts
  <2> QED
    BY <1>1, <1>2, <2>1, <2>2 DEF Sorts
<1>6. InHand'
  BY <1>1 DEF InHand
<1>7. Numbered'
  BY <1>1, <1>3, <1>4, SameNumbers
<1> QED
  BY <1>4, <1>5, <1>6, <1>7 DEF IInv, Typed

\* Every step of a caller.
LEMMA CallerIInv == ASSUME IInv, NEW c \in Callers, Caller(c) PROVE IInv'
<1>1. CASE resume(c)
  <2>1. pc[c] \in After /\ (fpc' = fpc \/ (fpc = "suspended" /\ fpc' = "isEmpty"))
        /\ UNCHANGED <<tmp, lastID, twice, requests, jobs, req, job, ok, server, mpc>>
    BY <1>1, Phases DEF resume, Resumed
  <2>2. CASE Go(c, "isFinished") /\ UNCHANGED count
    BY <2>1, <2>2, WaitIInv, Phases
  <2>3. CASE NextRequest(c)
    BY <2>1, <2>3, NextIInvOf
  <2> QED
    BY <1>1, <2>2, <2>3 DEF resume
<1>2. CASE isFinished(c)
  <2>1. pc[c] \in After
        /\ UNCHANGED <<tmp, lastID, twice, requests, jobs, req, fpc, job, ok, server, mpc>>
    BY <1>2, Phases DEF isFinished, festivalVars
  <2>2. CASE Go(c, "waitForUpdate") /\ UNCHANGED count
    BY <2>1, <2>2, WaitIInv, Phases
  <2>3. CASE NextRequest(c)
    BY <2>1, <2>3, NextIInvOf
  <2> QED
    BY <1>2, <2>2, <2>3 DEF isFinished
<1>3. CASE waitForUpdate(c)
  BY <1>3, WaitIInv, Phases DEF waitForUpdate, festivalVars
<1> QED
  BY <1>1, <1>2, <1>3, NewIDReadIInv, NewIDWriteIInv, PutIInv, AddIInv DEF Caller

FestivalPlaces == {"isEmpty", "ok", "suspend", "suspended", "get", "notifyRunning",
                   "getStatus", "notifyFinished", "remove", "finally", "dead"}
MainPlaces == {"running", "resume", "join", "stop", "joined", "stopped"}
Fields == [running : BOOLEAN, results : 0..MaxResults, error : BOOLEAN, finished : BOOLEAN]

\* Steps that leave the callers, the table, the requests and the queue alone.
LEMMA QuietIInv ==
    ASSUME IInv, UNCHANGED <<pc, count, tmp, lastID, twice, requests, req>>,
           Pend' = Pend, jobs' \in Seq(Jobs), fpc' \in FestivalPlaces,
           fpc = "dead" => fpc' = "dead", InHand', ok' \in BOOLEAN,
           server' \in {"up", "gone"}, mpc' \in MainPlaces
    PROVE  IInv'
<1>1. Sorts /\ Numbered
  BY DEF IInv, Typed
<1>2. /\ Issued' = Issued
      /\ Registered /\ Claimed /\ Followed => Registered' /\ Claimed' /\ Followed'
  BY <1>1, Unmoved
<1>3. Sorts'
  <2>1. \A d \in Callers : Current(d)' = Current(d)
    BY DEF Current
  <2> QED
    BY <1>1, <2>1 DEF Sorts, FestivalPlaces, MainPlaces
<1>4. Numbered'
  BY <1>1, <1>2, SameNumbers
<1> QED
  BY <1>2, <1>3, <1>4 DEF IInv, Typed

\* What a notification does to the callers: those that are woken stay in
\* their waiting.
LEMMA Woken ==
    ASSUME Sorts, NEW r \in Requests, NEW f \in Fields, Notify(r, f), UNCHANGED count
    PROVE  /\ pc' \in [Callers -> Places] /\ req' \in [Requests -> Fields] /\ req'[r] = f
           /\ \A q \in Requests : q # r => req'[q] = req[q]
           /\ \A d \in Callers : /\ Current(d)' = Current(d)
                                 /\ pc'[d] \in Before <=> pc[d] \in Before
                                 /\ pc'[d] \in Putting <=> pc[d] \in Putting
                                 /\ pc'[d] \in After => pc[d] \in After
                                 /\ pc'[d] = "add" => pc[d] = "add"
<1>1. \A d \in Callers : pc'[d] = pc[d] \/ (pc[d] = "waiting" /\ pc'[d] = "isFinished")
  BY DEF Notify
<1>2. \A d \in Callers : /\ pc'[d] \in Before <=> pc[d] \in Before
                         /\ pc'[d] \in Putting <=> pc[d] \in Putting
                         /\ pc'[d] \in After => pc[d] \in After
                         /\ pc'[d] = "add" => pc[d] = "add"
  BY <1>1, Phases
<1>3. pc' \in [Callers -> Places]
  <2>1. \A d \in Callers : pc[d] \in Places /\ "isFinished" \in Places
    BY DEF Sorts, Places, After
  <2> QED
    BY <2>1 DEF Notify
<1>4. \A d \in Callers : Current(d)' = Current(d)
  BY DEF Current
<1>5. req' = [req EXCEPT ![r] = f] /\ req \in [Requests -> Fields]
  BY DEF Notify, Sorts, Fields
<1> QED
  BY <1>2, <1>3, <1>4, <1>5

\* A request that is told of something else than its end.
LEMMA NotifyIInv ==
    ASSUME IInv, NEW r \in Requests, NEW f \in Fields, f.finished = req[r].finished,
           Notify(r, f), fpc # "dead", fpc' \in FestivalPlaces, InHand',
           UNCHANGED <<count, tmp, lastID, twice, requests, jobs, job, ok, server, mpc>>
    PROVE  IInv'
<1>1. Sorts /\ Numbered /\ Pend' = Pend
  BY DEF IInv, Typed, Pend
<1>2. \A q \in Requests : req'[q].finished = req[q].finished
  BY <1>1, Woken
<1>3. /\ Issued' = Issued
      /\ Registered /\ Claimed /\ Followed => Registered' /\ Claimed' /\ Followed'
  BY <1>1, <1>2, Woken, Unmoved
<1>4. Sorts'
  BY <1>1, Woken DEF Sorts, FestivalPlaces, Fields
<1>5. Numbered'
  BY <1>1, <1>3, Woken, SameNumbers
<1> QED
  BY <1>3, <1>4, <1>5 DEF IInv, Typed

\* The queue when the job in hand is put away.
LEMMA PendTail ==
    ASSUME Sorts, InHand, job # <<>>, job' = <<>>, jobs' = jobs
    PROVE  /\ Pend # <<>> /\ Len(Pend) \in Nat \ {0} /\ Pend[1] = job[1] /\ job[1] \in Jobs
           /\ Pend' = Tail(Pend) /\ Len(Pend') = Len(Pend) - 1
           /\ \A i \in 1..Len(Pend') : Pend'[i] = Pend[i + 1] /\ i + 1 \in 1..Len(Pend)
<1>1. PICK j \in Jobs : job = <<j>>
  BY DEF InHand
<1>2. jobs \in Seq(Jobs) /\ <<j>> \in Seq(Jobs) /\ Len(<<j>>) = 1 /\ <<j>>[1] = j
  BY DEF Sorts
<1>3. Pend = <<j>> \o jobs /\ Pend' = jobs
  BY <1>1, <1>2, ConcatEmptySeq DEF Pend
<1>4. /\ Pend \in Seq(Jobs) /\ Len(Pend) = 1 + Len(jobs) /\ Len(jobs) \in Nat
      /\ \A i \in 1..1 + Len(jobs) :
            Pend[i] = IF i <= 1 THEN <<j>>[i] ELSE jobs[i - 1]
  BY <1>2, <1>3, ConcatProperties, LenProperties
<1>5. Pend[1] = j
  BY <1>2, <1>4
<1>6. \A i \in 1..Len(jobs) : jobs[i] = Pend[i + 1] /\ i + 1 \in 1..Len(Pend)
  <2> SUFFICES ASSUME NEW i \in 1..Len(jobs)
               PROVE  jobs[i] = Pend[i + 1] /\ i + 1 \in 1..Len(Pend)
    OBVIOUS
  <2>1. i + 1 \in 1..1 + Len(jobs) /\ ~(i + 1 <= 1) /\ (i + 1) - 1 = i
    BY <1>4
  <2> QED
    BY <1>4, <2>1
<1>7. Pend # <<>> /\ Len(Pend) \in Nat \ {0}
  BY <1>4, EmptySeq
<1>8. Len(jobs) = Len(Pend) - 1
  BY <1>4
<1>9. Pend' = Tail(Pend)
  <2>1. /\ Tail(Pend) \in Seq(Jobs) /\ Len(Tail(Pend)) = Len(Pend) - 1
        /\ \A i \in 1..Len(Tail(Pend)) : Tail(Pend)[i] = Pend[i + 1]
    BY <1>4, <1>7, HeadTailProperties
  <2>2. \A i \in 1..Len(jobs) : jobs[i] = Tail(Pend)[i]
    BY <1>6, <1>8, <2>1
  <2> QED
    BY <1>2, <1>3, <1>8, <2>1, <2>2, SeqEqual
<1> QED
  BY <1>1, <1>2, <1>3, <1>5, <1>6, <1>7, <1>8, <1>9

\* While no id is given twice, the job in hand has one entry: its own.
LEMMA KnownIs ==
    ASSUME Sorts, InHand, Registered, job # <<>>, NEW e \in Known
    PROVE  e.req = job[1].cmd /\ e.id = job[1].id /\ Known = {e}
<1>1. PICK j \in Jobs : job = <<j>>
  BY DEF InHand
<1>2. Pend[1] = j /\ Len(Pend) \in Nat \ {0}
  <2>1. Pend = <<j>> \o jobs /\ jobs \in Seq(Jobs) /\ <<j>> \in Seq(Jobs) /\ Len(<<j>>) = 1
    BY <1>1 DEF Pend, Sorts
  <2>2. Len(Pend) = 1 + Len(jobs) /\ Len(jobs) \in Nat
    BY <2>1, ConcatProperties, LenProperties
  <2>3. Pend[1] = IF 1 <= Len(<<j>>) THEN <<j>>[1] ELSE jobs[1 - Len(<<j>>)]
    <3>1. 1 \in 1..Len(<<j>>) + Len(jobs)
      BY <2>1, <2>2
    <3> QED
      BY <2>1, <3>1, ConcatProperties
  <2> QED
    BY <2>1, <2>2, <2>3
<1>3. [id |-> j.id, req |-> j.cmd] \in requests
  <2>1. 1 \in 1..Len(Pend)
    BY <1>2
  <2> QED
    BY <1>2, <2>1 DEF Registered
<1>4. \A d \in requests : d.id = j.id => d = [id |-> j.id, req |-> j.cmd]
  BY <1>3 DEF Sorts
<1> QED
  BY <1>1, <1>4 DEF Known

\* The end of a job finishes its request and takes it from the table.
LEMMA RemoveIInv == ASSUME IInv, FoundIs, remove PROVE IInv'
<1>1. /\ Sorts /\ Numbered /\ InHand /\ fpc = "remove" /\ fpc' = "isEmpty"
      /\ job' = <<>> /\ UNCHANGED <<count, tmp, lastID, twice, jobs, ok, server, mpc>>
      /\ requests' = requests \ Known
      /\ Notify(found[1], [req[found[1]] EXCEPT !.finished = TRUE])
  BY DEF IInv, Typed, remove
<1>2. PICK r \in Requests : found = <<r>>
  BY <1>1 DEF FoundIs
<1>3. r = found[1] /\ (~twice => r = job[1].cmd)
  BY <1>1, <1>2 DEF FoundIs
<1>4. PICK f \in Fields : f = [req[r] EXCEPT !.finished = TRUE]
  BY <1>1 DEF Sorts, Fields
<1>5. f.finished = TRUE /\ Notify(r, f)
  BY <1>1, <1>3, <1>4 DEF Sorts
<1>6. job # <<>>
  BY <1>1 DEF InHand
<1>7. /\ pc' \in [Callers -> Places] /\ req' \in [Requests -> Fields] /\ req'[r] = f
      /\ \A q \in Requests : q # r => req'[q] = req[q]
      /\ \A d \in Callers : /\ Current(d)' = Current(d)
                            /\ pc'[d] \in Before <=> pc[d] \in Before
                            /\ pc'[d] \in Putting <=> pc[d] \in Putting
                            /\ pc'[d] \in After => pc[d] \in After
                            /\ pc'[d] = "add" => pc[d] = "add"
  BY <1>1, <1>5, Woken
<1>8. Issued' = Issued /\ Submitted' = Submitted
  BY <1>1, <1>7, RequestPairs DEF Issued, Submitted
<1>9. Sorts'
  <2>1. requests' \subseteq Entries /\ \A d, g \in requests' : d.id = g.id => d = g
    BY <1>1 DEF Sorts
  <2> QED
    BY <1>1, <1>7, <2>1 DEF Sorts, Fields
<1>10. InHand'
  BY <1>1 DEF InHand
<1>11. Numbered'
  BY <1>1, <1>7, <1>8, SameNumbers
<1>12. ASSUME ~twice' PROVE Registered' /\ Claimed' /\ Followed'
  <2>1. Registered /\ Claimed /\ Followed
    BY <1>1, <1>12 DEF IInv
  <2>2. r = job[1].cmd /\ \A e \in Known : e.id = job[1].id
    BY <1>1, <1>3, <1>12 DEF Known
  <2>3. /\ Pend # <<>> /\ Len(Pend) \in Nat \ {0} /\ Pend[1] = job[1]
        /\ Len(Pend') = Len(Pend) - 1
        /\ \A i \in 1..Len(Pend') : Pend'[i] = Pend[i + 1] /\ i + 1 \in 1..Len(Pend)
    BY <1>1, <1>6, PendTail
  <2>4. 1 \in 1..Len(Pend)
    BY <2>3
  <2>5. Registered'
    <3>1. ASSUME NEW i \in 1..Len(Pend')
          PROVE  [id |-> Pend'[i].id, req |-> Pend'[i].cmd] \in requests'
      <4>1. Pend[i + 1].id # Pend[1].id
        BY <2>1, <2>3, <2>4 DEF Registered
      <4> QED
        BY <1>1, <2>1, <2>2, <2>3, <4>1 DEF Registered
    <3>2. ASSUME NEW i \in 1..Len(Pend'), NEW k \in 1..Len(Pend'), Pend'[i].id = Pend'[k].id
          PROVE  i = k
      <4>1. i + 1 = k + 1
        BY <2>1, <2>3, <3>2 DEF Registered
      <4> QED
        BY <4>1
    <3> QED
      BY <1>1, <1>8, <2>1, <2>3, <3>1, <3>2 DEF Registered
  <2>6. Claimed'
    <3>1. \A d \in Callers : Id(d)' = Id(d)
      BY <1>1 DEF Id
    <3>2. ASSUME NEW d \in Callers, pc[d] = "add"
          PROVE  [id |-> Id(d), req |-> Current(d)] \in requests'
      <4>1. pc[d] \in Putting
        BY <3>2, Phases
      <4>2. Id(d) # job[1].id
        BY <2>1, <2>3, <2>4, <4>1 DEF Claimed
      <4> QED
        BY <1>1, <2>1, <2>2, <3>2, <4>2 DEF Claimed
    <3>3. ASSUME NEW d \in Callers, pc[d] \in Putting
          PROVE  Id(d) <= lastID /\ \A i \in 1..Len(Pend') : Pend'[i].id # Id(d)
      BY <2>1, <2>3, <3>3 DEF Claimed
    <3> QED
      BY <1>1, <1>7, <2>1, <3>1, <3>2, <3>3 DEF Claimed
  <2>7. Followed'
    <3>1. \A q \in Requests : req'[q].finished => q \in Submitted'
      <4>1. r \in Submitted
        BY <2>1, <2>2, <2>3, <2>4 DEF Registered
      <4> QED
        BY <1>7, <1>8, <2>1, <4>1 DEF Followed
    <3>2. ASSUME NEW d \in Callers, pc'[d] \in After
          PROVE  \/ req'[Current(d)].finished
                 \/ \E i \in 1..Len(Pend') : Pend'[i].cmd = Current(d)
      <4>1. CASE Current(d) = r
        BY <1>5, <1>7, <4>1
      <4>2. CASE Current(d) # r
        <5>1. Current(d) \in Requests
          BY <1>1, Types
        <5>2. CASE req[Current(d)].finished
          BY <1>7, <4>2, <5>1, <5>2
        <5>3. CASE \E i \in 1..Len(Pend) : Pend[i].cmd = Current(d)
          <6>1. PICK i \in 1..Len(Pend) : Pend[i].cmd = Current(d)
            BY <5>3
          <6>2. i # 1
            BY <2>2, <2>3, <4>2, <6>1
          <6>3. i - 1 \in 1..Len(Pend') /\ (i - 1) + 1 = i
            BY <2>3, <6>2
          <6> QED
            BY <2>3, <6>1, <6>3
        <5> QED
          BY <1>1, <1>7, <2>1, <3>2, <5>2, <5>3 DEF Followed
      <4> QED
        BY <4>1, <4>2
    <3> QED
      BY <1>7, <3>1, <3>2 DEF Followed
  <2> QED
    BY <2>5, <2>6, <2>7
<1> QED
  BY <1>9, <1>10, <1>11, <1>12 DEF IInv, Typed

\* The thread ends and drops the job it has in hand and those in the queue;
\* whoever waits for one of them now waits for a dead thread.
LEMMA FinallyIInv == ASSUME IInv, finally PROVE IInv'
<1>1. /\ Sorts /\ Numbered /\ InHand /\ fpc' = "dead" /\ jobs' = <<>> /\ job' = <<>>
      /\ UNCHANGED <<pc, count, tmp, lastID, twice, requests, req, ok, server, mpc>>
  BY DEF IInv, Typed, finally, callerVars
<1>2. Issued' = Issued /\ Submitted' = Submitted
  BY <1>1 DEF Issued, Submitted
<1>3. \A d \in Callers : Current(d)' = Current(d) /\ Id(d)' = Id(d)
  BY <1>1 DEF Current, Id
<1>4. Sorts'
  <2>1. jobs' \in Seq(Jobs)
    BY <1>1
  <2> QED
    BY <1>1, <1>3, <2>1 DEF Sorts
<1>5. InHand'
  BY <1>1 DEF InHand
<1>6. Numbered'
  BY <1>1, <1>2, SameNumbers
<1>7. ASSUME ~twice' PROVE Registered' /\ Claimed' /\ Followed'
  <2>1. Registered /\ Claimed /\ Followed
    BY <1>1, <1>7 DEF IInv
  <2>2. \A i \in 1..Len(Pend') : FALSE
    <3>1. Pend' = <<>> /\ Len(<<>>) = 0
      BY <1>1, ConcatEmptySeq, EmptySeq DEF Pend
    <3> QED
      BY <3>1
  <2>3. Registered'
    BY <2>2 DEF Registered
  <2>4. Claimed'
    BY <1>1, <1>3, <2>1, <2>2 DEF Claimed
  <2>5. Followed'
    BY <1>1, <1>2, <2>1 DEF Followed
  <2> QED
    BY <2>3, <2>4, <2>5
<1> QED
  BY <1>4, <1>5, <1>6, <1>7 DEF IInv, Typed

\* The first job in the queue is taken in hand.
LEMMA PendGet ==
    ASSUME Sorts, job = <<>>, jobs # <<>>, job' = <<Head(jobs)>>, jobs' = Tail(jobs)
    PROVE  Pend' = Pend /\ Head(jobs) \in Jobs /\ Tail(jobs) \in Seq(Jobs)
<1>1. jobs \in Seq(Jobs) /\ Len(jobs) \in Nat \ {0}
  BY EmptySeq DEF Sorts
<1>2. /\ Head(jobs) \in Jobs /\ Tail(jobs) \in Seq(Jobs) /\ Len(Tail(jobs)) = Len(jobs) - 1
      /\ \A i \in 1..Len(Tail(jobs)) : Tail(jobs)[i] = jobs[i + 1]
  BY <1>1, HeadTailProperties
<1>3. Head(jobs) = jobs[1]
  BY <1>1
<1> DEFINE s == <<Head(jobs)>> \o Tail(jobs)
<1>4. /\ s \in Seq(Jobs) /\ Len(s) = 1 + Len(Tail(jobs))
      /\ \A i \in 1..1 + Len(Tail(jobs)) :
            s[i] = IF i <= 1 THEN <<Head(jobs)>>[i] ELSE Tail(jobs)[i - 1]
  <2>1. <<Head(jobs)>> \in Seq(Jobs) /\ Len(<<Head(jobs)>>) = 1
    BY <1>2
  <2> QED
    BY <1>2, <2>1, ConcatProperties
<1>5. Len(s) = Len(jobs)
  BY <1>1, <1>2, <1>4
<1> HIDE DEF s
<1>6. ASSUME NEW i \in 1..Len(jobs) PROVE s[i] = jobs[i]
  <2>1. CASE i = 1
    BY <1>1, <1>2, <1>3, <1>4, <2>1
  <2>2. CASE i # 1
    <3>1. i - 1 \in 1..Len(Tail(jobs)) /\ (i - 1) + 1 = i /\ ~(i <= 1)
          /\ i \in 1..1 + Len(Tail(jobs))
      BY <1>1, <1>2, <2>2
    <3> QED
      BY <1>2, <1>4, <3>1
  <2> QED
    BY <2>1, <2>2
<1>7. s = jobs
  BY <1>1, <1>4, <1>5, <1>6, SeqEqual
<1> QED
  BY <1>1, <1>2, <1>7, ConcatEmptySeq DEF Pend, s

\* The thread takes the first job of the queue.
LEMMA GetIInv == ASSUME IInv, get PROVE IInv'
<1>1. /\ Sorts /\ InHand /\ fpc = "get" /\ fpc' = "notifyRunning"
      /\ job' = <<Head(jobs)>> /\ jobs' = Tail(jobs)
      /\ UNCHANGED <<pc, count, tmp, lastID, twice, requests, req, ok, server, mpc>>
  BY DEF IInv, Typed, get, callerVars
<1>2. job = <<>> /\ jobs # <<>>
  BY <1>1 DEF InHand
<1>3. Pend' = Pend /\ Head(jobs) \in Jobs /\ jobs' \in Seq(Jobs)
  BY <1>1, <1>2, PendGet
<1>4. InHand'
  <2>1. <<Head(jobs)>> # <<>>
    OBVIOUS
  <2> QED
    BY <1>1, <1>3, <2>1 DEF InHand
<1> QED
  BY <1>1, <1>3, <1>4, QuietIInv DEF Sorts, FestivalPlaces, MainPlaces

\* The request of the job in hand is told that it runs.
LEMMA NotifyRunningIInv == ASSUME IInv, notifyRunning PROVE IInv'
<1>1. /\ Sorts /\ InHand /\ fpc = "notifyRunning" /\ job # <<>>
      /\ UNCHANGED <<count, tmp, lastID, twice, jobs, ok, server, mpc>>
  BY DEF IInv, Typed, notifyRunning, InHand
<1>2. ASSUME NEW e \in Known, Notify(e.req, [req[e.req] EXCEPT !.running = TRUE]),
             fpc' = "getStatus", UNCHANGED <<requests, job>>
      PROVE  IInv'
  <2>1. e.req \in Requests
    BY <1>1 DEF Known, Sorts, Entries
  <2>2. /\ [req[e.req] EXCEPT !.running = TRUE] \in Fields
        /\ [req[e.req] EXCEPT !.running = TRUE].finished = req[e.req].finished
    BY <1>1, <2>1 DEF Sorts, Fields
  <2>3. InHand'
    BY <1>1, <1>2 DEF InHand
  <2> QED
    BY <1>1, <1>2, <2>1, <2>2, <2>3, NotifyIInv DEF FestivalPlaces
<1>3. CASE NoSuchRequest
  <2>1. fpc' = "finally" /\ UNCHANGED <<pc, requests, req, job>>
    BY <1>3 DEF NoSuchRequest
  <2>2. InHand' /\ Pend' = Pend
    BY <1>1, <2>1 DEF InHand, Pend
  <2> QED
    BY <1>1, <2>1, <2>2, QuietIInv DEF Sorts, FestivalPlaces, MainPlaces
<1> QED
  BY <1>2, <1>3 DEF notifyRunning

\* The request of the job in hand is told of a result or an error.
LEMMA GetStatusIInv == ASSUME IInv, getStatus PROVE IInv'
<1>1. /\ Sorts /\ InHand /\ fpc = "getStatus" /\ job # <<>>
      /\ UNCHANGED <<count, tmp, lastID, twice, jobs, ok, server, mpc>>
  BY DEF IInv, Typed, getStatus, InHand
<1>2. ASSUME NEW e \in Known
      PROVE  e.req \in Requests /\ req[e.req] \in Fields /\ req[e.req].results \in 0..MaxResults
  BY <1>1 DEF Known, Sorts, Entries, Fields
<1>3. ASSUME NEW e \in Known, req[e.req].results < MaxResults,
             Notify(e.req, [req[e.req] EXCEPT !.results = @ + 1]),
             UNCHANGED <<fpc, requests, job>>
      PROVE  IInv'
  <2>1. req[e.req].results + 1 \in 0..MaxResults
    BY <1>2, <1>3, Numbers
  <2>2. /\ [req[e.req] EXCEPT !.results = @ + 1] \in Fields
        /\ [req[e.req] EXCEPT !.results = @ + 1].finished = req[e.req].finished
    BY <1>2, <2>1 DEF Fields
  <2>3. InHand'
    BY <1>1, <1>3 DEF InHand
  <2> QED
    BY <1>1, <1>2, <1>3, <2>2, <2>3, NotifyIInv DEF FestivalPlaces
<1>4. ASSUME NEW e \in Known, Notify(e.req, [req[e.req] EXCEPT !.error = TRUE]),
             fpc' = "notifyFinished", UNCHANGED <<requests, job>>
      PROVE  IInv'
  <2>1. /\ [req[e.req] EXCEPT !.error = TRUE] \in Fields
        /\ [req[e.req] EXCEPT !.error = TRUE].finished = req[e.req].finished
    BY <1>2 DEF Fields
  <2>2. InHand'
    BY <1>1, <1>4 DEF InHand
  <2> QED
    BY <1>1, <1>2, <1>4, <2>1, <2>2, NotifyIInv DEF FestivalPlaces
<1>5. CASE fpc' = "notifyFinished" /\ UNCHANGED <<pc, requests, req, job>>
  <2>1. InHand' /\ Pend' = Pend
    BY <1>1, <1>5 DEF InHand, Pend
  <2> QED
    BY <1>1, <1>5, <2>1, QuietIInv DEF Sorts, FestivalPlaces, MainPlaces
<1> QED
  BY <1>3, <1>4, <1>5 DEF getStatus

\* The steps that read or end, in the Festival thread, the main thread and
\* the server.
LEMMA ControlIInv ==
    ASSUME IInv, \/ isEmpty \/ testOk \/ suspend \/ getStatus_eof \/ notifyFinished
                 \/ ServerDies \/ Main
    PROVE  IInv'
<1>1. Sorts /\ InHand
  BY DEF IInv, Typed
<1>2. UNCHANGED <<pc, count, tmp, lastID, twice, requests, jobs, req, job>>
  BY DEF isEmpty, testOk, suspend, getStatus_eof, notifyFinished, ServerDies, Main, disconnect,
         disconnect_resume, join, stop, callerVars, festivalVars
<1>3. /\ fpc' \in FestivalPlaces /\ (fpc = "dead" => fpc' = "dead") /\ ok' \in BOOLEAN
      /\ server' \in {"up", "gone"} /\ mpc' \in MainPlaces
  BY <1>1 DEF isEmpty, testOk, suspend, getStatus_eof, notifyFinished, ServerDies, Main, disconnect,
              disconnect_resume, join, stop, callerVars, festivalVars, Resumed,
              Sorts, FestivalPlaces, MainPlaces
<1>4. InHand'
  BY <1>1, <1>2 DEF isEmpty, testOk, suspend, getStatus_eof, notifyFinished, ServerDies, Main,
              disconnect, disconnect_resume, join, stop, callerVars, festivalVars, Resumed, InHand
<1>5. Pend' = Pend /\ jobs' \in Seq(Jobs)
  BY <1>1, <1>2 DEF Pend, Sorts
<1> QED
  BY <1>2, <1>3, <1>4, <1>5, QuietIInv

\* The inductive invariant holds at the start.
LEMMA InitIInv == Init => IInv
<1> SUFFICES ASSUME Init PROVE IInv
  OBVIOUS
<1>1. Cardinality(Requests) \in Nat
  BY Numbers
<1>2. Sorts
  <2>1. \A c \in Callers : Current(c) \in Requests
    BY RequestPairs, Numbers DEF Init, Current
  <2>2. jobs \in Seq(Jobs) /\ 0 \in 0..Cardinality(Requests) /\ 0 \in 0..MaxResults
    BY <1>1, Numbers DEF Init
  <2>3. NewRequest \in [running : BOOLEAN, results : 0..MaxResults,
                        error : BOOLEAN, finished : BOOLEAN]
    BY <2>2 DEF NewRequest
  <2>4. "newID" \in Places
    BY DEF Places, Before
  <2> QED
    BY <2>1, <2>2, <2>3, <2>4 DEF Init, Sorts
<1>3. InHand
  BY DEF Init, InHand
<1>4. \A c \in Callers : pc[c] = "newID"
  BY DEF Init
<1>5. Numbered
  <2>1. Cardinality(Issued) \in Nat
    BY <1>2, Types
  <2> QED
    BY <1>4, <2>1, Phases DEF Init, Numbered
<1>6. \A i \in 1..Len(Pend) : FALSE
  <2>1. Pend = <<>> /\ Len(<<>>) = 0
    BY ConcatEmptySeq, EmptySeq DEF Init, Pend
  <2> QED
    BY <2>1
<1>7. Registered /\ Claimed /\ Followed
  <2>1. \A r \in Requests : ~req[r].finished
    BY DEF Init, NewRequest
  <2> QED
    BY <1>4, <1>6, <2>1, Phases DEF Registered, Claimed, Followed
<1> QED
  BY <1>2, <1>3, <1>5, <1>7 DEF IInv, Typed

\* Every step keeps the inductive invariant.
LEMMA NextIInv == IInv /\ FoundIs /\ [Next]_vars => IInv'
<1> SUFFICES ASSUME IInv, FoundIs, [Next]_vars PROVE IInv'
  OBVIOUS
<1>1. CASE \E c \in Callers : Caller(c)
  BY <1>1, CallerIInv
<1>2. CASE Festival
  BY <1>2, ControlIInv, GetIInv, NotifyRunningIInv, GetStatusIInv, RemoveIInv,
     FinallyIInv DEF Festival
<1>3. CASE Main \/ ServerDies
  BY <1>3, ControlIInv
<1>4. CASE UNCHANGED vars
  <2>1. UNCHANGED <<pc, count, tmp, lastID, twice, requests, jobs, req, job, fpc, ok, server, mpc>>
    BY <1>4 DEF vars
  <2>2. InHand' /\ Pend' = Pend
    BY <2>1 DEF IInv, Typed, InHand, Pend
  <2> QED
    BY <2>1, <2>2, QuietIInv DEF IInv, Typed, Sorts, FestivalPlaces, MainPlaces
<1> QED
  BY <1>1, <1>2, <1>3, <1>4 DEF Next

\* Only the lookup finds a request, and only the Festival thread has it in
\* hand: a caller's step may give an id twice, but takes no job away.
LEMMA FoundStep == IInv /\ FoundIs /\ [Next]_vars => FoundIs'
<1> SUFFICES ASSUME IInv, FoundIs, [Next]_vars PROVE FoundIs'
  OBVIOUS
<1>1. ASSUME UNCHANGED found, ~twice' => ~twice,
             fpc' = "remove" => fpc = "remove" /\ UNCHANGED job
      PROVE  FoundIs'
  BY <1>1 DEF FoundIs
<1>2. CASE notifyFinished
  <2>1. /\ Sorts /\ InHand /\ job # <<>> /\ UNCHANGED <<job, twice>>
        /\ ~twice => Registered
    BY <1>2 DEF IInv, Typed, InHand, notifyFinished, callerVars
  <2>2. PICK e \in Known : found' = <<e.req>>
    BY <1>2 DEF notifyFinished
  <2>3. e.req \in Requests
    BY <2>1 DEF Known, Sorts, Entries
  <2>4. ~twice => e.req = job[1].cmd
    BY <2>1, KnownIs
  <2>5. found' # <<>> /\ found'[1] = e.req
    BY <2>2
  <2>6. job' = job /\ twice' = twice
    BY <2>1
  <2>7. found' = <<>> \/ \E r \in Requests : found' = <<r>>
    BY <2>2, <2>3
  <2>8. ~twice' => found'[1] = job'[1].cmd
    BY <2>4, <2>5, <2>6
  <2> QED
    BY <2>5, <2>7, <2>8, Zenon DEF FoundIs
<1>3. CASE remove \/ finally
  BY <1>3 DEF FoundIs, remove, finally
<1>4. ASSUME NEW c \in Callers, Caller(c) PROVE FoundIs'
  <2>1. UNCHANGED found /\ UNCHANGED job /\ (fpc' = fpc \/ fpc' = "isEmpty")
    BY <1>4 DEF Caller, newID_read, newID_write, put, add, resume, Resumed, isFinished,
                waitForUpdate, festivalVars
  <2>2. twice => twice'
    BY <1>4, Zenon DEF Caller, newID_read, newID_write, put, add, resume, isFinished,
                waitForUpdate
  <2> QED
    BY <1>1, <2>1, <2>2
<1>5. CASE isEmpty \/ testOk \/ suspend \/ get \/ notifyRunning \/ getStatus \/ getStatus_eof
  <2>1. UNCHANGED <<found, twice>> /\ fpc' # "remove"
    BY <1>5 DEF isEmpty, testOk, suspend, get, notifyRunning, NoSuchRequest, getStatus,
                getStatus_eof, callerVars
  <2> QED
    BY <1>1, <2>1
<1>6. CASE Main \/ ServerDies \/ UNCHANGED vars
  <2>1. UNCHANGED <<found, job, twice>> /\ (fpc' = "remove" => fpc = "remove")
    BY <1>6 DEF Main, disconnect, disconnect_resume, join, stop, ServerDies, Resumed,
                callerVars, festivalVars, vars
  <2> QED
    BY <1>1, <2>1
<1> QED
  BY <1>2, <1>3, <1>4, <1>5, <1>6 DEF Next, Festival

\* The inductive invariant holds in every reachable state.
THEOREM Invariance == Spec => [](IInv /\ FoundIs)
<1>1. Init => FoundIs
  BY DEF Init, FoundIs
<1> QED
  BY <1>1, InitIInv, NextIInv, FoundStep, PTL DEF Spec

\* Types, among them that an id is never larger than the number of requests,
\* whatever the interleaving of the callers, and that the table has one
\* request for an id.
THEOREM TypeCorrect == Spec => []TypeOK
<1>1. IInv /\ FoundIs => TypeOK
  BY SortsAreTypes DEF IInv, Typed
<1> QED
  BY <1>1, Invariance, PTL

\* A caller never waits for a request that the session has lost, as long as
\* no id was given twice.
THEOREM WaitersAreHeard == Spec => []WaitersHaveAReason
<1>1. IInv => WaitersHaveAReason
  BY DEF IInv, Followed, WaitersHaveAReason, After, Pend
<1> QED
  BY <1>1, Invariance, PTL

-----------------------------------------------------------------------------
\* The refinement: what RequestQueue calls pending, results and finished.
Cmds     == [i \in 1..(Len(job) + Len(jobs)) |-> (job \o jobs)[i].cmd]
Results  == [r \in Requests |-> req[r].results]
Finished == {r \in Requests : req[r].finished}

\* The commands of a sequence of jobs.
LEMMA CmdsOf ==
    ASSUME NEW s \in Seq(Jobs), NEW n, n = Len(s), NEW q, q = [i \in 1..n |-> s[i].cmd]
    PROVE  /\ q \in Seq(Requests) /\ Len(q) = Len(s) /\ Len(s) \in Nat
           /\ \A i \in 1..Len(s) : q[i] = s[i].cmd
<1>1. Len(s) \in Nat
  OBVIOUS
<1>2. \A i \in 1..Len(s) : s[i].cmd \in Requests
  <2>1. \A i \in 1..Len(s) : s[i] \in Jobs
    OBVIOUS
  <2> QED
    BY <2>1 DEF Jobs
<1>3. q \in [1..Len(s) -> Requests]
  BY <1>2
<1> QED
  BY <1>1, <1>3

\* The commands of the queue are those of the job in hand and the job queue.
LEMMA CmdsArePend ==
    ASSUME Sorts, InHand
    PROVE  /\ Cmds \in Seq(Requests) /\ Len(Cmds) = Len(Pend) /\ Len(Pend) \in Nat
           /\ \A i \in 1..Len(Pend) : Cmds[i] = Pend[i].cmd
<1>1. Pend \in Seq(Jobs) /\ Len(Pend) = Len(job) + Len(jobs)
  BY PendType
<1>2. Cmds = [i \in 1..Len(Pend) |-> Pend[i].cmd]
  BY <1>1 DEF Cmds, Pend
<1> QED
  BY <1>1, <1>2, CmdsOf

\* The same of the next state.
LEMMA CmdsArePendNext ==
    ASSUME Sorts', InHand'
    PROVE  /\ Cmds' \in Seq(Requests) /\ Len(Cmds') = Len(Pend')
           /\ \A i \in 1..Len(Pend') : Cmds'[i] = Pend'[i].cmd
<1>1. /\ jobs' \in Seq(Jobs) /\ job' \in Seq(Jobs)
  <2>1. CASE job' = <<>>
    BY <2>1, EmptySeq DEF Sorts
  <2>2. CASE \E j \in Jobs : job' = <<j>>
    BY <2>2 DEF Sorts
  <2> QED
    BY <2>1, <2>2 DEF Sorts, InHand
<1>2. Pend' \in Seq(Jobs) /\ Len(Pend') = Len(job') + Len(jobs')
  BY <1>1, ConcatProperties DEF Pend
<1>3. Cmds' = [i \in 1..Len(Pend') |-> Pend'[i].cmd]
  BY <1>2 DEF Cmds, Pend
<1> QED
  BY <1>2, <1>3, CmdsOf

\* A step that leaves the three alone is a stutter of the queue.
LEMMA Stutter ==
    ASSUME Sorts, InHand, Sorts', InHand', Pend' = Pend,
           \A r \in Requests : /\ req'[r].results = req[r].results
                               /\ req'[r].finished = req[r].finished
    PROVE  UNCHANGED Served!vars
<1>1. Cmds' = Cmds
  <2>1. /\ Cmds \in Seq(Requests) /\ Cmds' \in Seq(Requests) /\ Len(Cmds) = Len(Cmds')
        /\ \A i \in 1..Len(Cmds) : Cmds'[i] = Cmds[i]
    BY CmdsArePend, CmdsArePendNext
  <2> QED
    BY <2>1, SeqEqual
<1>2. Results' = Results /\ Finished' = Finished
  BY DEF Results, Finished
<1> QED
  BY <1>1, <1>2 DEF Served!vars, Cmds, Results, Finished

\* add is the submission of a request to the queue.
LEMMA AddSubmits ==
    ASSUME IInv, ~twice, NEW c \in Callers, add(c), Sorts', InHand'
    PROVE  Served!Submit
<1> DEFINE new == [id |-> Id(c), cmd |-> Current(c)]
<1>1. /\ Sorts /\ Numbered /\ InHand /\ Registered /\ Claimed /\ Followed /\ pc[c] = "add"
      /\ jobs' = Append(jobs, new) /\ UNCHANGED <<req, job>>
  BY DEF IInv, Typed, add, festivalVars
<1>2. pc[c] \in Putting /\ Id(c) \in Ids /\ Current(c) \in Requests
  BY <1>1, IdRange, Types, Phases
<1>3. new \in Jobs /\ new.cmd = Current(c)
  BY <1>2 DEF Jobs
<1> HIDE DEF new
<1>4. /\ Len(Pend') = Len(Pend) + 1 /\ Pend'[Len(Pend) + 1] = new
      /\ \A i \in 1..Len(Pend) : Pend'[i] = Pend[i]
  BY <1>1, <1>3, PendAppend
<1>5. Current(c) \notin Submitted
  <2>1. Current(c)[1] = c /\ Current(c)[2] = count[c] /\ count[c] \in Nat
    BY <1>1 DEF Current, Sorts
  <2> QED
    BY <1>2, <2>1 DEF Submitted
<1>6. Current(c) \in Requests \ Finished
  BY <1>1, <1>2, <1>5 DEF Followed, Finished
<1>7. \A i \in 1..Len(Cmds) : Cmds[i] # Current(c)
  <2>1. \A i \in 1..Len(Pend) : Pend[i].cmd \in Submitted
    BY <1>1 DEF Registered
  <2>2. Len(Cmds) = Len(Pend) /\ \A i \in 1..Len(Pend) : Cmds[i] = Pend[i].cmd
    BY <1>1, CmdsArePend
  <2> QED
    BY <1>5, <2>1, <2>2
<1>8. Cmds' = Append(Cmds, Current(c))
  <2>1. /\ Cmds \in Seq(Requests) /\ Len(Cmds) = Len(Pend) /\ Len(Pend) \in Nat
        /\ \A i \in 1..Len(Pend) : Cmds[i] = Pend[i].cmd
    BY <1>1, CmdsArePend
  <2>2. /\ Cmds' \in Seq(Requests) /\ Len(Cmds') = Len(Pend) + 1
        /\ \A i \in 1..Len(Pend) + 1 : Cmds'[i] = Pend'[i].cmd
    BY <1>4, CmdsArePendNext
  <2>3. /\ Append(Cmds, Current(c)) \in Seq(Requests)
        /\ Len(Append(Cmds, Current(c))) = Len(Pend) + 1
        /\ \A i \in 1..Len(Pend) : Append(Cmds, Current(c))[i] = Cmds[i]
        /\ Append(Cmds, Current(c))[Len(Pend) + 1] = Current(c)
    BY <1>2, <2>1, AppendProperties
  <2>4. ASSUME NEW i \in 1..Len(Pend) + 1 PROVE Cmds'[i] = Append(Cmds, Current(c))[i]
    <3>1. i \in 1..Len(Pend) \/ i = Len(Pend) + 1
      BY <2>1
    <3> QED
      BY <1>3, <1>4, <2>1, <2>2, <2>3, <3>1
  <2> QED
    BY <2>2, <2>3, <2>4, SeqEqual
<1>9. Results' = Results /\ Finished' = Finished
  BY <1>1 DEF Results, Finished
<1> QED
  BY <1>6, <1>7, <1>8, <1>9 DEF Served!Submit, Cmds, Results, Finished

\* The command at the head of the queue is that of the job in hand.
LEMMA HeadOfCmds ==
    ASSUME Sorts, InHand, Registered, job # <<>>
    PROVE  /\ Cmds # <<>> /\ Head(Cmds) = job[1].cmd /\ Head(Cmds) \in Requests
           /\ \A e \in Known : e.req = Head(Cmds)
<1>1. PICK j \in Jobs : job = <<j>>
  BY DEF InHand
<1>2. j.cmd \in Requests /\ job[1] = j /\ \A e \in Known : e.req = j.cmd
  BY <1>1, KnownIs DEF Jobs
<1>3. jobs \in Seq(Jobs) /\ <<j>> \in Seq(Jobs) /\ Len(<<j>>) = 1
  BY DEF Sorts
<1>4. Pend = <<j>> \o jobs /\ Len(Pend) = 1 + Len(jobs) /\ Len(jobs) \in Nat
  BY <1>1, <1>3, ConcatProperties, LenProperties DEF Pend
<1>5. 1 \in 1..Len(<<j>>) + Len(jobs) /\ 1 <= Len(<<j>>) /\ <<j>>[1] = j
  BY <1>3, <1>4
<1>6. Pend[1] = j
  BY <1>3, <1>4, <1>5, ConcatProperties
<1>7. Cmds \in Seq(Requests) /\ Len(Cmds) = 1 + Len(jobs) /\ Cmds[1] = j.cmd
  <2>1. 1 \in 1..Len(Pend)
    BY <1>4
  <2> QED
    BY <1>4, <1>6, <2>1, CmdsArePend
<1> QED
  BY <1>2, <1>4, <1>7, EmptySeq

\* Telling a request of a result, of its start or of an error.
LEMMA NotifyServed ==
    ASSUME IInv, ~twice, job # <<>>, NEW e \in Known, NEW f \in Fields, Notify(e.req, f),
           f.finished = req[e.req].finished, UNCHANGED <<count, jobs, job>>,
           f.results = req[e.req].results \/ f.results = req[e.req].results + 1,
           Sorts', InHand'
    PROVE  Served!Result \/ UNCHANGED Served!vars
<1>1. Sorts /\ InHand /\ Registered /\ Pend' = Pend
  BY DEF IInv, Typed, Pend
<1>2. Cmds # <<>> /\ Head(Cmds) = e.req /\ e.req \in Requests
  BY <1>1, HeadOfCmds
<1>3. /\ req' \in [Requests -> Fields] /\ req'[e.req] = f
      /\ \A q \in Requests : q # e.req => req'[q] = req[q]
  BY <1>1, <1>2, Woken
<1>4. CASE f.results = req[e.req].results
  BY <1>1, <1>3, <1>4, Stutter
<1>5. CASE f.results = req[e.req].results + 1
  <2>1. Results' = [Results EXCEPT ![e.req] = @ + 1]
    BY <1>2, <1>3, <1>5 DEF Results
  <2>2. Finished' = Finished
    BY <1>3 DEF Finished
  <2>3. Cmds' = Cmds
    <3>1. /\ Cmds \in Seq(Requests) /\ Cmds' \in Seq(Requests) /\ Len(Cmds) = Len(Cmds')
          /\ \A i \in 1..Len(Cmds) : Cmds'[i] = Cmds[i]
      BY <1>1, CmdsArePend, CmdsArePendNext
    <3> QED
      BY <3>1, SeqEqual
  <2> QED
    BY <1>2, <2>1, <2>2, <2>3 DEF Served!Result, Cmds, Results, Finished
<1> QED
  BY <1>4, <1>5

\* The end of a job is the end of the request at the queue's head.
LEMMA FinishServed ==
    ASSUME IInv, FoundIs, ~twice, remove, Sorts', InHand'
    PROVE  Served!Finish
<1> DEFINE r == found[1]
<1>1. /\ Sorts /\ InHand /\ Registered /\ fpc = "remove" /\ job # <<>>
      /\ job' = <<>> /\ UNCHANGED <<count, jobs>>
  BY DEF IInv, Typed, remove, InHand
<1>2. Notify(r, [req[r] EXCEPT !.finished = TRUE]) /\ r = job[1].cmd
  BY <1>1 DEF remove, FoundIs
<1> HIDE DEF r
<1>3. Cmds # <<>> /\ Head(Cmds) = r /\ r \in Requests
  BY <1>1, <1>2, HeadOfCmds
<1>4. PICK f \in Fields : f = [req[r] EXCEPT !.finished = TRUE]
  <2>1. req[r] \in Fields
    BY <1>1, <1>3 DEF Sorts, Fields
  <2> QED
    BY <2>1 DEF Fields
<1>5. Notify(r, f) /\ f.finished = TRUE /\ f.results = req[r].results
  BY <1>1, <1>2, <1>3, <1>4 DEF Sorts, Fields
<1>6. req'[r] = f /\ \A q \in Requests : q # r => req'[q] = req[q]
  BY <1>1, <1>3, <1>5, Woken
<1>7. Results' = Results /\ Finished' = Finished \cup {Head(Cmds)}
  BY <1>3, <1>5, <1>6 DEF Results, Finished
<1>8. Cmds' = Tail(Cmds)
  <2>1. /\ Cmds \in Seq(Requests) /\ Len(Cmds) = Len(Pend) /\ Len(Pend) \in Nat
        /\ \A i \in 1..Len(Pend) : Cmds[i] = Pend[i].cmd
    BY <1>1, CmdsArePend
  <2>2. /\ Cmds' \in Seq(Requests) /\ Len(Cmds') = Len(Pend) - 1
        /\ \A i \in 1..Len(Pend') : Cmds'[i] = Pend[i + 1].cmd /\ i + 1 \in 1..Len(Pend)
        /\ Len(Pend') = Len(Pend) - 1
    BY <1>1, CmdsArePendNext, PendTail
  <2>3. /\ Tail(Cmds) \in Seq(Requests) /\ Len(Tail(Cmds)) = Len(Pend) - 1
        /\ \A i \in 1..Len(Tail(Cmds)) : Tail(Cmds)[i] = Cmds[i + 1]
    BY <1>3, <2>1, HeadTailProperties
  <2>4. \A i \in 1..Len(Cmds') : Cmds'[i] = Tail(Cmds)[i]
    BY <2>1, <2>2, <2>3
  <2> QED
    BY <2>2, <2>3, <2>4, SeqEqual
<1> QED
  BY <1>3, <1>7, <1>8 DEF Served!Finish, Cmds, Results, Finished

\* The end of the thread loses what is pending.
LEMMA FinallyServed ==
    ASSUME IInv, finally, Sorts', InHand'
    PROVE  Served!Lose
<1>1. jobs' = <<>> /\ job' = <<>> /\ UNCHANGED req
  BY DEF finally
<1>2. Cmds' = <<>>
  <2>1. Pend' = <<>> /\ Len(<<>>) = 0
    BY <1>1, ConcatEmptySeq, EmptySeq DEF Pend
  <2>2. Cmds' \in Seq(Requests) /\ Len(Cmds') = 0
    BY <2>1, CmdsArePendNext
  <2> QED
    BY <2>2, EmptySeq
<1>3. Results' = Results /\ Finished' = Finished
  BY <1>1 DEF Results, Finished
<1> QED
  BY <1>2, <1>3 DEF Served!Lose, Cmds, Results, Finished

\* Every step is one of the queue or leaves it alone, unless an id has been
\* given twice.
LEMMA StepIsServed ==
    ASSUME IInv, FoundIs, [Next]_vars, Sorts', InHand'
    PROVE  (twice' \/ Served!Next) \/ UNCHANGED Served!vars
<1> SUFFICES ASSUME ~twice' PROVE Served!Next \/ UNCHANGED Served!vars
  OBVIOUS
<1>1. Sorts /\ InHand
  BY DEF IInv, Typed
<1>2. CASE UNCHANGED vars
  BY <1>1, <1>2, Stutter DEF vars, Pend
<1>3. ASSUME NEW c \in Callers, Caller(c) PROVE Served!Next \/ UNCHANGED Served!vars
  <2>1. CASE add(c)
    <3>1. ~twice
      BY <2>1 DEF add
    <3> QED
      BY <2>1, <3>1, AddSubmits DEF Served!Next
  <2>2. CASE ~add(c)
    <3>1. UNCHANGED <<req, jobs, job>>
      BY <1>3, <2>2 DEF Caller, newID_read, newID_write, put, resume, isFinished,
                        waitForUpdate, festivalVars
    <3> QED
      BY <1>1, <3>1, Stutter DEF Pend
  <2> QED
    BY <2>1, <2>2
<1>4. CASE get
  <2>1. UNCHANGED req /\ Pend' = Pend
    <3>1. job = <<>> /\ jobs # <<>> /\ job' = <<Head(jobs)>> /\ jobs' = Tail(jobs)
      BY <1>1, <1>4 DEF get, InHand
    <3> QED
      BY <1>1, <1>4, <3>1, PendGet DEF get
  <2> QED
    BY <1>1, <2>1, Stutter
<1>5. CASE notifyRunning
  <2>1. job # <<>> /\ ~twice /\ UNCHANGED <<count, jobs>>
    BY <1>1, <1>5 DEF notifyRunning, InHand
  <2>2. ASSUME NEW e \in Known, Notify(e.req, [req[e.req] EXCEPT !.running = TRUE]),
               UNCHANGED job
        PROVE  Served!Next \/ UNCHANGED Served!vars
    <3>1. e.req \in Requests
      BY <1>1 DEF Known, Sorts, Entries
    <3>2. PICK f \in Fields : f = [req[e.req] EXCEPT !.running = TRUE]
      <4>1. req[e.req] \in Fields
        BY <1>1, <3>1 DEF Sorts, Fields
      <4> QED
        BY <4>1 DEF Fields
    <3>3. f.results = req[e.req].results /\ f.finished = req[e.req].finished
      BY <1>1, <3>1, <3>2 DEF Sorts, Fields
    <3> QED
      BY <2>1, <2>2, <3>2, <3>3, NotifyServed DEF Served!Next
  <2>3. CASE NoSuchRequest
    BY <1>1, <2>1, <2>3, Stutter DEF NoSuchRequest, Pend
  <2> QED
    BY <1>5, <2>2, <2>3 DEF notifyRunning
<1>6. CASE getStatus
  <2>1. job # <<>> /\ ~twice /\ UNCHANGED <<count, jobs>>
    BY <1>1, <1>6 DEF getStatus, InHand
  <2>2. ASSUME NEW e \in Known, UNCHANGED job,
               NEW f, Notify(e.req, f), f \in Fields,
               f.results = req[e.req].results \/ f.results = req[e.req].results + 1,
               f.finished = req[e.req].finished
        PROVE  Served!Next \/ UNCHANGED Served!vars
    BY <2>1, <2>2, NotifyServed DEF Served!Next
  <2>3. ASSUME NEW e \in Known
        PROVE  req[e.req] \in Fields /\ req[e.req].results \in 0..MaxResults
    BY <1>1 DEF Known, Sorts, Entries, Fields
  <2>4. ASSUME NEW e \in Known, req[e.req].results < MaxResults,
               Notify(e.req, [req[e.req] EXCEPT !.results = @ + 1]), UNCHANGED job
        PROVE  Served!Next \/ UNCHANGED Served!vars
    <3>1. req[e.req].results + 1 \in 0..MaxResults
      BY <2>3, <2>4, Numbers
    <3>2. /\ [req[e.req] EXCEPT !.results = @ + 1] \in Fields
          /\ [req[e.req] EXCEPT !.results = @ + 1].results = req[e.req].results + 1
          /\ [req[e.req] EXCEPT !.results = @ + 1].finished = req[e.req].finished
      BY <2>3, <3>1 DEF Fields
    <3> QED
      BY <2>2, <2>4, <3>2
  <2>5. ASSUME NEW e \in Known, Notify(e.req, [req[e.req] EXCEPT !.error = TRUE]),
               UNCHANGED job
        PROVE  Served!Next \/ UNCHANGED Served!vars
    <3>1. /\ [req[e.req] EXCEPT !.error = TRUE] \in Fields
          /\ [req[e.req] EXCEPT !.error = TRUE].results = req[e.req].results
          /\ [req[e.req] EXCEPT !.error = TRUE].finished = req[e.req].finished
      BY <2>3 DEF Fields
    <3> QED
      BY <2>2, <2>5, <3>1
  <2>6. CASE UNCHANGED <<pc, requests, req, job>>
    BY <1>1, <2>1, <2>6, Stutter DEF Pend
  <2> QED
    BY <1>6, <2>4, <2>5, <2>6 DEF getStatus
<1>7. CASE remove
  <2>1. ~twice
    BY <1>7 DEF remove
  <2> QED
    BY <1>7, <2>1, FinishServed DEF Served!Next
<1>8. CASE finally
  BY <1>8, FinallyServed DEF Served!Next
<1>9. CASE isEmpty \/ testOk \/ suspend \/ getStatus_eof \/ notifyFinished \/ ServerDies \/ Main
  <2>1. UNCHANGED <<req, jobs, job>>
    BY <1>9 DEF isEmpty, testOk, suspend, getStatus_eof, notifyFinished, ServerDies, Main,
                disconnect, disconnect_resume, join, stop, festivalVars
  <2> QED
    BY <1>1, <2>1, Stutter DEF Pend
<1> QED
  BY <1>2, <1>3, <1>4, <1>5, <1>6, <1>7, <1>8, <1>9 DEF Next, Festival

\* The session starts as an empty queue.
LEMMA InitIsServed == Init => Served!Init
<1> SUFFICES ASSUME Init PROVE Served!Init
  OBVIOUS
<1>1. IInv
  BY InitIInv
<1>2. Cmds = <<>>
  <2>1. Pend = <<>> /\ Len(<<>>) = 0
    BY ConcatEmptySeq, EmptySeq DEF Init, Pend
  <2>2. Cmds \in Seq(Requests) /\ Len(Cmds) = 0
    BY <1>1, <2>1, CmdsArePend DEF IInv, Typed
  <2> QED
    BY <2>2, EmptySeq
<1>3. Results = [r \in Requests |-> 0] /\ Finished = {}
  BY DEF Init, NewRequest, Results, Finished
<1> QED
  BY <1>2, <1>3 DEF Served!Init, Cmds, Results, Finished

\* A session implements the queue of RequestQueue until an id is given twice:
\* each result goes to the request at its head, each request is finished once
\* and in order.
THEOREM SessionIsAQueue == Spec => ServedInOrder
<1>1. IInv /\ FoundIs /\ IInv' /\ [Next]_vars => [twice' \/ Served!Next]_(Served!vars)
  BY StepIsServed DEF IInv, Typed
<1> QED
  BY <1>1, InitIsServed, Invariance, PTL DEF Spec, ServedInOrder

=============================================================================
