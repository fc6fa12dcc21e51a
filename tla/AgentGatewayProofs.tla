-------------------------- MODULE AgentGatewayProofs --------------------------
(***************************************************************************)
(* Leases and answers of the Agent Gateway for any number of jobs, Agents, *)
(* bridges, lease ids and restarts, and any lifetimes.                     *)
(*                                                                         *)
(* The argument: a claim keeps the row it selected locked until it         *)
(* commits, and a lease that has run out by an old reading of the clock    *)
(* has run out by every later one, so the row is still claimable then; a   *)
(* row that can be claimed has no answer yet, and an answer is written     *)
(* once, under the lease the row has at that time.  A claim in the server  *)
(* has seen no unexpired lease of its Agent when it selected, and whoever  *)
(* leases one before it commits records it as beside.                      *)
(***************************************************************************)
EXTENDS AgentGateway, TLAPS

\* TypeOK, one part for each group of variables.
JobType ==
    /\ job \in [Runs -> Settled \cup {"none", "queued", "leased"}]
    /\ lease \in [Runs -> LeaseIds \cup {NoLease}]
    /\ expires \in [Runs -> Ticks(LeaseTime)]
    /\ result \in [Runs -> Results \cup {NoResult}]
    /\ \A r \in Runs :
         /\ lease[r] = NoLease <=> job[r] \in {"none", "queued"}
         /\ result[r] = NoResult <=> job[r] \notin Settled
    /\ created \in Seq(Runs)
AccessType ==
    /\ credential \in [Agents -> {"active", "revoked"}]
    /\ binding \in [Agents -> BOOLEAN]
    /\ presence \in [Agents -> Ticks(PresenceTime)]
    /\ token \subseteq Workers
AdapterType ==
    /\ adapter \in [Runs -> Looping \cup {"idle", "enqueue", "completed", "failed",
                                         "timeout", "stopped", "error"}]
    /\ deadline \in [Runs -> 0 .. ResponseTime]
RequestType ==
    /\ request \in [Workers -> {"idle", "heartbeat", "select", "lease", "settle"}]
    /\ age \in [Workers -> 0 .. MaxDelay]
    /\ locked \in [Workers -> Runs \cup {NoRun}]
WorkerType ==
    /\ held \in [Workers -> Runs \cup {NoRun}]
    /\ heldLease \in [Workers -> LeaseIds \cup {NoLease}]
    /\ answer \in [Workers -> Results \cup {NoResult}]
AckType ==
    /\ acknowledged \subseteq [run : Runs, lease : LeaseIds, result : Results]
    /\ beside \in [Runs -> SUBSET (Runs \cup {NoRun})]
ProcessType == stopping \in BOOLEAN /\ restarts \in Nat

Types == JobType /\ AccessType /\ AdapterType /\ RequestType /\ WorkerType /\ AckType /\ ProcessType

\* A bridge with an answer has a job, and one with a job has its lease.
HoldingInv ==
    \A w \in Workers :
        /\ held[w] # NoRun => heldLease[w] # NoLease
        /\ answer[w] # NoResult => held[w] # NoRun
        /\ request[w] = "settle" => answer[w] # NoResult

\* Locks are held between selection and commit, on rows that stay claimable.
LockInv ==
    \A w \in Workers :
        /\ locked[w] # NoRun => request[w] = "lease"
        /\ request[w] = "lease" =>
             /\ locked[w] # NoRun /\ Claimable(locked[w], w)
             /\ \A v \in Workers : locked[v] = locked[w] => v = w

\* A settled job has one acknowledged answer, which is the stored one.
AnswerInv ==
    /\ OneAnswerPerJob /\ RunShowsStoredAnswer
    /\ \A r \in Runs : job[r] \in Settled =>
         /\ job[r] = SettledAs(result[r])
         /\ \E x \in acknowledged : x.run = r /\ SettledAs(x.result) = job[r]

GatewayInv == Types /\ HoldingInv /\ LockInv /\ AnswerInv

LEMMA TypesAreTypeOK == Types <=> TypeOK
<1>1. Looping \cup {"idle", "enqueue", "completed", "failed", "timeout", "stopped", "error"}
        = AtWork \cup {"idle", "completed", "failed", "timeout", "stopped", "error"}
  BY DEF AtWork
<1> QED BY <1>1 DEF Types, JobType, AccessType, AdapterType, RequestType, WorkerType, AckType,
                  ProcessType, TypeOK

-----------------------------------------------------------------------------
(* What a step leaves alone keeps its part.                                *)

LEMMA JobFrame == JobType /\ UNCHANGED jobVars => JobType'
BY DEF JobType, jobVars
LEMMA AccessFrames == AccessType /\ UNCHANGED accessVars => AccessType'
BY DEF AccessType, accessVars
LEMMA AdapterFrames == AdapterType /\ UNCHANGED adapterVars => AdapterType'
BY DEF AdapterType, adapterVars
LEMMA RequestFrame == RequestType /\ UNCHANGED requestVars => RequestType'
BY DEF RequestType, requestVars
LEMMA WorkerFrame == WorkerType /\ UNCHANGED workerVars => WorkerType'
BY DEF WorkerType, workerVars
LEMMA AckFrame == AckType /\ UNCHANGED <<acknowledged, beside>> => AckType'
BY DEF AckType
LEMMA ProcessFrame == ProcessType /\ UNCHANGED processVars => ProcessType'
BY DEF ProcessType, processVars
LEMMA HoldingFrame ==
    HoldingInv /\ UNCHANGED workerVars /\ request' = request => HoldingInv'
BY DEF HoldingInv, workerVars
LEMMA LockFrame ==
    LockInv /\ UNCHANGED <<job, expires, requestVars>> => LockInv'
BY DEF LockInv, Claimable, UnexpiredAt, requestVars
LEMMA AnswerFrame ==
    AnswerInv /\ UNCHANGED <<job, lease, result, adapter, acknowledged>> => AnswerInv'
BY DEF AnswerInv, OneAnswerPerJob, RunShowsStoredAnswer

\* Adapters that move to a place where their run has not ended.
LEMMA AnswerStays ==
    ASSUME AnswerInv, UNCHANGED <<job, lease, result, acknowledged>>,
           \A r \in Runs : adapter'[r] \in Settled => adapter[r] = adapter'[r] \/ job[r] = adapter'[r]
    PROVE  AnswerInv'
<1>1. OneAnswerPerJob'
  BY DEF AnswerInv, OneAnswerPerJob
<1>2. ASSUME NEW r \in Runs, adapter'[r] \in Settled
      PROVE  \E x \in acknowledged : x.run = r /\ SettledAs(x.result) = adapter'[r]
  BY <1>2 DEF AnswerInv, RunShowsStoredAnswer
<1> QED BY <1>1, <1>2 DEF AnswerInv, RunShowsStoredAnswer

\* A request of one worker that holds no lock after the step.
LEMMA LockStays ==
    ASSUME RequestType, LockInv, NEW w \in Workers, UNCHANGED jobVars,
           NEW s \in {"idle", "heartbeat", "select", "settle"},
           request' = [request EXCEPT ![w] = s], locked' = [locked EXCEPT ![w] = NoRun],
           \A v \in Workers : v # w => age'[v] = age[v]
    PROVE  LockInv'
<1>1. /\ request'[w] = s /\ locked'[w] = NoRun
      /\ \A v \in Workers : v # w => request'[v] = request[v] /\ locked'[v] = locked[v]
  BY DEF RequestType
<1>2. job' = job /\ expires' = expires
  BY DEF jobVars
<1> QED BY <1>1, <1>2 DEF LockInv, Claimable, UnexpiredAt

LEMMA NotLocking ==
    ASSUME RequestType, LockInv, NEW w \in Workers, request[w] # "lease"
    PROVE  locked = [locked EXCEPT ![w] = NoRun] /\ locked[w] = NoRun
BY DEF LockInv, RequestType

-----------------------------------------------------------------------------
(* The adapter.                                                            *)

LEMMA StartRunKeeps ==
    ASSUME GatewayInv, NEW r \in Runs, StartRun(r)
    PROVE  GatewayInv'
<1>1. /\ adapter' = [adapter EXCEPT ![r] = "enqueue"] /\ deadline' = deadline
      /\ UNCHANGED <<jobVars, accessVars, requestVars, workerVars, acknowledged, beside, processVars>>
  BY DEF StartRun, AdapterFrame
<1>2. AdapterType'
  BY <1>1 DEF GatewayInv, Types, AdapterType, Looping
<1>3. AnswerInv'
  <2>1. \A q \in Runs : adapter'[q] \in Settled => adapter[q] = adapter'[q]
    BY <1>1 DEF GatewayInv, Types, AdapterType, Settled
  <2> QED BY <1>1, <2>1, AnswerStays DEF GatewayInv, jobVars
<1> QED BY <1>1, <1>2, <1>3, JobFrame, AccessFrames, RequestFrame, WorkerFrame, AckFrame,
           ProcessFrame, HoldingFrame, LockFrame DEF GatewayInv, Types, jobVars, requestVars

\* A turn of the polling loop.
LEMMA LoopKeeps ==
    ASSUME GatewayInv, NEW r \in Runs, CheckAbort(r) \/ ReadJob(r) \/ JudgeDeadline(r)
    PROVE  GatewayInv'
<1>0. job \in [Runs -> Settled \cup {"none", "queued", "leased"}] /\ AdapterType
  BY DEF GatewayInv, Types, JobType
<1>1. PICK s \in Looping \cup {"stopped", "timeout", "completed", "failed", "error"} :
         AdapterTo(r, s) /\ (s \in Settled => job[r] = s)
  BY <1>0 DEF CheckAbort, ReadJob, JudgeDeadline, Settled, Looping
<1>2. /\ adapter' = [adapter EXCEPT ![r] = s]
      /\ deadline' = deadline \/ deadline' = [deadline EXCEPT ![r] = 0]
      /\ UNCHANGED <<jobVars, accessVars, requestVars, workerVars, acknowledged, beside,
                     processVars>>
  BY <1>1 DEF AdapterTo, CheckAbort, ReadJob, JudgeDeadline, AdapterFrame
<1>3. AdapterType'
  BY <1>0, <1>2, GatewayAssumption DEF AdapterType, GatewayAssumption
<1>4. AnswerInv'
  <2>1. \A q \in Runs : adapter'[q] \in Settled => adapter[q] = adapter'[q] \/ job[q] = adapter'[q]
    BY <1>0, <1>1, <1>2 DEF AdapterType
  <2> QED BY <1>2, <2>1, AnswerStays DEF GatewayInv, jobVars
<1> QED BY <1>2, <1>3, <1>4, JobFrame, AccessFrames, RequestFrame, WorkerFrame, AckFrame,
           ProcessFrame, HoldingFrame, LockFrame DEF GatewayInv, Types, jobVars, requestVars

\* The job of a resumed run is left as it is.
LEMMA EnqueueJobKeeps ==
    ASSUME GatewayInv, NEW r \in Runs, EnqueueJob(r)
    PROVE  GatewayInv'
<1>0. JobType /\ AdapterType /\ LockInv /\ AnswerInv
  BY DEF GatewayInv, Types
<1>1. PICK s \in {"poll", "error"} : adapter' = [adapter EXCEPT ![r] = s]
  BY DEF EnqueueJob
<1>2. deadline' = deadline \/ deadline' = [deadline EXCEPT ![r] = ResponseTime]
  BY DEF EnqueueJob
<1>3. UNCHANGED <<lease, expires, result, accessVars, requestVars, workerVars, acknowledged,
                  beside, processVars>>
  BY DEF EnqueueJob, AdapterFrame
<1>4. AdapterType'
  BY <1>0, <1>1, <1>2, GatewayAssumption DEF AdapterType, Looping, GatewayAssumption
<1>5. \A q \in Runs : adapter'[q] \in Settled => adapter[q] = adapter'[q]
  BY <1>0, <1>1 DEF AdapterType, Settled
<1>6. CASE job' = job /\ created' = created
  <2>1. AnswerInv'
    BY <1>0, <1>3, <1>5, <1>6, AnswerStays
  <2> QED BY <1>3, <1>4, <1>6, <2>1, JobFrame, AccessFrames, RequestFrame, WorkerFrame, AckFrame,
             ProcessFrame, HoldingFrame, LockFrame DEF GatewayInv, Types, jobVars, requestVars
<1>7. CASE job[r] = "none" /\ job' = [job EXCEPT ![r] = "queued"] /\ created' = Append(created, r)
  <2>1. JobType'
    <3>1. job' \in [Runs -> Settled \cup {"none", "queued", "leased"}] /\ created' \in Seq(Runs)
      BY <1>0, <1>7 DEF JobType
    <3>2. \A q \in Runs : /\ lease[q] = NoLease <=> job'[q] \in {"none", "queued"}
                          /\ result[q] = NoResult <=> job'[q] \notin Settled
      BY <1>0, <1>7 DEF JobType, Settled
    <3> QED BY <1>0, <1>3, <3>1, <3>2 DEF JobType
  <2>2. \A q \in Runs : job'[q] # job[q] => job[q] = "none" /\ job'[q] = "queued"
    BY <1>0, <1>7 DEF JobType
  <2>3. LockInv'
    <3>1. \A w \in Workers : request[w] = "lease" => locked[w] \in Runs
      BY <1>0 DEF LockInv, GatewayInv, Types, RequestType
    <3>2. \A w \in Workers : request[w] = "lease" => job'[locked[w]] = job[locked[w]]
      BY <1>0, <2>2, <3>1 DEF LockInv, Claimable
    <3> QED BY <1>0, <1>3, <3>2 DEF LockInv, Claimable, UnexpiredAt, requestVars
  <2>4. AnswerInv'
    <3>1. \A q \in Runs : job[q] \in Settled => job'[q] = job[q]
      BY <2>2 DEF Settled
    <3>2. OneAnswerPerJob'
      <4> SUFFICES ASSUME NEW x \in acknowledged
                   PROVE  /\ job'[x.run] = SettledAs(x.result)
                          /\ lease[x.run] = x.lease /\ result[x.run] = x.result
        BY <1>3 DEF OneAnswerPerJob
      <4>1. x.run \in Runs /\ job[x.run] = SettledAs(x.result)
            /\ lease[x.run] = x.lease /\ result[x.run] = x.result
        BY <1>0 DEF AnswerInv, OneAnswerPerJob, GatewayInv, Types, AckType
      <4>2. SettledAs(x.result) \in Settled
        BY DEF SettledAs, Settled
      <4> QED BY <3>1, <4>1, <4>2
    <3>3. RunShowsStoredAnswer'
      BY <1>0, <1>3, <1>5 DEF AnswerInv, RunShowsStoredAnswer
    <3>4. \A q \in Runs : job'[q] \in Settled => job[q] = job'[q]
      BY <2>2 DEF Settled
    <3> QED BY <1>0, <1>3, <3>2, <3>3, <3>4 DEF AnswerInv
  <2> QED BY <1>3, <1>4, <2>1, <2>3, <2>4, AccessFrames, RequestFrame, WorkerFrame, AckFrame,
             ProcessFrame, HoldingFrame DEF GatewayInv, Types, requestVars
<1> QED BY <1>6, <1>7 DEF EnqueueJob

-----------------------------------------------------------------------------
(* A worker's claim.                                                       *)

\* A request moves on, or is answered, with no row changed.
LEMMA RequestKeeps ==
    ASSUME GatewayInv, NEW w \in Workers,
           NEW s \in {"idle", "heartbeat", "select", "settle"},
           request' = [request EXCEPT ![w] = s], locked' = [locked EXCEPT ![w] = NoRun],
           NEW n \in 0 .. MaxDelay, age' = [age EXCEPT ![w] = n],
           s = "settle" => answer[w] # NoResult,
           UNCHANGED <<jobVars, adapterVars, workerVars, acknowledged, beside, processVars>>,
           AccessType'
    PROVE  GatewayInv'
<1>1. RequestType'
  BY DEF GatewayInv, Types, RequestType
<1>2. HoldingInv'
  BY DEF GatewayInv, Types, RequestType, HoldingInv, workerVars
<1>3. LockInv'
  <2>1. \A v \in Workers : v # w => age'[v] = age[v]
    BY DEF GatewayInv, Types, RequestType
  <2> QED BY <2>1, LockStays DEF GatewayInv, Types
<1>4. AnswerInv'
  BY AnswerFrame DEF GatewayInv, jobVars, adapterVars
<1> QED BY <1>1, <1>2, <1>3, <1>4, JobFrame, AdapterFrames, WorkerFrame, AckFrame, ProcessFrame
           DEF GatewayInv, Types

LEMMA AuthenticateTypes ==
    ASSUME AccessType, NEW w \in Workers, Authenticate(w)
    PROVE  AccessType'
<1>1. PresenceTime \in Ticks(PresenceTime)
  BY GatewayAssumption DEF GatewayAssumption, Ticks
<1>2. presence' = presence \/ presence' = [presence EXCEPT ![Owner[w]] = PresenceTime]
  BY DEF Authenticate
<1>3. presence' \in [Agents -> Ticks(PresenceTime)]
  BY <1>1, <1>2 DEF AccessType
<1> QED BY <1>3 DEF AccessType, Authenticate

LEMMA BeginKeeps ==
    ASSUME GatewayInv, NEW w \in Workers, BeginClaim(w) \/ BeginSettle(w)
    PROVE  GatewayInv'
<1>1. request[w] = "idle" /\ Authenticate(w)
      /\ UNCHANGED <<jobVars, adapterVars, age, locked, workerVars, acknowledged, beside, processVars>>
  BY DEF BeginClaim, BeginSettle
<1>2. PICK s \in {"heartbeat", "select", "settle"} :
         /\ request' = [request EXCEPT ![w] = s]
         /\ s = "settle" => answer[w] # NoResult
  BY DEF BeginClaim, BeginSettle
<1>3. AccessType'
  BY <1>1, AuthenticateTypes DEF GatewayInv, Types
<1>4. locked' = [locked EXCEPT ![w] = NoRun]
  BY <1>1, NotLocking DEF GatewayInv, Types
<1>5. age[w] \in 0 .. MaxDelay /\ age' = [age EXCEPT ![w] = age[w]]
  BY <1>1 DEF GatewayInv, Types, RequestType
<1> QED BY <1>1, <1>2, <1>3, <1>4, <1>5, RequestKeeps

LEMMA ReplyKeeps ==
    ASSUME GatewayInv, NEW w \in Workers, Reply(w),
           UNCHANGED <<jobVars, accessVars, adapterVars, workerVars, acknowledged, beside, processVars>>
    PROVE  GatewayInv'
<1>1. AccessType'
  BY AccessFrames DEF GatewayInv, Types
<1>2. 0 \in 0 .. MaxDelay
  BY GatewayAssumption DEF GatewayAssumption
<1> QED BY <1>1, <1>2, RequestKeeps DEF Reply

LEMMA HeartbeatKeeps ==
    ASSUME GatewayInv, NEW w \in Workers, Heartbeat(w)
    PROVE  GatewayInv'
<1>1. request[w] = "heartbeat"
      /\ UNCHANGED <<jobVars, accessVars, adapterVars, workerVars, acknowledged, beside, processVars>>
  BY DEF Heartbeat
<1>2. CASE credential[Owner[w]] = "active"
  <2>1. request' = [request EXCEPT ![w] = "select"] /\ age' = age /\ locked' = locked
    BY <1>2 DEF Heartbeat
  <2>2. locked' = [locked EXCEPT ![w] = NoRun]
    BY <1>1, <2>1, NotLocking DEF GatewayInv, Types
  <2>3. age[w] \in 0 .. MaxDelay /\ age' = [age EXCEPT ![w] = age[w]]
    BY <2>1 DEF GatewayInv, Types, RequestType
  <2>4. AccessType'
    BY <1>1, AccessFrames DEF GatewayInv, Types
  <2> QED BY <1>1, <2>1, <2>2, <2>3, <2>4, RequestKeeps
<1>3. CASE credential[Owner[w]] # "active"
  BY <1>1, <1>3, ReplyKeeps DEF Heartbeat
<1> QED BY <1>2, <1>3

\* The selected row is claimable and nobody else's.
LEMMA SelectCandidateKeeps ==
    ASSUME GatewayInv, NEW w \in Workers, SelectCandidate(w)
    PROVE  GatewayInv'
<1>0. RequestType /\ LockInv /\ HoldingInv /\ created \in Seq(Runs)
  BY DEF GatewayInv, Types, JobType
<1>1. request[w] = "select"
      /\ UNCHANGED <<jobVars, accessVars, adapterVars, workerVars, acknowledged, beside, processVars>>
  BY DEF SelectCandidate
<1>2. CASE Reply(w)
  BY <1>1, <1>2, ReplyKeeps
<1>3. CASE ~Reply(w)
  <2>1. PICK i \in 1 .. Len(created) :
           /\ Claimable(created[i], w) /\ ~Locked(created[i])
           /\ locked' = [locked EXCEPT ![w] = created[i]]
           /\ request' = [request EXCEPT ![w] = "lease"] /\ age' = age
    BY <1>3 DEF SelectCandidate
  <2>2. PICK r \in Runs : r = created[i]
    BY <1>0
  <2>3. RequestType'
    BY <1>0, <2>1, <2>2 DEF RequestType
  <2>4. HoldingInv'
    BY <1>0, <1>1, <2>1 DEF RequestType, HoldingInv, workerVars
  <2>5. r # NoRun
    BY GatewayAssumption DEF GatewayAssumption
  <2>6. /\ request'[w] = "lease" /\ locked'[w] = r
        /\ \A v \in Workers : v # w => request'[v] = request[v] /\ locked'[v] = locked[v]
    BY <1>0, <2>1, <2>2 DEF RequestType
  <2>7. job' = job /\ expires' = expires
    BY <1>1 DEF jobVars
  <2>8. \A v \in Workers : locked[v] # r
    BY <2>1, <2>2 DEF Locked
  <2>9. LockInv'
    BY <1>0, <2>1, <2>2, <2>5, <2>6, <2>7, <2>8 DEF LockInv, Claimable, UnexpiredAt
  <2> QED BY <1>1, <2>3, <2>4, <2>9, JobFrame, AccessFrames, AdapterFrames, WorkerFrame, AckFrame,
             ProcessFrame, AnswerFrame DEF GatewayInv, Types, jobVars, adapterVars
<1> QED BY <1>2, <1>3

\* The claim commits on a row that had no answer.
LEMMA CommitLeaseKeeps ==
    ASSUME GatewayInv, NEW w \in Workers, CommitLease(w)
    PROVE  GatewayInv'
<1>0. JobType /\ RequestType /\ WorkerType /\ AckType /\ LockInv /\ HoldingInv /\ AnswerInv
  BY DEF GatewayInv, Types
<1>1. request[w] = "lease" /\ Reply(w)
      /\ UNCHANGED <<result, created, accessVars, adapterVars, answer, acknowledged, processVars>>
  BY DEF CommitLease
<1>2. locked[w] \in Runs /\ Claimable(locked[w], w)
      /\ \A v \in Workers : locked[v] = locked[w] => v = w
  BY <1>0, <1>1 DEF LockInv, RequestType
<1>3. PICK r \in Runs : r = locked[w]
  BY <1>2
<1>4. PICK id \in LeaseIds :
        /\ job' = [job EXCEPT ![r] = "leased"]
        /\ lease' = [lease EXCEPT ![r] = id]
        /\ expires' = [expires EXCEPT ![r] = LeaseTime - age[w]]
        /\ \/ held' = [held EXCEPT ![w] = r] /\ heldLease' = [heldLease EXCEPT ![w] = id]
           \/ held' = held /\ heldLease' = heldLease
  BY <1>3 DEF CommitLease
<1>5. id # NoLease /\ r # NoRun
  BY GatewayAssumption DEF GatewayAssumption
<1>6. job[r] \in {"queued", "leased"}
  BY <1>2, <1>3 DEF Claimable
<1>7. JobType'
  <2>1. LeaseTime - age[w] \in Ticks(LeaseTime)
    BY <1>0, GatewayAssumption DEF RequestType, GatewayAssumption, Ticks
  <2>2. /\ job' \in [Runs -> Settled \cup {"none", "queued", "leased"}]
        /\ lease' \in [Runs -> LeaseIds \cup {NoLease}]
        /\ expires' \in [Runs -> Ticks(LeaseTime)]
    BY <1>0, <1>4, <2>1 DEF JobType
  <2>3. \A q \in Runs : /\ lease'[q] = NoLease <=> job'[q] \in {"none", "queued"}
                        /\ result[q] = NoResult <=> job'[q] \notin Settled
    BY <1>0, <1>4, <1>5, <1>6 DEF JobType, Settled
  <2> QED BY <1>0, <1>1, <2>2, <2>3 DEF JobType
<1>8. RequestType' /\ WorkerType'
  BY <1>0, <1>1, <1>4, GatewayAssumption DEF RequestType, WorkerType, Reply, GatewayAssumption
<1>9. HoldingInv'
  BY <1>0, <1>1, <1>4, <1>5 DEF HoldingInv, WorkerType, RequestType, Reply
<1>10. LockInv'
  <2>1. /\ request'[w] = "idle" /\ locked'[w] = NoRun
        /\ \A v \in Workers : v # w => /\ request'[v] = request[v] /\ locked'[v] = locked[v]
                                       /\ age'[v] = age[v]
    BY <1>0, <1>1 DEF RequestType, Reply
  <2>2. \A q \in Runs : q # r => job'[q] = job[q] /\ expires'[q] = expires[q]
    BY <1>0, <1>4 DEF JobType
  <2>3. \A v \in Workers : v # w /\ request[v] = "lease" => locked[v] \in Runs /\ locked[v] # r
    BY <1>0, <1>2, <1>3 DEF LockInv, RequestType
  <2> QED BY <1>0, <2>1, <2>2, <2>3 DEF LockInv, Claimable, UnexpiredAt
<1>11. AnswerInv'
  <2>1. \A q \in Runs : job[q] \in Settled => job'[q] = job[q] /\ lease'[q] = lease[q]
    BY <1>0, <1>4, <1>6 DEF JobType, Settled
  <2>2. \A q \in Runs : job'[q] \in Settled => job[q] \in Settled
    BY <1>0, <1>4 DEF JobType, Settled
  <2>3. OneAnswerPerJob'
    <3> SUFFICES ASSUME NEW x \in acknowledged
                 PROVE  /\ job'[x.run] = SettledAs(x.result)
                        /\ lease'[x.run] = x.lease /\ result[x.run] = x.result
      BY <1>1 DEF OneAnswerPerJob
    <3>1. x.run \in Runs /\ job[x.run] = SettledAs(x.result)
          /\ lease[x.run] = x.lease /\ result[x.run] = x.result
      BY <1>0 DEF AnswerInv, OneAnswerPerJob, AckType
    <3>2. SettledAs(x.result) \in Settled
      BY DEF SettledAs, Settled
    <3> QED BY <2>1, <3>1, <3>2
  <2>4. RunShowsStoredAnswer'
    BY <1>0, <1>1 DEF AnswerInv, RunShowsStoredAnswer, adapterVars
  <2> QED BY <1>0, <1>1, <2>1, <2>2, <2>3, <2>4 DEF AnswerInv
<1>12. AckType'
  <2> DEFINE rivals == {locked[v] : v \in {u \in Workers \ {w} : request[u] = "lease"}}
  <2>1. rivals \in SUBSET (Runs \cup {NoRun}) /\ beside' = [beside EXCEPT ![r] = rivals]
    BY <1>0, <1>3 DEF CommitLease, RequestType
  <2> HIDE DEF rivals
  <2> QED BY <1>0, <1>1, <2>1 DEF AckType
<1> QED BY <1>1, <1>7, <1>8, <1>9, <1>10, <1>11, <1>12, AccessFrames, AdapterFrames, ProcessFrame
           DEF GatewayInv, Types

-----------------------------------------------------------------------------
(* A worker's result.                                                      *)

LEMMA HolderKeeps ==
    ASSUME GatewayInv, NEW w \in Workers, Answer(w) \/ Abandon(w)
    PROVE  GatewayInv'
<1>1. UNCHANGED <<jobVars, accessVars, adapterVars, requestVars, acknowledged, beside, processVars>>
  BY DEF Answer, Abandon
<1>2. CASE Answer(w)
  <2>1. PICK res \in Results : answer' = [answer EXCEPT ![w] = res] /\ held' = held
                              /\ heldLease' = heldLease /\ held[w] # NoRun
    BY <1>2 DEF Answer
  <2>2. res # NoResult
    BY GatewayAssumption DEF GatewayAssumption, Results
  <2>3. WorkerType' /\ HoldingInv'
    BY <1>1, <2>1, <2>2 DEF GatewayInv, Types, WorkerType, HoldingInv, requestVars
  <2> QED BY <1>1, <2>3, JobFrame, AccessFrames, AdapterFrames, RequestFrame, AckFrame, ProcessFrame,
             LockFrame, AnswerFrame DEF GatewayInv, Types, jobVars, adapterVars, requestVars
<1>3. CASE Abandon(w)
  <2>1. /\ held' = [held EXCEPT ![w] = NoRun] /\ heldLease' = [heldLease EXCEPT ![w] = NoLease]
        /\ answer' = [answer EXCEPT ![w] = NoResult] /\ request[w] = "idle" /\ request' = request
    BY <1>1, <1>3 DEF Abandon, Forget, requestVars
  <2>2. WorkerType' /\ HoldingInv'
    BY <2>1 DEF GatewayInv, Types, WorkerType, HoldingInv
  <2> QED BY <1>1, <2>2, JobFrame, AccessFrames, AdapterFrames, RequestFrame, AckFrame, ProcessFrame,
             LockFrame, AnswerFrame DEF GatewayInv, Types, jobVars, adapterVars, requestVars
<1> QED BY <1>2, <1>3

\* An answer is stored once, under the lease the row has.
LEMMA SettleJobKeeps ==
    ASSUME GatewayInv, NEW w \in Workers, SettleJob(w)
    PROVE  GatewayInv'
<1>0. JobType /\ RequestType /\ WorkerType /\ AckType /\ LockInv /\ HoldingInv /\ AnswerInv
  BY DEF GatewayInv, Types
<1>1. /\ held[w] \in Runs /\ heldLease[w] \in LeaseIds /\ answer[w] \in Results
      /\ request[w] = "settle"
  BY <1>0 DEF SettleJob, HoldingInv, WorkerType
<1>2. PICK r \in Runs, id \in LeaseIds, res \in Results :
         r = held[w] /\ id = heldLease[w] /\ res = answer[w]
  BY <1>1
<1> DEFINE acked == [run |-> r, lease |-> id, result |-> res]
<1>3. /\ ~Locked(r) /\ Reply(w)
      /\ UNCHANGED <<lease, expires, created, accessVars, adapterVars, beside, processVars>>
  BY <1>2 DEF SettleJob
<1>4. /\ HoldsLease(w) => job' = [job EXCEPT ![r] = SettledAs(res)] /\ result' = [result EXCEPT ![r] = res]
      /\ ~HoldsLease(w) => job' = job /\ result' = result
      /\ acknowledged' = IF HoldsLease(w) \/ IsRepeat(w) THEN acknowledged \cup {acked} ELSE acknowledged
  BY <1>2 DEF SettleJob
<1>5. /\ HoldsLease(w) => job[r] = "leased" /\ lease[r] = id
      /\ IsRepeat(w) => job[r] \in Settled /\ lease[r] = id /\ result[r] = res
  BY <1>2 DEF HoldsLease, IsRepeat
<1>6. SettledAs(res) \in Settled /\ res # NoResult
  BY GatewayAssumption DEF SettledAs, Settled, GatewayAssumption, Results
<1>7. \/ /\ held' = [held EXCEPT ![w] = NoRun] /\ heldLease' = [heldLease EXCEPT ![w] = NoLease]
         /\ answer' = [answer EXCEPT ![w] = NoResult]
      \/ held' = held /\ heldLease' = heldLease /\ answer' = answer
  BY DEF SettleJob, Forget, workerVars
<1>8. WorkerType' /\ RequestType'
  BY <1>0, <1>3, <1>7, GatewayAssumption DEF WorkerType, RequestType, Reply, GatewayAssumption
<1>9. HoldingInv'
  <2>1. request'[w] = "idle" /\ \A v \in Workers : v # w => request'[v] = request[v]
    BY <1>0, <1>3 DEF RequestType, Reply
  <2> QED BY <1>0, <1>7, <2>1 DEF HoldingInv, WorkerType
<1>10. acked \in [run : Runs, lease : LeaseIds, result : Results]
  OBVIOUS
<1>11. acked.run = r /\ acked.lease = id /\ acked.result = res
  OBVIOUS
<1> HIDE DEF acked
<1>12. AckType'
  BY <1>0, <1>3, <1>4, <1>10 DEF AckType
<1>13. \A x \in acknowledged : x.run \in Runs /\ job[x.run] = SettledAs(x.result)
          /\ lease[x.run] = x.lease /\ result[x.run] = x.result /\ job[x.run] \in Settled
  BY <1>0 DEF AnswerInv, OneAnswerPerJob, AckType, SettledAs, Settled
<1>14. acknowledged \subseteq acknowledged'
  BY <1>4
<1>15. RunShowsStoredAnswer'
  BY <1>0, <1>3, <1>14 DEF AnswerInv, RunShowsStoredAnswer, adapterVars
<1>16. CASE HoldsLease(w)
  <2>1. /\ job' \in [Runs -> Settled \cup {"none", "queued", "leased"}] /\ job'[r] = SettledAs(res)
        /\ result' \in [Runs -> Results \cup {NoResult}] /\ result'[r] = res
        /\ \A q \in Runs : q # r => job'[q] = job[q] /\ result'[q] = result[q]
    BY <1>0, <1>4, <1>6, <1>16 DEF JobType
  <2>2. JobType'
    <3>1. \A q \in Runs : /\ lease[q] = NoLease <=> job'[q] \in {"none", "queued"}
                          /\ result'[q] = NoResult <=> job'[q] \notin Settled
      <4>1. SettledAs(res) \notin {"none", "queued"} /\ job[r] \notin {"none", "queued"}
        BY <1>5, <1>16 DEF SettledAs
      <4> QED BY <1>0, <1>6, <2>1, <4>1 DEF JobType
    <3> QED BY <1>0, <1>3, <2>1, <3>1 DEF JobType
  <2>3. LockInv'
    <3>1. \A v \in Workers : request[v] = "lease" => locked[v] \in Runs /\ locked[v] # r
      BY <1>0, <1>3 DEF LockInv, RequestType, Locked
    <3>2. /\ request'[w] = "idle" /\ locked'[w] = NoRun
          /\ \A v \in Workers : v # w => /\ request'[v] = request[v] /\ locked'[v] = locked[v]
                                         /\ age'[v] = age[v]
      BY <1>0, <1>3 DEF RequestType, Reply
    <3>3. expires' = expires
      BY <1>3
    <3> QED BY <1>0, <2>1, <3>1, <3>2, <3>3 DEF LockInv, Claimable, UnexpiredAt
  <2>4. acknowledged' = acknowledged \cup {acked} /\ lease' = lease
    BY <1>3, <1>4, <1>16
  <2>5. \A x \in acknowledged : x.run # r
    BY <1>5, <1>13, <1>16 DEF Settled
  <2>6. OneAnswerPerJob'
    <3> SUFFICES ASSUME NEW x \in acknowledged \cup {acked}
                 PROVE  /\ job'[x.run] = SettledAs(x.result)
                        /\ lease[x.run] = x.lease /\ result'[x.run] = x.result
      BY <2>4 DEF OneAnswerPerJob
    <3>1. CASE x \in acknowledged
      BY <1>13, <2>1, <2>5, <3>1
    <3>2. CASE x = acked
      BY <1>5, <1>11, <1>16, <2>1, <3>2
    <3> QED BY <3>1, <3>2
  <2>7. ASSUME NEW q \in Runs, job'[q] \in Settled
        PROVE  /\ job'[q] = SettledAs(result'[q])
               /\ \E x \in acknowledged' : x.run = q /\ SettledAs(x.result) = job'[q]
    <3>1. CASE q = r
      BY <1>11, <2>1, <2>4, <3>1
    <3>2. CASE q # r
      BY <1>0, <1>14, <2>1, <2>7, <3>2 DEF AnswerInv
    <3> QED BY <3>1, <3>2
  <2>8. AnswerInv'
    BY <1>15, <2>6, <2>7 DEF AnswerInv
  <2> QED BY <1>3, <1>8, <1>9, <1>12, <2>2, <2>3, <2>8, AccessFrames, AdapterFrames, ProcessFrame
             DEF GatewayInv, Types
<1>17. CASE ~HoldsLease(w)
  <2>1. job' = job /\ result' = result /\ lease' = lease /\ expires' = expires /\ created' = created
    BY <1>3, <1>4, <1>17
  <2>2. JobType'
    BY <1>0, <2>1 DEF JobType
  <2>3. LockInv'
    <3>1. \A v \in Workers : v # w => age'[v] = age[v]
      BY <1>0, <1>3 DEF RequestType, Reply
    <3> QED BY <1>0, <1>3, <2>1, <3>1, LockStays DEF Reply, jobVars
  <2>4. OneAnswerPerJob'
    <3> SUFFICES ASSUME NEW x \in acknowledged'
                 PROVE  /\ job[x.run] = SettledAs(x.result)
                        /\ lease[x.run] = x.lease /\ result[x.run] = x.result
      BY <2>1 DEF OneAnswerPerJob
    <3>1. CASE x \in acknowledged
      BY <1>13, <3>1
    <3>2. CASE x \notin acknowledged
      <4>1. x = acked /\ IsRepeat(w)
        BY <1>4, <1>17, <3>2
      <4>2. job[r] = SettledAs(result[r])
        BY <1>0, <1>5, <4>1 DEF AnswerInv
      <4> QED BY <1>5, <1>11, <4>1, <4>2
    <3> QED BY <3>1, <3>2
  <2>5. AnswerInv'
    BY <1>0, <1>14, <1>15, <2>1, <2>4 DEF AnswerInv
  <2> QED BY <1>3, <1>8, <1>9, <1>12, <2>2, <2>3, <2>5, AccessFrames, AdapterFrames, ProcessFrame
             DEF GatewayInv, Types
<1> QED BY <1>16, <1>17

-----------------------------------------------------------------------------
(* Owners, the server and the clock.                                       *)

LEMMA AccessKeeps ==
    ASSUME GatewayInv, NEW a \in Agents,
           \/ RotateCredential(a) \/ RevokeCredential(a)
           \/ \E w \in WorkersOf(a) : ReceiveToken(w) \/ LoseGrant(w)
    PROVE  GatewayInv'
<1>0. AccessType
  BY DEF GatewayInv, Types
<1>1. UNCHANGED <<jobVars, adapterVars, requestVars, workerVars, acknowledged, beside, processVars>>
  BY DEF RotateCredential, RevokeCredential, ReceiveToken, LoseGrant, AccessFrame
<1>2. credential' \in [Agents -> {"active", "revoked"}] /\ presence' \in [Agents -> Ticks(PresenceTime)]
      /\ token' \subseteq Workers
  BY <1>0 DEF AccessType, RotateCredential, RevokeCredential, ReceiveToken, LoseGrant, WorkersOf
<1>3. binding' \in [Agents -> BOOLEAN]
  <2>1. CASE binding' = [binding EXCEPT ![a] = TRUE]
    BY <1>0, <2>1 DEF AccessType
  <2>2. CASE binding' = [binding EXCEPT ![a] = FALSE]
    BY <1>0, <2>2 DEF AccessType
  <2>3. CASE binding' = binding
    BY <1>0, <2>3 DEF AccessType
  <2> QED BY <2>1, <2>2, <2>3 DEF RotateCredential, RevokeCredential, ReceiveToken, LoseGrant
<1>4. AccessType'
  BY <1>2, <1>3 DEF AccessType
<1> QED BY <1>1, <1>4, JobFrame, AdapterFrames, RequestFrame, WorkerFrame, AckFrame, ProcessFrame,
           HoldingFrame, LockFrame, AnswerFrame DEF GatewayInv, Types, jobVars, adapterVars, requestVars

\* Time passes: what had run out by a request's clock still has.
LEMMA TickKeeps ==
    ASSUME GatewayInv, Tick
    PROVE  GatewayInv'
<1>0. JobType /\ AccessType /\ AdapterType /\ RequestType /\ LockInv /\ MaxDelay \in Nat
      /\ LeaseTime \in Nat /\ PresenceTime \in Nat /\ ResponseTime \in Nat
  BY GatewayAssumption DEF GatewayInv, Types, GatewayAssumption
<1>1. UNCHANGED <<job, lease, result, created, credential, binding, token, adapter,
                  request, locked, workerVars, acknowledged, beside, processVars>>
  BY DEF Tick
<1>2. expires' = [r \in Runs |-> Earlier(expires[r])]
      /\ \A r \in Runs : expires[r] \in Ticks(LeaseTime)
  BY <1>0 DEF Tick, JobType
<1>3. \A n \in Ticks(LeaseTime) : Earlier(n) \in Ticks(LeaseTime)
  BY <1>0 DEF Ticks, Earlier
<1>4. JobType'
  <2>1. expires' \in [Runs -> Ticks(LeaseTime)]
    BY <1>2, <1>3
  <2> QED BY <1>0, <1>1, <2>1 DEF JobType
<1>5. AccessType'
  <2>1. \A n \in Ticks(PresenceTime) : Earlier(n) \in Ticks(PresenceTime)
    BY <1>0 DEF Ticks, Earlier
  <2>2. presence' \in [Agents -> Ticks(PresenceTime)]
    BY <1>0, <2>1 DEF Tick, AccessType
  <2> QED BY <1>0, <1>1, <2>2 DEF AccessType
<1>6. AdapterType'
  <2>1. deadline' \in [Runs -> 0 .. ResponseTime]
    BY <1>0 DEF Tick, AdapterType
  <2> QED BY <1>0, <1>1, <2>1 DEF AdapterType
<1>7. /\ age' \in [Workers -> 0 .. MaxDelay]
      /\ \A w \in Workers : request[w] = "lease" => age'[w] = age[w] + 1 /\ age[w] < MaxDelay
  BY <1>0 DEF Tick, RequestType
<1>8. RequestType'
  BY <1>0, <1>1, <1>7 DEF RequestType
<1>9. LockInv'
  <2> SUFFICES ASSUME NEW w \in Workers, request[w] = "lease"
               PROVE  Claimable(locked[w], w)'
    BY <1>0, <1>1 DEF LockInv
  <2>1. locked[w] \in Runs /\ Claimable(locked[w], w)
    BY <1>0 DEF LockInv, RequestType
  <2>2. PICK r \in Runs : r = locked[w]
    BY <2>1
  <2>3. expires'[r] = Earlier(expires[r]) /\ expires[r] \in (-MaxDelay) .. LeaseTime
        /\ age[w] \in 0 .. MaxDelay /\ age'[w] = age[w] + 1 /\ age[w] < MaxDelay
    BY <1>0, <1>2, <1>7 DEF RequestType, Ticks
  <2>4. ~(expires[r] + age[w] > 0) => ~(expires'[r] + age'[w] > 0)
    BY <1>0, <2>3 DEF Earlier
  <2> QED BY <1>1, <2>1, <2>2, <2>4 DEF Claimable, UnexpiredAt
<1> QED BY <1>1, <1>4, <1>5, <1>6, <1>8, <1>9, WorkerFrame, AckFrame, ProcessFrame, HoldingFrame,
           AnswerFrame DEF GatewayInv, Types

LEMMA ShutdownKeeps ==
    ASSUME GatewayInv, Shutdown
    PROVE  GatewayInv'
<1>1. UNCHANGED <<jobVars, accessVars, adapterVars, requestVars, workerVars, acknowledged, beside>>
  BY DEF Shutdown
<1>2. ProcessType'
  <2>1. stopping' \in BOOLEAN
    BY DEF Shutdown
  <2>2. restarts' \in Nat
    BY DEF Shutdown, GatewayInv, Types, ProcessType
  <2> QED BY <2>1, <2>2 DEF ProcessType
<1> QED BY <1>1, <1>2, JobFrame, AccessFrames, AdapterFrames, RequestFrame, WorkerFrame, AckFrame,
           HoldingFrame, LockFrame, AnswerFrame DEF GatewayInv, Types, jobVars, adapterVars, requestVars

\* Interrupted runs start over with the jobs they have.
LEMMA RestartKeeps ==
    ASSUME GatewayInv, Restart
    PROVE  GatewayInv'
<1>1. UNCHANGED <<jobVars, accessVars, workerVars, acknowledged, beside>>
  BY DEF Restart
<1>2. adapter' = [r \in Runs |-> IF adapter[r] \in AtWork THEN "enqueue" ELSE adapter[r]]
  BY DEF Restart
<1>3. AdapterType'
  <2>1. adapter' \in [Runs -> Looping \cup {"idle", "enqueue", "completed", "failed",
                                           "timeout", "stopped", "error"}]
    BY <1>2 DEF GatewayInv, Types, AdapterType
  <2>2. deadline' \in [Runs -> 0 .. ResponseTime]
    BY GatewayAssumption DEF Restart, GatewayAssumption
  <2> QED BY <2>1, <2>2 DEF AdapterType
<1>4. /\ request' = [w \in Workers |-> "idle"] /\ age' = [w \in Workers |-> 0]
      /\ locked' = [w \in Workers |-> NoRun]
  BY DEF Restart
<1>5. RequestType' /\ LockInv'
  BY <1>4, GatewayAssumption DEF RequestType, LockInv, GatewayAssumption
<1>6. HoldingInv'
  BY <1>1, <1>4 DEF GatewayInv, HoldingInv, workerVars
<1>7. ProcessType'
  <2>1. stopping' \in BOOLEAN
    BY DEF Restart
  <2>2. restarts' \in Nat
    BY DEF Restart, GatewayInv, Types, ProcessType
  <2> QED BY <2>1, <2>2 DEF ProcessType
<1>8. AnswerInv'
  <2>1. \A r \in Runs : adapter'[r] \in Settled => adapter[r] = adapter'[r]
    BY <1>2 DEF Settled
  <2> QED BY <1>1, <2>1, AnswerStays DEF GatewayInv, jobVars
<1> QED BY <1>1, <1>3, <1>5, <1>6, <1>7, <1>8, JobFrame, AccessFrames, WorkerFrame, AckFrame
           DEF GatewayInv, Types

-----------------------------------------------------------------------------
LEMMA GatewayInitially == Init => GatewayInv
<1> SUFFICES ASSUME Init PROVE GatewayInv
  OBVIOUS
<1>1. -MaxDelay \in Ticks(LeaseTime) /\ -MaxDelay \in Ticks(PresenceTime)
  BY GatewayAssumption DEF GatewayAssumption, Ticks
<1>2. JobType
  BY <1>1 DEF Init, JobType, Settled
<1>3. AccessType
  <2>1. binding \in [Agents -> BOOLEAN]
    BY DEF Init
  <2>2. credential \in [Agents -> {"active", "revoked"}] /\ presence \in [Agents -> Ticks(PresenceTime)]
        /\ token \subseteq Workers
    BY <1>1 DEF Init
  <2> QED BY <2>1, <2>2 DEF AccessType
<1>4. AdapterType /\ RequestType /\ WorkerType
  BY GatewayAssumption DEF Init, AdapterType, RequestType, WorkerType, GatewayAssumption
<1>5. AckType
  BY DEF Init, AckType
<1>6. ProcessType
  <2>1. stopping \in BOOLEAN
    BY DEF Init
  <2>2. restarts \in Nat
    BY DEF Init
  <2> QED BY <2>1, <2>2 DEF ProcessType
<1>7. HoldingInv /\ LockInv
  BY DEF Init, HoldingInv, LockInv
<1>8. AnswerInv
  BY DEF Init, AnswerInv, OneAnswerPerJob, RunShowsStoredAnswer, Settled
<1> QED BY <1>2, <1>3, <1>4, <1>5, <1>6, <1>7, <1>8 DEF GatewayInv, Types

LEMMA GatewayInductive == GatewayInv /\ [Next]_vars => GatewayInv'
<1> SUFFICES ASSUME GatewayInv, [Next]_vars PROVE GatewayInv'
  OBVIOUS
<1>1. ASSUME NEW r \in Runs,
             \/ StartRun(r) \/ EnqueueJob(r)
             \/ CheckAbort(r) \/ ReadJob(r) \/ JudgeDeadline(r)
      PROVE  GatewayInv'
  BY <1>1, StartRunKeeps, EnqueueJobKeeps, LoopKeeps
<1>2. ASSUME NEW w \in Workers,
             \/ BeginClaim(w) \/ Heartbeat(w) \/ SelectCandidate(w) \/ CommitLease(w)
             \/ Answer(w) \/ BeginSettle(w) \/ SettleJob(w) \/ Abandon(w)
      PROVE  GatewayInv'
  BY <1>2, BeginKeeps, HeartbeatKeeps, SelectCandidateKeeps, CommitLeaseKeeps, HolderKeeps,
     SettleJobKeeps
<1>3. ASSUME NEW a \in Managed,
             \/ RotateCredential(a) \/ RevokeCredential(a)
             \/ \E w \in WorkersOf(a) : ReceiveToken(w) \/ LoseGrant(w)
      PROVE  GatewayInv'
  BY <1>3, AccessKeeps, GatewayAssumption DEF GatewayAssumption
<1>4. CASE Tick \/ Shutdown \/ Restart
  BY <1>4, TickKeeps, ShutdownKeeps, RestartKeeps
<1>5. CASE UNCHANGED vars
  BY <1>5, JobFrame, AccessFrames, AdapterFrames, RequestFrame, WorkerFrame, AckFrame, ProcessFrame,
     HoldingFrame, LockFrame, AnswerFrame
     DEF vars, GatewayInv, Types, jobVars, adapterVars, requestVars
<1> QED BY <1>1, <1>2, <1>3, <1>4, <1>5 DEF Next

\* The invariant holds of every behaviour of the specification.
LEMMA GatewayAlways == Spec => []GatewayInv
BY GatewayInitially, GatewayInductive, PTL DEF Spec

\* Jobs, credentials, adapters, requests and bridges keep their types, and the
\* table's CHECK of leases and results holds (agent-gateway-repository.ts).
THEOREM GatewayTypeCorrect == Spec => []TypeOK
<1>1. GatewayInv => TypeOK
  BY TypesAreTypeOK DEF GatewayInv
<1> QED BY <1>1, GatewayAlways, PTL

\* The row a claim has locked is still claimable when the claim commits,
\* however long it waited (claimJob).
THEOREM LockedRowsAreClaimable == Spec => []LockedRowClaimable
<1>1. GatewayInv => LockedRowClaimable
  BY DEF GatewayInv, LockInv, LockedRowClaimable
<1> QED BY <1>1, GatewayAlways, PTL

\* A job has one acknowledged answer, whatever bridges send, lose and repeat
\* (settleJob).
THEOREM OneAnswer == Spec => []OneAnswerPerJob
<1>1. GatewayInv => OneAnswerPerJob
  BY DEF GatewayInv, AnswerInv
<1> QED BY <1>1, GatewayAlways, PTL

\* A run that ended completed or failed shows an answer that was stored, across
\* any number of restarts (gateway adapter, enqueueJob).
THEOREM RunsShowAnswers == Spec => []RunShowsStoredAnswer
<1>1. GatewayInv => RunShowsStoredAnswer
  BY DEF GatewayInv, AnswerInv
<1> QED BY <1>1, GatewayAlways, PTL

\* What a step does to the row of a job.
LEMMA RowSteps ==
    ASSUME GatewayInv, [Next]_vars, NEW r \in Runs
    PROVE  /\ job[r] \in Settled =>
                job'[r] = job[r] /\ lease'[r] = lease[r] /\ result'[r] = result[r]
           /\ job[r] = "leased" /\ lease'[r] # lease[r] => expires[r] <= 0
<1>0. JobType /\ LockInv /\ RequestType
  BY DEF GatewayInv, Types
<1>1. CASE job' = job /\ lease' = lease /\ result' = result
  BY <1>1
<1>2. ASSUME NEW q \in Runs, EnqueueJob(q)
      PROVE  lease' = lease /\ result' = result /\ (job[r] # "none" => job'[r] = job[r])
  BY <1>0, <1>2 DEF EnqueueJob, JobType
<1>3. ASSUME NEW w \in Workers, CommitLease(w)
      PROVE  /\ job[r] \in Settled =>
                  job'[r] = job[r] /\ lease'[r] = lease[r] /\ result'[r] = result[r]
             /\ job[r] = "leased" /\ lease'[r] # lease[r] => expires[r] <= 0
  <2>1. request[w] = "lease" /\ locked[w] \in Runs /\ Claimable(locked[w], w) /\ result' = result
    BY <1>0, <1>3 DEF CommitLease, LockInv, RequestType
  <2>2. CASE r = locked[w]
    <3>1. job[r] \notin Settled
      BY <2>1, <2>2 DEF Claimable, Settled
    <3>2. job[r] = "leased" => ~(expires[r] + age[w] > 0)
      BY <2>1, <2>2 DEF Claimable, UnexpiredAt
    <3>3. expires[r] \in (-MaxDelay) .. LeaseTime /\ age[w] \in 0 .. MaxDelay /\ MaxDelay \in Nat
          /\ LeaseTime \in Nat
      BY <1>0, GatewayAssumption DEF JobType, RequestType, Ticks, GatewayAssumption
    <3> QED BY <3>1, <3>2, <3>3
  <2>3. CASE r # locked[w]
    <3>1. job'[r] = job[r] /\ lease'[r] = lease[r]
      BY <1>0, <1>3, <2>3 DEF CommitLease, JobType
    <3> QED BY <2>1, <3>1
  <2> QED BY <2>2, <2>3
<1>4. ASSUME NEW w \in Workers, SettleJob(w)
      PROVE  /\ lease' = lease
             /\ job[r] \in Settled => job'[r] = job[r] /\ result'[r] = result[r]
  <2>1. lease' = lease
    BY <1>4 DEF SettleJob
  <2>2. CASE HoldsLease(w) /\ held[w] = r
    BY <2>1, <2>2 DEF HoldsLease, Settled
  <2>3. CASE ~(HoldsLease(w) /\ held[w] = r)
    <3>1. job'[r] = job[r] /\ result'[r] = result[r]
      BY <1>0, <1>4, <2>3 DEF SettleJob, JobType
    <3> QED BY <2>1, <3>1
  <2> QED BY <2>2, <2>3
<1>5. CASE UNCHANGED jobVars
  BY <1>1, <1>5 DEF jobVars
<1>6. \/ \E q \in Runs : EnqueueJob(q)
      \/ \E w \in Workers : CommitLease(w) \/ SettleJob(w)
      \/ UNCHANGED jobVars
      \/ job' = job /\ lease' = lease /\ result' = result
  <2>1. ASSUME NEW q \in Runs,
               StartRun(q) \/ CheckAbort(q) \/ ReadJob(q) \/ JudgeDeadline(q)
        PROVE  UNCHANGED jobVars
    BY <2>1 DEF StartRun, CheckAbort, ReadJob, JudgeDeadline
  <2>2. ASSUME NEW w \in Workers,
               \/ BeginClaim(w) \/ Heartbeat(w) \/ SelectCandidate(w)
               \/ Answer(w) \/ BeginSettle(w) \/ Abandon(w)
        PROVE  UNCHANGED jobVars
    BY <2>2 DEF BeginClaim, Heartbeat, SelectCandidate, Answer, BeginSettle, Abandon
  <2>3. ASSUME NEW a \in Managed,
               \/ RotateCredential(a) \/ RevokeCredential(a)
               \/ \E w \in WorkersOf(a) : ReceiveToken(w) \/ LoseGrant(w)
        PROVE  UNCHANGED jobVars
    BY <2>3 DEF RotateCredential, RevokeCredential, ReceiveToken, LoseGrant, AccessFrame
  <2>4. CASE Tick
    BY <2>4 DEF Tick
  <2>5. CASE Shutdown \/ Restart
    BY <2>5 DEF Shutdown, Restart
  <2>6. CASE UNCHANGED vars
    BY <2>6 DEF vars
  <2> QED BY <2>1, <2>2, <2>3, <2>4, <2>5, <2>6 DEF Next
<1>7. job[r] \in Settled => job[r] # "none"
  BY DEF Settled
<1> QED BY <1>1, <1>2, <1>3, <1>4, <1>5, <1>6, <1>7

\* No step leases a settled job again or changes its answer (claimJob,
\* settleJob, enqueueJob).
THEOREM SettledJobsStay == Spec => SettledJobStays
<1>1. GatewayInv /\ [Next]_vars =>
        [\A r \in Runs : job[r] \in Settled =>
           job'[r] = job[r] /\ lease'[r] = lease[r] /\ result'[r] = result[r]]_vars
  BY RowSteps
<1> QED BY <1>1, GatewayAlways, PTL DEF Spec, SettledJobStays

\* No lease is taken over before it has run out by the real clock, whatever
\* the delays between a request's clock and its commit (claimJob).
THEOREM LeasesAreNotStolen == Spec => LeaseNotStolen
<1>1. GatewayInv /\ [Next]_vars =>
        [\A r \in Runs :
           job[r] = "leased" /\ lease'[r] # lease[r] => expires[r] <= 0]_vars
  BY RowSteps
<1> QED BY <1>1, GatewayAlways, PTL DEF Spec, LeaseNotStolen

-----------------------------------------------------------------------------
(* Two unexpired leases of one Agent.  claimJob looks for a valid lease of *)
(* the Agent and leases a row in one statement, but two claims in flight   *)
(* do not see each other.  What a claim does see when it selects its row   *)
(* stays as it is for its own clock, except for the claims that commit     *)
(* before it: those had it beside them.                                    *)

\* While a claim waits for its commit, every lease of its Agent has run out by
\* the claim's own clock, or was granted beside it.
ClaimSeesItsRivals ==
    \A w \in Workers : request[w] = "lease" =>
        \A r \in Runs : Target[r] = Owner[w] /\ job[r] = "leased" =>
            ~UnexpiredAt(r, w) \/ locked[w] \in beside[r]

RivalInv == SecondLeaseClaimedAtOnce /\ ClaimSeesItsRivals

LEMMA ClockTypes ==
    ASSUME GatewayInv
    PROVE  /\ \A r \in Runs : expires[r] \in Int /\ -MaxDelay <= expires[r]
           /\ \A w \in Workers : age[w] \in Nat /\ age[w] <= MaxDelay
           /\ MaxDelay \in Nat /\ LeaseTime \in Nat
BY GatewayAssumption
   DEF GatewayInv, Types, JobType, RequestType, Ticks, GatewayAssumption

\* No lease is granted or prolonged, no row is selected, and leases that had
\* run out by a claim's clock still have.
LEMMA RivalsStay ==
    ASSUME GatewayInv, RivalInv, beside' = beside,
           \A r \in Runs : job'[r] = "leased" =>
               job[r] = "leased" /\ (expires'[r] > 0 => expires[r] > 0),
           \A w \in Workers : request'[w] = "lease" =>
               /\ request[w] = "lease" /\ locked'[w] = locked[w]
               /\ \A r \in Runs : ~UnexpiredAt(r, w) => ~(expires'[r] + age'[w] > 0)
    PROVE  RivalInv'
<1>1. SecondLeaseClaimedAtOnce'
  BY DEF RivalInv, SecondLeaseClaimedAtOnce
<1>2. ClaimSeesItsRivals'
  BY DEF RivalInv, ClaimSeesItsRivals, UnexpiredAt
<1> QED BY <1>1, <1>2 DEF RivalInv

\* A claim selects when it sees no lease at all.
LEMMA SelectCandidateRivals ==
    ASSUME GatewayInv, RivalInv, NEW w \in Workers, SelectCandidate(w)
    PROVE  RivalInv'
<1>0. RequestType /\ job' = job /\ expires' = expires /\ beside' = beside
  BY DEF SelectCandidate, GatewayInv, Types, jobVars
<1>1. \A v \in Workers : v # w =>
        request'[v] = request[v] /\ age'[v] = age[v] /\ locked'[v] = locked[v]
  BY <1>0 DEF SelectCandidate, Reply, RequestType
<1>2. request'[w] = "lease" => MayClaim(w) /\ age' = age
  BY <1>0 DEF SelectCandidate, Reply, RequestType
<1>3. SecondLeaseClaimedAtOnce'
  BY <1>0 DEF RivalInv, SecondLeaseClaimedAtOnce
<1>4. ClaimSeesItsRivals'
  BY <1>0, <1>1, <1>2 DEF RivalInv, ClaimSeesItsRivals, MayClaim, UnexpiredAt
<1> QED BY <1>3, <1>4 DEF RivalInv

\* A claim commits: the claims still in flight are beside it, and the leases
\* it finds have run out or were granted beside it.
LEMMA CommitLeaseRivals ==
    ASSUME GatewayInv, RivalInv, NEW w \in Workers, CommitLease(w)
    PROVE  RivalInv'
<1>0. JobType /\ RequestType /\ LockInv /\ AckType
  BY DEF GatewayInv, Types
<1>1. request[w] = "lease" /\ locked[w] \in Runs /\ Target[locked[w]] = Owner[w]
  BY <1>0 DEF CommitLease, LockInv, RequestType, Claimable
<1>2. PICK r \in Runs : r = locked[w]
  BY <1>1
<1>3. /\ job' = [job EXCEPT ![r] = "leased"]
      /\ expires' = [expires EXCEPT ![r] = LeaseTime - age[w]]
      /\ beside' = [beside EXCEPT ![r] =
                      {locked[v] : v \in {u \in Workers \ {w} : request[u] = "lease"}}]
  BY <1>2 DEF CommitLease
<1>4. \A q \in Runs : q # r =>
        job'[q] = job[q] /\ expires'[q] = expires[q] /\ beside'[q] = beside[q]
  BY <1>0, <1>3 DEF JobType, AckType
<1>5. /\ request'[w] = "idle"
      /\ \A v \in Workers : v # w =>
           request'[v] = request[v] /\ age'[v] = age[v] /\ locked'[v] = locked[v]
  BY <1>0 DEF CommitLease, Reply, RequestType
<1>6. \A q \in Runs : Target[q] = Target[r] /\ job[q] = "leased" =>
        ~(expires[q] > 0) \/ r \in beside[q]
  BY <1>1, <1>2, ClockTypes DEF RivalInv, ClaimSeesItsRivals, UnexpiredAt
<1>7. SecondLeaseClaimedAtOnce'
  BY <1>4, <1>6 DEF RivalInv, SecondLeaseClaimedAtOnce
<1>8. ASSUME NEW v \in Workers, request'[v] = "lease",
             NEW q \in Runs, Target[q] = Owner[v], job'[q] = "leased"
      PROVE  ~(expires'[q] + age'[v] > 0) \/ locked'[v] \in beside'[q]
  <2>1. v # w /\ request[v] = "lease" /\ age'[v] = age[v] /\ locked'[v] = locked[v]
    BY <1>5, <1>8
  <2>2. CASE q = r
    <3>1. beside'[r] = {locked[u] : u \in {x \in Workers \ {w} : request[x] = "lease"}}
      BY <1>0, <1>3 DEF AckType
    <3> QED BY <2>1, <2>2, <3>1
  <2>3. CASE q # r
    BY <1>4, <1>8, <2>1, <2>3 DEF RivalInv, ClaimSeesItsRivals, UnexpiredAt
  <2> QED BY <2>2, <2>3
<1>9. ClaimSeesItsRivals'
  BY <1>8 DEF ClaimSeesItsRivals, UnexpiredAt
<1> QED BY <1>7, <1>9 DEF RivalInv

LEMMA TickRivals ==
    ASSUME GatewayInv, RivalInv, Tick
    PROVE  RivalInv'
<1>0. JobType /\ RequestType /\ job' = job /\ request' = request /\ locked' = locked
      /\ beside' = beside
  BY DEF Tick, GatewayInv, Types
<1>1. \A r \in Runs : expires'[r] = IF expires[r] > -MaxDelay THEN expires[r] - 1 ELSE expires[r]
  BY <1>0 DEF Tick, JobType, Earlier
<1>2. \A w \in Workers : request[w] = "lease" => age'[w] = age[w] + 1 /\ age[w] < MaxDelay
  BY <1>0 DEF Tick, RequestType
<1>3. \A r \in Runs : expires'[r] > 0 => expires[r] > 0
  BY <1>1, ClockTypes
<1>4. ASSUME NEW w \in Workers, request[w] = "lease", NEW r \in Runs, ~(expires[r] + age[w] > 0)
      PROVE  ~(expires'[r] + age'[w] > 0)
  BY <1>1, <1>2, <1>4, ClockTypes
<1> QED BY <1>0, <1>3, <1>4, RivalsStay DEF UnexpiredAt

LEMMA SettleJobRivals ==
    ASSUME GatewayInv, RivalInv, NEW w \in Workers, SettleJob(w)
    PROVE  RivalInv'
<1>0. JobType /\ RequestType /\ expires' = expires /\ beside' = beside
  BY DEF SettleJob, GatewayInv, Types
<1>1. \A r \in Runs : job'[r] = "leased" => job[r] = "leased"
  <2>1. SettledAs(answer[w]) # "leased"
    BY DEF SettledAs
  <2> QED BY <1>0, <2>1 DEF SettleJob, JobType
<1>2. \A v \in Workers : request'[v] = "lease" =>
        request[v] = "lease" /\ age'[v] = age[v] /\ locked'[v] = locked[v]
  BY <1>0 DEF SettleJob, Reply, RequestType
<1> QED BY <1>0, <1>1, <1>2, RivalsStay DEF UnexpiredAt

\* What the other steps may do to jobs, clocks and claims.
LEMMA OtherStepsRivals ==
    ASSUME GatewayInv, RivalInv, UNCHANGED <<expires, beside>>,
           \A r \in Runs : job'[r] = "leased" => job[r] = "leased",
           \A w \in Workers : request'[w] = "lease" =>
             request[w] = "lease" /\ age'[w] = age[w] /\ locked'[w] = locked[w]
    PROVE  RivalInv'
BY RivalsStay DEF UnexpiredAt

LEMMA RivalsInductive ==
    ASSUME GatewayInv, RivalInv, [Next]_vars
    PROVE  RivalInv'
<1>0. JobType /\ RequestType
  BY DEF GatewayInv, Types
<1>1. ASSUME NEW r \in Runs,
             \/ StartRun(r) \/ EnqueueJob(r)
             \/ CheckAbort(r) \/ ReadJob(r) \/ JudgeDeadline(r)
      PROVE  RivalInv'
  <2>1. UNCHANGED <<expires, requestVars, beside>>
    BY <1>1 DEF StartRun, EnqueueJob, CheckAbort, ReadJob, JudgeDeadline, AdapterFrame, jobVars
  <2>2. \A q \in Runs : job'[q] = "leased" => job[q] = "leased"
    BY <1>0, <1>1 DEF StartRun, EnqueueJob, CheckAbort, ReadJob, JudgeDeadline, jobVars, JobType
  <2> QED BY <2>1, <2>2, OtherStepsRivals DEF requestVars
<1>2. ASSUME NEW w \in Workers,
             BeginClaim(w) \/ Heartbeat(w) \/ Answer(w) \/ BeginSettle(w) \/ Abandon(w)
      PROVE  RivalInv'
  <2>1. UNCHANGED <<expires, job, beside>>
    BY <1>2 DEF BeginClaim, Heartbeat, Answer, BeginSettle, Abandon, jobVars
  <2>2. \A v \in Workers : request'[v] = "lease" =>
          request[v] = "lease" /\ age'[v] = age[v] /\ locked'[v] = locked[v]
    BY <1>0, <1>2 DEF BeginClaim, Heartbeat, Answer, BeginSettle, Abandon, Reply, RequestType,
                      requestVars
  <2> QED BY <2>1, <2>2, OtherStepsRivals
<1>3. ASSUME NEW w \in Workers, SelectCandidate(w) \/ CommitLease(w) \/ SettleJob(w)
      PROVE  RivalInv'
  BY <1>3, SelectCandidateRivals, CommitLeaseRivals, SettleJobRivals
<1>4. ASSUME NEW a \in Managed,
             \/ RotateCredential(a) \/ RevokeCredential(a)
             \/ \E w \in WorkersOf(a) : ReceiveToken(w) \/ LoseGrant(w)
      PROVE  RivalInv'
  <2>1. UNCHANGED <<jobVars, requestVars, beside>>
    BY <1>4 DEF RotateCredential, RevokeCredential, ReceiveToken, LoseGrant, AccessFrame
  <2> QED BY <2>1, OtherStepsRivals DEF jobVars, requestVars
<1>5. CASE Tick
  BY <1>5, TickRivals
<1>6. CASE Shutdown \/ Restart \/ UNCHANGED vars
  <2>1. UNCHANGED <<jobVars, beside>>
    BY <1>6 DEF Shutdown, Restart, vars
  <2>2. \A v \in Workers : request'[v] = "lease" =>
          request[v] = "lease" /\ age'[v] = age[v] /\ locked'[v] = locked[v]
    BY <1>6 DEF Shutdown, Restart, vars, requestVars
  <2> QED BY <2>1, <2>2, OtherStepsRivals DEF jobVars
<1> QED BY <1>1, <1>2, <1>3, <1>4, <1>5, <1>6 DEF Next

\* Two jobs of one Agent have unexpired leases at the same time only if their
\* claims were in the server at the same time, whatever the number of bridges,
\* the claims' delays, lost responses and restarts (claimJob).
THEOREM SecondLeaseOnlyAtOnce == Spec => []SecondLeaseClaimedAtOnce
<1>1. Init => RivalInv
  BY DEF Init, RivalInv, SecondLeaseClaimedAtOnce, ClaimSeesItsRivals
<1>2. GatewayInv /\ RivalInv /\ [Next]_vars => RivalInv'
  BY RivalsInductive
<1>3. RivalInv => SecondLeaseClaimedAtOnce
  BY DEF RivalInv
<1> QED BY <1>1, <1>2, <1>3, GatewayAlways, PTL DEF Spec

-----------------------------------------------------------------------------
(* The board of jobs.                                                      *)

\* How the run of a job has ended, as the board shows it, and the answers
\* acknowledged without the leases they came under.
OutcomeOf(r) ==
    IF adapter[r] \in Settled \cup {"timeout"} THEN adapter[r]
    ELSE IF adapter[r] \in {"stopped", "error"} THEN "over"
    ELSE IF adapter[r] = "judge" THEN "doubtful" ELSE "open"
Promises == {[job |-> x.run, answer |-> x.result] : x \in acknowledged}

LEMMA JobBoardOfRows ==
    /\ \A r, a : Jobs!Accept(r, a) <=>
         /\ result[r] = NoResult
         /\ result' = [result EXCEPT ![r] = a]
         /\ Promises' = Promises \cup {[job |-> r, answer |-> a]}
         /\ [q \in Runs |-> OutcomeOf(q)'] = [q \in Runs |-> OutcomeOf(q)]
    /\ \A r, from, to : Jobs!Turn(r, from, to) <=>
         /\ [q \in Runs |-> OutcomeOf(q)][r] = from
         /\ [q \in Runs |-> OutcomeOf(q)'] = [[q \in Runs |-> OutcomeOf(q)] EXCEPT ![r] = to]
         /\ result' = result /\ Promises' = Promises
    /\ \A S : Jobs!WaitOn(S) <=>
         /\ [q \in Runs |-> OutcomeOf(q)'] =
              [q \in Runs |-> IF q \in S /\ [p \in Runs |-> OutcomeOf(p)][q] = "doubtful" THEN "open"
                              ELSE [p \in Runs |-> OutcomeOf(p)][q]]
         /\ result' = result /\ Promises' = Promises
    /\ (\A q \in Runs : OutcomeOf(q)' = OutcomeOf(q)) /\ result' = result /\ Promises' = Promises =>
         UNCHANGED Jobs!jobBoardVars
BY DEF Jobs!Accept, Jobs!Turn, Jobs!WaitOn, Jobs!jobBoardVars, OutcomeOf, Promises

\* The adapter of one run moves to another place.
LEMMA RunTurns ==
    ASSUME GatewayInv, NEW r \in Runs, NEW s, adapter' = [adapter EXCEPT ![r] = s],
           NEW from, OutcomeOf(r) = from, NEW to, OutcomeOf(r)' = to,
           UNCHANGED <<result, acknowledged>>
    PROVE  Jobs!Turn(r, from, to)
<1>1. \A q \in Runs : q # r => adapter'[q] = adapter[q]
  BY DEF GatewayInv, Types, AdapterType
<1>2. \A q \in Runs : q # r => OutcomeOf(q)' = OutcomeOf(q)
  BY <1>1 DEF OutcomeOf
<1>3. [q \in Runs |-> OutcomeOf(q)][r] = from
  OBVIOUS
<1>4. [q \in Runs |-> OutcomeOf(q)'] = [[q \in Runs |-> OutcomeOf(q)] EXCEPT ![r] = to]
  BY <1>2
<1>5. Promises' = Promises
  BY DEF Promises
<1> QED BY <1>3, <1>4, <1>5, JobBoardOfRows

\* Some of the runs in doubt are open again, and nothing else shows.
LEMMA RunsWaitOn ==
    ASSUME \A q \in Runs : \/ OutcomeOf(q)' = OutcomeOf(q)
                           \/ OutcomeOf(q) = "doubtful" /\ OutcomeOf(q)' = "open",
           UNCHANGED <<result, acknowledged>>
    PROVE  Jobs!JobBoardNext
<1>1. Promises' = Promises
  BY DEF Promises
<1>2. PICK again \in SUBSET Runs :
        again = {q \in Runs : OutcomeOf(q) = "doubtful" /\ OutcomeOf(q)' = "open"}
  OBVIOUS
<1>3. \A q \in Runs :
        OutcomeOf(q)' = IF q \in again /\ [p \in Runs |-> OutcomeOf(p)][q] = "doubtful" THEN "open"
                        ELSE [p \in Runs |-> OutcomeOf(p)][q]
  BY <1>2
<1>4. [q \in Runs |-> OutcomeOf(q)'] =
        [q \in Runs |-> IF q \in again /\ [p \in Runs |-> OutcomeOf(p)][q] = "doubtful" THEN "open"
                        ELSE [p \in Runs |-> OutcomeOf(p)][q]]
  BY <1>3
<1>5. Jobs!WaitOn(again)
  BY <1>1, <1>4, JobBoardOfRows
<1> QED BY <1>2, <1>5 DEF Jobs!JobBoardNext

LEMMA CheckAbortOnBoard ==
    ASSUME GatewayInv, NEW r \in Runs, CheckAbort(r)
    PROVE  [Jobs!JobBoardNext]_(Jobs!jobBoardVars)
<1>1. /\ adapter[r] = "poll" /\ UNCHANGED <<result, acknowledged>>
      /\ adapter \in [Runs -> Looping \cup {"idle", "enqueue", "completed", "failed",
                                           "timeout", "stopped", "error"}]
  BY DEF CheckAbort, AdapterFrame, jobVars, GatewayInv, Types, AdapterType
<1>2. OutcomeOf(r) = "open"
  BY <1>1 DEF OutcomeOf, Settled
<1>3. CASE adapter' = [adapter EXCEPT ![r] = "stopped"]
  <2>1. OutcomeOf(r)' = "over"
    BY <1>1, <1>3 DEF OutcomeOf, Settled
  <2>2. Jobs!Withdraw(r)
    BY <1>1, <1>2, <1>3, <2>1, RunTurns DEF Jobs!Withdraw
  <2> QED BY <2>2 DEF Jobs!JobBoardNext
<1>4. CASE adapter' = [adapter EXCEPT ![r] = "read"]
  <2>1. \A q \in Runs : OutcomeOf(q)' = OutcomeOf(q)
    BY <1>1, <1>4 DEF OutcomeOf, Settled
  <2> QED BY <1>1, <2>1, RunsWaitOn
<1> QED BY <1>3, <1>4 DEF CheckAbort, AdapterTo

LEMMA ReadJobOnBoard ==
    ASSUME GatewayInv, NEW r \in Runs, ReadJob(r)
    PROVE  Jobs!JobBoardNext
<1>0. /\ adapter \in [Runs -> Looping \cup {"idle", "enqueue", "completed", "failed",
                                           "timeout", "stopped", "error"}]
      /\ result \in [Runs -> Results \cup {NoResult}]
      /\ result[r] = NoResult <=> job[r] \notin Settled
      /\ job[r] \in Settled => job[r] = SettledAs(result[r])
  BY DEF GatewayInv, Types, AdapterType, JobType, AnswerInv
<1>1. adapter[r] = "read" /\ UNCHANGED <<result, acknowledged>>
  BY DEF ReadJob, AdapterFrame, jobVars
<1>2. OutcomeOf(r) = "open"
  BY <1>1 DEF OutcomeOf, Settled
<1>3. CASE job[r] \in Settled /\ adapter' = [adapter EXCEPT ![r] = job[r]]
  <2>1. PICK how \in Settled : how = job[r]
    BY <1>3
  <2>2. OutcomeOf(r)' = how /\ adapter' = [adapter EXCEPT ![r] = how]
    BY <1>0, <1>3, <2>1 DEF OutcomeOf
  <2>3. Jobs!Turn(r, "open", how)
    BY <1>1, <1>2, <2>2, RunTurns
  <2>4. result[r] # NoResult /\ result[r] \in Results /\ how = SettledAs(result[r])
    BY <1>0, <1>3, <2>1
  <2>5. [res \in Results |-> SettledAs(res)][result[r]] = how
    BY <2>4
  <2>6. Jobs!Conclude(r)
    BY <2>3, <2>4, <2>5 DEF Jobs!Conclude, Jobs!Turn
  <2> QED BY <2>6 DEF Jobs!JobBoardNext
<1>4. CASE job[r] \notin Settled /\ adapter' = [adapter EXCEPT ![r] = "judge"]
  <2>1. OutcomeOf(r)' = "doubtful"
    BY <1>0, <1>4 DEF OutcomeOf, Settled
  <2>2. Jobs!Doubt(r)
    BY <1>0, <1>1, <1>2, <1>4, <2>1, RunTurns DEF Jobs!Doubt
  <2> QED BY <2>2 DEF Jobs!JobBoardNext
<1>5. CASE adapter' = [adapter EXCEPT ![r] = "error"]
  <2>1. OutcomeOf(r)' = "over"
    BY <1>0, <1>5 DEF OutcomeOf, Settled
  <2>2. Jobs!Withdraw(r)
    BY <1>1, <1>2, <1>5, <2>1, RunTurns DEF Jobs!Withdraw
  <2> QED BY <2>2 DEF Jobs!JobBoardNext
<1> QED BY <1>3, <1>4, <1>5 DEF ReadJob, AdapterTo

LEMMA JudgeDeadlineOnBoard ==
    ASSUME GatewayInv, NEW r \in Runs, JudgeDeadline(r)
    PROVE  Jobs!JobBoardNext
<1>1. /\ adapter[r] = "judge" /\ UNCHANGED <<result, acknowledged>>
      /\ adapter \in [Runs -> Looping \cup {"idle", "enqueue", "completed", "failed",
                                           "timeout", "stopped", "error"}]
  BY DEF JudgeDeadline, AdapterFrame, jobVars, GatewayInv, Types, AdapterType
<1>2. OutcomeOf(r) = "doubtful"
  BY <1>1 DEF OutcomeOf, Settled
<1>3. CASE adapter' = [adapter EXCEPT ![r] = "timeout"]
  <2>1. OutcomeOf(r)' = "timeout"
    BY <1>1, <1>3 DEF OutcomeOf
  <2>2. Jobs!TimeOut(r)
    BY <1>1, <1>2, <1>3, <2>1, RunTurns DEF Jobs!TimeOut
  <2> QED BY <2>2 DEF Jobs!JobBoardNext
<1>4. CASE adapter' = [adapter EXCEPT ![r] = "poll"]
  <2>1. \A q \in Runs : \/ OutcomeOf(q)' = OutcomeOf(q)
                        \/ OutcomeOf(q) = "doubtful" /\ OutcomeOf(q)' = "open"
    BY <1>1, <1>2, <1>4 DEF OutcomeOf, Settled
  <2> QED BY <1>1, <2>1, RunsWaitOn
<1> QED BY <1>3, <1>4 DEF JudgeDeadline, AdapterTo

\* A result is stored and promised, promised again, or refused.
LEMMA SettleJobOnBoard ==
    ASSUME GatewayInv, NEW w \in Workers, SettleJob(w)
    PROVE  [Jobs!JobBoardNext]_(Jobs!jobBoardVars)
<1>0. JobType /\ RequestType /\ WorkerType /\ AckType /\ HoldingInv /\ AnswerInv
  BY DEF GatewayInv, Types
<1>1. held[w] \in Runs /\ answer[w] \in Results
  BY <1>0 DEF SettleJob, HoldingInv, WorkerType
<1>2. PICK r \in Runs, res \in Results : r = held[w] /\ res = answer[w]
  BY <1>1
<1> DEFINE acked == [run |-> r, lease |-> heldLease[w], result |-> res]
<1>3. /\ adapter' = adapter
      /\ HoldsLease(w) => result' = [result EXCEPT ![r] = res]
      /\ ~HoldsLease(w) => result' = result
      /\ acknowledged' = IF HoldsLease(w) \/ IsRepeat(w) THEN acknowledged \cup {acked}
                         ELSE acknowledged
  BY <1>2 DEF SettleJob, adapterVars
<1>4. acked.run = r /\ acked.result = res
  OBVIOUS
<1> HIDE DEF acked
<1>5. acknowledged' = acknowledged \cup {acked} =>
        Promises' = Promises \cup {[job |-> r, answer |-> res]}
  BY <1>4 DEF Promises
<1>6. \A q \in Runs : OutcomeOf(q)' = OutcomeOf(q)
  BY <1>3 DEF OutcomeOf
<1>7. CASE HoldsLease(w)
  <2>1. result[r] = NoResult
    BY <1>0, <1>2, <1>7 DEF HoldsLease, JobType, Settled
  <2>2. [q \in Runs |-> OutcomeOf(q)'] = [q \in Runs |-> OutcomeOf(q)]
    BY <1>6
  <2>3. Jobs!Accept(r, res)
    BY <1>3, <1>5, <1>7, <2>1, <2>2, JobBoardOfRows
  <2>4. res \in DOMAIN [x \in Results |-> SettledAs(x)]
    OBVIOUS
  <2> QED BY <2>3, <2>4 DEF Jobs!JobBoardNext
<1>8. CASE ~HoldsLease(w) /\ IsRepeat(w)
  <2>1. job[r] \in Settled /\ result[r] = res
    BY <1>2, <1>8 DEF IsRepeat
  <2>2. PICK x \in acknowledged : x.run = r
    BY <1>0, <2>1 DEF AnswerInv
  <2>3. x.result = res
    BY <1>0, <2>1, <2>2 DEF AnswerInv, OneAnswerPerJob
  <2>4. [job |-> r, answer |-> res] \in Promises
    BY <2>2, <2>3 DEF Promises
  <2>5. Promises' = Promises
    BY <1>3, <1>5, <1>8, <2>4
  <2> QED BY <1>3, <1>6, <1>8, <2>5, JobBoardOfRows
<1>9. CASE ~HoldsLease(w) /\ ~IsRepeat(w)
  <2>1. Promises' = Promises
    BY <1>3, <1>9 DEF Promises
  <2> QED BY <1>3, <1>6, <1>9, <2>1, JobBoardOfRows
<1> QED BY <1>7, <1>8, <1>9

LEMMA JobBoardStep ==
    ASSUME GatewayInv, [Next]_vars
    PROVE  [Jobs!JobBoardNext]_(Jobs!jobBoardVars)
<1>0. adapter \in [Runs -> Looping \cup {"idle", "enqueue", "completed", "failed",
                                        "timeout", "stopped", "error"}]
  BY DEF GatewayInv, Types, AdapterType
<1>1. ASSUME UNCHANGED <<result, acknowledged>>,
             \A q \in Runs : OutcomeOf(q)' = OutcomeOf(q)
      PROVE  UNCHANGED Jobs!jobBoardVars
  <2>1. Promises' = Promises
    BY <1>1 DEF Promises
  <2> QED BY <1>1, <2>1, JobBoardOfRows
<1>2. ASSUME UNCHANGED <<result, acknowledged, adapter>>
      PROVE  UNCHANGED Jobs!jobBoardVars
  BY <1>1, <1>2 DEF OutcomeOf
<1>3. ASSUME NEW r \in Runs, StartRun(r) PROVE UNCHANGED Jobs!jobBoardVars
  <2>1. adapter[r] = "idle" /\ adapter' = [adapter EXCEPT ![r] = "enqueue"]
        /\ UNCHANGED <<result, acknowledged>>
    BY <1>3 DEF StartRun, AdapterFrame, jobVars
  <2>2. \A q \in Runs : OutcomeOf(q)' = OutcomeOf(q)
    BY <1>0, <2>1 DEF OutcomeOf, Settled
  <2> QED BY <1>1, <2>1, <2>2
<1>4. ASSUME NEW r \in Runs, EnqueueJob(r)
      PROVE  [Jobs!JobBoardNext]_(Jobs!jobBoardVars)
  <2>1. adapter[r] = "enqueue" /\ UNCHANGED <<result, acknowledged>>
    BY <1>4 DEF EnqueueJob, AdapterFrame
  <2>2. CASE adapter' = [adapter EXCEPT ![r] = "poll"]
    <3>1. \A q \in Runs : OutcomeOf(q)' = OutcomeOf(q)
      BY <1>0, <2>1, <2>2 DEF OutcomeOf, Settled
    <3> QED BY <1>1, <2>1, <3>1
  <2>3. CASE adapter' = [adapter EXCEPT ![r] = "error"]
    <3>1. OutcomeOf(r)' = "over"
      BY <1>0, <2>3 DEF OutcomeOf, Settled
    <3>2. OutcomeOf(r) = "open"
      BY <2>1 DEF OutcomeOf, Settled
    <3>3. Jobs!Withdraw(r)
      BY <2>1, <2>3, <3>1, <3>2, RunTurns DEF Jobs!Withdraw
    <3> QED BY <3>3 DEF Jobs!JobBoardNext
  <2> QED BY <1>4, <2>2, <2>3 DEF EnqueueJob
<1>5. ASSUME NEW r \in Runs, CheckAbort(r) \/ ReadJob(r) \/ JudgeDeadline(r)
      PROVE  [Jobs!JobBoardNext]_(Jobs!jobBoardVars)
  BY <1>5, CheckAbortOnBoard, ReadJobOnBoard, JudgeDeadlineOnBoard
<1>6. ASSUME NEW w \in Workers,
             \/ BeginClaim(w) \/ Heartbeat(w) \/ SelectCandidate(w) \/ CommitLease(w)
             \/ Answer(w) \/ BeginSettle(w) \/ Abandon(w)
      PROVE  UNCHANGED Jobs!jobBoardVars
  BY <1>2, <1>6
     DEF BeginClaim, Heartbeat, SelectCandidate, CommitLease, Answer, BeginSettle, Abandon,
         jobVars, adapterVars
<1>7. ASSUME NEW w \in Workers, SettleJob(w)
      PROVE  [Jobs!JobBoardNext]_(Jobs!jobBoardVars)
  BY <1>7, SettleJobOnBoard
<1>8. ASSUME NEW a \in Managed,
             \/ RotateCredential(a) \/ RevokeCredential(a)
             \/ \E w \in WorkersOf(a) : ReceiveToken(w) \/ LoseGrant(w)
      PROVE  UNCHANGED Jobs!jobBoardVars
  BY <1>2, <1>8
     DEF RotateCredential, RevokeCredential, ReceiveToken, LoseGrant, AccessFrame, jobVars,
         adapterVars
<1>9. CASE Tick \/ Shutdown \/ UNCHANGED vars
  BY <1>2, <1>9 DEF Tick, Shutdown, vars, jobVars, adapterVars
<1>10. CASE Restart
  <2>1. adapter' = [r \in Runs |-> IF adapter[r] \in AtWork THEN "enqueue" ELSE adapter[r]]
        /\ UNCHANGED <<result, acknowledged>>
    BY <1>10 DEF Restart, jobVars
  <2>2. \A q \in Runs : \/ OutcomeOf(q)' = OutcomeOf(q)
                        \/ OutcomeOf(q) = "doubtful" /\ OutcomeOf(q)' = "open"
    BY <1>0, <2>1 DEF OutcomeOf, Settled, AtWork, Looping
  <2> QED BY <2>1, <2>2, RunsWaitOn
<1> QED BY <1>3, <1>4, <1>5, <1>6, <1>7, <1>8, <1>9, <1>10 DEF Next

\* The gateway implements the board of jobs: an answer is stored once, whoever
\* is answered is told of that one, and the run ends with it or without one,
\* for any leases, clocks, repeats, rotations and restarts (claimJob, settleJob,
\* enqueueJob, the adapter's loop).
THEOREM JobBoardImplemented == Spec => ImplementsJobBoard
<1>1. Init => Jobs!JobBoardInit
  <2> SUFFICES ASSUME Init PROVE Jobs!JobBoardInit
    OBVIOUS
  <2>1. Promises = {}
    BY DEF Init, Promises
  <2>2. [r \in Runs |-> OutcomeOf(r)] = [r \in Runs |-> "open"]
    BY DEF Init, OutcomeOf, Settled
  <2> QED BY <2>1, <2>2 DEF Init, Jobs!JobBoardInit, Promises, OutcomeOf
<1>2. GatewayInv /\ [Next]_vars => [Jobs!JobBoardNext]_(Jobs!jobBoardVars)
  BY JobBoardStep
<1> QED BY <1>1, <1>2, GatewayAlways, PTL DEF Spec, ImplementsJobBoard, Jobs!JobBoardSpec
=============================================================================
