---------------------------- MODULE AgentGateway ----------------------------
(***************************************************************************)
(* The Agent Gateway: the adapter enqueues one job for a run and polls it; *)
(* bridges outside the server claim jobs under a lease and send results    *)
(* back.  Requests run concurrently, responses get lost, bridges and the   *)
(* server restart, credentials are rotated and revoked, and each request   *)
(* judges leases by the clock it read before its transaction.              *)
(*                                                                         *)
(* A worker stands for one request at a time of a bridge process: a bridge *)
(* that claims again while a request it has given up waiting for is still  *)
(* in the server is two workers, and so are two bridges of one Agent.      *)
(*                                                                         *)
(* Time is relative: a counter holds what is left until an instant, Tick   *)
(* lowers them all, and age is how old the clock reading of a request is.  *)
(***************************************************************************)
EXTENDS Integers, Sequences, FiniteSets

CONSTANTS
  Runs,         \* room runs bound to the gateway adapter, and their jobs
  Agents, Workers,
  Target,       \* the Agent each run is for
  Owner,        \* the Agent each worker speaks for
  RuntimeWorkers,  \* workers that present an AI Card runtime token
  Answers,      \* texts an Agent may complete a job with
  LeaseIds,
  LeaseTime, ResponseTime, PresenceTime,   \* lifetimes, in ticks
  MaxDelay,     \* bound: ticks between a request's clock and its commit
  MaxRestarts,  \* bound: restarts of the server
  Managed,      \* bound: Agents whose access changes
  NoRun, NoLease, NoResult

ASSUME GatewayAssumption ==
  /\ Target \in [Runs -> Agents] /\ Owner \in [Workers -> Agents]
  /\ RuntimeWorkers \subseteq Workers
  /\ LeaseTime \in Nat \ {0} /\ ResponseTime \in Nat \ {0}
  /\ PresenceTime \in Nat \ {0}
  /\ MaxDelay \in Nat /\ MaxDelay < LeaseTime /\ MaxRestarts \in Nat
  /\ Managed \subseteq Agents
  /\ NoRun \notin Runs /\ NoLease \notin LeaseIds
  /\ "failed" \notin Answers /\ NoResult \notin Answers \cup {"failed"}

VARIABLES
  job,          \* agent_gateway_jobs.status of each run ("none": no row)
  lease,        \* lease_id of the job
  expires,      \* ticks left until lease_expires_at
  result,       \* result of the job
  created,      \* the jobs in creation order
  credential,   \* agent_gateway_credentials.status of each Agent
  binding,      \* the Agent's gateway binding is enabled
  presence,     \* ticks left of the Agent's runtime presence
  token,        \* workers whose bearer token is the valid one
  adapter,      \* where the gateway adapter stands, or how its run ended
  deadline,     \* ticks left until the adapter gives up
  request,      \* where each worker's HTTP request stands in the server
  age,          \* ticks since the request read its clock
  locked,       \* the job row a claim transaction holds locked
  held,         \* the job each worker believes it has leased
  heldLease,    \* ... with this lease
  answer,       \* the result its handler came to
  acknowledged, \* answers the server has acknowledged as stored
  beside,       \* history: the jobs other claims had selected when the claim
                \* of this one committed
  stopping, restarts

jobVars     == <<job, lease, expires, result, created>>
accessVars  == <<credential, binding, presence, token>>
adapterVars == <<adapter, deadline>>
requestVars == <<request, age, locked>>
workerVars  == <<held, heldLease, answer>>
processVars == <<stopping, restarts>>
vars == <<jobVars, accessVars, adapterVars, requestVars, workerVars,
          acknowledged, beside, processVars>>

Results == Answers \cup {"failed"}
Settled == {"completed", "failed"}
Looping == {"poll", "read", "judge"}
AtWork  == Looping \cup {"enqueue"}
SettledAs(res) == IF res = "failed" THEN "failed" ELSE "completed"

LeaseInUse == {lease[r] : r \in Runs} \cup {heldLease[w] : w \in Workers}

Init ==
  /\ job = [r \in Runs |-> "none"]
  /\ lease = [r \in Runs |-> NoLease]
  /\ expires = [r \in Runs |-> -MaxDelay]
  /\ result = [r \in Runs |-> NoResult]
  /\ created = <<>>
  /\ credential = [a \in Agents |-> "active"]
  /\ binding = [a \in Agents |-> TRUE]
  /\ presence = [a \in Agents |-> -MaxDelay]
  /\ token = Workers
  /\ adapter = [r \in Runs |-> "idle"]
  /\ deadline = [r \in Runs |-> 0]
  /\ request = [w \in Workers |-> "idle"]
  /\ age = [w \in Workers |-> 0]
  /\ locked = [w \in Workers |-> NoRun]
  /\ held = [w \in Workers |-> NoRun]
  /\ heldLease = [w \in Workers |-> NoLease]
  /\ answer = [w \in Workers |-> NoResult]
  /\ acknowledged = {}
  /\ beside = [r \in Runs |-> {}]
  /\ stopping = FALSE
  /\ restarts = 0

-----------------------------------------------------------------------------
(* The adapter of one run.                                                 *)

AdapterFrame ==
  UNCHANGED <<accessVars, requestVars, workerVars, acknowledged, beside, processVars>>

\* The coordinator starts the run.
StartRun(r) ==
  /\ ~stopping /\ adapter[r] = "idle"
  /\ adapter' = [adapter EXCEPT ![r] = "enqueue"]
  /\ UNCHANGED <<jobVars, deadline>> /\ AdapterFrame

\* Mutant: the conflicting insert puts the job back in the queue.
EnqueueAnew(r) ==
  /\ adapter[r] = "enqueue" /\ binding[Target[r]]
  /\ job' = [job EXCEPT ![r] = "queued"]
  /\ lease' = [lease EXCEPT ![r] = NoLease]
  /\ created' = IF job[r] = "none" THEN Append(created, r) ELSE created
  /\ adapter' = [adapter EXCEPT ![r] = "poll"]
  /\ deadline' = [deadline EXCEPT ![r] = ResponseTime]
  /\ UNCHANGED <<expires, result>> /\ AdapterFrame

\* enqueueJob: one job per run; the job of a resumed run is left as it is.  An
\* Agent whose binding is disabled makes the adapter throw.
EnqueueJob(r) ==
  /\ adapter[r] = "enqueue"
  /\ IF binding[Target[r]]
     THEN /\ adapter' = [adapter EXCEPT ![r] = "poll"]
          /\ deadline' = [deadline EXCEPT ![r] = ResponseTime]
          /\ IF job[r] = "none"
             THEN /\ job' = [job EXCEPT ![r] = "queued"]
                  /\ created' = Append(created, r)
             ELSE UNCHANGED <<job, created>>
     ELSE /\ adapter' = [adapter EXCEPT ![r] = "error"]
          /\ UNCHANGED <<deadline, job, created>>
  /\ UNCHANGED <<lease, expires, result>> /\ AdapterFrame

\* The deadline is a local of the loop.
AdapterTo(r, place) ==
  /\ adapter' = [adapter EXCEPT ![r] = place]
  /\ deadline' = IF place \in Looping THEN deadline ELSE [deadline EXCEPT ![r] = 0]

\* Each turn of the polling loop looks at the abort signal first ...
CheckAbort(r) ==
  /\ adapter[r] = "poll"
  /\ AdapterTo(r, IF stopping THEN "stopped" ELSE "read")
  /\ UNCHANGED jobVars /\ AdapterFrame

\* ... then reads the job, which may have been settled; a read that rejects
\* ends the run in the coordinator ...
ReadJob(r) ==
  /\ adapter[r] = "read"
  /\ \/ AdapterTo(r, IF job[r] \in Settled THEN job[r] ELSE "judge")
     \/ AdapterTo(r, "error")
  /\ UNCHANGED jobVars /\ AdapterFrame

\* Mutants: the loop never gives up; the deadline is reported as a failure of
\* the Agent's.
JudgeNever(r) ==
  /\ adapter[r] = "judge" /\ AdapterTo(r, "poll")
  /\ UNCHANGED jobVars /\ AdapterFrame
JudgeFailing(r) ==
  /\ adapter[r] = "judge" /\ AdapterTo(r, IF deadline[r] = 0 THEN "failed" ELSE "poll")
  /\ UNCHANGED jobVars /\ AdapterFrame

\* ... and with that answer in hand, whatever has been stored since, gives up
\* when the deadline has passed, or waits for its next turn.
JudgeDeadline(r) ==
  /\ adapter[r] = "judge" /\ AdapterTo(r, IF deadline[r] = 0 THEN "timeout" ELSE "poll")
  /\ UNCHANGED jobVars /\ AdapterFrame

-----------------------------------------------------------------------------
(* A worker's claim.                                                       *)

Reply(w) ==
  /\ request' = [request EXCEPT ![w] = "idle"]
  /\ age' = [age EXCEPT ![w] = 0]
  /\ locked' = [locked EXCEPT ![w] = NoRun]

\* Both authentications want an enabled binding; the token one also an active
\* credential.
Authenticated(w) ==
  /\ w \in token /\ binding[Owner[w]]
  /\ w \notin RuntimeWorkers => credential[Owner[w]] = "active"

\* A runtime token's authentication also refreshes the Agent's presence.
Authenticate(w) ==
  /\ Authenticated(w)
  /\ presence' = IF w \in RuntimeWorkers
                 THEN [presence EXCEPT ![Owner[w]] = PresenceTime] ELSE presence
  /\ UNCHANGED <<credential, binding, token>>

BeginClaim(w) ==
  /\ request[w] = "idle" /\ held[w] = NoRun
  /\ Authenticate(w)
  /\ request' = [request EXCEPT ![w] =
                   IF w \in RuntimeWorkers THEN "select" ELSE "heartbeat"]
  /\ UNCHANGED <<jobVars, adapterVars, age, locked, workerVars, acknowledged, beside,
                 processVars>>

\* heartbeat goes by the Agent, not by the token: it fails only when the
\* credential has been revoked since.  claimJob then reads its clock.
Heartbeat(w) ==
  /\ request[w] = "heartbeat"
  /\ IF credential[Owner[w]] = "active"
     THEN /\ request' = [request EXCEPT ![w] = "select"]
          /\ UNCHANGED <<age, locked>>
     ELSE Reply(w)
  /\ UNCHANGED <<jobVars, accessVars, adapterVars, workerVars, acknowledged, beside,
                 processVars>>

Locked(r) == \E v \in Workers : locked[v] = r

\* As the request's clock sees it, which is age ticks behind.
UnexpiredAt(r, w) == expires[r] + age[w] > 0

\* Mutants: a leased job does not keep the Agent from claiming another one;
\* a job whose lease has run out is not taken over.
MayClaimBusy(w) ==
  LET a == Owner[w]
  IN binding[a] /\ (credential[a] = "active" \/ presence[a] + age[w] > 0)
ClaimableOnce(r, w) == Target[r] = Owner[w] /\ job[r] = "queued"

MayClaim(w) ==
  LET a == Owner[w] IN
  /\ binding[a]
  /\ credential[a] = "active" \/ presence[a] + age[w] > 0
  /\ \A r \in Runs :
       ~(Target[r] = a /\ job[r] = "leased" /\ UnexpiredAt(r, w))
Claimable(r, w) ==
  /\ Target[r] = Owner[w]
  /\ job[r] = "queued" \/ (job[r] = "leased" /\ ~UnexpiredAt(r, w))

\* Mutant: the lock is taken without a second look at a row that changed.
SelectLeasedToo(w) ==
  /\ request[w] = "select"
  /\ \E r \in Runs :
       /\ job[r] \in {"queued", "leased"} /\ Target[r] = Owner[w]
       /\ locked' = [locked EXCEPT ![w] = r]
  /\ request' = [request EXCEPT ![w] = "lease"]
  /\ UNCHANGED <<jobVars, accessVars, adapterVars, age, workerVars, acknowledged, beside,
                 processVars>>

\* The oldest claimable job whose row no other transaction has locked is
\* selected and locked; a claim in another transaction, not committed, is not
\* seen by MayClaim.
SelectCandidate(w) ==
  /\ request[w] = "select"
  /\ LET free == {i \in 1 .. Len(created) :
                    Claimable(created[i], w) /\ ~Locked(created[i])} IN
     IF MayClaim(w) /\ free # {}
     THEN /\ \E i \in free :
               /\ \A j \in free : i <= j
               /\ locked' = [locked EXCEPT ![w] = created[i]]
          /\ request' = [request EXCEPT ![w] = "lease"]
          /\ UNCHANGED age
     ELSE Reply(w)
  /\ UNCHANGED <<jobVars, accessVars, adapterVars, workerVars, acknowledged, beside,
                 processVars>>

\* The claim commits; the worker learns of its lease, or the response is lost.
CommitLease(w) ==
  /\ request[w] = "lease"
  /\ \E id \in LeaseIds \ LeaseInUse :
       LET r == locked[w] IN
       /\ job' = [job EXCEPT ![r] = "leased"]
       /\ lease' = [lease EXCEPT ![r] = id]
       /\ expires' = [expires EXCEPT ![r] = LeaseTime - age[w]]
       /\ \/ /\ held' = [held EXCEPT ![w] = r]
             /\ heldLease' = [heldLease EXCEPT ![w] = id]
          \/ UNCHANGED <<held, heldLease>>
  /\ Reply(w)
  /\ beside' = [beside EXCEPT ![locked[w]] =
                  {locked[v] : v \in {u \in Workers \ {w} : request[u] = "lease"}}]
  /\ UNCHANGED <<result, created, accessVars, adapterVars, answer, acknowledged,
                 processVars>>

-----------------------------------------------------------------------------
(* A worker's result.                                                      *)

\* The handler finishes, or throws, which is a failed result.
Answer(w) ==
  /\ held[w] # NoRun /\ answer[w] = NoResult
  /\ \E res \in Results : answer' = [answer EXCEPT ![w] = res]
  /\ UNCHANGED <<jobVars, accessVars, adapterVars, requestVars, held, heldLease,
                 acknowledged, beside, processVars>>

BeginSettle(w) ==
  /\ request[w] = "idle" /\ answer[w] # NoResult
  /\ Authenticate(w)
  /\ request' = [request EXCEPT ![w] = "settle"]
  /\ UNCHANGED <<jobVars, adapterVars, age, locked, workerVars, acknowledged, beside,
                 processVars>>

Forget(w) ==
  /\ held' = [held EXCEPT ![w] = NoRun]
  /\ heldLease' = [heldLease EXCEPT ![w] = NoLease]
  /\ answer' = [answer EXCEPT ![w] = NoResult]

\* The same result again, under the same lease.
IsRepeat(w) ==
  LET r == held[w] IN
  /\ job[r] \in Settled /\ lease[r] = heldLease[w] /\ result[r] = answer[w]

\* Mutant: the lease id is not compared.
HoldsAnyLease(w) == job[held[w]] = "leased" /\ UnexpiredAt(held[w], w)

HoldsLease(w) ==
  LET r == held[w] IN
  job[r] = "leased" /\ lease[r] = heldLease[w] /\ UnexpiredAt(r, w)

\* settleJob: the row lock makes it one step.  The worker drops the job on any
\* response and may send the same result again when the response is lost.
SettleJob(w) ==
  LET r == held[w]
      acked == [run |-> r, lease |-> heldLease[w], result |-> answer[w]] IN
  /\ request[w] = "settle"
  /\ ~Locked(r)
  /\ Target[r] = Owner[w]
  /\ IF HoldsLease(w)
     THEN /\ job' = [job EXCEPT ![r] = SettledAs(answer[w])]
          /\ result' = [result EXCEPT ![r] = answer[w]]
     ELSE UNCHANGED <<job, result>>
  /\ acknowledged' = IF HoldsLease(w) \/ IsRepeat(w)
                     THEN acknowledged \cup {acked} ELSE acknowledged
  /\ Forget(w) \/ UNCHANGED workerVars
  /\ Reply(w)
  /\ UNCHANGED <<lease, expires, created, accessVars, adapterVars, beside,
                 processVars>>

\* The worker restarts, or gives the job up.
Abandon(w) ==
  /\ held[w] # NoRun /\ request[w] = "idle"
  /\ Forget(w)
  /\ UNCHANGED <<jobVars, accessVars, adapterVars, requestVars, acknowledged, beside,
                 processVars>>

-----------------------------------------------------------------------------
(* Owners, identity providers, the server and the clock.                   *)

WorkersOf(a) == {w \in Workers : Owner[w] = a}

AccessFrame ==
  UNCHANGED <<jobVars, adapterVars, requestVars, workerVars, acknowledged, beside,
              processVars>>

\* rotateCredential: a new hash, so the old token is worth nothing.
RotateCredential(a) ==
  /\ credential' = [credential EXCEPT ![a] = "active"]
  /\ binding' = [binding EXCEPT ![a] = TRUE]
  /\ token' = token \ (WorkersOf(a) \ RuntimeWorkers)
  /\ UNCHANGED presence /\ AccessFrame

RevokeCredential(a) ==
  /\ credential' = [credential EXCEPT ![a] = "revoked"]
  /\ binding' = [binding EXCEPT ![a] = FALSE]
  /\ UNCHANGED <<presence, token>> /\ AccessFrame

\* Outside the server: a worker is given the current token, or its runtime
\* grant is revoked at the identity provider.
ReceiveToken(w) ==
  /\ w \notin token /\ token' = token \cup {w}
  /\ UNCHANGED <<credential, binding, presence>> /\ AccessFrame
LoseGrant(w) ==
  /\ w \in token \cap RuntimeWorkers /\ token' = token \ {w}
  /\ UNCHANGED <<credential, binding, presence>> /\ AccessFrame

Earlier(n) == IF n > -MaxDelay THEN n - 1 ELSE n

\* A tick; a request does not wait longer than MaxDelay for its commit.
Tick ==
  /\ \A w \in Workers :
       request[w] \in {"select", "lease", "settle"} => age[w] < MaxDelay
  /\ expires' = [r \in Runs |-> Earlier(expires[r])]
  /\ presence' = [a \in Agents |-> Earlier(presence[a])]
  /\ deadline' = [r \in Runs |-> IF deadline[r] > 0 THEN deadline[r] - 1 ELSE 0]
  /\ age' = [w \in Workers |->
       IF request[w] \in {"select", "lease", "settle"} THEN age[w] + 1 ELSE 0]
  /\ UNCHANGED <<job, lease, result, created, credential, binding, token, adapter,
                 request, locked, workerVars, acknowledged, beside, processVars>>

\* shutdown aborts the adapters.
Shutdown ==
  /\ ~stopping /\ restarts < MaxRestarts
  /\ stopping' = TRUE
  /\ UNCHANGED <<jobVars, accessVars, adapterVars, requestVars, workerVars,
                 acknowledged, beside, restarts>>

\* The server goes down with its requests and comes back: interrupted gateway
\* runs are requeued and start over with the job they have.
Restart ==
  /\ restarts < MaxRestarts
  /\ restarts' = restarts + 1 /\ stopping' = FALSE
  /\ adapter' = [r \in Runs |->
       IF adapter[r] \in AtWork THEN "enqueue" ELSE adapter[r]]
  /\ deadline' = [r \in Runs |-> 0]
  /\ request' = [w \in Workers |-> "idle"]
  /\ age' = [w \in Workers |-> 0]
  /\ locked' = [w \in Workers |-> NoRun]
  /\ UNCHANGED <<jobVars, accessVars, workerVars, acknowledged, beside>>

AdapterStep(r) ==
  EnqueueJob(r) \/ CheckAbort(r) \/ ReadJob(r) \/ JudgeDeadline(r)
RequestStep(w) ==
  Heartbeat(w) \/ SelectCandidate(w) \/ CommitLease(w) \/ SettleJob(w)

Next ==
  \/ \E r \in Runs :
       \/ StartRun(r) \/ EnqueueJob(r)
       \/ CheckAbort(r) \/ ReadJob(r) \/ JudgeDeadline(r)
  \/ \E w \in Workers :
       \/ BeginClaim(w) \/ Heartbeat(w) \/ SelectCandidate(w) \/ CommitLease(w)
       \/ Answer(w) \/ BeginSettle(w) \/ SettleJob(w) \/ Abandon(w)
  \/ \E a \in Managed :
       \/ RotateCredential(a) \/ RevokeCredential(a)
       \/ \E w \in WorkersOf(a) : ReceiveToken(w) \/ LoseGrant(w)
  \/ Tick \/ Shutdown \/ Restart

Spec == Init /\ [][Next]_vars

\* The adapter's loop and the requests inside the server go on and the clock
\* runs (strongly: the bound on delays does not hold it back for ever);
\* bridges keep asking for work (runAgentGatewayLoop), their handlers end, and
\* not every response to a result is lost.
Fairness ==
  /\ \A r \in Runs : WF_vars(AdapterStep(r))
  /\ SF_vars(Tick)
  /\ \A w \in Workers :
       /\ WF_vars(RequestStep(w)) /\ SF_vars(BeginClaim(w))
       /\ WF_vars(Answer(w)) /\ SF_vars(BeginSettle(w))
       /\ SF_vars(SettleJob(w) /\ held'[w] = NoRun)

FairSpec == Spec /\ Fairness

-----------------------------------------------------------------------------
(* Properties.                                                             *)

Ticks(n) == (-MaxDelay) .. n

\* Every variable has its type; a job has a lease exactly when it has been
\* claimed, and a result exactly when it is settled (the table's CHECK).
TypeOK ==
  /\ job \in [Runs -> Settled \cup {"none", "queued", "leased"}]
  /\ lease \in [Runs -> LeaseIds \cup {NoLease}]
  /\ expires \in [Runs -> Ticks(LeaseTime)]
  /\ result \in [Runs -> Results \cup {NoResult}]
  /\ \A r \in Runs :
       /\ lease[r] = NoLease <=> job[r] \in {"none", "queued"}
       /\ result[r] = NoResult <=> job[r] \notin Settled
  /\ created \in Seq(Runs)
  /\ credential \in [Agents -> {"active", "revoked"}]
  /\ binding \in [Agents -> BOOLEAN]
  /\ presence \in [Agents -> Ticks(PresenceTime)]
  /\ token \subseteq Workers
  /\ adapter \in [Runs -> AtWork \cup {"idle", "completed", "failed", "timeout",
                                     "stopped", "error"}]
  /\ deadline \in [Runs -> 0 .. ResponseTime]
  /\ request \in [Workers -> {"idle", "heartbeat", "select", "lease", "settle"}]
  /\ age \in [Workers -> 0 .. MaxDelay]
  /\ locked \in [Workers -> Runs \cup {NoRun}]
  /\ held \in [Workers -> Runs \cup {NoRun}]
  /\ heldLease \in [Workers -> LeaseIds \cup {NoLease}]
  /\ answer \in [Workers -> Results \cup {NoResult}]
  /\ acknowledged \subseteq [run : Runs, lease : LeaseIds, result : Results]
  /\ beside \in [Runs -> SUBSET (Runs \cup {NoRun})]
  /\ stopping \in BOOLEAN /\ restarts \in Nat

\* A claim transaction has locked a row that is still claimable when it
\* commits, no two have the same row, and no result slips in between.
LockedRowClaimable ==
  \A w \in Workers :
    request[w] = "lease" =>
      /\ locked[w] # NoRun /\ Claimable(locked[w], w)
      /\ \A v \in Workers : locked[v] = locked[w] => v = w

\* All the answers the server has ever acknowledged for a job, to whichever
\* worker and however often they were sent, are one answer under one lease, and
\* it is the stored one (settleJob: "A late lease does not write back").
OneAnswerPerJob ==
  \A x \in acknowledged :
    /\ job[x.run] = SettledAs(x.result)
    /\ lease[x.run] = x.lease /\ result[x.run] = x.result

\* A run ends completed or failed by its Agent only with an answer that the
\* server stored under a lease, also when it was resumed by a restart.
RunShowsStoredAnswer ==
  \A r \in Runs :
    adapter[r] \in Settled =>
      \E x \in acknowledged : x.run = r /\ SettledAs(x.result) = adapter[r]

\* A settled job is never leased again nor given another result: not by a late
\* worker, not by a resumed run, not by a claim that had selected it before.
SettledJobStays ==
  [][\A r \in Runs : job[r] \in Settled =>
       job'[r] = job[r] /\ lease'[r] = lease[r] /\ result'[r] = result[r]]_vars

\* A lease changes hands only after it has expired by the real clock, however
\* old the clock reading of the claim that takes it over.
LeaseNotStolen ==
  [][\A r \in Runs :
       job[r] = "leased" /\ lease'[r] # lease[r] => expires[r] <= 0]_vars

\* Two jobs of one Agent have unexpired leases at the same time only if one of
\* the claims had selected its job and had not committed when the other one
\* committed: a claim that begins after another has committed is refused for as
\* long as that lease lasts, over lost responses, old clocks and restarts
\* (claimJob's NOT EXISTS, which locks nothing for the Agent).
SecondLeaseClaimedAtOnce ==
  \A q, r \in Runs :
    /\ job[q] = "leased" /\ job[r] = "leased"
    /\ expires[q] > 0 /\ expires[r] > 0
    /\ Target[q] = Target[r]
    => q = r \/ q \in beside[r] \/ r \in beside[q]

\* "Each Agent can hold only one unexpired lease at a time": not of two claims
\* at once.
OneUnexpiredLease ==
  \A q, r \in Runs :
    /\ job[q] = "leased" /\ job[r] = "leased"
    /\ expires[q] > 0 /\ expires[r] > 0
    /\ Target[q] = Target[r]
    => q = r

\* Whatever the bridges do or fail to do, the adapter ends the run.
AdapterEnds == \A r \in Runs : adapter[r] \in AtWork ~> adapter[r] \notin AtWork

\* The oldest unsettled job, when nobody has a valid lease on it, is leased
\* again or settled, while its Agent keeps a connected bridge.
OldestIsReclaimed ==
  \A r \in Runs :
    (/\ job[r] = "queued" \/ (job[r] = "leased" /\ expires[r] <= 0)
     /\ \A i, j \in 1 .. Len(created) :
          created[i] = r /\ j < i => job[created[j]] \in Settled)
    ~> (job[r] = "leased" /\ expires[r] > 0) \/ job[r] \in Settled

-----------------------------------------------------------------------------
(* The gateway implements the board of jobs.                               *)

Jobs == INSTANCE JobBoard WITH
  Jobs <- Runs,
  Kind <- [res \in Results |-> SettledAs(res)],
  Unanswered <- NoResult,
  stored <- result,
  promised <- {[job |-> x.run, answer |-> x.result] : x \in acknowledged},
  outcome <- [r \in Runs |->
                IF adapter[r] \in Settled \cup {"timeout"} THEN adapter[r]
                ELSE IF adapter[r] \in {"stopped", "error"} THEN "over"
                ELSE IF adapter[r] = "judge" THEN "doubtful" ELSE "open"]

\* Every step of the gateway is one of the board's or does not show: an answer
\* is stored once and promised in the step it is stored, a repeat promises
\* nothing new, and a run ends once: with the stored answer, or without one,
\* and for want of one only after a look that found none.
ImplementsJobBoard == Jobs!JobBoardSpec
=============================================================================
