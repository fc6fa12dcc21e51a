# Yoyoo in TLA+

Yoyoo is a room-based workspace where people and AI Agents talk to each other.
A message in a room starts *runs*, one for each Agent it is routed to; a run is
executed by an *adapter* (an in-process Agent, or a remote one behind the Agent
Gateway), leaves an event log, a terminal message, artifacts, and may delegate
to further runs. This directory models that machinery and the parts of the
server around it (rooms and messages, the page's drafts, attachments, signing in,
admission of Agents, the older single-conversation runs), checks it with TLC on
small instances, and proves most of its safety properties with TLAPS for all of
them.

Paths below are relative to the repository; `server/` stands for `src/server/`.

## 1. The system

One Node process serves HTTP and executes runs; PostgreSQL holds every lasting
state; browsers follow runs over server-sent events (SSE); remote Agents connect
through *bridges*, processes of their owners that poll the gateway over HTTP.
The process is single-threaded, so what interleaves are the pieces of code
between two `await`s, and the transactions of the database, which are READ
COMMITTED (`postgres/transaction.ts` opens them with a plain `BEGIN`).

| Component | State | Operations | Talks to |
| --- | --- | --- | --- |
| Run store (`server/postgres/collaboration-run-repository.ts`) | `room_runs`, `room_run_events`, terminal messages | createForMessage, createDelegatedRun, createRetry, claim, appendEvent, requeue/failInterruptedRuns | delegations and messages, inside its transactions |
| Coordinator (`server/collaboration-run-coordinator.ts`) | `#active`: an execution and an AbortController per run, and each execution's locals | start, #execute, cancel, shutdown, reconcile | store, adapters, delegations, artifacts |
| Delegations, artifacts (`postgres/delegation-repository.ts`, `artifact-repository.ts`) | a row each per idempotency key | create, settleByChildRun | room members |
| Collaboration service (`server/collaboration-service.ts`) | none | submitMessage, interveneAndStop, retryRun, edit, retract, getSnapshot, drafts, members | rooms, router, store, coordinator |
| Rooms (`postgres/room-repository.ts`) | rooms, members, messages with versions, replies, mentions | create, archive, add/remove member, create/edit/retract message | store (looks for active runs), attachments |
| Member state (`postgres/member-state-repository.ts`) | draft with revision, read cursor, list state | saveDraft, clearDraftAfterSend, updateRead, updateListState | rooms |
| Attachments (`postgres/attachment-repository.ts`, `attachment-service.ts`, `local-blob-store.ts`) | attachment rows; blobs on disk | begin, complete, link, grant, clean up | rooms, runs |
| Agent gateway (`postgres/agent-gateway-repository.ts`, `agent-gateway-service.ts`) | credentials, bindings, presence, jobs with leases | authenticate, heartbeat, rotate, revoke, enqueue, claim, settle | AI Card for runtime tokens |
| Gateway adapter and bridges (`src/agents/agent-gateway-adapter.ts`, `scripts/agent-gateway-client.mts`) | a polling loop with a deadline; the job in hand | run; claim, answer, submit | gateway |
| Event stream, page (`server/event-stream.ts`, `src/lib/room-client.ts`, `src/components/conversation/collaboration-room.tsx`) | a cursor per response; subscriptions, snapshot | list/get/close; apply event, refresh | store |
| Runtime (`server/runtime.ts`) | the wiring | boot: fail, requeue, start; shutdown | all of them |
| Legacy conversation (`server/run-coordinator.ts`, `postgres/run-repository.ts`) | conversations, runs, events | submit, execute, stop | test/codex adapters |
| Admission (`postgres/agent-admission-repository.ts`, `agent-admission-service.ts`) | invitations, claims | create, claim, two-phase revoke | AI Card, gateway |
| Human authentication (`postgres/human-auth-repository.ts`, `server/auth/`) | sessions, throttle | login, resolve, refresh, revoke | AI Card |
| Principals, workspaces, bootstrap; search; AI Card client; scripts; UI | rows, or none | single statements, queries, I/O | |

What makes each part correct, and what is hard about it:

- **Runs.** A run's status is what its log ends in. The log has one terminal
  event, at its end. A delegation ends with its child, in the same commit. Hard:
  the log has three writers (the execution, its catch block, the boot), every
  await of an execution may reject, requests act on runs in between, and the
  process may stop anywhere.
- **Requests on runs.** A retry is one retry, a late cancel is refused, a message
  or a member with an active run stays. Hard: each is a check followed by an act
  in another statement.
- **Gateway.** A job has one answer, stored under one lease, for ever; a lease is
  not taken from its holder before it expires; the adapter always ends. Hard:
  leases expire while requests are under way, responses are lost and repeated,
  requests judge time by a clock they have read earlier.
- **Stream and page.** Events in order and once, no end before the terminal
  event, the page shows the end. Hard: polling beside commits, reconnection,
  snapshots that arrive in any order.
- **Rooms and messages.** Some room stays active; what a request was told was done
  stays done; a message shows what its history ends in. Hard: requests judge by
  rows they read before they waited for a lock, and clients repeat requests whose
  answer they lost.
- **Drafts and cursors.** A save never replaces a draft its window has not seen;
  sending a message clears the draft it was made from and no other; the read
  cursor never moves back. Hard: the page keeps one set of draft references for
  all rooms, answers arrive after the room was switched, and a person has several
  windows.
- **Attachments.** A ready attachment has its bytes on disk, what a message
  carries is complete and out of the clean-up's reach, and an Agent reads no more
  than the room. Hard: two stores without a common transaction, a server that
  stops between them, clean-up beside a late upload.
- **Signing in.** Failures are bounded; a replaced password, a logout and a
  withdrawn grant end the sessions they should, and nothing else ends one. Hard:
  a login reads the throttle long before it writes it; requests refresh one
  single-use token at the same time; an answer is lost after it took effect.
- **Admission.** A binding is enabled by the admission of this very Agent only;
  a credential file says what the services have recorded. Hard: revocation in two
  phases with a remote call between them; a client that is run again.
- **Single-conversation runs.** Every active run is executed by somebody; status,
  events and message agree. Hard: calls that throw after their commit.

`PROJECT.json` lists the hazards one by one, each at its line, with the
properties that would catch it going wrong or the reason why none does.

## 2. Modules

    RunStore  <-EXTENDS-  CollaborationRuns  <- CollaborationRunsProofs, MCCollaborationRuns
    AgentGateway          <- AgentGatewayProofs, MCAgentGateway <- MCGatewaySafety
    RunStream             <- RunStreamProofs, MCRunStream
    Rooms                 <- RoomsProofs, MCRooms
    RoomPage              <- RoomPageProofs, MCRoomPage
    Attachments           <- AttachmentsProofs, MCAttachments
    PasswordLogin         \
    FederatedSession       > <- AccessProofs       \ MCServices (all four)
    AgentAdmission        /                        /
    LegacyRuns            <- LegacyRunsProofs     /

Four modules are abstract: they say what a part promises, in a few variables and
without its mechanism, and the detailed module is shown to implement them.

| Abstract | Implemented by | Promise |
| --- | --- | --- |
| RunBoard | CollaborationRuns (`ImplementsBoard`), LegacyRuns (`LegacyImplementsBoard`) | a run finishes once; its message, and the delegation it was created for, change in that very step |
| JobBoard | AgentGateway (`ImplementsJobBoard`) | a job is answered once, an answer is promised in the step it is stored, and a run ends once, with the stored answer or without one |
| RunFeed | RunStream (`ImplementsFeed`) | who follows a run is told every event once and in order, and from the beginning again only after being told of the end or having gone away |
| GuestList | AgentAdmission (`ImplementsGuestList`) | an invitation admits one Agent, once, and gives permissions in that step alone; revoking it takes them away in one step |

**RunStore** holds the tables of one room as variables and the transactions on
them as operators. `status`, `log` and `row` are `room_runs` and
`room_run_events` (sequence numbers are positions in `log`), `output` is the
terminal message, `delegation[c]` the delegation whose child run is `c`,
`artifacts[r]` the keys of the artifacts of `r`. `AppendEvent` is the whole of
`appendEvent`: event, status, terminal message and delegation in one commit;
`Appendable` and `Storable` are the conditions under which it does not throw: a
live run and the next sequence number; and a terminal message the tables take, with
attachments of the run's own and text of at most 32000 characters
(`003_multi_principal_workspace.sql:90`). Nothing limits what an Agent streams or
answers. An answer that is too long, or whose attachments are not the run's, is
`refused`; an `excess` is the `text_delta` that takes the streamed text over the
limit, after which the run is `Overlong`: its `failed` and `stopped` events, which
carry that text into the terminal message, abort as well, in the catch block and at
boot (`Interrupt`, `FailInterrupted`).

**CollaborationRuns** adds the process. `pc[r]` is the await the execution of `r`
stands at; an action is the code from one await's return to the next await:

| Action | Code (`collaboration-run-coordinator.ts` unless named) |
| --- | --- |
| Claim, LoadContext, ListEvents | `#execute` up to the adapter, with the refusal of attachments |
| Yield, StreamEnds, StreamThrows | one turn of `for await` over the adapter's events |
| Store | `appendEvent` of the event |
| CreateDelegatedRun, RecordDelegation, RepeatDelegation | the delegation branch, new or repeated |
| CreateArtifact, Settle | the artifact branch; `#settleDelegation` |
| Catch, Interrupt, Fault | the catch block; a rejecting database call at any await |
| Submit, Route, CreateForMessage | `submitMessage`, from the message's commit to `createForMessage` |
| CheckRetract/Retract, CheckRemove/RemoveMember, AddMember | `room-repository.ts`, split where another commit can come in between |
| ReadForCancel, Abort, Intervene | `interveneAndStop` and `cancel` |
| CheckRetry, CreateRetry | `createRetry`, under the source row's lock |
| Crash, Shutdown, Exit, FailInterrupted, Requeue | `runtime.ts`: end of the process, boot |

The adapter is any sequence of events the contract allows, an early end, or a
throw. The router's choice is any subset of the `Addressed` members, which covers every
policy of `message-router.ts` and more.

`CollaborationRuns` implements **RunBoard** under the mapping that forgets queues,
claims, events, executions, requests and restarts; `LegacyRuns` implements it
without delegations.

**AgentGateway** is the gateway with its adapter and its bridges. Time is
relative: `expires`, `deadline` and `presence` count the ticks left, `age[w]` how
old the clock reading of a request is; `Tick` advances them together. A request
is split where its transaction waits or where it commits; `locked` are row locks
taken with `FOR UPDATE SKIP LOCKED`. `acknowledged` records what the server has
told workers it stored; only properties read it. The mapping to **JobBoard** keeps
the stored result, what was acknowledged, and how the adapter's run ended; leases,
locks, clocks, credentials and restarts are forgotten. The adapter's loop is cut
at its awaits: `poll` asks for the job, `read` is the query, `judge` looks at what
was read and then at the deadline, so that an answer stored and acknowledged after
the read may belong to a run that ends in a timeout; the job board allows that. A
worker is one request at a time: a bridge that asks again while a request it has
given up on is still in the server is two of them, with one Agent and one token.

**RunStream** follows one delegated run from the log to the page: the response's
polling loop (`list`, `get`, `final`, `pause`), the wire, the EventSource with
its Last-Event-ID, the page's subscription, and snapshots whose `Parts` are read by
separate queries and may arrive in any order. The page may go to another room and
come back (`SelectOther`, `ShowOther` or `LeavingFails`, `SelectHere`,
`ShowSnapshot`): setting out closes the subscription, and the snapshot that returns
opens a new one, from the first event, if it shows the run as running. **RunFeed**
keeps the log, the events behind the numbers the subscription has received, and
whether there is a subscription.

**Rooms** is one workspace: the lifecycle of its rooms (group rooms, direct rooms,
archive and restore under the lifecycle lock), members, each person's list, and
messages posted with idempotency keys, edited, retracted and routed. A request of
a client `c` is a READ COMMITTED transaction: `BeginX` is what it reads and checks
(and its advisory lock), `CommitX` what it locks, checks again and writes. Requests that check and
write in one statement or under one lock are single actions (`CreateRoom`,
`CreateDirect`, `RepeatPost`). `Route` is `resolveAgentTargets` of
`message-router.ts` and `createForMessage`, which refuses a message retracted
meanwhile; `running` are the runs it makes, which `EndRun` ends, as far
as edits, retractions and removals look for them. `acks` records what the server
has told clients; only properties read it.

| Action | Code |
| --- | --- |
| Boot | `collaboration-bootstrap.ts`: first room, seeds |
| CreateRoom, CreateDirect, BeginStatus/CheckStatus/CommitStatus | `room-repository.ts` create, createDirect, setStatus |
| BeginList/CommitList | `member-state-repository.ts` updateListState |
| BeginAdd/CommitAdd, BeginRemove/CommitRemove | addMember, removeMember |
| RepeatPost, BeginPost/CommitPost, Route | createMessage, then submitMessage's routing |
| BeginEdit/CommitEdit, BeginRetract/CommitRetract | editMessage, retractMessage, with the answer to a repeated request |

**RoomPage** is one person's windows (`collaboration-room.tsx`) with the draft and
the cursor the server keeps per room (`member-state-repository.ts`). A window has
its references (`room`, `text`, `revision`, `saved`), a queue of saves of which
one is under way (`Enqueue` ... `FinishSave`, `RefuseSave`), a message being sent
(`SendMessage`, `StoreMessage`, `ClearDraft`, `FinishSend`, `FailSend`), rooms
being loaded (`SelectRoom`, `ReadRoom`, `ShowRoom`, `FailLoad`) and read positions
on their way (`ReportRead`, `UpdateRead`). Requests and answers are lost by
`LoseSave`, `FailSend` and `FailLoad`, before or after they took effect.

**Attachments** keeps `row` (the table) and `blob` (the disk) apart. A request
that carries a file goes `StartPut` (`SendFile`, `PutOutput`), `Write`,
`MarkReady`, or `DeleteBlob`, `MarkFailed`; the composer's entries go
`SelectFile`, `Retry`, `GiveUp`, `Remove`, `SendMessage`; a run's Agent begins
outputs (`BeginOutput`) and carries them in its message (`EndRun`); `Execute`
grants what a run may read; `ListExpired`, `SweepBlob` and `SweepRow` are the
clean-up, `Crash` the end of the process at any of these places, which leaves rows
and blobs and nothing else. The code looks for active runs before a retraction, a
departure and an archiving, but a run created at the same time is not seen
(`room-repository.ts:322`, `:1002`), so `Retract`, `Leave` and `Archive` come at any
time here, and a running run may hold a grant that no longer counts.

**PasswordLogin**, **FederatedSession**, **AgentAdmission** and **LegacyRuns** are
four parts of the server that share no state. A login is cut at its awaits
(`BeginLogin`, which reads the clock, `ReadThrottle` for each of its two rows,
`VerifyPassword`, `RecordFailure`, `SnapshotCredential`, `InsertSession`,
`ClearThrottle`) beside the scripts that change the credential
(`ReplaceCredential`, `Cutover`). A request with an AI Card session resolves it,
refreshes its token with the provider and stores the result (`Resolve`, `Rotate`,
`Unreachable`, `Reject`, `Update`, `RevokeRejected`), which callbacks, operations,
logouts and a withdrawal of the grant interleave with. An admission is created in
two steps, revoked in two phases around a call of the AI Card service
(`PrepareRevocation`, `RevokeCardInvitation`, `FinalizeRevocation`), and claimed
by a reference client that may stop and be run again at any step. A legacy run is
submitted or retried (check and commit are two steps), executed, cancelled and
failed at boot; every database call of an execution, of its catch block
(`CatchThrows`) and the commit that makes the run (`Enqueue`) may throw before or
after it took effect, a completed run may have a blank answer and so no message,
and texts may be too long for a message, as in `RunStore`.

Operators marked "Mutant" in a comment are wrong variants of the definition that
follows them; `PROJECT.json` ("mutants") says which property each one breaks.
They are no part of any specification.

## 3. What is checked

| Run | Instance | Shows |
| --- | --- | --- |
| MCRunsDelegation | 2 runs, the planner's and its gateway delegate's, one key, 2 progress events, 1 fault, 1 restart, membership changes | LogMatchesStatus, DelegationFollowsChild, EffectsMatchLog, OnlyUnrecordedChildrenAreStranded, FinishedRunsStay, ImplementsBoard |
| MCRunsRetry | 3 runs, 2 keys, unreadable attachments, retraction, 1 restart | OneActiveRetry |
| MCRunsLiveness | 2 runs, cancellation, delegation, too long texts, 1 restart, fair | SequenceInStep, StartedRunsFinish, AbortedRunsStop |
| MCGatewaySafety | 2 requests at a time (one with a runtime token), 3 leases; 1 job with access changes and a restart, or 2 jobs of one Agent and the claims for them | SecondLeaseClaimedAtOnce, LockedRowClaimable, OneAnswerPerJob, RunShowsStoredAnswer, ImplementsJobBoard, LeaseNotStolen |
| MCGatewayLiveness | 2 jobs, 1 bridge, 3 leases, fair | AdapterEnds, OldestIsReclaimed |
| MCStream | 2 snapshots at a time of the run's row, 2 progress events, 1 break, 1 refusal, 1 change of rooms and back, fair | ImplementsFeed, EndsAfterTerminal, EndIsShown |
| MCRooms | 2 group rooms and a direct one, owner and 2 Agents, 2 clients, 2 messages, 1 key, 2 revisions, 4 requests, 2 boots | SomeRoomActive, AnswersStand, HistoryTellsMessage |
| MCPage | 2 windows, 2 rooms, 2 texts, 3 revisions, 2 messages sent, 2 selections | ReferencesMatch, UnseenDraftKept, OnlySentDraftsAreCleared, CursorAdvances |
| MCAttachments | 2 keys of a person, 1 of a run, 2 requests with files, 2 messages, 3 troubles | LinksStand, ReadyHasBlob, ReadersAgree |
| MCServices | 2 concurrent logins, cards, admissions, or conversation runs with 2 faults; each behaviour moves one of the four parts, chosen at its start | FailuresBounded, NoSessionFromBefore; LogoutIsFinal, GrantedSessionsLast, WithdrawalReaches; EnabledByAdmission, FilesTellTheTruth; ActiveTurnsHaveWorker, TurnTellsOneStory |

Two more runs look for what a document of the repository says cannot happen, and
find it (`PROJECT.json`, "findings"; the quoted lines are there):

| Run | What happens |
| --- | --- |
| MCLegacyTwoActive | a retry and a new message of one conversation, each under a lock of its own, find no active run and both commit one |
| MCPageNewerText | text typed while a message is on its way is wiped when the answer arrives |

Six further statements are kept as definitions, each with the words of the
document it comes from or the exception it drops. They do not hold, and TLC shows
it in seconds when one is added to a configuration (with `Spec` for `FairSpec`):

| Definition | Add as | To | What happens |
| --- | --- | --- | --- |
| LateCancelRejected (`开发过程/013_Feature_多AI共享上下文.md:29`) | PROPERTY | MCRunsLiveness.cfg | cancel reads a running run, the answer commits, the abort and the intervention still go through |
| ExecutingMessageKept (`025_Feature_消息回复编辑撤回.md:15`) | PROPERTY | MCRunsRetry.cfg | a retraction that waited for the lock of a run's creation commits on the answer it had before |
| BusyAgentStays (`016_Feature_房间详情与成员管理.md:16`) | PROPERTY | MCRunsDelegation.cfg | a run is created between a removal's look for runs and its update |
| SnapshotNotTorn (`013_Feature_多AI共享上下文.md:28`) | INVARIANT | MCStream.cfg, `Parts = {"runs", "delegations"}` | a snapshot shows a finished child run under a running delegation |
| OneUnexpiredLease (`017_Feature_Agent_Gateway与真实AI接入.md:16`) | INVARIANT | MCGatewaySafety.cfg | two claims of one Agent in the server at the same time get a lease each; SecondLeaseClaimedAtOnce is what is left of it |
| ReadyIsSuccess (ReadyHasBlob without its exception) | INVARIANT | MCAttachments.cfg | of two requests that complete one key, the loser deletes the blob the winner has made ready |

Some statements hold and are proved, and are in no configuration because a run's
other properties take their time: `SettledJobStays` (add to MCGatewaySafety) and
`EventsInOrder` (MCStream), which the refinements imply, `PairStays` and
`PastStands` (MCRooms), `CarriedFilesStand` (MCAttachments), `ImplementsGuestList`
and `LegacyImplementsBoard` (MCServices). TLC finds each of them to hold when it is
added. In `Rooms`, `VisibleRooms` and `DirectRoomIsPrivate` name further views of
the rooms, which are neither checked nor proved.

**Bounds, and why they are enough.** Two runs make a parent and its child; three
make a source and two competing retries. In MCRunsLiveness no call rejects
(`MaxFaults = 0`): after a call of the catch block that rejects, the run has no
execution, which `HeldUp` would except anyway. MCRunsDelegation routes its message to the
planner alone (`Addressed`); that the gateway Agent is asked too, and works beside it, is in
MCRunsLiveness. Two progress events make a repeated
delegation, or an artifact and a delegation. One restart is enough to meet every
place of an execution, since a restart leaves nothing in memory and the store it
leaves is one that the runs reach anyway; a second one would find runs already
terminal or a second requeue. Leases need to expire once and be taken over once,
which two requests and three lease identifiers allow; a lease identifier is reused
only when nothing refers to it. All that may happen to one job, and two claims for
two jobs, are two sets of behaviours of MCGatewaySafety (`scene`): everything with
two jobs is out of TLC's reach, and the theorems need no such choice. `MaxDelay < LeaseTime` says that a request does
not wait for its commit longer than its lease lasts; a claim that did would be
born expired; the liveness run sets it to 0, because how old a request's clock
reading is decides which bridge gets a lease, a question of the safety runs, and
not whether the queue moves.

The races of `Rooms` are between two requests, so two clients suffice; four
requests allow a change, its concurrent rival, a repeat, and one that sees the
outcome; the two boots are the first start, which makes the first room, and one
more. In `RoomPage` two windows compete for one draft while two selections take a
window to another room and back; three revisions are a draft, its rival and the
cleared one. In `Attachments` a trouble is a stop of the server, a broken
connection, an expiry, a clean-up, a departure or an archiving; three of them are
a broken upload, its expiry and its clean-up, or a stop between the latter two.
`MaxRows = 1` gives a key one row, so that a row recreated after a clean-up is
outside the run. In `MCServices` a limit of 2 failures with 2 concurrent logins reaches the
lock and the logins that were past it; the clock of 5 ticks passes a window of 2
and a lock of 2; two tokens make one race of refreshes; two invitations, two
files and a card that existed before make every mix-up of two clients; two runs
make a failed one and its retry or the next message (MCLegacyTwoActive has three),
two faults a call that throws and another in the catch block, or a stop after it.
One throttle row stands for the two of the code there, as they are read and written
alike; the theorem has any number. In `RunStream` the checked properties look at
the run's row alone, so `Parts` is that row; `SnapshotNotTorn` needs the delegation
too. Every bound is named where it is declared.

The safety runs identify states up to a permutation of values no definition tells
apart: run identifiers, windows, texts, clients, leases, requests. A permutation
moves every occurrence of a value, in answers and locks too. Deadlock is not
checked, because the systems do stop: all messages posted, all bounds used up.

**Fairness.** Executions are weakly fair: a database call returns or rejects and
every adapter has a deadline of its own (`YOYOO_GATEWAY_RESPONSE_TIMEOUT_MS`, the
timeouts of the in-process adapters), so that no place is stayed at for ever.
Booting and exiting are the process's own straight-line code. Requests are not
fair: people need not act, and nothing depends on it. In the gateway the
adapter's loop and the requests inside the server are weakly fair and the clock
runs (strong fairness, because the bound on delays disables a tick now and
then). Bridges are strongly fair in asking for work and in sending results, as
`runAgentGatewayLoop` retries for ever after errors; without a live bridge
`OldestIsReclaimed` means nothing, and `AdapterEnds` does not use their fairness.
In the stream, the server's loop, reconnection, delivery over an open connection,
the snapshot's queries and the display of what has arrived are weakly fair; breaks
are bounded. Nobody need leave a room or return to it.

`StartedRunsFinish` and `AbortedRunsStop` except a run that is `HeldUp`: one whose
text is too long and whose catch block has therefore failed, and every run while a
boot cannot get past such a one. That is what the code does, and why the exception
is as narrow as that: any other run ends. The other modules
state safety only and assume no fairness.

## 4. What is proved

Every theorem holds for all values of the constants that satisfy the assumptions
named with its module, so for any number of runs, Agents, clients, requests,
restarts and faults, and any bounds.

| Module | Theorem | States | Assumes |
| --- | --- | --- | --- |
| CollaborationRunsProofs | Invariance, TypeCorrect | `Spec => []Inv`, `[]TypeOK` | CapabilityAssumption, NullAssumption, BoundAssumption: capabilities and bounds are what their names say; gateway Agents declare neither delegation, nor artifacts, nor cancellation |
| | LogAndStatusAgree | `[]LogMatchesStatus` | |
| | DelegationEndsWithChild | `[]DelegationFollowsChild` | |
| | FinishedRunsAreFinal | `FinishedRunsStay` | |
| | BoardImplemented | `ImplementsBoard` | |
| | RetriesAreOne | `[]OneActiveRetry` | |
| | CountsFollowLogs | `[]SequenceInStep` | |
| | StrandedRunsAreChildren | `[]OnlyUnrecordedChildrenAreStranded` | |
| | LoggedEffects | `[]EffectsMatchLog` | |
| AgentGatewayProofs | GatewayTypeCorrect | `[]TypeOK` | GatewayAssumption: lifetimes are positive, a request does not outlast a lease |
| | LockedRowsAreClaimable, OneAnswer, RunsShowAnswers | `[]LockedRowClaimable`, `[]OneAnswerPerJob`, `[]RunShowsStoredAnswer` | |
| | SettledJobsStay, LeasesAreNotStolen | `SettledJobStays`, `LeaseNotStolen` | |
| | JobBoardImplemented | `ImplementsJobBoard` | |
| | SecondLeaseOnlyAtOnce | `[]SecondLeaseClaimedAtOnce` | |
| RunStreamProofs | StreamTypeCorrect | `[]TypeOK` | StreamAssumption: bounds are numbers, a snapshot reads the run's row |
| | EventsAreInOrder, ResponsesEndAfterTerminal | `[]EventsInOrder`, `[]EndsAfterTerminal` | |
| | FeedImplemented | `ImplementsFeed` | |
| RoomsProofs | SomeRoomStaysActive | `[]SomeRoomActive` | RoomsAssumption, NoMessageAssumption; finitely many rooms |
| | MessagesTellTheirHistory, AnswersAreKept | `[]HistoryTellsMessage`, `[]AnswersStand` | |
| | RoomsTypeCorrect, PairsStay, PastIsKept | `[]TypeOK`, `[]PairStays`, `PastStands` | |
| RoomPageProofs | PageTypeCorrect, WindowsKnowTheirDraft | `[]TypeOK`, `[]ReferencesMatch` | RoomPageAssumption, NoneAssumption: `None` is no message being sent |
| | SavesSpareUnseenDrafts, ClearsOnlySentDrafts, CursorsAdvance | `UnseenDraftKept`, `OnlySentDraftsAreCleared`, `CursorAdvances` | |
| AttachmentsProofs | AttachmentTypeCorrect, CarriedUploadsStand | `[]TypeOK`, `[]LinksStand` | AttachmentsAssumption: every key has a source; NoneAssumption: `None` is no row |
| | ReadyUploadsHaveBytes, AgentsReadWhatPeopleRead | `[]ReadyHasBlob`, `[]ReadersAgree` | |
| | CarriedFilesAreKept | `CarriedFilesStand` | |
| AccessProofs | LoginTypeCorrect, ResetsEndSessions | `[]LoginTypeOK`, `[]NoSessionFromBefore` | PasswordAssumption |
| | FailuresAreBounded | `[]FailuresBounded` | in the theorem: `ShortLogins`, a login takes at most half the time of the lock |
| | CardTypeCorrect, LogoutHolds, GrantedSessionsHold, WithdrawalHolds | `[]CardTypeOK`, `[]LogoutIsFinal`, `[]GrantedSessionsLast`, `[]WithdrawalReaches` | FederatedAssumption: the validation interval is within the grace period; NoSessionAssumption |
| | AdmissionTypeCorrect, EnabledOnlyByAdmission, FilesAreTrue | `[]AdmissionTypeOK`, `[]EnabledByAdmission`, `[]FilesTellTheTruth` | AdmissionAssumption: `NoInvitation` is no invitation, `NoFileId` no identity |
| | GuestListImplemented | `ImplementsGuestList` | |
| LegacyRunsProofs | LegacyTypeCorrect, ActiveTurnsAreWorkedOn, StoriesAgree | `[]LegacyTypeOK`, `[]ActiveTurnsHaveWorker`, `[]TurnTellsOneStory` | LegacyAssumption |
| | LegacyBoardImplemented | `LegacyImplementsBoard` | |

**The runs.** The properties alone are not inductive. `Inv` adds to
them:

- `PlaceInv`: what an execution knows at each place: that the run exists, that it
  is no longer queued, and that the pending event is of the kind the place is for.
- `BootInv`: a booting process has neither executions nor requests. Without it a
  requeue could return to the queue a run that an execution is working on.
- `RecordInv` and `OrphanInv`: what is known of a child run between its own
  commit and its delegation's. The difficulty is `RecordDelegation` and
  `RepeatDelegation`: they create a running delegation for a child that was
  committed earlier, which is right only if that child has not finished
  meanwhile. Nobody can have run it: an execution that is about to record has
  exactly one such child, queued and idle (`RecordInv`); and once the record was
  refused or lost the parent has left its loop for good (`OrphanInv`), so that
  no later repeat finds the orphan. The parent stays away because only gateway
  runs are requeued, and a gateway Agent does not delegate: this is where
  `CapabilityAssumption` is used.
- `OutputInv`: a delegation belongs to a run, a terminal message to a run that
  ended so; `FinishAs` of the board needs it.

Each `...Step` lemma shows one conjunct preserved, action by action; `TameSteps`
and `CalmSteps` group the actions that leave the tables, or a child's rows,
alone. Safety theorems follow from `Inv` with PTL. `BoardStep` shows that each
step of `Next` from `Inv` is a step of the board under the mapping, or leaves the
mapped variables as they are.

Four more invariants are inductive next to `Inv`, each for one of the later
theorems: `RetryInv` (while a request holds the source run's lock past its look,
no retry of that run is active), `SeqInv` (at the places that count, as many
events are counted as the log has), `EndsInv` with `StrandInv` and `ParentInv` (an
active run nobody executes is overlong, or a queued child without a delegation
whose parent has not completed), and `EffectsInv` (the event whose effect an execution is busy
with is the last logged; an event without its effect belongs to a run that has
failed, stopped, or is busy with it).

**The gateway.** A claim keeps the row it selected locked until it commits, so the
row can only become more expired; a row that can be claimed has no answer; an
answer is written once, under the lease the row has at that moment. `GatewayInv`
says what each place of a request, a lock and a lease imply of the row
(`HoldingInv`, `LockInv`, `AnswerInv`). The job board follows from it: the only step
that changes a result is the commit of an answer under the lease, which finds none
there, and adds exactly this answer to what was acknowledged; a repeat acknowledges
what is stored. `RivalInv` adds what a claim knows between its
selection and its commit: every job of its Agent with a lease that is unexpired by
the claim's clock has recorded this claim's job as selected when that lease was
given (`ClaimSeesItsRivals`). A claim that selects sees no such lease at all; one
that commits meanwhile finds the claim in the server and records it. So a second
lease beside an unexpired one is given only to a claim that was in the server with
the first, whoever sent them. Without that exception the statement is false
(section 3), as claims lock nothing that belongs to the Agent.

**The stream.** What a subscription has got, what is on the wire and what the
response has yet to send are consecutive numbers; lemmas about concatenated
intervals do the rest. For the feed, `FollowInv` adds
that an open source is a subscription's: the page gives the subscription up in the
step that receives the terminal event or sets out for another room, and only
without one does it begin again, at the first event.

**Rooms.** `LifeInv` is about the moment between the check and the write of an
archiving: the lifecycle lock keeps any other room from leaving, so the second
active room the check has seen is still there. `AckInv` relates each answer given to
the row or the revision it was about, and `MessageInv` keeps a revision's number
the length of the history. `PairsStay` needs what a removal and a change of status
remember between their check and their commit (`PairRequests`): that the room is
there and not direct, and that it is not the owner who is removed; `MembersKept`
says of each action what it may take from a room's members. `PastIsKept` shows for
each commit that it appends to a history or leaves it, and that an edit or a
retraction finds the revision it expects and the message not retracted, under the
row's lock.

**The page.** A text kept together with a room and a revision (in a window's
references, in a save or a message on its way, in an answer, in a room being
loaded) was that room's draft under that revision (`Known`). Drafts are only added
to, so this stays true however late the text is used, and the server compares the
revision before it replaces or clears. `QueueOf` says that a message waiting for
its draft is in the queue exactly once: without it the answer to a save could be
taken for that of another message.

**Attachments.** A row becomes ready once, and everything that takes a row or a
blob away asks for a row that is not ready (`ReadyStays`); this alone gives
`LinksStand`. Nothing is locked between a blob and its row, so the blob's part,
`InTurn`, is about keys whose requests and clean-ups came one after another: then
the request that completes the upload is the only one at work on it, and what it
wrote is still there. `CarriedFilesAreKept` is the same about steps: an upload that
a message carries is ready, and what would write to it or delete it is for rows
that are not.

**Logins.** `FailuresBounded` is a count over all logins under way. A failure that
starts a window finds at most all the other logins before it, and the lock stops
later ones; but a login reads its throttle rows and records by the clock it read at its start, so a late one can
move the end of the lock back, and other logins may begin at that end while some of
before have yet to record. `CountInv` follows this: below the limit; `FirstLock`,
where the failures counted and the logins that began before the end of the lock are
together at most one short of the limit plus the number of logins; `LastLock`, where
the lock ends after the window, so that what begins later starts a new one. The step
from the first to the last happens once if a login takes at most half the time of
the lock (`ShortLogins`; the lock is 15 minutes,
`postgres/human-auth-repository.ts:9`, a login a few queries and one hash). The
hypothesis is needed for the bound: with a window and a lock of 3 ticks, logins of
up to 2 ticks, a limit of 1 and 3 logins, TLC finds a window with 7 failures, where
the bound is 6.

**Sessions.** A snapshot or session carries a version that has been the
credential's, and while that version is active nothing has happened to the
credential since (`OriginInv`). The provider has exchanged every token but the
newest under the key any holder of it computes (`KeyInv`), so a refresh is
answered while the grant stands; an ended session stays revoked, because updates
ask for a usable one (`SessionInv`).

**Admission and single-conversation runs.** A file's invitation, claim and identity
are written once before any request, so every claim on its way repeats them; the
finalizing transaction reads the status that counts under the row's lock. For the
guest list, `DeskInv` adds that a row names its Agent from its admission on and none
before it, so that an admission finds the invitation unused and a revocation takes
the permissions of the very Agent the row names. An execution leaves memory only
when its run has ended, its catch block has thrown (`deserted`) or its text is too
long, and a stop takes all of them together; an event is stored only for a run that
has not ended, which makes each step one of the board's.

**Only model-checked:** liveness (`StartedRunsFinish`, `AbortedRunsStop`,
`AdapterEnds`, `OldestIsReclaimed`, `EndIsShown`), which is out of the prover's reach
(it cannot reason about ENABLED). Every other property of a passing run is a
theorem.

## 5. Abstractions

- Texts, titles, objectives, metadata, error codes and timestamps are left out. A
  completed event's answer is blank, text, or refused by the tables (too long, or
  with attachments that do not belong to the run). A `text_delta` of white space
  counts as text. The length of streamed text is whether it has passed the limit.
- A commit that takes effect and then throws is, in `CollaborationRuns`, the step
  that commits followed by a rejecting call (`Fault`); a delegation's, which does
  more when it succeeds, is an outcome of `Fault` (`RecordUnheard`). The commit that creates
  runs for a request may be unheard too (`StartCommitted`): the runs are queued and
  nobody starts them before the next boot.
- One room. Nothing in the code relates runs of different rooms, except that
  `createRetry` and `removeMember` ask for the room's runs only.
- The status `waiting` is allowed by the tables and never written by the code; it
  does not occur in the model.
- An Agent's binding is constant; a failing `getAgentBinding` is a `Fault` at the
  place `delegate`.
- In `CollaborationRuns` attachment grants are not stored, and a failing grant is
  a `Fault`; in `Attachments` they are rows and their use is modelled.
- `RepeatDelegation` has an arm for a child without a delegation. It mirrors the
  code; under the assumption on gateway Agents it is unreachable, as `OrphanInv`
  shows.
- A cancelled run's adapter is any adapter: it may answer, stop or throw.
- A bridge's resource downloads, its backoff times, and job payloads are left out.
- `Rooms` is one workspace; names, purposes and thread roots, on which nothing
  depends, are left out. Its runs are pairs of a message and an Agent that end at
  any time; how they go is `CollaborationRuns`' business.
- In `RoomPage` messages are counted, a text is a model value, and an optimistic
  message is not shown. `mixed` marks windows whose references may belong to
  another room, and `ReferencesMatch` excepts them: the code keeps the references
  it had when an answer arrives after a switch of rooms.
- In `Attachments` a content stands for bytes, name and media type; a grant does
  not expire, `archived` and departures are for ever.
- The AI Card service is modelled as external, from how the client and its tests
  use it: a refresh token is exchanged once, a repeat with the same idempotency
  key is answered again; an invitation is claimed once, a repeated claim is
  answered again.

## 6. Not modelled

- *Search*: read-only full-text queries.
- *Presentation*: rendering, styles, the mapping of errors to HTTP statuses,
  dialogs, optimistic messages.
- *Operations and provisioning scripts*: one-off administration, file and process
  I/O. The two that change a credential are in `PasswordLogin`.
- *Authentication*: hashing, cookies, the proxy's allow-list, expiry of sessions.
- *Attachments*: `discardPending` (the composer's cancel), the expiry of grants.
- *Rooms*: names, purposes, thread roots, workspace membership.
- *Admission*: key material, presence, room memberships, rate limits.
- *Agents*: the text of the room context, the processes and HTTP calls behind the
  in-process adapters; a bridge's backoff and downloads.
- *Legacy conversation*: its creation, its page, and its event stream, whose loop
  is the one of `RunStream` over other tables.
- *Wiring*: reading configuration, connection pools.

## 7. What could come next

1. `Rooms` composed with `CollaborationRuns`, so that membership and retraction
   look at the runs themselves and not at pairs that end at any time.
2. Abstract specifications of the page's drafts (a draft is a sequence of versions,
   each replaced only by who has seen it) and of attachments (a file is nothing, on
   its way, ready, carried), implemented by `RoomPage` and `Attachments`.
3. The room context an Agent is given, as an operator compared with a reference
   definition over small rooms.
