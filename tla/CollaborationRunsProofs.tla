---------------------- MODULE CollaborationRunsProofs ----------------------
(***************************************************************************)
(* What the coordinator and the store guarantee for any number of runs,    *)
(* messages and Agents, any number of restarts and any number of database  *)
(* faults.  The argument is one inductive invariant, Inv: the properties   *)
(* themselves, what each place of an execution knows about the run, and    *)
(* what is known about a child run whose delegation is not stored yet.     *)
(* Four more are inductive next to it: RetryInv (retries), SeqInv (the     *)
(* count of an execution), EndsInv, StrandInv and ParentInv (runs nobody   *)
(* executes) and EffectsInv (events and their effects).                    *)
(***************************************************************************)
EXTENDS CollaborationRuns, TLAPS

\* What an execution knows at each place.
PlaceInv ==
  \A r \in Runs :
    /\ pc[r] # "idle" \/ retrying[r] # NoKey => Exists(r)
    /\ pc[r] \in {"context", "events", "adapter", "append", "delegate", "record",
                  "repeat", "artifact"} => status[r] # "queued"
    /\ pc[r] = "append" => pending[r] \in Event
    /\ pc[r] = "append" /\ pending[r].type = "delegation" =>
         row[r].agent \in Delegators
    /\ pc[r] \in {"delegate", "record", "repeat"} =>
         pending[r] \in Delegation /\ row[r].agent \in Delegators
    /\ pc[r] = "artifact" => pending[r] \in Artifact
    /\ pc[r] = "interrupt" => pending[r] \in {Failed, Stopped}

\* A process that boots has no executions and no requests.
BootInv ==
  phase = "boot" =>
    /\ \A r \in Runs : pc[r] = "idle" /\ retrying[r] = NoKey
    /\ \A m \in Messages : submit[m] = "idle"

\* A child run that exists before its delegation does.
Orphan(c, r) ==
  /\ Exists(c) /\ row[c].kind = "delegation" /\ row[c].source = r
  /\ delegation[c] = "none"

\* The child an execution is about to record is its only orphan, is queued,
\* and nobody runs it.
RecordInv ==
  \A r \in Runs :
    pc[r] = "record" =>
      /\ \A c \in Derived("delegation", r, pending[r].key) :
           status[c] = "queued" /\ pc[c] = "idle" /\ delegation[c] = "none"
      /\ \A c, d \in Runs : Orphan(c, r) /\ Orphan(d, r) => c = d

\* The parent of an orphan can no longer go on, and will not be started again.
OrphanInv ==
  \A c \in Runs :
    Orphan(c, row[c].source) =>
      LET r == row[c].source IN
      /\ r \in Runs /\ Exists(r) /\ row[r].agent \in Delegators
      /\ status[r] # "queued"
      /\ pc[r] \in {"record", "catch", "interrupt", "settle", "idle"}

\* A delegation belongs to a run; a terminal message to a run that ended so.
OutputInv ==
  \A r \in Runs :
    /\ delegation[r] # "none" => Exists(r)
    /\ output[r] # "none" => status[r] = output[r]

Inv ==
  /\ TypeOK /\ PlaceInv /\ BootInv /\ RecordInv /\ OrphanInv /\ OutputInv
  /\ LogMatchesStatus /\ DelegationFollowsChild

\* What a commit that returns runs does to the executions, heard of or not.
Starting(S) ==
  /\ \A r \in Runs :
       pc'[r] = pc[r] \/ (r \in S /\ pc[r] = "idle" /\ pc'[r] = "claim")
  /\ faults' = faults + 1 \/ \A r \in Runs \cap S : pc'[r] # "idle"
  /\ UNCHANGED <<aborted, persisted, pending>>

LEMMA StartingFacts ==
  ASSUME NEW S, Start(S) \/ StartCommitted(S)
  PROVE  Starting(S)
BY DEF Start, StartCommitted, Starting, execVars

-----------------------------------------------------------------------------
(* Types.                                                                  *)

\* Events of a type have that type's fields, and interruptions are events.
LEMMA EventTypes ==
  /\ \A e \in Event : /\ e.type = "delegation" => e \in Delegation
                      /\ e.type = "artifact" => e \in Artifact
                      /\ e \in Delegation => e.delegate \in Agents /\ e.key \in Keys
                      /\ e \in Artifact => e.key \in Keys
  /\ Failed \in Event /\ Stopped \in Event
  /\ Failed.type = "failed" /\ Stopped.type = "stopped"
  /\ Delegation \subseteq Event /\ Artifact \subseteq Event
BY DEF Event, Delegation, Artifact, Progress, Completed, Failed, Stopped

\* The store keeps its types when an event is appended ...
LEMMA AppendEventType ==
  ASSUME StoreTypeOK, NEW r \in Runs, NEW e \in Event, status[r] \in Active,
         AppendEvent(r, e)
  PROVE  StoreTypeOK'
<1>1. log' \in [Runs -> Seq(Event)]
  BY DEF StoreTypeOK, AppendEvent
<1>2. status' \in [Runs -> Active \cup Terminal \cup {"absent"}]
  BY DEF StoreTypeOK, AppendEvent
<1>3. output' \in [Runs -> Terminal \cup {"none"}]
  BY DEF StoreTypeOK, AppendEvent
<1>4. delegation' \in [Runs -> Terminal \cup {"running", "none"}]
  BY DEF StoreTypeOK, AppendEvent
<1>5. \A q \in Runs : Exists(q)' => Exists(q)
  BY DEF StoreTypeOK, AppendEvent, Exists, Active
<1> QED
  BY <1>1, <1>2, <1>3, <1>4, <1>5 DEF StoreTypeOK, AppendEvent, Exists

\* ... and at every other step.  CreateForMessage gives each new run the Agent
\* the router chose it for.
LEMMA StoreTypeStep ==
  ASSUME TypeOK, PlaceInv, [Next]_vars
  PROVE  StoreTypeOK'
<1> USE DEF TypeOK
<1>a. CASE UNCHANGED storeVars
  BY <1>a DEF storeVars, StoreTypeOK, Exists
<1>1. ASSUME NEW r \in Runs, Claim(r)
      PROVE  StoreTypeOK'
  BY <1>1 DEF Claim, StoreTypeOK, Exists, Active
<1>2. ASSUME NEW r \in Runs, Store(r)
      PROVE  StoreTypeOK'
  <2>1. CASE ~(Appendable(r, persisted[r] + 1) /\ Storable(r, pending[r]))
    BY <1>2, <2>1, <1>a DEF Store
  <2>2. CASE Appendable(r, persisted[r] + 1) /\ Storable(r, pending[r])
    <3>1. AppendEvent(r, pending[r]) /\ status[r] \in Active /\ pc[r] = "append"
      BY <1>2, <2>2 DEF Store, Appendable
    <3>2. pending[r] \in Event
      BY <3>1 DEF PlaceInv
    <3> QED
      BY <3>1, <3>2, AppendEventType
  <2> QED
    BY <2>1, <2>2
<1>3. ASSUME NEW r \in Runs, CreateDelegatedRun(r)
      PROVE  StoreTypeOK'
  <2>1. CASE Derived("delegation", r, pending[r].key) # {}
    BY <1>3, <2>1 DEF CreateDelegatedRun, StoreTypeOK, Exists
  <2>2. CASE Derived("delegation", r, pending[r].key) = {}
    <3>1. PICK c \in Absent : InsertDerived(c, "delegation", r, pending[r].delegate,
                                            pending[r].key)
      BY <1>3, <2>2 DEF CreateDelegatedRun
    <3>2. /\ pending[r].delegate \in Agents /\ pending[r].key \in Keys
          /\ row[r].trigger \in Messages
      BY <1>3, EventTypes DEF CreateDelegatedRun, PlaceInv, Exists, StoreTypeOK, Row
    <3>3. [agent |-> pending[r].delegate, trigger |-> row[r].trigger,
           kind |-> "delegation", source |-> r, key |-> pending[r].key] \in Row
      BY <3>2 DEF Row
    <3>4. /\ row' \in [Runs -> Row \cup {NoRow}]
          /\ status' \in [Runs -> Active \cup Terminal \cup {"absent"}]
          /\ \A q \in Runs : Exists(q)' => row'[q] \in Row
      BY <3>1, <3>3 DEF InsertDerived, StoreTypeOK, Active, Exists, Absent
    <3> QED
      BY <1>3, <3>4 DEF CreateDelegatedRun, StoreTypeOK
  <2> QED
    BY <2>1, <2>2
<1>4. ASSUME NEW r \in Runs, RecordDelegation(r) \/ RepeatDelegation(r)
      PROVE  StoreTypeOK'
  <2>1. delegation' \in [Runs -> Terminal \cup {"running", "none"}]
    BY <1>4 DEF RecordDelegation, RecordOrElse, RepeatDelegation, StoreTypeOK, Derived
  <2> QED
    BY <1>4, <2>1 DEF RecordDelegation, RecordOrElse, RepeatDelegation, StoreTypeOK,
      Exists
<1>5. ASSUME NEW r \in Runs, CreateArtifact(r)
      PROVE  StoreTypeOK'
  <2>1. pending[r].key \in Keys
    BY <1>5, EventTypes DEF CreateArtifact, PlaceInv
  <2>2. artifacts' = artifacts
          \/ artifacts' = [artifacts EXCEPT ![r] = @ \cup {pending[r].key}]
    BY <1>5 DEF CreateArtifact
  <2>3. artifacts[r] \cup {pending[r].key} \in SUBSET Keys
    BY <2>1 DEF StoreTypeOK
  <2>4. artifacts' \in [Runs -> SUBSET Keys]
    BY <2>2, <2>3 DEF StoreTypeOK
  <2> QED
    BY <1>5, <2>4 DEF CreateArtifact, StoreTypeOK, Exists
<1>6. ASSUME NEW r \in Runs, Settle(r)
      PROVE  StoreTypeOK'
  BY <1>6 DEF Settle, SettleByChildRun, StoreTypeOK, Exists
<1>7. ASSUME NEW r \in Runs, Interrupt(r)
      PROVE  StoreTypeOK'
  <2>1. CASE ~(Appendable(r, persisted[r] + 1) /\ Storable(r, pending[r]))
    BY <1>7, <2>1, <1>a DEF Interrupt
  <2>2. CASE Appendable(r, persisted[r] + 1) /\ Storable(r, pending[r])
    <3>1. AppendEvent(r, pending[r]) /\ status[r] \in Active /\ pending[r] \in Event
      BY <1>7, <2>2, EventTypes DEF Interrupt, Appendable, PlaceInv
    <3> QED
      BY <3>1, AppendEventType
  <2> QED
    BY <2>1, <2>2
<1>8. ASSUME NEW r \in Runs, FailInterrupted(r)
      PROVE  StoreTypeOK'
  BY <1>8, AppendEventType, EventTypes DEF FailInterrupted
<1>9. ASSUME NEW m \in Messages, Submit(m)
      PROVE  StoreTypeOK'
  BY <1>9 DEF Submit, StoreTypeOK, Exists
<1>10. ASSUME NEW m \in Messages, CreateForMessage(m)
       PROVE  StoreTypeOK'
  <2>1. PICK new \in [targets[m] -> Absent] :
          LET made == {new[a] : a \in targets[m]} IN
          /\ status' = [r \in Runs |-> IF r \in made THEN "queued" ELSE status[r]]
          /\ row' = [r \in Runs |->
               IF r \in made
               THEN [agent |-> CHOOSE a \in targets[m] : new[a] = r, trigger |-> m,
                     kind |-> "message", source |-> NoRun, key |-> NoKey]
               ELSE row[r]]
    BY <1>10 DEF CreateForMessage
  <2> DEFINE made == {new[a] : a \in targets[m]}
             owner(r) == CHOOSE a \in targets[m] : new[a] = r
  <2>2. \A r \in made : owner(r) \in Agents
    <3>1. targets[m] \subseteq Agents
      BY DEF MemoryTypeOK
    <3>2. \A r \in made : owner(r) \in targets[m]
      OBVIOUS
    <3> QED
      BY <3>1, <3>2
  <2>3. \A r \in made : row'[r] \in Row
    <3> SUFFICES ASSUME NEW r \in made
                 PROVE  row'[r] \in Row
      OBVIOUS
    <3>1. r \in Runs
      BY DEF Absent
    <3>2. row'[r] = [agent |-> owner(r), trigger |-> m, kind |-> "message",
                     source |-> NoRun, key |-> NoKey]
      BY <2>1, <3>1
    <3> QED
      BY <2>2, <3>2 DEF Row
  <2>4. \A r \in Runs \ made : row'[r] = row[r] /\ status'[r] = status[r]
    BY <2>1
  <2>5. \A r \in made \cap Runs : status'[r] = "queued"
    BY <2>1
  <2>6. /\ row' \in [Runs -> Row \cup {NoRow}]
        /\ status' \in [Runs -> Active \cup Terminal \cup {"absent"}]
        /\ \A r \in Runs : Exists(r)' => row'[r] \in Row
    <3> HIDE DEF made
    <3>1. DOMAIN row' = Runs /\ DOMAIN status' = Runs
      BY <2>1
    <3>2. row' = [r \in Runs |-> row'[r]] /\ status' = [r \in Runs |-> status'[r]]
      BY <2>1
    <3> QED
      BY <2>3, <2>4, <2>5, <3>2 DEF StoreTypeOK, Exists, Active
  <2> QED
    BY <1>10, <2>6 DEF CreateForMessage, StoreTypeOK
<1>11. ASSUME NEW m \in Messages, Retract(m)
       PROVE  StoreTypeOK'
  BY <1>11 DEF Retract, StoreTypeOK, Exists
<1>12. ASSUME NEW r \in Runs, CreateRetry(r)
       PROVE  StoreTypeOK'
  <2>1. PICK c \in Absent : InsertDerived(c, "retry", r, row[r].agent, retrying[r])
    BY <1>12 DEF CreateRetry
  <2>2. /\ row[r].agent \in Agents /\ row[r].trigger \in Messages
        /\ retrying[r] \in RetryKeys
    BY <1>12 DEF CreateRetry, PlaceInv, StoreTypeOK, MemoryTypeOK, Row
  <2>3. [agent |-> row[r].agent, trigger |-> row[r].trigger, kind |-> "retry",
         source |-> r, key |-> retrying[r]] \in Row
    BY <2>2 DEF Row
  <2>4. /\ row' \in [Runs -> Row \cup {NoRow}]
        /\ status' \in [Runs -> Active \cup Terminal \cup {"absent"}]
        /\ \A q \in Runs : Exists(q)' => row'[q] \in Row
    BY <2>1, <2>3 DEF InsertDerived, StoreTypeOK, Active, Exists, Absent
  <2> QED
    BY <1>12, <2>4 DEF CreateRetry, StoreTypeOK
<1>13. ASSUME NEW a \in Agents, CheckRemove(a) \/ RemoveMember(a) \/ AddMember(a)
       PROVE  StoreTypeOK'
  BY <1>13, <1>a DEF CheckRemove, RemoveMember, AddMember, StoreTypeOK, Exists
<1>14. ASSUME Requeue
       PROVE  StoreTypeOK'
  BY <1>14 DEF Requeue, RequeueAndStart, ActiveRuns, StoreTypeOK, Exists, Active
<1>15. ASSUME NEW r \in Runs,
              LoadContext(r) \/ ListEvents(r) \/ Yield(r) \/ StreamEnds(r)
                \/ StreamThrows(r) \/ Catch(r)
       PROVE  UNCHANGED storeVars
  BY <1>15 DEF LoadContext, ListEvents, Yield, StreamEnds, StreamThrows, Catch
<1>22. ASSUME NEW r \in Runs, Fault(r)
       PROVE  StoreTypeOK'
  <2>1. CASE RecordUnheard(r)
    BY <2>1 DEF RecordUnheard, StoreTypeOK, Exists
  <2> QED
    BY <1>22, <1>a, <2>1 DEF Fault
<1>16. ASSUME NEW r \in Runs, NEW k \in RetryKeys, CheckRetry(r, k)
       PROVE  UNCHANGED storeVars
  BY <1>16 DEF CheckRetry, LockForRetry
<1>17. ASSUME NEW r \in Runs, ReadForCancel(r) \/ Abort(r) \/ Intervene(r)
        PROVE  UNCHANGED storeVars
  BY <1>17 DEF ReadForCancel, Abort, Intervene
<1>18. ASSUME NEW m \in Messages, Route(m) \/ CheckRetract(m)
       PROVE  UNCHANGED storeVars
  BY <1>18 DEF Route, CheckRetract
<1>19. ASSUME Crash \/ Shutdown \/ Exit
       PROVE  UNCHANGED storeVars
  BY <1>19 DEF Crash, Shutdown, Exit
<1>20. CASE UNCHANGED vars
  BY <1>20, <1>a DEF vars
<1>21. Movable \subseteq Agents
  BY BoundAssumption
<1> QED
  BY <1>a, <1>1, <1>2, <1>3, <1>4, <1>5, <1>6, <1>7, <1>8, <1>9, <1>10, <1>11,
     <1>12, <1>13, <1>14, <1>15, <1>16, <1>17, <1>18, <1>19, <1>20, <1>21, <1>22
  DEF Next, Execute, Boot

\* The process's memory keeps its types.
LEMMA MemoryTypeStep ==
  ASSUME TypeOK, PlaceInv, [Next]_vars
  PROVE  MemoryTypeOK'
<1> USE DEF TypeOK
<1>1. ASSUME NEW r \in Runs, Finish(r), ExecFrame
      PROVE  MemoryTypeOK'
  BY <1>1 DEF Finish, Goto, ExecFrame, requestVars, countVars, MemoryTypeOK, Places
<1>2. ASSUME NEW r \in Runs, NEW next \in Places, Goto(r, next), ExecFrame,
             UNCHANGED aborted, persisted' \in [Runs -> Nat],
             pending' \in [Runs -> Event \cup {NoEvent}]
      PROVE  MemoryTypeOK'
  BY <1>2 DEF Goto, ExecFrame, requestVars, countVars, MemoryTypeOK
<1>3. ASSUME NEW r \in Runs, Claim(r)
      PROVE  MemoryTypeOK'
  BY <1>1, <1>2, <1>3 DEF Claim, MemoryTypeOK, Places
<1>4. ASSUME NEW r \in Runs, LoadContext(r)
      PROVE  MemoryTypeOK'
  BY <1>2, <1>4 DEF LoadContext, MemoryTypeOK, Places
<1>5. ASSUME NEW r \in Runs, ListEvents(r)
      PROVE  MemoryTypeOK'
  <2>1. persisted' \in [Runs -> Nat]
    BY <1>5 DEF ListEvents, MemoryTypeOK, StoreTypeOK
  <2>2. pending' \in [Runs -> Event \cup {NoEvent}]
    BY <1>5, EventTypes DEF ListEvents, MemoryTypeOK
  <2> QED
    BY <1>2, <1>5, <2>1, <2>2 DEF ListEvents, Places
<1>6. ASSUME NEW r \in Runs, Yield(r) \/ StreamEnds(r)
      PROVE  MemoryTypeOK'
  <2>1. pending' \in [Runs -> Event \cup {NoEvent}]
    BY <1>6, EventTypes DEF Yield, StreamEnds, Interruption, MemoryTypeOK
  <2> QED
    BY <1>2, <1>6, <2>1 DEF Yield, StreamEnds, MemoryTypeOK, Places
<1>7. ASSUME NEW r \in Runs, StreamThrows(r)
      PROVE  MemoryTypeOK'
  BY <1>2, <1>7 DEF StreamThrows, MemoryTypeOK, Places
<1>8. ASSUME NEW r \in Runs, Store(r)
      PROVE  MemoryTypeOK'
  <2>1. AfterAppend(pending[r]) \in Places
    BY DEF AfterAppend, Places
  <2>2. persisted' \in [Runs -> Nat] /\ pending' \in [Runs -> Event \cup {NoEvent}]
    BY <1>8 DEF Store, MemoryTypeOK
  <2> QED
    BY <1>2, <1>8, <2>1, <2>2 DEF Store, Places
<1>9. ASSUME NEW r \in Runs, CreateDelegatedRun(r)
      PROVE  MemoryTypeOK'
  BY <1>2, <1>9 DEF CreateDelegatedRun, MemoryTypeOK, Places
<1>10. ASSUME NEW r \in Runs, RecordDelegation(r)
       PROVE  MemoryTypeOK'
  <2>1. PICK c \in Runs :
          \/ pc' = [pc EXCEPT ![r] = "adapter",
                              ![c] = IF @ = "idle" THEN "claim" ELSE @]
          \/ pc' = [pc EXCEPT ![r] = "catch"]
    BY <1>10 DEF RecordDelegation, RecordOrElse, Derived, Goto
  <2>2. pc' \in [Runs -> Places]
    BY <2>1 DEF MemoryTypeOK, Places
  <2>3. pending' \in [Runs -> Event \cup {NoEvent}]
    BY <1>10 DEF RecordDelegation, RecordOrElse, MemoryTypeOK
  <2> QED
    BY <1>10, <2>2, <2>3 DEF RecordDelegation, RecordOrElse, ExecFrame, requestVars,
      countVars, MemoryTypeOK
<1>11. ASSUME NEW r \in Runs, RepeatDelegation(r)
       PROVE  MemoryTypeOK'
  <2>1. Goto(r, "adapter") \/ Goto(r, "catch")
    BY <1>11 DEF RepeatDelegation
  <2> QED
    BY <1>2, <1>11, <2>1 DEF RepeatDelegation, MemoryTypeOK, Places
<1>12. ASSUME NEW r \in Runs, CreateArtifact(r)
       PROVE  MemoryTypeOK'
  BY <1>2, <1>12 DEF CreateArtifact, MemoryTypeOK, Places
<1>13. ASSUME NEW r \in Runs, Settle(r)
       PROVE  MemoryTypeOK'
  BY <1>1, <1>13 DEF Settle
<1>14. ASSUME NEW r \in Runs, Catch(r)
       PROVE  MemoryTypeOK'
  <2>1. CASE status[r] \in Active
    <3>1. Len(log[r]) \in Nat /\ Interruption(r) \in Event
      BY EventTypes DEF Interruption, StoreTypeOK
    <3>2. /\ persisted' \in [Runs -> Nat]
          /\ pending' \in [Runs -> Event \cup {NoEvent}]
      BY <1>14, <2>1, <3>1 DEF Catch, MemoryTypeOK
    <3> QED
      BY <1>2, <1>14, <2>1, <3>2 DEF Catch, Places
  <2>2. CASE status[r] \notin Active
    BY <1>1, <1>14, <2>2 DEF Catch
  <2> QED
    BY <2>1, <2>2
<1>15. ASSUME NEW r \in Runs, Interrupt(r)
       PROVE  MemoryTypeOK'
  BY <1>1, <1>2, <1>15 DEF Interrupt, MemoryTypeOK, Places
<1>16. ASSUME NEW r \in Runs, Fault(r)
       PROVE  MemoryTypeOK'
  <2>1. /\ pc' \in [Runs -> Places] /\ aborted' \in [Runs -> BOOLEAN]
        /\ persisted' \in [Runs -> Nat]
        /\ pending' \in [Runs -> Event \cup {NoEvent}]
    <3>1. CASE Finish(r)
      BY <3>1 DEF Finish, Goto, MemoryTypeOK, Places
    <3>2. CASE /\ Goto(r, "catch") /\ pending' = [pending EXCEPT ![r] = NoEvent]
               /\ UNCHANGED <<aborted, persisted>>
      BY <3>2 DEF Goto, MemoryTypeOK, Places
    <3> QED
      BY <1>16, <3>1, <3>2 DEF Fault
  <2>2. faults' \in Nat
    BY <1>16 DEF Fault, MemoryTypeOK
  <2> QED
    BY <1>16, <2>1, <2>2 DEF Fault, requestVars, MemoryTypeOK
<1>17. ASSUME NEW m \in Messages, Submit(m) \/ CheckRetract(m) \/ Retract(m)
       PROVE  MemoryTypeOK'
  <2>1. CASE Submit(m)
    BY <2>1 DEF Submit, execVars, countVars, MemoryTypeOK
  <2>2. CASE CheckRetract(m)
    BY <2>2 DEF CheckRetract, execVars, countVars, MemoryTypeOK, StoreTypeOK
  <2>3. CASE Retract(m)
    BY <2>3 DEF Retract, execVars, countVars, MemoryTypeOK
  <2> QED
    BY <1>17, <2>1, <2>2, <2>3
<1>18. ASSUME NEW m \in Messages, Route(m)
       PROVE  MemoryTypeOK'
  <2>1. targets' \in [Messages -> SUBSET Agents]
    <3>1. CASE UNCHANGED targets
      BY <3>1 DEF MemoryTypeOK
    <3>2. ASSUME NEW A \in SUBSET member, targets' = [targets EXCEPT ![m] = A]
          PROVE  targets' \in [Messages -> SUBSET Agents]
      BY <3>2 DEF MemoryTypeOK, StoreTypeOK
    <3> QED
      BY <1>18, <3>1, <3>2 DEF Route
  <2>2. submit' \in [Messages -> {"idle", "route", "insert"}]
    BY <1>18 DEF Route, MemoryTypeOK
  <2> QED
    BY <1>18, <2>1, <2>2 DEF Route, execVars, countVars, MemoryTypeOK
<1>19. ASSUME NEW S \in SUBSET Runs, Start(S) \/ StartCommitted(S)
       PROVE  /\ pc' \in [Runs -> Places]
              /\ UNCHANGED <<aborted, persisted, pending>>
              /\ StartCommitted(S) => faults' \in Nat
  BY <1>19 DEF Start, StartCommitted, execVars, MemoryTypeOK, Places
<1>20. ASSUME NEW m \in Messages, CreateForMessage(m)
       PROVE  MemoryTypeOK'
  <2>1. PICK S \in SUBSET Runs : StartCommitted(S)
    BY <1>20 DEF CreateForMessage, Absent
  <2> QED
    BY <1>19, <1>20, <2>1 DEF CreateForMessage, countVars, MemoryTypeOK
<1>21. ASSUME NEW r \in Runs, ReadForCancel(r) \/ Abort(r) \/ Intervene(r)
       PROVE  MemoryTypeOK'
  BY <1>21 DEF ReadForCancel, Abort, Intervene, execVars, countVars, MemoryTypeOK
<1>22. ASSUME NEW r \in Runs, NEW k \in RetryKeys, CheckRetry(r, k)
       PROVE  MemoryTypeOK'
  BY <1>22 DEF CheckRetry, LockForRetry, execVars, countVars, MemoryTypeOK
<1>23. ASSUME NEW r \in Runs, CreateRetry(r)
       PROVE  MemoryTypeOK'
  <2>1. PICK S \in SUBSET Runs : StartCommitted(S)
    BY <1>23 DEF CreateRetry, Absent
  <2> QED
    BY <1>19, <1>23, <2>1 DEF CreateRetry, countVars, MemoryTypeOK
<1>24. ASSUME NEW a \in Agents, CheckRemove(a) \/ RemoveMember(a) \/ AddMember(a)
       PROVE  MemoryTypeOK'
  BY <1>24 DEF CheckRemove, RemoveMember, AddMember, memoryVars, execVars, requestVars,
    countVars,
    MemoryTypeOK
<1>25. ASSUME Crash \/ Exit
       PROVE  MemoryTypeOK'
  <2>1. LoseMemory /\ phase' = "boot" /\ UNCHANGED <<intervened, faults>>
    BY <1>25 DEF Crash, Exit, countVars
  <2>2. restarts' \in Nat
    BY <1>25 DEF Crash, Exit, countVars, MemoryTypeOK
  <2>3. /\ pc' \in [Runs -> Places] /\ aborted' \in [Runs -> BOOLEAN]
        /\ persisted' \in [Runs -> Nat]
        /\ pending' \in [Runs -> Event \cup {NoEvent}]
        /\ cancelling' \in [Runs -> {"idle", "abort", "intervene"}]
        /\ retrying' \in [Runs -> RetryKeys \cup {NoKey}]
    BY <2>1 DEF LoseMemory, Places
  <2>4. /\ submit' \in [Messages -> {"idle", "route", "insert"}]
        /\ targets' \in [Messages -> SUBSET Agents] /\ retracting' \subseteq Messages
        /\ removing' \subseteq Agents
    BY <2>1 DEF LoseMemory
  <2> QED
    BY <2>1, <2>2, <2>3, <2>4 DEF MemoryTypeOK
<1>26. ASSUME Shutdown
       PROVE  MemoryTypeOK'
  BY <1>26, BoundAssumption DEF Shutdown, requestVars, MemoryTypeOK
<1>27. ASSUME NEW r \in Runs, FailInterrupted(r)
       PROVE  MemoryTypeOK'
  BY <1>27 DEF FailInterrupted, memoryVars, execVars, requestVars, countVars,
    MemoryTypeOK
<1>28. ASSUME Requeue
       PROVE  MemoryTypeOK'
  <2>1. Start(ActiveRuns) /\ ActiveRuns \in SUBSET Runs
    BY <1>28 DEF Requeue, RequeueAndStart, ActiveRuns
  <2> QED
    BY <1>19, <1>28, <2>1 DEF Requeue, RequeueAndStart, requestVars, countVars,
      MemoryTypeOK
<1>29. CASE UNCHANGED vars
  BY <1>29 DEF vars, memoryVars, execVars, requestVars, countVars, MemoryTypeOK
<1>30. Movable \subseteq Agents
  BY BoundAssumption
<1> QED
  BY <1>3, <1>4, <1>5, <1>6, <1>7, <1>8, <1>9, <1>10, <1>11, <1>12, <1>13, <1>14,
     <1>15, <1>16, <1>17, <1>18, <1>20, <1>21, <1>22, <1>23, <1>24, <1>25, <1>26,
     <1>27, <1>28, <1>29, <1>30
  DEF Next, Execute, Boot

-----------------------------------------------------------------------------
(* The places.                                                             *)

runState == <<row, status, log, output, delegation, phase, pc, pending>>

\* Requests that change neither a run nor where its execution stands.
LEMMA QuietSteps ==
  ASSUME \/ \E m \in Messages :
              Submit(m) \/ Route(m) \/ CheckRetract(m) \/ Retract(m)
         \/ \E r \in Runs : ReadForCancel(r) \/ Abort(r) \/ Intervene(r)
         \/ \E a \in Agents : CheckRemove(a) \/ RemoveMember(a) \/ AddMember(a)
         \/ UNCHANGED vars
  PROVE  UNCHANGED runState /\ UNCHANGED retrying
<1>1. ASSUME NEW m \in Messages,
             Submit(m) \/ Route(m) \/ CheckRetract(m) \/ Retract(m)
      PROVE  UNCHANGED runState /\ UNCHANGED retrying
  BY <1>1 DEF Submit, Route, CheckRetract, Retract, runState, storeVars, execVars
<1>2. ASSUME NEW r \in Runs, ReadForCancel(r) \/ Abort(r) \/ Intervene(r)
      PROVE  UNCHANGED runState /\ UNCHANGED retrying
  BY <1>2 DEF ReadForCancel, Abort, Intervene, runState, storeVars, execVars
<1>3. ASSUME NEW a \in Agents, CheckRemove(a) \/ RemoveMember(a) \/ AddMember(a)
      PROVE  UNCHANGED runState /\ UNCHANGED retrying
  BY <1>3 DEF CheckRemove, RemoveMember, AddMember, runState, storeVars, memoryVars,
    execVars, requestVars
<1>4. CASE UNCHANGED vars
  BY <1>4 DEF vars, runState, storeVars, memoryVars, execVars, requestVars
<1> QED
  BY <1>1, <1>2, <1>3, <1>4

\* Moves of an execution between awaits that leave the tables alone.
LEMMA MemorySteps ==
  ASSUME NEW r \in Runs,
         LoadContext(r) \/ ListEvents(r) \/ Yield(r) \/ StreamEnds(r)
           \/ StreamThrows(r) \/ Catch(r)
  PROVE  UNCHANGED storeVars /\ UNCHANGED phase /\ UNCHANGED retrying
BY DEF LoadContext, ListEvents, Yield, StreamEnds, StreamThrows, Catch,
  ExecFrame, requestVars

\* createForMessage makes new queued runs and leaves the others alone.
LEMMA CreateForMessageFacts ==
  ASSUME NEW m \in Messages, CreateForMessage(m)
  PROVE  \E made \in SUBSET Absent :
           /\ Starting(made)
           /\ \A q \in Runs \ made : row'[q] = row[q] /\ status'[q] = status[q]
           /\ \A q \in made : status'[q] = "queued" /\ row'[q].kind = "message"
<1>1. PICK new \in [targets[m] -> Absent] :
        LET made == {new[a] : a \in targets[m]} IN
        /\ status' = [r \in Runs |-> IF r \in made THEN "queued" ELSE status[r]]
        /\ row' = [r \in Runs |->
             IF r \in made
             THEN [agent |-> CHOOSE a \in targets[m] : new[a] = r, trigger |-> m,
                   kind |-> "message", source |-> NoRun, key |-> NoKey]
             ELSE row[r]]
        /\ StartCommitted(made)
  BY DEF CreateForMessage
<1> DEFINE made == {new[a] : a \in targets[m]}
<1>2. made \in SUBSET Absent /\ made \in SUBSET Runs
  BY DEF Absent
<1>3. /\ \A q \in Runs \ made : row'[q] = row[q] /\ status'[q] = status[q]
      /\ \A q \in made : status'[q] = "queued" /\ row'[q].kind = "message"
  BY <1>1, <1>2
<1> QED
  BY <1>1, <1>2, <1>3, StartingFacts

\* Every step keeps what is known at each place.
LEMMA PlaceStep ==
  ASSUME TypeOK, PlaceInv, BootInv, [Next]_vars
  PROVE  PlaceInv'
<1> USE DEF TypeOK, StoreTypeOK, MemoryTypeOK
<1>1. ASSUME UNCHANGED runState, UNCHANGED retrying
      PROVE  PlaceInv'
  BY <1>1 DEF runState, PlaceInv, Exists
<1>2. ASSUME NEW r \in Runs, Claim(r)
      PROVE  PlaceInv'
  BY <1>2 DEF Claim, Finish, Goto, ExecFrame, requestVars, PlaceInv, Exists
<1>3. ASSUME NEW r \in Runs, LoadContext(r) \/ ListEvents(r)
      PROVE  PlaceInv'
  <2>1. /\ \/ Goto(r, "catch") \/ Goto(r, "events") \/ Goto(r, "adapter")
           \/ Goto(r, "append") /\ pending' = [pending EXCEPT ![r] = Failed]
        /\ pc[r] \in {"context", "events"}
        /\ UNCHANGED <<row, status, phase, retrying>>
        /\ \A q \in Runs : q # r => pending'[q] = pending[q]
    BY <1>3 DEF LoadContext, ListEvents, ExecFrame, requestVars, storeVars
  <2> QED
    BY <2>1, EventTypes DEF PlaceInv, Exists, Goto
<1>4. ASSUME NEW r \in Runs, Yield(r)
      PROVE  PlaceInv'
  <2>1. PICK e \in Event :
          \/ /\ Supported(r, e) /\ Goto(r, "append")
             /\ pending' = [pending EXCEPT ![r] =
                  IF aborted[r] /\ e.type = "completed" THEN Stopped ELSE e]
          \/ Goto(r, "catch") /\ UNCHANGED pending
    BY <1>4 DEF Yield
  <2>2. pc[r] = "adapter" /\ UNCHANGED <<row, status, phase, retrying>>
    BY <1>4 DEF Yield, ExecFrame, requestVars, storeVars
  <2> QED
    BY <2>1, <2>2, EventTypes DEF PlaceInv, Exists, Goto, Supported
<1>5. ASSUME NEW r \in Runs, StreamEnds(r) \/ StreamThrows(r)
      PROVE  PlaceInv'
  <2>1. /\ \/ Goto(r, "catch") /\ UNCHANGED pending
           \/ /\ Goto(r, "append")
              /\ pending' = [pending EXCEPT ![r] = Interruption(r)]
        /\ pc[r] = "adapter" /\ UNCHANGED <<row, status, phase, retrying>>
    BY <1>5 DEF StreamEnds, StreamThrows, ExecFrame, requestVars, storeVars
  <2>2. Interruption(r) \in Event /\ Interruption(r).type # "delegation"
    BY EventTypes DEF Interruption
  <2> QED
    BY <2>1, <2>2 DEF PlaceInv, Exists, Goto
<1>6. ASSUME NEW r \in Runs, NEW e \in Event, AppendEvent(r, e), status[r] \in Active
      PROVE  /\ \A q \in Runs : Exists(q) => Exists(q)'
             /\ \A q \in Runs : status[q] # "queued" => status'[q] # "queued"
             /\ row' = row
  BY <1>6 DEF AppendEvent, Exists, Active, Terminal
<1>7. ASSUME NEW r \in Runs, Store(r)
      PROVE  PlaceInv'
  <2>1. pc[r] = "append" /\ UNCHANGED <<phase, retrying>>
    BY <1>7 DEF Store, ExecFrame, requestVars
  <2>2. CASE Appendable(r, persisted[r] + 1) /\ Storable(r, pending[r])
    <3> DEFINE e == pending[r]
    <3>1. /\ AppendEvent(r, e) /\ status[r] \in Active /\ e \in Event
          /\ Goto(r, AfterAppend(e))
          /\ pending' = IF AfterAppend(e) \in {"delegate", "artifact"}
                        THEN pending ELSE [pending EXCEPT ![r] = NoEvent]
      BY <1>7, <2>1, <2>2 DEF Store, Appendable, PlaceInv
    <3>2. /\ AfterAppend(e) \in {"delegate", "artifact", "settle", "adapter"}
          /\ AfterAppend(e) = "delegate" =>
               e \in Delegation /\ row[r].agent \in Delegators
          /\ AfterAppend(e) = "artifact" => e \in Artifact
      BY <2>1, <3>1, EventTypes DEF AfterAppend, PlaceInv
    <3>3. \A q \in Runs : q # r => pc'[q] = pc[q] /\ pending'[q] = pending[q]
      BY <3>1 DEF Goto
    <3>4. /\ pc'[r] = AfterAppend(e)
          /\ pc'[r] \in {"delegate", "artifact"} => pending'[r] = e
      BY <3>1 DEF Goto
    <3>5. /\ row' = row /\ \A q \in Runs : Exists(q) => Exists(q)'
          /\ \A q \in Runs : status[q] # "queued" => status'[q] # "queued"
      BY <1>6, <3>1
    <3> HIDE DEF e
    <3> QED
      BY <2>1, <3>2, <3>3, <3>4, <3>5 DEF PlaceInv
  <2>3. CASE ~(Appendable(r, persisted[r] + 1) /\ Storable(r, pending[r]))
    BY <1>7, <2>1, <2>3 DEF Store, storeVars, PlaceInv, Exists, Goto
  <2> QED
    BY <2>2, <2>3
<1>8. ASSUME NEW c \in Absent, NEW kind, NEW r \in Runs, NEW a, NEW k,
             InsertDerived(c, kind, r, a, k)
      PROVE  /\ \A q \in Runs : Exists(q) => Exists(q)'
             /\ \A q \in Runs : Exists(q) => row'[q] = row[q] /\ status'[q] = status[q]
  BY <1>8 DEF InsertDerived, Exists, Absent
<1>9. ASSUME NEW r \in Runs, CreateDelegatedRun(r)
      PROVE  PlaceInv'
  <2>1. /\ pc[r] = "delegate" /\ (Goto(r, "repeat") \/ Goto(r, "record"))
        /\ UNCHANGED <<phase, retrying, pending>>
    BY <1>9 DEF CreateDelegatedRun, ExecFrame, requestVars
  <2>2. \A q \in Runs : Exists(q) => /\ Exists(q)' /\ row'[q] = row[q]
                                     /\ status'[q] = status[q]
    BY <1>8, <1>9 DEF CreateDelegatedRun, Exists
  <2> QED
    BY <2>1, <2>2 DEF PlaceInv, Goto
<1>10. ASSUME NEW r \in Runs, RecordDelegation(r)
       PROVE  PlaceInv'
  <2>1. PICK c \in Runs :
          /\ Exists(c)
          /\ \/ pc' = [pc EXCEPT ![r] = "adapter",
                                 ![c] = IF @ = "idle" THEN "claim" ELSE @]
             \/ pc' = [pc EXCEPT ![r] = "catch"]
    BY <1>10 DEF RecordDelegation, RecordOrElse, Derived, IsDerived, Goto
  <2>2. /\ pc[r] = "record" /\ pending' = [pending EXCEPT ![r] = NoEvent]
        /\ UNCHANGED <<phase, retrying, row, status>>
    BY <1>10 DEF RecordDelegation, RecordOrElse, ExecFrame, requestVars
  <2>3. \A q \in Runs : q # r => pc'[q] = pc[q] \/ (q = c /\ pc'[q] = "claim")
    BY <2>1
  <2>4. pc'[r] \in {"adapter", "catch"}
    BY <2>1, <2>2
  <2> QED
    BY <2>1, <2>2, <2>3, <2>4 DEF PlaceInv, Exists
<1>11. ASSUME NEW r \in Runs, RepeatDelegation(r) \/ CreateArtifact(r)
       PROVE  PlaceInv'
  <2>1. /\ Goto(r, "adapter") \/ Goto(r, "catch")
        /\ pc[r] \in {"repeat", "artifact"}
        /\ pending' = [pending EXCEPT ![r] = NoEvent]
        /\ UNCHANGED <<phase, retrying, row, status>>
    BY <1>11 DEF RepeatDelegation, CreateArtifact, ExecFrame, requestVars
  <2> QED
    BY <2>1 DEF PlaceInv, Exists, Goto
<1>12. ASSUME NEW r \in Runs, Settle(r)
       PROVE  PlaceInv'
  BY <1>12 DEF Settle, SettleByChildRun, Finish, Goto, ExecFrame, requestVars,
    PlaceInv, Exists
<1>13. ASSUME NEW r \in Runs, Catch(r)
       PROVE  PlaceInv'
  <2>1. \/ Finish(r)
        \/ /\ Goto(r, "interrupt")
           /\ pending' = [pending EXCEPT ![r] = Interruption(r)]
    BY <1>13 DEF Catch
  <2>2. pc[r] = "catch" /\ UNCHANGED <<phase, retrying, row, status>>
    BY <1>13 DEF Catch, ExecFrame, requestVars, storeVars
  <2> QED
    BY <2>1, <2>2 DEF Interruption, Finish, Goto, PlaceInv, Exists
<1>14. ASSUME NEW r \in Runs, Interrupt(r)
       PROVE  PlaceInv'
  <2>1. pc[r] = "interrupt" /\ UNCHANGED <<phase, retrying>> /\ pending[r] \in Event
    BY <1>14, EventTypes DEF Interrupt, ExecFrame, requestVars, PlaceInv
  <2>2. CASE Appendable(r, persisted[r] + 1) /\ Storable(r, pending[r])
    <3>1. /\ AppendEvent(r, pending[r]) /\ status[r] \in Active /\ Goto(r, "settle")
          /\ pending' = [pending EXCEPT ![r] = NoEvent]
      BY <1>14, <2>2 DEF Interrupt, Appendable
    <3> QED
      BY <1>6, <2>1, <3>1 DEF PlaceInv, Goto
  <2>3. CASE ~(Appendable(r, persisted[r] + 1) /\ Storable(r, pending[r]))
    <3>1. Finish(r) /\ UNCHANGED <<row, status>>
      BY <1>14, <2>3 DEF Interrupt, storeVars
    <3> QED
      BY <2>1, <3>1 DEF Finish, Goto, PlaceInv, Exists
  <2> QED
    BY <2>2, <2>3
<1>15. ASSUME NEW r \in Runs, Fault(r)
       PROVE  PlaceInv'
  <2>1. /\ \/ Finish(r)
           \/ Goto(r, "catch") /\ pending' = [pending EXCEPT ![r] = NoEvent]
        /\ pc[r] # "idle" /\ UNCHANGED <<phase, retrying, row, status>>
    BY <1>15 DEF Fault, RecordUnheard, requestVars, storeVars
  <2> QED
    BY <2>1 DEF Finish, Goto, PlaceInv, Exists
<1>16. ASSUME NEW S \in SUBSET Runs, Starting(S), UNCHANGED retrying,
              \A q \in Runs : Exists(q) => /\ Exists(q)' /\ row'[q] = row[q]
                                           /\ status'[q] = status[q],
              \A q \in S : Exists(q)'
       PROVE  PlaceInv'
  <2>1. /\ \A q \in Runs : pc'[q] = pc[q] \/ (pc'[q] = "claim" /\ Exists(q)')
        /\ pending' = pending
    BY <1>16 DEF Starting, Exists
  <2> QED
    BY <1>16, <2>1 DEF PlaceInv, Exists
<1>17. ASSUME NEW m \in Messages, CreateForMessage(m)
       PROVE  PlaceInv'
  <2>1. PICK made \in SUBSET Absent :
          /\ Starting(made)
          /\ \A q \in Runs \ made : row'[q] = row[q] /\ status'[q] = status[q]
          /\ \A q \in made : status'[q] = "queued" /\ row'[q].kind = "message"
    BY <1>17, CreateForMessageFacts
  <2>2. /\ \A q \in Runs : Exists(q) => /\ Exists(q)' /\ row'[q] = row[q]
                                        /\ status'[q] = status[q]
        /\ \A q \in made : Exists(q)'
        /\ made \in SUBSET Runs
    BY <2>1 DEF Exists, Absent
  <2>3. UNCHANGED retrying
    BY <1>17 DEF CreateForMessage
  <2> QED
    BY <1>16, <2>1, <2>2, <2>3
<1>18. ASSUME NEW r \in Runs, CreateRetry(r)
       PROVE  PlaceInv'
  <2>1. PICK c \in Absent :
          InsertDerived(c, "retry", r, row[r].agent, retrying[r]) /\ Starting({c})
    BY <1>18, StartingFacts DEF CreateRetry
  <2>2. retrying' = [retrying EXCEPT ![r] = NoKey] /\ UNCHANGED pending
    BY <1>18, <2>1 DEF CreateRetry, Starting
  <2>3. /\ \A q \in Runs : Exists(q) => /\ Exists(q)' /\ row'[q] = row[q]
                                        /\ status'[q] = status[q]
        /\ Exists(c)' /\ c \in Runs
    BY <1>8, <2>1 DEF InsertDerived, Exists, Absent
  <2> QED
    BY <2>1, <2>2, <2>3 DEF Starting, PlaceInv
<1>19. ASSUME NEW r \in Runs, NEW k \in RetryKeys, CheckRetry(r, k)
       PROVE  PlaceInv'
  <2>1. /\ retrying' = [retrying EXCEPT ![r] = k] /\ Exists(r)
        /\ UNCHANGED <<row, status, pc, pending>>
    BY <1>19 DEF CheckRetry, LockForRetry, storeVars, execVars, Exists
  <2> QED
    BY <2>1 DEF PlaceInv, Exists
<1>20. ASSUME Crash \/ Exit
       PROVE  PlaceInv'
  BY <1>20 DEF Crash, Exit, LoseMemory, PlaceInv
<1>21. ASSUME Shutdown
       PROVE  PlaceInv'
  BY <1>21 DEF Shutdown, requestVars, storeVars, PlaceInv, Exists
<1>22. ASSUME NEW r \in Runs, FailInterrupted(r)
       PROVE  PlaceInv'
  <2>1. /\ AppendEvent(r, Failed) /\ status[r] \in Active
        /\ UNCHANGED <<pc, pending, retrying>>
    BY <1>22 DEF FailInterrupted, memoryVars, execVars, requestVars
  <2> QED
    BY <1>6, <2>1, EventTypes DEF PlaceInv
<1>23. ASSUME Requeue
       PROVE  PlaceInv'
  <2>1. /\ status' = [q \in Runs |-> IF q \in ActiveRuns THEN "queued" ELSE status[q]]
        /\ Start(ActiveRuns) /\ UNCHANGED <<row, retrying>> /\ phase = "boot"
    BY <1>23 DEF Requeue, RequeueAndStart, requestVars
  <2>2. \A q \in Runs : pc'[q] = "idle" \/ (pc'[q] = "claim" /\ q \in ActiveRuns)
    BY <2>1 DEF Start, BootInv
  <2> QED
    BY <2>1, <2>2 DEF PlaceInv, Exists, ActiveRuns, BootInv
<1>24. Movable \subseteq Agents
  BY BoundAssumption
<1> QED
  BY <1>1, <1>2, <1>3, <1>4, <1>5, <1>7, <1>9, <1>10, <1>11, <1>12, <1>13, <1>14,
     <1>15, <1>17, <1>18, <1>19, <1>20, <1>21, <1>22, <1>23, <1>24, QuietSteps
  DEF Next, Execute, Boot

\* The process comes up with nothing left of its last life.
LEMMA BootStep ==
  ASSUME TypeOK, BootInv, [Next]_vars
  PROVE  BootInv'
<1>1. CASE Crash \/ Exit
  BY <1>1 DEF Crash, Exit, LoseMemory, BootInv
<1>2. CASE Requeue \/ Shutdown
  BY <1>2 DEF Requeue, RequeueAndStart, Shutdown, BootInv
<1>3. ASSUME NEW r \in Runs, FailInterrupted(r)
      PROVE  BootInv'
  BY <1>3 DEF FailInterrupted, memoryVars, execVars, requestVars, BootInv
<1>4. ASSUME NEW r \in Runs, Execute(r) \/ Fault(r)
      PROVE  BootInv'
  <2>1. pc[r] # "idle"
    BY <1>4 DEF Execute, Claim, LoadContext, ListEvents, Yield, StreamEnds,
      StreamThrows, Store, CreateDelegatedRun, RecordDelegation, RecordOrElse,
      RepeatDelegation, CreateArtifact, Settle, Catch, Interrupt, Fault
  <2>2. UNCHANGED phase
    BY <1>4 DEF Execute, Claim, LoadContext, ListEvents, Yield, StreamEnds,
      StreamThrows, Store, CreateDelegatedRun, RecordDelegation, RecordOrElse,
      RepeatDelegation, CreateArtifact, Settle, Catch, Interrupt, Fault, ExecFrame
  <2> QED
    BY <2>1, <2>2 DEF BootInv
<1>5. ASSUME NEW m \in Messages, Submit(m) \/ Route(m) \/ CreateForMessage(m)
      PROVE  BootInv'
  <2>1. phase # "boot" /\ UNCHANGED phase
    BY <1>5 DEF Submit, Route, CreateForMessage, Up, BootInv
  <2> QED
    BY <2>1 DEF BootInv
<1>6. ASSUME NEW m \in Messages, CheckRetract(m) \/ Retract(m)
      PROVE  BootInv'
  BY <1>6 DEF CheckRetract, Retract, execVars, BootInv
<1>7. ASSUME NEW r \in Runs, ReadForCancel(r) \/ Abort(r) \/ Intervene(r)
      PROVE  BootInv'
  BY <1>7 DEF ReadForCancel, Abort, Intervene, execVars, BootInv
<1>8. ASSUME NEW r \in Runs, NEW k \in RetryKeys, CheckRetry(r, k)
      PROVE  BootInv'
  BY <1>8 DEF CheckRetry, LockForRetry, Up, BootInv
<1>9. ASSUME NEW r \in Runs, CreateRetry(r)
      PROVE  BootInv'
  BY <1>9 DEF CreateRetry, BootInv
<1>10. ASSUME NEW a \in Agents, CheckRemove(a) \/ RemoveMember(a) \/ AddMember(a)
       PROVE  BootInv'
  BY <1>10 DEF CheckRemove, RemoveMember, AddMember, Up, BootInv, memoryVars,
    execVars, requestVars
<1>11. CASE UNCHANGED vars
  BY <1>11 DEF vars, memoryVars, execVars, requestVars, BootInv
<1>12. Movable \subseteq Agents
  BY BoundAssumption
<1> QED
  BY <1>1, <1>2, <1>3, <1>4, <1>5, <1>6, <1>7, <1>8, <1>9, <1>10, <1>11, <1>12
  DEF Next, Boot

-----------------------------------------------------------------------------
(* What the tables see.                                                    *)

runColumns == <<row, status, log, output, delegation>>

Claimed(r) ==
  /\ status[r] = "queued" /\ status' = [status EXCEPT ![r] = "running"]
  /\ UNCHANGED <<row, log, output, delegation>>
NewRuns(made) ==
  /\ \A q \in Runs \ made : row'[q] = row[q] /\ status'[q] = status[q]
  /\ \A q \in made : status'[q] = "queued"
  /\ UNCHANGED <<log, output, delegation>>
Delegated(c) ==
  /\ status[c] = "queued" /\ row[c].kind = "delegation" /\ delegation[c] = "none"
  /\ delegation' = [delegation EXCEPT ![c] = "running"]
  /\ UNCHANGED <<row, status, log, output>>
Requeued ==
  /\ status' = [q \in Runs |-> IF q \in ActiveRuns THEN "queued" ELSE status[q]]
  /\ UNCHANGED <<row, log, output, delegation>>

\* createDelegatedRun makes at most one run; when it makes one there was none
\* with the same key.
LEMMA CreateDelegatedRunFacts ==
  ASSUME NEW r \in Runs, CreateDelegatedRun(r)
  PROVE  \/ Goto(r, "repeat") /\ UNCHANGED <<row, status>>
         \/ \E c \in Absent :
              /\ Derived("delegation", r, pending[r].key) = {}
              /\ InsertDerived(c, "delegation", r, pending[r].delegate, pending[r].key)
              /\ Goto(r, "record")
BY DEF CreateDelegatedRun

\* A derived run is the only row that changes.
LEMMA InsertDerivedFacts ==
  ASSUME TypeOK, NEW c \in Absent, NEW kind, NEW r \in Runs, NEW a, NEW k,
         InsertDerived(c, kind, r, a, k)
  PROVE  /\ c \in Runs /\ status[c] = "absent" /\ status'[c] = "queued"
         /\ row'[c].kind = kind /\ row'[c].source = r /\ row'[c].key = k
         /\ \A q \in Runs \ {c} : row'[q] = row[q] /\ status'[q] = status[q]
BY DEF InsertDerived, Absent, Exists, TypeOK, StoreTypeOK

\* Whatever the process does, the tables of the runs see nothing of it, a
\* claim, an event of an active run, new queued runs, a delegation stored for
\* a queued child, or a requeue.
LEMMA StepKinds ==
  ASSUME Inv, [Next]_vars
  PROVE  \/ UNCHANGED runColumns
         \/ \E r \in Runs : Claimed(r)
         \/ \E r \in Runs, e \in Event : status[r] \in Active /\ AppendEvent(r, e)
         \/ \E made \in SUBSET Absent : NewRuns(made)
         \/ \E c \in Runs : Delegated(c)
         \/ Requeued
<1> DEFINE Kind == \/ UNCHANGED runColumns
                   \/ \E r \in Runs : Claimed(r)
                   \/ \E r \in Runs, e \in Event :
                        status[r] \in Active /\ AppendEvent(r, e)
                   \/ \E made \in SUBSET Absent : NewRuns(made)
                   \/ \E c \in Runs : Delegated(c)
                   \/ Requeued
<1> SUFFICES Kind
  OBVIOUS
<1> USE DEF Inv
<1>1. ASSUME UNCHANGED storeVars
      PROVE  Kind
  BY <1>1 DEF storeVars, runColumns
<1>2. ASSUME NEW r \in Runs, Claim(r)
      PROVE  Kind
  BY <1>2 DEF Claim, Claimed, runColumns
<1>3. ASSUME NEW r \in Runs, Store(r) \/ Interrupt(r)
      PROVE  Kind
  <2>1. \/ UNCHANGED storeVars
        \/ /\ AppendEvent(r, pending[r]) /\ status[r] \in Active
           /\ pc[r] \in {"append", "interrupt"}
    BY <1>3 DEF Store, Interrupt, Appendable
  <2>2. pc[r] \in {"append", "interrupt"} => pending[r] \in Event
    BY EventTypes DEF PlaceInv
  <2> QED
    BY <1>1, <2>1, <2>2
<1>4. ASSUME NEW r \in Runs, FailInterrupted(r)
      PROVE  Kind
  BY <1>4, EventTypes DEF FailInterrupted
<1>5. ASSUME NEW r \in Runs, CreateDelegatedRun(r)
      PROVE  Kind
  <2>1. UNCHANGED <<log, output, delegation>>
    BY <1>5 DEF CreateDelegatedRun
  <2>2. CASE UNCHANGED <<row, status>>
    BY <2>1, <2>2 DEF runColumns
  <2>3. ASSUME NEW c \in Absent,
               InsertDerived(c, "delegation", r, pending[r].delegate, pending[r].key)
        PROVE  Kind
    <3>1. NewRuns({c})
      BY <2>1, <2>3, InsertDerivedFacts DEF NewRuns
    <3> QED
      BY <3>1
  <2> QED
    BY <1>5, <2>2, <2>3, CreateDelegatedRunFacts
<1>6. ASSUME NEW r \in Runs, CreateRetry(r)
      PROVE  Kind
  <2>1. PICK c \in Absent : InsertDerived(c, "retry", r, row[r].agent, retrying[r])
    BY <1>6 DEF CreateRetry
  <2>2. NewRuns({c})
    BY <1>6, <2>1, InsertDerivedFacts DEF CreateRetry, NewRuns
  <2> QED
    BY <2>2
<1>7. ASSUME NEW m \in Messages, CreateForMessage(m)
      PROVE  Kind
  <2>1. UNCHANGED <<log, output, delegation>>
    BY <1>7 DEF CreateForMessage
  <2> QED
    BY <1>7, <2>1, CreateForMessageFacts DEF NewRuns
<1>8. ASSUME NEW r \in Runs, RecordDelegation(r)
      PROVE  Kind
  <2>1. PICK c \in Derived("delegation", r, pending[r].key) :
          \/ delegation' = [delegation EXCEPT ![c] = "running"]
          \/ UNCHANGED delegation
    BY <1>8 DEF RecordDelegation, RecordOrElse
  <2>2. pc[r] = "record" /\ UNCHANGED <<row, status, log, output>>
    BY <1>8 DEF RecordDelegation, RecordOrElse
  <2>3. /\ c \in Runs /\ row[c].kind = "delegation"
        /\ status[c] = "queued" /\ delegation[c] = "none"
    BY <2>1, <2>2 DEF RecordInv, Derived, IsDerived
  <2> QED
    BY <2>1, <2>2, <2>3 DEF Delegated, runColumns
<1>17. ASSUME NEW r \in Runs, Fault(r)
       PROVE  Kind
  <2>1. CASE RecordUnheard(r)
    <3>1. PICK c \in Derived("delegation", r, pending[r].key) :
            delegation' = [delegation EXCEPT ![c] = "running"]
      BY <2>1 DEF RecordUnheard
    <3>2. /\ c \in Runs /\ row[c].kind = "delegation"
          /\ status[c] = "queued" /\ delegation[c] = "none"
      BY <2>1, <3>1 DEF RecordUnheard, RecordInv, Derived, IsDerived
    <3> QED
      BY <2>1, <3>1, <3>2 DEF RecordUnheard, Delegated
  <2> QED
    BY <1>1, <1>17, <2>1 DEF Fault
<1>9. ASSUME NEW r \in Runs, RepeatDelegation(r)
      PROVE  Kind
  <2>1. \A d \in Derived("delegation", r, pending[r].key) : delegation[d] # "none"
    BY <1>9 DEF RepeatDelegation, OrphanInv, Orphan, Derived, IsDerived
  <2>2. UNCHANGED delegation
    BY <1>9, <2>1 DEF RepeatDelegation
  <2> QED
    BY <1>9, <2>2 DEF RepeatDelegation, runColumns
<1>10. ASSUME NEW r \in Runs, Settle(r)
       PROVE  Kind
  <2>1. delegation' = delegation
    BY <1>10 DEF Settle, SettleByChildRun, DelegationFollowsChild, TypeOK, StoreTypeOK,
      Terminal
  <2> QED
    BY <1>10, <2>1 DEF Settle, SettleByChildRun, runColumns
<1>11. ASSUME NEW r \in Runs, CreateArtifact(r)
       PROVE  Kind
  BY <1>11 DEF CreateArtifact, runColumns
<1>12. ASSUME Requeue
       PROVE  Kind
  BY <1>12 DEF Requeue, RequeueAndStart, Requeued
<1>13. ASSUME NEW r \in Runs, NEW k \in RetryKeys, CheckRetry(r, k)
       PROVE  Kind
  BY <1>1, <1>13 DEF CheckRetry, LockForRetry
<1>14. ASSUME Crash \/ Shutdown \/ Exit
       PROVE  Kind
  BY <1>1, <1>14 DEF Crash, Shutdown, Exit
<1>15. ASSUME UNCHANGED runState
       PROVE  Kind
  BY <1>15 DEF runState, runColumns
<1>16. Movable \subseteq Agents
  BY BoundAssumption
<1> HIDE DEF Kind
<1> QED
  BY <1>1, <1>2, <1>3, <1>4, <1>5, <1>6, <1>7, <1>8, <1>9, <1>10, <1>11, <1>12,
     <1>13, <1>14, <1>15, <1>16, <1>17, QuietSteps, MemorySteps
  DEF Next, Execute, Boot

\* Appending to a sequence: the last element is the new one, the others stay.
LEMMA AppendFacts ==
  ASSUME NEW S, NEW s \in Seq(S), NEW e \in S
  PROVE  /\ Len(s) \in Nat
         /\ Append(s, e) # <<>> /\ Len(Append(s, e)) = Len(s) + 1
         /\ Append(s, e)[Len(s) + 1] = e
         /\ \A i \in 1 .. Len(s) : Append(s, e)[i] = s[i]
OBVIOUS

\* The same of a run's log, and no other log changes.
LEMMA AppendedLog ==
  ASSUME TypeOK, NEW r \in Runs, NEW e \in Event, AppendEvent(r, e)
  PROVE  /\ \A q \in Runs \ {r} : log'[q] = log[q]
         /\ Len(log[r]) \in Nat
         /\ log'[r] # <<>> /\ Len(log'[r]) = Len(log[r]) + 1
         /\ log'[r][Len(log[r]) + 1] = e
         /\ \A i \in 1 .. Len(log[r]) : log'[r][i] = log[r][i]
<1>1. log \in [Runs -> Seq(Event)] /\ log[r] \in Seq(Event)
  BY DEF TypeOK, StoreTypeOK
<1>2. log'[r] = Append(log[r], e) /\ \A q \in Runs \ {r} : log'[q] = log[q]
  BY <1>1 DEF AppendEvent
<1>3. /\ Len(log[r]) \in Nat
      /\ Append(log[r], e) # <<>>
      /\ Len(Append(log[r], e)) = Len(log[r]) + 1
      /\ Append(log[r], e)[Len(log[r]) + 1] = e
      /\ \A i \in 1 .. Len(log[r]) : Append(log[r], e)[i] = log[r][i]
  BY <1>1, AppendFacts
<1> QED
  BY <1>2, <1>3, Zenon

\* The properties of the tables, and that finished runs stay as they are, hold
\* at each of these steps.
LEMMA TablesStep ==
  ASSUME Inv, [Next]_vars
  PROVE  OutputInv' /\ LogMatchesStatus' /\ DelegationFollowsChild' /\ FinishedStay
<1> USE DEF Inv
<1>t. /\ status \in [Runs -> Active \cup Terminal \cup {"absent"}]
      /\ output \in [Runs -> Terminal \cup {"none"}]
      /\ delegation \in [Runs -> Terminal \cup {"running", "none"}]
  BY DEF TypeOK, StoreTypeOK
<1>1. CASE UNCHANGED runColumns
  BY <1>1 DEF runColumns, OutputInv, LogMatchesStatus, DelegationFollowsChild,
    FinishedStay, Exists
<1>2. ASSUME NEW r \in Runs, Claimed(r)
      PROVE  OutputInv' /\ LogMatchesStatus' /\ DelegationFollowsChild' /\ FinishedStay
  BY <1>t, <1>2 DEF Claimed, OutputInv, LogMatchesStatus, DelegationFollowsChild,
    FinishedStay, Exists, Terminal
<1>3. ASSUME NEW r \in Runs, NEW e \in Event, status[r] \in Active, AppendEvent(r, e)
      PROVE  OutputInv' /\ LogMatchesStatus' /\ DelegationFollowsChild' /\ FinishedStay
  <2>1. /\ \A q \in Runs \ {r} : /\ log'[q] = log[q] /\ status'[q] = status[q]
                                 /\ output'[q] = output[q]
                                 /\ delegation'[q] = delegation[q]
        /\ row' = row
    BY <1>t, <1>3, AppendedLog DEF AppendEvent
  <2>2. /\ status[r] \notin Terminal /\ Exists(r) /\ output[r] = "none"
        /\ delegation[r] \in {"none", "running"}
        /\ \A i \in 1 .. Len(log[r]) : log[r][i].type \notin Terminal
    BY <1>t, <1>3 DEF OutputInv, DelegationFollowsChild, LogMatchesStatus, Active,
      Terminal, Exists
  <2>3. CASE e.type \in Terminal
    <3>1. /\ status'[r] = e.type /\ output'[r] \in {"none", e.type}
          /\ delegation'[r] = IF delegation[r] = "running" THEN e.type ELSE "none"
      BY <1>t, <1>3, <2>2, <2>3 DEF AppendEvent
    <3>2. OutputInv' /\ DelegationFollowsChild' /\ FinishedStay
      BY <2>1, <2>2, <2>3, <3>1 DEF OutputInv, DelegationFollowsChild, FinishedStay,
        Exists, Terminal
    <3>3. LogMatchesStatus'
      <4>1. \A i \in 1 .. Len(log'[r]) :
              log'[r][i].type \in Terminal => i = Len(log'[r]) /\ log'[r][i] = e
        BY <1>3, <2>2, AppendedLog
      <4>2. log'[r] # <<>> /\ log'[r][Len(log'[r])] = e
        BY <1>3, AppendedLog
      <4> QED
        BY <2>1, <3>1, <4>1, <4>2 DEF LogMatchesStatus
    <3> QED
      BY <3>2, <3>3
  <2>4. CASE e.type \notin Terminal
    <3>1. UNCHANGED <<status, output, delegation>>
      BY <1>3, <2>4 DEF AppendEvent
    <3>2. OutputInv' /\ DelegationFollowsChild' /\ FinishedStay
      BY <2>1, <2>2, <3>1 DEF OutputInv, DelegationFollowsChild, FinishedStay, Exists
    <3>3. LogMatchesStatus'
      <4>1. \A i \in 1 .. Len(log'[r]) : log'[r][i].type \notin Terminal
        BY <1>3, <2>2, <2>4, AppendedLog
      <4> QED
        BY <2>1, <2>2, <3>1, <4>1 DEF LogMatchesStatus
    <3> QED
      BY <3>2, <3>3
  <2> QED
    BY <2>3, <2>4
<1>4. ASSUME NEW made \in SUBSET Absent, NewRuns(made)
      PROVE  OutputInv' /\ LogMatchesStatus' /\ DelegationFollowsChild' /\ FinishedStay
  <2>1. \A q \in Absent : /\ q \in Runs /\ delegation[q] = "none" /\ output[q] = "none"
                          /\ status[q] \notin Terminal
                          /\ \A i \in 1 .. Len(log[q]) : log[q][i].type \notin Terminal
    BY <1>t DEF Absent, Exists, OutputInv, LogMatchesStatus, Terminal
  <2> QED
    BY <1>4, <2>1 DEF NewRuns, OutputInv, LogMatchesStatus, DelegationFollowsChild,
      FinishedStay, Exists, Terminal
<1>5. ASSUME NEW c \in Runs, Delegated(c)
      PROVE  OutputInv' /\ LogMatchesStatus' /\ DelegationFollowsChild' /\ FinishedStay
  BY <1>t, <1>5 DEF Delegated, OutputInv, LogMatchesStatus, DelegationFollowsChild,
    FinishedStay, Exists, Terminal
<1>6. CASE Requeued
  <2>1. \A q \in Runs : \/ status[q] \in Active /\ status'[q] = "queued"
                        \/ status[q] \notin Active /\ status'[q] = status[q]
    BY <1>6 DEF Requeued, ActiveRuns
  <2> QED
    BY <1>t, <1>6, <2>1 DEF Requeued, OutputInv, LogMatchesStatus,
      DelegationFollowsChild, FinishedStay, Exists, Active, Terminal
<1> QED
  BY <1>1, <1>2, <1>3, <1>4, <1>5, <1>6, StepKinds

-----------------------------------------------------------------------------
(* Children whose delegation is not stored yet.                            *)

OrphanPlaces == {"record", "catch", "interrupt", "settle", "idle"}

\* A step of an execution other than the two that create and record a child:
\* it changes its own run only, and the delegation whose recording it did not
\* hear of, and where it cannot go on it does not.
Tame(r) ==
  /\ row' = row
  /\ \A q \in Runs \ {r} : /\ pc'[q] = pc[q] /\ pending'[q] = pending[q]
                           /\ status'[q] = status[q]
  /\ \A q \in Runs : delegation[q] # "none" => delegation'[q] # "none"
  /\ \A q \in Runs :
       row[q].source # r /\ delegation[q] = "none" => delegation'[q] = "none"
  /\ \A q \in Runs : Exists(q)' <=> Exists(q)
  /\ status[r] # "queued" => status'[r] # "queued"
  /\ pc[r] # "idle" /\ pc'[r] # "record"
  /\ pc[r] \in OrphanPlaces => pc'[r] \in OrphanPlaces

LEMMA TameSteps ==
  ASSUME Inv, NEW r \in Runs, Execute(r) \/ Fault(r),
         ~CreateDelegatedRun(r), ~RecordDelegation(r)
  PROVE  Tame(r)
<1> USE DEF Inv, TypeOK, StoreTypeOK, MemoryTypeOK
<1>1. ASSUME row' = row, status' = status, delegation' = delegation,
             pc[r] # "idle", pc'[r] # "record",
             pc[r] \in OrphanPlaces => pc'[r] \in OrphanPlaces,
             \A q \in Runs \ {r} : pc'[q] = pc[q] /\ pending'[q] = pending[q]
      PROVE  Tame(r)
  BY <1>1 DEF Tame, Exists
<1>2. ASSUME NEW e \in Event, status[r] \in Active, AppendEvent(r, e),
             pc[r] # "idle", pc'[r] # "record",
             pc[r] \in OrphanPlaces => pc'[r] \in OrphanPlaces,
             \A q \in Runs \ {r} : pc'[q] = pc[q] /\ pending'[q] = pending[q]
      PROVE  Tame(r)
  <2>1. /\ row' = row /\ \A q \in Runs \ {r} : status'[q] = status[q]
        /\ status[r] # "queued" => status'[r] # "queued"
        /\ Exists(r) /\ Exists(r)'
        /\ \A q \in Runs : delegation'[q] = "none" <=> delegation[q] = "none"
    BY <1>2 DEF AppendEvent, Exists, Active, Terminal
  <2>2. \A q \in Runs : Exists(q)' <=> Exists(q)
    BY <2>1 DEF Exists
  <2> QED
    BY <1>2, <2>1, <2>2 DEF Tame
<1>3. CASE Claim(r)
  BY <1>3 DEF Claim, Finish, Goto, Tame, Exists, OrphanPlaces
<1>10. CASE Fault(r)
  <2>1. /\ pc[r] # "idle" /\ pc'[r] \in {"catch", "idle"}
        /\ \A q \in Runs \ {r} : pc'[q] = pc[q] /\ pending'[q] = pending[q]
        /\ row' = row /\ status' = status
    BY <1>10 DEF Fault, RecordUnheard, Finish, Goto, storeVars
  <2>2. CASE UNCHANGED storeVars
    BY <1>1, <2>1, <2>2 DEF storeVars, OrphanPlaces
  <2>3. CASE RecordUnheard(r)
    <3>1. PICK c \in Derived("delegation", r, pending[r].key) :
            delegation' = [delegation EXCEPT ![c] = "running"]
      BY <2>3 DEF RecordUnheard
    <3>2. /\ \A q \in Runs : delegation[q] # "none" => delegation'[q] # "none"
          /\ \A q \in Runs :
               row[q].source # r /\ delegation[q] = "none" => delegation'[q] = "none"
      BY <3>1 DEF Derived, IsDerived
    <3> QED
      BY <2>1, <3>2 DEF Tame, Exists, OrphanPlaces
  <2> QED
    BY <1>10, <2>2, <2>3 DEF Fault
<1>4. CASE LoadContext(r) \/ ListEvents(r) \/ Yield(r) \/ StreamEnds(r)
             \/ StreamThrows(r) \/ Catch(r)
  <2>1. row' = row /\ status' = status /\ delegation' = delegation
    BY <1>4, MemorySteps DEF storeVars
  <2>2. pc[r] # "idle" /\ pc'[r] # "record"
    BY <1>4 DEF LoadContext, ListEvents, Yield, StreamEnds, StreamThrows, Catch,
      Finish, Goto
  <2>3. pc[r] \in OrphanPlaces => pc'[r] \in OrphanPlaces
    BY <1>4 DEF LoadContext, ListEvents, Yield, StreamEnds, StreamThrows, Catch,
      Finish, Goto, OrphanPlaces
  <2>4. \A q \in Runs \ {r} : pc'[q] = pc[q]
    BY <1>4 DEF LoadContext, ListEvents, Yield, StreamEnds, StreamThrows, Catch,
      Finish, Goto
  <2>5. \A q \in Runs \ {r} : pending'[q] = pending[q]
    BY <1>4 DEF LoadContext, ListEvents, Yield, StreamEnds, StreamThrows, Catch,
      Finish
  <2> QED
    BY <1>1, <2>1, <2>2, <2>3, <2>4, <2>5
<1>5. CASE Store(r)
  <2>1. /\ pc[r] = "append" /\ pc[r] # "idle" /\ pc[r] \notin OrphanPlaces
        /\ \A q \in Runs \ {r} : pc'[q] = pc[q] /\ pending'[q] = pending[q]
        /\ pending[r] \in Event
    BY <1>5 DEF Store, Goto, OrphanPlaces, PlaceInv
  <2>2. pc'[r] # "record"
    BY <1>5 DEF Store, Goto, AfterAppend
  <2>3. \/ UNCHANGED storeVars
        \/ AppendEvent(r, pending[r]) /\ status[r] \in Active
    BY <1>5 DEF Store, Appendable
  <2> QED
    BY <1>1, <1>2, <2>1, <2>2, <2>3 DEF storeVars
<1>6. CASE RepeatDelegation(r)
  <2>1. UNCHANGED <<row, status>> /\ pc[r] = "repeat" /\ pc'[r] # "record"
    BY <1>6 DEF RepeatDelegation, Goto
  <2>2. \A d \in Derived("delegation", r, pending[r].key) : delegation[d] # "none"
    BY <1>6 DEF RepeatDelegation, OrphanInv, Orphan, Derived, IsDerived
  <2>3. UNCHANGED delegation
    BY <1>6, <2>2 DEF RepeatDelegation
  <2>4. \A q \in Runs \ {r} : pc'[q] = pc[q] /\ pending'[q] = pending[q]
    BY <1>6 DEF RepeatDelegation, Goto
  <2> QED
    BY <1>1, <2>1, <2>3, <2>4 DEF OrphanPlaces
<1>7. CASE CreateArtifact(r)
  BY <1>1, <1>7 DEF CreateArtifact, Goto, OrphanPlaces
<1>8. CASE Settle(r)
  <2>1. delegation' = delegation
    BY <1>8 DEF Settle, SettleByChildRun, DelegationFollowsChild, Terminal
  <2> QED
    BY <1>1, <1>8, <2>1 DEF Settle, SettleByChildRun, Finish, Goto, OrphanPlaces
<1>9. CASE Interrupt(r)
  <2>1. /\ pc[r] = "interrupt" /\ pc'[r] \in {"settle", "idle"}
        /\ \A q \in Runs \ {r} : pc'[q] = pc[q] /\ pending'[q] = pending[q]
    BY <1>9 DEF Interrupt, Finish, Goto
  <2>2. \/ UNCHANGED storeVars
        \/ AppendEvent(r, pending[r]) /\ status[r] \in Active
    BY <1>9 DEF Interrupt, Appendable
  <2>3. pending[r] \in Event
    BY <2>1, EventTypes DEF PlaceInv
  <2> QED
    BY <1>1, <1>2, <2>1, <2>2, <2>3 DEF storeVars, OrphanPlaces
<1> QED
  BY <1>3, <1>4, <1>5, <1>6, <1>7, <1>8, <1>9, <1>10 DEF Execute

\* A step in which no execution moves on: runs keep their row and their place,
\* unless the process goes down, and new runs are not delegated ones.
Calm ==
  /\ \A q \in Runs : Exists(q) =>
       /\ Exists(q)' /\ row'[q] = row[q]
       /\ pc'[q] = "idle" \/ (pc'[q] = pc[q] /\ pending'[q] = pending[q])
       /\ status[q] # "queued" => status'[q] # "queued"
       /\ status'[q] = status[q] \/ phase = "boot"
       /\ delegation'[q] = "none" => delegation[q] = "none"
  /\ \A q \in Runs : ~Exists(q) => pc'[q] # "record"
  /\ \A q \in Runs : Exists(q)' /\ ~Exists(q) => row'[q].kind # "delegation"
  /\ \A q \in Runs : delegation[q] = "none" => delegation'[q] = "none"

LEMMA CalmSteps ==
  ASSUME Inv,
         \/ UNCHANGED runState
         \/ \E r \in Runs, k \in RetryKeys : CheckRetry(r, k)
         \/ \E r \in Runs : CreateRetry(r) \/ FailInterrupted(r)
         \/ \E m \in Messages : CreateForMessage(m)
         \/ Crash \/ Shutdown \/ Exit
  PROVE  Calm
<1> USE DEF Inv, TypeOK, StoreTypeOK, MemoryTypeOK
<1>0. \A q \in Runs : ~Exists(q) => pc[q] = "idle"
  BY DEF PlaceInv
<1>1. ASSUME UNCHANGED runState
      PROVE  Calm
  BY <1>0, <1>1 DEF runState, Calm, Exists
<1>2. ASSUME NEW r \in Runs, NEW k \in RetryKeys, CheckRetry(r, k)
      PROVE  Calm
  BY <1>1, <1>2 DEF CheckRetry, LockForRetry, storeVars, execVars, runState
<1>3. ASSUME NEW made \in SUBSET Absent, Starting(made), UNCHANGED delegation,
             \A q \in Runs \ made : row'[q] = row[q] /\ status'[q] = status[q],
             \A q \in made : status'[q] = "queued" /\ row'[q].kind # "delegation"
      PROVE  Calm
  <2>1. \A q \in Runs : Exists(q) => /\ q \notin made /\ Exists(q)'
                                     /\ row'[q] = row[q] /\ status'[q] = status[q]
                                     /\ pc'[q] = pc[q]
    BY <1>3 DEF Absent, Exists, Starting
  <2>2. \A q \in Runs : ~Exists(q) => pc'[q] \in {"idle", "claim"}
    BY <1>0, <1>3 DEF Starting
  <2>3. \A q \in Runs : Exists(q)' /\ ~Exists(q) => q \in made
    BY <1>3 DEF Exists
  <2> QED
    BY <1>3, <2>1, <2>2, <2>3 DEF Calm, Starting
<1>4. ASSUME NEW m \in Messages, CreateForMessage(m)
      PROVE  Calm
  <2>1. UNCHANGED delegation
    BY <1>4 DEF CreateForMessage
  <2>2. PICK made \in SUBSET Absent :
          /\ Starting(made)
          /\ \A q \in Runs \ made : row'[q] = row[q] /\ status'[q] = status[q]
          /\ \A q \in made : status'[q] = "queued" /\ row'[q].kind = "message"
    BY <1>4, CreateForMessageFacts
  <2> QED
    BY <1>3, <2>1, <2>2
<1>5. ASSUME NEW r \in Runs, CreateRetry(r)
      PROVE  Calm
  <2>1. PICK c \in Absent :
          InsertDerived(c, "retry", r, row[r].agent, retrying[r]) /\ Starting({c})
    BY <1>5, StartingFacts DEF CreateRetry
  <2>2. UNCHANGED delegation
    BY <1>5 DEF CreateRetry
  <2>3. /\ \A q \in Runs \ {c} : row'[q] = row[q] /\ status'[q] = status[q]
        /\ status'[c] = "queued" /\ row'[c].kind = "retry"
    BY <2>1, InsertDerivedFacts
  <2> QED
    BY <1>3, <2>1, <2>2, <2>3
<1>6. ASSUME NEW r \in Runs, FailInterrupted(r)
      PROVE  Calm
  <2>1. /\ AppendEvent(r, Failed) /\ status[r] \in Active /\ phase = "boot"
        /\ UNCHANGED <<pc, pending>>
    BY <1>6 DEF FailInterrupted, memoryVars, execVars
  <2>2. /\ row' = row /\ \A q \in Runs : status'[q] \in {status[q], "failed"}
        /\ \A q \in Runs : delegation'[q] = "none" <=> delegation[q] = "none"
        /\ \A q \in Runs : Exists(q)' <=> Exists(q)
    BY <2>1, EventTypes DEF AppendEvent, Exists, Active, Terminal
  <2> QED
    BY <1>0, <2>1, <2>2 DEF Calm
<1>7. CASE Crash \/ Exit
  BY <1>7 DEF Crash, Exit, LoseMemory, storeVars, Calm, Exists
<1>8. CASE Shutdown
  BY <1>0, <1>8 DEF Shutdown, storeVars, Calm, Exists
<1> QED
  BY <1>1, <1>2, <1>4, <1>5, <1>6, <1>7, <1>8

\* Every step of the system is calm, tame, creates or records a child, or is
\* the requeue at the end of a boot.
LEMMA StepShapes ==
  ASSUME Inv, [Next]_vars
  PROVE  \/ Calm
         \/ \E r \in Runs : Tame(r) \/ CreateDelegatedRun(r) \/ RecordDelegation(r)
         \/ Requeue
<1>1. Movable \subseteq Agents
  BY BoundAssumption
<1>2. ASSUME NEW m \in Messages,
             Submit(m) \/ Route(m) \/ CreateForMessage(m) \/ CheckRetract(m)
               \/ Retract(m)
      PROVE  Calm
  BY <1>2, CalmSteps, QuietSteps
<1>3. ASSUME NEW r \in Runs,
             ReadForCancel(r) \/ Abort(r) \/ Intervene(r) \/ CreateRetry(r)
               \/ FailInterrupted(r) \/ \E k \in RetryKeys : CheckRetry(r, k)
      PROVE  Calm
  BY <1>3, CalmSteps, QuietSteps
<1>4. ASSUME \/ \E a \in Movable : CheckRemove(a) \/ RemoveMember(a) \/ AddMember(a)
             \/ Crash \/ Shutdown \/ Exit \/ UNCHANGED vars
      PROVE  Calm
  BY <1>1, <1>4, CalmSteps, QuietSteps
<1> QED
  BY <1>2, <1>3, <1>4, TameSteps DEF Next, Boot

(* A child is created only by an execution without an orphan, recorded     *)
(* while it is the only one, and an execution that fails to record it ends. *)

LEMMA CalmOrphans ==
  ASSUME Inv, Calm
  PROVE  RecordInv' /\ OrphanInv'
<1> USE DEF Inv, TypeOK, StoreTypeOK, MemoryTypeOK
<1>1. ASSUME NEW c \in Runs, Exists(c)', row'[c].kind = "delegation"
      PROVE  /\ Exists(c) /\ row'[c] = row[c]
             /\ delegation'[c] = "none" <=> delegation[c] = "none"
  BY <1>1 DEF Calm, Exists
<1>2. ASSUME NEW c \in Runs, NEW r \in Runs, Orphan(c, r)'
      PROVE  Orphan(c, r)
  BY <1>1, <1>2 DEF Orphan
<1>3. OrphanInv'
  <2> SUFFICES ASSUME NEW c \in Runs, Orphan(c, row[c].source)'
               PROVE  /\ row'[c].source \in Runs /\ Exists(row[c].source)'
                      /\ row'[row'[c].source].agent \in Delegators
                      /\ status'[row'[c].source] # "queued"
                      /\ pc'[row'[c].source] \in OrphanPlaces
    BY DEF OrphanInv, OrphanPlaces
  <2>1. row'[c] = row[c] /\ Orphan(c, row[c].source)
    BY <1>1 DEF Orphan
  <2>2. /\ row[c].source \in Runs /\ Exists(row[c].source)
        /\ row[row[c].source].agent \in Delegators
        /\ status[row[c].source] # "queued" /\ pc[row[c].source] \in OrphanPlaces
    BY <2>1 DEF OrphanInv, OrphanPlaces
  <2> QED
    BY <2>1, <2>2 DEF Calm, Exists, OrphanPlaces
<1>4. RecordInv'
  <2> SUFFICES ASSUME NEW r \in Runs, pc'[r] = "record"
               PROVE  /\ \A c \in Runs :
                           IsDerived(c, "delegation", r, pending[r].key)' =>
                             /\ status'[c] = "queued" /\ pc'[c] = "idle"
                             /\ delegation'[c] = "none"
                      /\ \A c, d \in Runs : Orphan(c, r)' /\ Orphan(d, r)' => c = d
    BY DEF RecordInv, Derived
  <2>1. pc[r] = "record" /\ pending'[r] = pending[r] /\ phase # "boot"
    BY DEF Calm, BootInv
  <2>2. \A c, d \in Runs : Orphan(c, r)' /\ Orphan(d, r)' => c = d
    BY <1>2, <2>1 DEF RecordInv
  <2>3. ASSUME NEW c \in Runs, IsDerived(c, "delegation", r, pending[r].key)'
        PROVE  status'[c] = "queued" /\ pc'[c] = "idle" /\ delegation'[c] = "none"
    <3>1. c \in Derived("delegation", r, pending[r].key)
      BY <1>1, <2>1, <2>3 DEF Derived, IsDerived
    <3>2. Exists(c) /\ status[c] = "queued" /\ pc[c] = "idle" /\ delegation[c] = "none"
      BY <2>1, <3>1 DEF RecordInv, Derived, IsDerived
    <3> QED
      BY <2>1, <3>2 DEF Calm
  <2> QED
    BY <2>2, <2>3
<1> QED
  BY <1>3, <1>4

LEMMA TameOrphans ==
  ASSUME Inv, NEW t \in Runs, Tame(t)
  PROVE  RecordInv' /\ OrphanInv'
<1> USE DEF Inv, TypeOK, StoreTypeOK, MemoryTypeOK
<1>1. row' = row /\ \A c \in Runs : \A r : Orphan(c, r)' => Orphan(c, r)
  BY DEF Tame, Orphan
<1>2. OrphanInv'
  <2> SUFFICES ASSUME NEW c \in Runs, Orphan(c, row[c].source)
               PROVE  /\ row[c].source \in Runs /\ Exists(row[c].source)'
                      /\ row[row[c].source].agent \in Delegators
                      /\ status'[row[c].source] # "queued"
                      /\ pc'[row[c].source] \in OrphanPlaces
    BY <1>1 DEF OrphanInv, OrphanPlaces
  <2>1. /\ row[c].source \in Runs /\ Exists(row[c].source)
        /\ row[row[c].source].agent \in Delegators
        /\ status[row[c].source] # "queued" /\ pc[row[c].source] \in OrphanPlaces
    BY DEF OrphanInv, OrphanPlaces
  <2> QED
    BY <2>1 DEF Tame
<1>3. RecordInv'
  <2> SUFFICES ASSUME NEW r \in Runs, pc'[r] = "record"
               PROVE  /\ \A c \in Runs :
                           IsDerived(c, "delegation", r, pending[r].key)' =>
                             /\ status'[c] = "queued" /\ pc'[c] = "idle"
                             /\ delegation'[c] = "none"
                      /\ \A c, d \in Runs : Orphan(c, r)' /\ Orphan(d, r)' => c = d
    BY DEF RecordInv, Derived
  <2>1. r # t /\ pc[r] = "record" /\ pending'[r] = pending[r]
    BY DEF Tame
  <2>2. \A c, d \in Runs : Orphan(c, r)' /\ Orphan(d, r)' => c = d
    BY <1>1, <2>1 DEF RecordInv
  <2>3. ASSUME NEW c \in Runs, IsDerived(c, "delegation", r, pending[r].key)'
        PROVE  status'[c] = "queued" /\ pc'[c] = "idle" /\ delegation'[c] = "none"
    <3>1. c \in Derived("delegation", r, pending[r].key)
      BY <1>1, <2>1, <2>3 DEF Derived, IsDerived, Tame
    <3>2. status[c] = "queued" /\ pc[c] = "idle" /\ delegation[c] = "none"
      BY <2>1, <3>1 DEF RecordInv
    <3>3. row[c].source = r
      BY <3>1 DEF Derived, IsDerived
    <3> QED
      BY <2>1, <3>2, <3>3 DEF Tame
  <2> QED
    BY <2>2, <2>3
<1> QED
  BY <1>2, <1>3

LEMMA CreateOrphans ==
  ASSUME Inv, NEW p \in Runs, CreateDelegatedRun(p)
  PROVE  RecordInv' /\ OrphanInv'
<1> USE DEF Inv, TypeOK, StoreTypeOK, MemoryTypeOK
<1>1. /\ pc[p] = "delegate" /\ UNCHANGED <<delegation, pending>>
      /\ \A q \in Runs \ {p} : pc'[q] = pc[q]
  BY DEF CreateDelegatedRun, Goto
<1>2. CASE Goto(p, "repeat") /\ UNCHANGED <<row, status>>
  <2>1. pc'[p] = "repeat"
    BY <1>2 DEF Goto
  <2>2. Tame(p)
    BY <1>1, <1>2, <2>1 DEF Tame, Exists, OrphanPlaces
  <2> HIDE DEF Inv
  <2> QED
    BY <2>2, TameOrphans
<1>3. ASSUME NEW n \in Absent, Derived("delegation", p, pending[p].key) = {},
             InsertDerived(n, "delegation", p, pending[p].delegate, pending[p].key),
             Goto(p, "record")
      PROVE  RecordInv' /\ OrphanInv'
  <2>1. /\ n \in Runs /\ status[n] = "absent" /\ status'[n] = "queued"
        /\ row'[n].kind = "delegation" /\ row'[n].source = p
        /\ \A q \in Runs \ {n} : row'[q] = row[q] /\ status'[q] = status[q]
    BY <1>3, InsertDerivedFacts
  <2>2. /\ Exists(p) /\ row[p].agent \in Delegators /\ status[p] # "queued"
        /\ pc'[p] = "record" /\ p # n
    BY <1>1, <1>3, <2>1 DEF PlaceInv, Goto, Exists
  <2>3. pc[n] = "idle" /\ pc'[n] = "idle" /\ delegation'[n] = "none"
    BY <1>1, <2>1, <2>2 DEF PlaceInv, OutputInv, Exists
  <2>4. \A c \in Runs : ~Orphan(c, p)
    BY <1>1 DEF OrphanInv, Orphan
  <2>5. ASSUME NEW c \in Runs, NEW r, Orphan(c, r)', c # n
        PROVE  Orphan(c, r) /\ r # p
    BY <1>1, <2>1, <2>4, <2>5 DEF Orphan, Exists
  <2>6. OrphanInv'
    <3> SUFFICES ASSUME NEW c \in Runs, Orphan(c, row[c].source)'
                 PROVE  /\ row'[c].source \in Runs /\ Exists(row[c].source)'
                        /\ row'[row'[c].source].agent \in Delegators
                        /\ status'[row'[c].source] # "queued"
                        /\ pc'[row'[c].source] \in OrphanPlaces
      BY DEF OrphanInv, OrphanPlaces
    <3>1. CASE c = n
      BY <2>1, <2>2, <3>1 DEF Exists, OrphanPlaces
    <3>2. CASE c # n
      <4>1. row'[c] = row[c] /\ Orphan(c, row[c].source) /\ row[c].source # p
        BY <2>1, <2>5, <3>2
      <4>2. /\ row[c].source \in Runs /\ Exists(row[c].source)
            /\ row[row[c].source].agent \in Delegators
            /\ status[row[c].source] # "queued" /\ pc[row[c].source] \in OrphanPlaces
        BY <4>1 DEF OrphanInv, OrphanPlaces
      <4>3. row[c].source \in Runs \ {n, p}
        BY <2>1, <4>1, <4>2 DEF Exists
      <4>4. PICK s \in Runs \ {n, p} : s = row[c].source /\ s = row'[c].source
        BY <4>1, <4>3
      <4>5. row'[s] = row[s] /\ status'[s] = status[s] /\ pc'[s] = pc[s]
        BY <1>1, <2>1, <4>4
      <4> QED
        BY <4>2, <4>4, <4>5 DEF Exists
    <3> QED
      BY <3>1, <3>2
  <2>7. RecordInv'
    <3> SUFFICES ASSUME NEW r \in Runs, pc'[r] = "record"
                 PROVE  /\ \A c \in Runs :
                             IsDerived(c, "delegation", r, pending[r].key)' =>
                               /\ status'[c] = "queued" /\ pc'[c] = "idle"
                               /\ delegation'[c] = "none"
                        /\ \A c, d \in Runs : Orphan(c, r)' /\ Orphan(d, r)' => c = d
      BY DEF RecordInv, Derived
    <3>1. CASE r = p
      <4>1. \A c \in Runs \ {n} : ~IsDerived(c, "delegation", p, pending[p].key)'
        BY <1>1, <1>3, <2>1 DEF Derived, IsDerived, Exists
      <4>2. \A c \in Runs : Orphan(c, p)' => c = n
        BY <2>5
      <4>3. ASSUME NEW c \in Runs, IsDerived(c, "delegation", r, pending[r].key)'
            PROVE  c = n
        BY <3>1, <4>1, <4>3
      <4> QED
        BY <2>1, <2>3, <3>1, <4>2, <4>3
    <3>2. CASE r # p
      <4>1. pc[r] = "record"
        BY <1>1, <3>2
      <4>2. \A c \in Runs : Orphan(c, r)' => Orphan(c, r)
        BY <2>1, <2>5, <3>2 DEF Orphan
      <4>3. ASSUME NEW c \in Runs, IsDerived(c, "delegation", r, pending[r].key)'
            PROVE  status'[c] = "queued" /\ pc'[c] = "idle" /\ delegation'[c] = "none"
        <5>1. c # n /\ c \in Derived("delegation", r, pending[r].key)
          BY <1>1, <2>1, <3>2, <4>3 DEF Derived, IsDerived, Exists
        <5>2. status[c] = "queued" /\ pc[c] = "idle" /\ delegation[c] = "none"
          BY <4>1, <5>1 DEF RecordInv
        <5> QED
          BY <1>1, <2>1, <5>1, <5>2
      <4> QED
        BY <4>1, <4>2, <4>3 DEF RecordInv
    <3> QED
      BY <3>1, <3>2
  <2> QED
    BY <2>6, <2>7
<1> QED
  BY <1>2, <1>3, CreateDelegatedRunFacts

LEMMA RecordOrphans ==
  ASSUME Inv, NEW p \in Runs, RecordDelegation(p)
  PROVE  RecordInv' /\ OrphanInv'
<1> USE DEF Inv, TypeOK, StoreTypeOK, MemoryTypeOK
<1>1. /\ pc[p] = "record" /\ UNCHANGED <<row, status>>
      /\ \A q \in Runs \ {p} : pending'[q] = pending[q]
  BY DEF RecordDelegation, RecordOrElse
<1>2. PICK n \in Derived("delegation", p, pending[p].key) :
        IF BothMembers(p, n)
        THEN /\ delegation' = [delegation EXCEPT ![n] = "running"]
             /\ pc' = [pc EXCEPT ![p] = "adapter",
                                 ![n] = IF @ = "idle" THEN "claim" ELSE @]
        ELSE Goto(p, "catch") /\ UNCHANGED delegation
  BY DEF RecordDelegation, RecordOrElse
<1>3. /\ n \in Runs /\ Orphan(n, p) /\ row[n].source = p
      /\ status[n] = "queued" /\ pc[n] = "idle"
      /\ \A c \in Runs : Orphan(c, p) => c = n
  BY <1>1 DEF RecordInv, Orphan, Derived, IsDerived
<1>4. CASE ~BothMembers(p, n)
  <2>1. /\ UNCHANGED delegation /\ pc'[p] = "catch"
        /\ \A q \in Runs \ {p} : pc'[q] = pc[q]
    BY <1>2, <1>4 DEF Goto
  <2>2. Tame(p)
    BY <1>1, <2>1 DEF Tame, Exists, OrphanPlaces
  <2> HIDE DEF Inv
  <2> QED
    BY <2>2, TameOrphans
<1>5. CASE BothMembers(p, n)
  <2>1. /\ n # p /\ pc'[p] = "adapter" /\ pc'[n] = "claim" /\ delegation'[n] = "running"
        /\ \A q \in Runs \ {p, n} : pc'[q] = pc[q]
        /\ \A q \in Runs \ {n} : delegation'[q] = delegation[q]
    BY <1>1, <1>2, <1>3, <1>5
  <2>2. ASSUME NEW c \in Runs, NEW r, Orphan(c, r)'
        PROVE  c # n /\ r # p /\ Orphan(c, r)
    BY <1>1, <1>3, <2>1, <2>2 DEF Orphan, Exists
  <2>3. OrphanInv'
    <3> SUFFICES ASSUME NEW c \in Runs, Orphan(c, row[c].source)'
                 PROVE  /\ row[c].source \in Runs /\ Exists(row[c].source)'
                        /\ row[row[c].source].agent \in Delegators
                        /\ status'[row[c].source] # "queued"
                        /\ pc'[row[c].source] \in OrphanPlaces
      BY <1>1 DEF OrphanInv, OrphanPlaces
    <3>1. Orphan(c, row[c].source) /\ row[c].source # p
      BY <1>1, <2>2
    <3>2. /\ row[c].source \in Runs /\ Exists(row[c].source)
          /\ row[row[c].source].agent \in Delegators
          /\ status[row[c].source] # "queued" /\ pc[row[c].source] \in OrphanPlaces
      BY <3>1 DEF OrphanInv, OrphanPlaces
    <3> QED
      BY <1>1, <1>3, <2>1, <3>1, <3>2 DEF Exists
  <2>4. RecordInv'
    <3> SUFFICES ASSUME NEW r \in Runs, pc'[r] = "record"
                 PROVE  /\ \A c \in Runs :
                             IsDerived(c, "delegation", r, pending[r].key)' =>
                               /\ status'[c] = "queued" /\ pc'[c] = "idle"
                               /\ delegation'[c] = "none"
                        /\ \A c, d \in Runs : Orphan(c, r)' /\ Orphan(d, r)' => c = d
      BY DEF RecordInv, Derived
    <3>1. r # p /\ r # n /\ pc[r] = "record" /\ pending'[r] = pending[r]
      BY <1>1, <2>1
    <3>2. ASSUME NEW c \in Runs, IsDerived(c, "delegation", r, pending[r].key)'
          PROVE  status'[c] = "queued" /\ pc'[c] = "idle" /\ delegation'[c] = "none"
      <4>1. c # n /\ c \in Derived("delegation", r, pending[r].key)
        BY <1>1, <1>3, <3>1, <3>2 DEF Derived, IsDerived, Exists
      <4>2. status[c] = "queued" /\ pc[c] = "idle" /\ delegation[c] = "none"
        BY <3>1, <4>1 DEF RecordInv
      <4> QED
        BY <1>1, <2>1, <4>1, <4>2
    <3> QED
      BY <2>2, <3>1, <3>2 DEF RecordInv
  <2> QED
    BY <2>3, <2>4
<1> QED
  BY <1>4, <1>5

LEMMA RequeueOrphans ==
  ASSUME Inv, Requeue
  PROVE  RecordInv' /\ OrphanInv'
<1> USE DEF Inv, TypeOK, StoreTypeOK, MemoryTypeOK
<1>1. /\ UNCHANGED <<row, delegation>>
      /\ \A q \in Runs : /\ pc[q] = "idle" /\ pc'[q] \in {"idle", "claim"}
                         /\ status[q] \in Active => row[q].agent \in Gateway
                         /\ Exists(q)' <=> Exists(q)
      /\ \A q \in Runs : status[q] \notin Active =>
           status'[q] = status[q] /\ pc'[q] = "idle"
  BY DEF Requeue, RequeueAndStart, ActiveRuns, Start, BootInv, Exists, Active
<1>2. RecordInv'
  BY <1>1 DEF RecordInv
<1>3. OrphanInv'
  <2> SUFFICES ASSUME NEW c \in Runs, Orphan(c, row[c].source)'
               PROVE  /\ row[c].source \in Runs /\ Exists(row[c].source)'
                      /\ row[row[c].source].agent \in Delegators
                      /\ status'[row[c].source] # "queued"
                      /\ pc'[row[c].source] \in OrphanPlaces
    BY <1>1 DEF OrphanInv, OrphanPlaces
  <2>1. Orphan(c, row[c].source)
    BY <1>1 DEF Orphan
  <2>2. /\ row[c].source \in Runs /\ Exists(row[c].source)
        /\ row[row[c].source].agent \in Delegators
        /\ status[row[c].source] # "queued"
    BY <2>1 DEF OrphanInv
  <2>3. status[row[c].source] \notin Active
    BY <1>1, <2>2, CapabilityAssumption
  <2> QED
    BY <1>1, <2>2, <2>3 DEF OrphanPlaces
<1> QED
  BY <1>2, <1>3

LEMMA OrphanStep ==
  ASSUME Inv, [Next]_vars
  PROVE  RecordInv' /\ OrphanInv'
BY StepShapes, CalmOrphans, TameOrphans, CreateOrphans, RecordOrphans, RequeueOrphans

-----------------------------------------------------------------------------
(* The theorems.                                                           *)

LEMMA InvInit == Init => Inv
<1> SUFFICES ASSUME Init PROVE Inv
  OBVIOUS
<1> USE DEF Init, StoreInit
<1>1. /\ \A r \in Runs : /\ pc[r] = "idle" /\ retrying[r] = NoKey
                         /\ status[r] = "absent" /\ log[r] = <<>>
                         /\ output[r] = "none" /\ delegation[r] = "none"
      /\ \A m \in Messages : submit[m] = "idle"
  OBVIOUS
<1>2. TypeOK
  <2>1. \A r \in Runs : log[r] \in Seq(Event)
    BY <1>1
  <2> QED
    BY <1>1, <2>1, CapabilityAssumption
       DEF TypeOK, StoreTypeOK, MemoryTypeOK, Exists, Places
<1>3. PlaceInv /\ BootInv /\ RecordInv /\ OrphanInv /\ OutputInv
  BY <1>1 DEF PlaceInv, BootInv, RecordInv, OrphanInv, Orphan, OutputInv, Exists
<1>4. LogMatchesStatus /\ DelegationFollowsChild
  BY <1>1 DEF LogMatchesStatus, DelegationFollowsChild, Terminal
<1> QED
  BY <1>2, <1>3, <1>4 DEF Inv

LEMMA InvStep == Inv /\ [Next]_vars => Inv'
<1> SUFFICES ASSUME Inv, [Next]_vars PROVE Inv'
  OBVIOUS
<1>1. TypeOK'
  BY StoreTypeStep, MemoryTypeStep DEF Inv, TypeOK
<1>2. PlaceInv' /\ BootInv'
  BY PlaceStep, BootStep DEF Inv
<1>3. RecordInv' /\ OrphanInv'
  BY OrphanStep
<1>4. OutputInv' /\ LogMatchesStatus' /\ DelegationFollowsChild'
  BY TablesStep
<1> QED
  BY <1>1, <1>2, <1>3, <1>4 DEF Inv

\* Inv is an invariant: what each place knows, the orphans and the tables hold
\* in every reachable state, for every supply of runs and number of restarts.
THEOREM Invariance == Spec => []Inv
BY InvInit, InvStep, PTL DEF Spec

\* The rows, the log entries and the coordinator's memory keep their types.
THEOREM TypeCorrect == Spec => []TypeOK
<1>1. Inv => TypeOK
  BY DEF Inv
<1> QED
  BY <1>1, Invariance, PTL

\* A run is terminal exactly when its log ends in the terminal event of that
\* status, across any interleaving, interruption, requeue and crash.
THEOREM LogAndStatusAgree == Spec => []LogMatchesStatus
<1>1. Inv => LogMatchesStatus
  BY DEF Inv
<1> QED
  BY <1>1, Invariance, PTL

\* A delegation ends in the commit its child run ends in, with its outcome.
THEOREM DelegationEndsWithChild == Spec => []DelegationFollowsChild
<1>1. Inv => DelegationFollowsChild
  BY DEF Inv
<1> QED
  BY <1>1, Invariance, PTL

\* Nothing a finished run has published ever changes again.
THEOREM FinishedRunsAreFinal == Spec => FinishedRunsStay
<1>1. Inv /\ [Next]_vars => [FinishedStay]_vars
  BY TablesStep
<1> QED
  BY <1>1, Invariance, PTL DEF Spec, FinishedRunsStay

-----------------------------------------------------------------------------
(* One active retry.                                                       *)

ActiveRetry(c, r) ==
  status[c] \in Active /\ row[c].kind = "retry" /\ row[c].source = r

\* A retry is of the Agent of the run it repeats, and while a request holds
\* that run's row no retry of it is active.
RetryInv ==
  /\ \A c \in Runs : Exists(c) /\ row[c].kind = "retry" =>
       LET r == row[c].source IN
       r \in Runs /\ Exists(r) /\ row[r].agent = row[c].agent
  /\ \A r \in Runs : retrying[r] # NoKey =>
       \A c \in Runs : ~ActiveRetry(c, r)
  /\ OneActiveRetry

LEMMA RetryInit == Init => RetryInv
BY DEF Init, StoreInit, RetryInv, OneActiveRetry, ActiveRetry, Exists, Active

\* Steps other than the three that make runs make none active again.
LEMMA NoNewActive ==
  ASSUME Inv, NEW r \in Runs,
         \/ Execute(r) /\ ~CreateDelegatedRun(r)
         \/ Fault(r) \/ FailInterrupted(r) \/ Requeue \/ Crash \/ Exit \/ Shutdown
         \/ UNCHANGED runState /\ UNCHANGED retrying
  PROVE  /\ row' = row
         /\ \A q \in Runs : /\ status'[q] \in Active => status[q] \in Active
                            /\ Exists(q) <=> Exists(q)'
         /\ \A q \in Runs : retrying'[q] # NoKey => retrying'[q] = retrying[q]
<1> USE DEF Inv, TypeOK, StoreTypeOK, MemoryTypeOK
<1>1. ASSUME UNCHANGED <<row, status>>,
             UNCHANGED retrying \/ retrying' = [q \in Runs |-> NoKey]
      PROVE  /\ row' = row
             /\ \A q \in Runs : /\ status'[q] \in Active => status[q] \in Active
                                /\ Exists(q) <=> Exists(q)'
             /\ \A q \in Runs : retrying'[q] # NoKey => retrying'[q] = retrying[q]
  BY <1>1 DEF Exists
<1>2. CASE Claim(r)
  BY <1>2 DEF Claim, ExecFrame, requestVars, Exists, Active
<1>3. ASSUME NEW e \in Event, status[r] \in Active, AppendEvent(r, e), UNCHANGED retrying
      PROVE  /\ row' = row
             /\ \A q \in Runs : /\ status'[q] \in Active => status[q] \in Active
                                /\ Exists(q) <=> Exists(q)'
             /\ \A q \in Runs : retrying'[q] # NoKey => retrying'[q] = retrying[q]
  BY <1>3 DEF AppendEvent, Exists, Active, Terminal
<1>4. CASE Store(r) \/ Interrupt(r)
  <2>1. /\ \/ UNCHANGED storeVars
           \/ /\ AppendEvent(r, pending[r]) /\ status[r] \in Active
              /\ pc[r] \in {"append", "interrupt"}
        /\ UNCHANGED retrying
    BY <1>4 DEF Store, Interrupt, Appendable, ExecFrame, requestVars
  <2>2. pc[r] \in {"append", "interrupt"} => pending[r] \in Event
    BY EventTypes DEF PlaceInv
  <2> QED BY <1>1, <1>3, <2>1, <2>2 DEF storeVars
<1>5. CASE FailInterrupted(r)
  BY <1>3, <1>5, EventTypes DEF FailInterrupted, memoryVars, requestVars
<1>6. CASE \/ RecordDelegation(r) \/ RepeatDelegation(r) \/ CreateArtifact(r)
           \/ Settle(r) \/ Fault(r)
  BY <1>1, <1>6 DEF Fault, RecordUnheard, storeVars, RecordDelegation, RecordOrElse, RepeatDelegation,
     CreateArtifact, Settle, SettleByChildRun, ExecFrame, requestVars
<1>7. CASE \/ LoadContext(r) \/ ListEvents(r) \/ Yield(r) \/ StreamEnds(r)
           \/ StreamThrows(r) \/ Catch(r)
  BY <1>1, <1>7, MemorySteps DEF storeVars
<1>8. CASE Requeue
  BY <1>8 DEF Requeue, RequeueAndStart, ActiveRuns, requestVars, Exists, Active
<1>9. CASE Crash \/ Exit \/ Shutdown
  BY <1>1, <1>9 DEF Crash, Exit, Shutdown, LoseMemory, storeVars, requestVars
<1>10. CASE UNCHANGED runState /\ UNCHANGED retrying
  BY <1>1, <1>10 DEF runState
<1> QED BY <1>2, <1>4, <1>5, <1>6, <1>7, <1>8, <1>9, <1>10 DEF Execute

\* New runs that are no retries.
LEMMA RetryKept ==
  ASSUME TypeOK, RetryInv,
         \A q \in Runs : Exists(q) =>
           /\ Exists(q)' /\ row'[q] = row[q]
           /\ status'[q] \in Active => status[q] \in Active,
         \A q \in Runs : ~Exists(q) /\ Exists(q)' => row'[q].kind # "retry",
         \A q \in Runs : retrying'[q] # NoKey => retrying'[q] = retrying[q]
  PROVE  RetryInv'
<1>1. \A c \in Runs : Exists(c)' /\ row'[c].kind = "retry" =>
        Exists(c) /\ row'[c] = row[c]
  OBVIOUS
<1>2. \A c \in Runs : status'[c] \in Active /\ row'[c].kind = "retry" =>
        status[c] \in Active /\ row'[c] = row[c]
  <2>1. \A c \in Runs : status'[c] \in Active => Exists(c)'
    BY DEF Exists, Active
  <2> SUFFICES ASSUME NEW c \in Runs, status'[c] \in Active, row'[c].kind = "retry"
               PROVE  status[c] \in Active /\ row'[c] = row[c]
    OBVIOUS
  <2>2. Exists(c) /\ row'[c] = row[c]
    BY <1>1, <2>1
  <2> QED BY <2>2
<1>3. (\A c \in Runs : Exists(c) /\ row[c].kind = "retry" =>
         LET r == row[c].source IN
         r \in Runs /\ Exists(r) /\ row[r].agent = row[c].agent)'
  <2> SUFFICES ASSUME NEW c \in Runs, Exists(c)', row'[c].kind = "retry"
               PROVE  \E r \in Runs : /\ r = row'[c].source /\ status'[r] # "absent"
                                      /\ row'[r].agent = row'[c].agent
    BY DEF Exists
  <2>1. Exists(c) /\ row'[c] = row[c]
    BY <1>1
  <2>2. PICK r \in Runs : r = row[c].source /\ Exists(r) /\ row[r].agent = row[c].agent
    BY <2>1 DEF RetryInv
  <2>3. row'[r] = row[r] /\ Exists(r)'
    BY <2>2
  <2> QED BY <2>1, <2>2, <2>3 DEF Exists
<1>4. \A r \in Runs : retrying'[r] # NoKey =>
        \A c \in Runs : ~(status'[c] \in Active /\ row'[c].kind = "retry"
                            /\ row'[c].source = r)
  BY <1>2 DEF RetryInv, ActiveRetry
<1>5. OneActiveRetry'
  BY <1>2 DEF RetryInv, OneActiveRetry
<1> QED BY <1>3, <1>4, <1>5 DEF RetryInv, ActiveRetry, Exists

\* Every step keeps at most one retry active.
LEMMA RetryStep ==
  ASSUME Inv, RetryInv, [Next]_vars PROVE RetryInv'
<1>0. TypeOK
  BY DEF Inv
<1>1. ASSUME NEW r \in Runs,
             \/ Execute(r) /\ ~CreateDelegatedRun(r)
             \/ Fault(r) \/ FailInterrupted(r) \/ Requeue \/ Crash \/ Exit \/ Shutdown
             \/ UNCHANGED runState /\ UNCHANGED retrying
      PROVE  RetryInv'
  BY <1>0, <1>1, NoNewActive, RetryKept
<1>2. ASSUME NEW m \in Messages, CreateForMessage(m) PROVE RetryInv'
  <2>1. PICK made \in SUBSET Absent :
           /\ \A q \in Runs \ made : row'[q] = row[q] /\ status'[q] = status[q]
           /\ \A q \in made : status'[q] = "queued" /\ row'[q].kind = "message"
    BY <1>2, CreateForMessageFacts
  <2>2. UNCHANGED retrying
    BY <1>2 DEF CreateForMessage
  <2> QED BY <1>0, <2>1, <2>2, RetryKept DEF Exists, Absent
<1>3. ASSUME NEW r \in Runs, CreateDelegatedRun(r) PROVE RetryInv'
  <2>1. UNCHANGED retrying
    BY <1>3 DEF CreateDelegatedRun, ExecFrame, requestVars
  <2>2. CASE UNCHANGED <<row, status>>
    BY <1>0, <2>1, <2>2, RetryKept DEF Exists
  <2>3. ASSUME NEW c \in Absent,
               InsertDerived(c, "delegation", r, pending[r].delegate, pending[r].key)
        PROVE  RetryInv'
    BY <1>0, <2>1, <2>3, RetryKept, InsertDerivedFacts DEF Exists
  <2> QED BY <1>3, <2>2, <2>3, CreateDelegatedRunFacts
<1>4. ASSUME NEW r \in Runs, NEW k \in RetryKeys, CheckRetry(r, k) PROVE RetryInv'
  <2>1. /\ retrying' = [retrying EXCEPT ![r] = k] /\ UNCHANGED <<row, status>>
        /\ ~HasActiveRun(row[r].agent)
    BY <1>4 DEF CheckRetry, LockForRetry, storeVars
  <2>2. \A c \in Runs : ~ActiveRetry(c, r)
    BY <2>1 DEF RetryInv, ActiveRetry, HasActiveRun, Exists, Active
  <2> QED BY <1>0, <2>1, <2>2 DEF RetryInv, ActiveRetry, OneActiveRetry, Exists,
       TypeOK, MemoryTypeOK
<1>5. ASSUME NEW r \in Runs, CreateRetry(r) PROVE RetryInv'
  <2>1. PICK c \in Absent : InsertDerived(c, "retry", r, row[r].agent, retrying[r])
    BY <1>5 DEF CreateRetry
  <2>2. /\ c \in Runs /\ status[c] = "absent" /\ status'[c] = "queued"
        /\ row'[c].kind = "retry" /\ row'[c].source = r
        /\ row'[c].agent = row[r].agent
        /\ \A q \in Runs \ {c} : row'[q] = row[q] /\ status'[q] = status[q]
    <3>1. c \in Runs /\ status[c] = "absent"
      BY DEF Absent, Exists
    <3>2. /\ row \in [Runs -> Row \cup {NoRow}]
          /\ status \in [Runs -> Active \cup Terminal \cup {"absent"}]
      BY <1>0 DEF TypeOK, StoreTypeOK
    <3>3. /\ status' = [status EXCEPT ![c] = "queued"]
          /\ row' = [row EXCEPT ![c] = [agent |-> row[r].agent, trigger |-> row[r].trigger,
                                        kind |-> "retry", source |-> r,
                                        key |-> retrying[r]]]
      BY <2>1 DEF InsertDerived
    <3> QED BY <3>1, <3>2, <3>3
  <2>3. /\ retrying[r] # NoKey /\ retrying'[r] = NoKey /\ Exists(r) /\ r # c
        /\ \A q \in Runs \ {r} : retrying'[q] = retrying[q]
    BY <1>0, <1>5, <2>2 DEF CreateRetry, TypeOK, MemoryTypeOK, Inv, PlaceInv, Exists
  <2>4. \A q \in Runs : ~ActiveRetry(q, r)
    BY <2>3 DEF RetryInv
  <2>5. \A q \in Runs \ {c} : row'[q] = row[q] /\ status'[q] = status[q]
    BY <2>2
  <2>6. OneActiveRetry'
    BY <2>2, <2>4, <2>5 DEF RetryInv, OneActiveRetry, ActiveRetry
  <2>7. \A q \in Runs : retrying'[q] # NoKey => \A d \in Runs :
          ~(status'[d] \in Active /\ row'[d].kind = "retry" /\ row'[d].source = q)
    BY <2>2, <2>3 DEF RetryInv, ActiveRetry
  <2>8. \A d \in Runs : Exists(d)' /\ row'[d].kind = "retry" =>
          \E q \in Runs : /\ q = row'[d].source /\ status'[q] # "absent"
                          /\ row'[q].agent = row'[d].agent
    <3> SUFFICES ASSUME NEW d \in Runs, Exists(d)', row'[d].kind = "retry"
                 PROVE  \E q \in Runs : /\ q = row'[d].source /\ status'[q] # "absent"
                                        /\ row'[q].agent = row'[d].agent
      OBVIOUS
    <3>1. CASE d = c
      BY <2>2, <2>3, <3>1 DEF Exists
    <3>2. CASE d # c
      <4>1. row'[d] = row[d] /\ Exists(d)
        BY <2>2, <3>2 DEF Exists
      <4>2. PICK q \in Runs : /\ q = row[d].source /\ Exists(q)
                              /\ row[q].agent = row[d].agent
        BY <4>1 DEF RetryInv
      <4>3. q # c
        BY <2>2, <4>2 DEF Exists
      <4>4. row'[q] = row[q] /\ status'[q] = status[q]
        BY <2>2, <4>3
      <4>5. status[q] # "absent"
        BY <4>2 DEF Exists
      <4> QED BY <4>1, <4>2, <4>4, <4>5
    <3> QED BY <3>1, <3>2
  <2>9. \A q \in Runs : retrying'[q] # NoKey => \A d \in Runs : ~ActiveRetry(d, q)'
    BY <2>7 DEF ActiveRetry
  <2>10. (\A d \in Runs : Exists(d) /\ row[d].kind = "retry" =>
            LET q == row[d].source IN
            q \in Runs /\ Exists(q) /\ row[q].agent = row[d].agent)'
    BY <2>8 DEF Exists
  <2> QED BY <2>6, <2>9, <2>10 DEF RetryInv
<1>6. Movable \subseteq Agents
  BY BoundAssumption
<1>7. ASSUME UNCHANGED runState, UNCHANGED retrying PROVE RetryInv'
  BY <1>0, <1>7, RetryKept DEF runState, Exists
<1>8. ASSUME Requeue \/ Crash \/ Exit \/ Shutdown PROVE RetryInv'
  <2>1. CASE Runs = {}
    BY <2>1 DEF RetryInv, OneActiveRetry
  <2> QED BY <1>1, <1>8, <2>1
<1> QED BY <1>1, <1>2, <1>3, <1>4, <1>5, <1>6, <1>7, <1>8, QuietSteps DEF Next, Boot

\* Of the retries of a run at most one is active, however many clients ask at
\* the same time (createRetry's lock on the source row).
THEOREM RetriesAreOne == Spec => []OneActiveRetry
<1>1. Inv /\ RetryInv /\ [Next]_vars => (Inv /\ RetryInv)'
  BY InvStep, RetryStep
<1>2. RetryInv => OneActiveRetry
  BY DEF RetryInv
<1> QED BY InvInit, RetryInit, <1>1, <1>2, PTL DEF Spec

-----------------------------------------------------------------------------
(* The sequence in step.                                                   *)

\* Places that count on persistedSequence; an execution past its claim and
\* before its end has a running run.
Counting == {"adapter", "append", "delegate", "record", "repeat", "artifact",
             "interrupt"}
Underway == {"context", "events", "adapter", "append", "delegate", "record",
             "repeat", "artifact"}

InStep(r) ==
  /\ pc[r] \in Counting => persisted[r] = Len(log[r])
  /\ pc[r] \in Underway => status[r] = "running"

SeqInv == \A r \in Runs : InStep(r)

LEMMA SeqInit == Init => SeqInv
BY DEF Init, StoreInit, SeqInv, InStep, Counting, Underway

\* An execution another one's step does not touch, and one that leaves or
\* begins.
LEMMA InStepKept ==
  ASSUME NEW q \in Runs, InStep(q),
         \/ pc'[q] \in {"idle", "claim", "catch", "settle"}
         \/ /\ pc'[q] = pc[q] /\ persisted'[q] = persisted[q]
            /\ log'[q] = log[q] /\ status'[q] = status[q]
  PROVE  InStep(q)'
BY DEF InStep, Counting, Underway

\* The log of an active run that takes an event is one longer.
LEMMA AppendedLength ==
  ASSUME TypeOK, NEW r \in Runs, NEW e \in Event, AppendEvent(r, e)
  PROVE  /\ Len(log'[r]) = Len(log[r]) + 1
         /\ e.type \notin Terminal => status'[r] = status[r]
         /\ \A q \in Runs \ {r} : log'[q] = log[q] /\ status'[q] = status[q]
BY DEF AppendEvent, TypeOK, StoreTypeOK

\* A step of one execution keeps its own count, and every other one's.
LEMMA ExecuteInStep ==
  ASSUME Inv, SeqInv, NEW r \in Runs, Execute(r) \/ Fault(r)
  PROVE  SeqInv'
<1> USE DEF Inv, TypeOK, MemoryTypeOK
<1>0. TypeOK /\ log \in [Runs -> Seq(Event)] /\ status \in [Runs -> Active \cup Terminal \cup {"absent"}]
  BY DEF StoreTypeOK
<1>a. ASSUME \A q \in Runs \ {r} : \/ pc'[q] \in {"idle", "claim"}
                                   \/ pc'[q] = pc[q],
             \A q \in Runs \ {r} : pc'[q] = pc[q] =>
               /\ persisted'[q] = persisted[q]
               /\ log'[q] = log[q] /\ status'[q] = status[q],
             InStep(r)'
      PROVE  SeqInv'
  BY <1>a, InStepKept DEF SeqInv
<1>1. CASE Claim(r)
  <2>1. pc'[r] \in {"context", "idle"} /\ (pc'[r] = "context" => status'[r] = "running")
    BY <1>0, <1>1 DEF Claim, Goto, Finish
  <2> QED BY <1>0, <1>1, <1>a, <2>1 DEF Claim, Goto, Finish, InStep, Counting, Underway
<1>2. CASE LoadContext(r) \/ StreamThrows(r)
  BY <1>2, <1>a DEF LoadContext, StreamThrows, Goto, storeVars, SeqInv, InStep, Counting,
     Underway
<1>3. CASE ListEvents(r)
  BY <1>3, <1>a DEF ListEvents, Goto, storeVars, SeqInv, InStep, Counting, Underway
<1>4. CASE Yield(r) \/ StreamEnds(r)
  BY <1>4, <1>a DEF Yield, StreamEnds, Goto, storeVars, SeqInv, InStep, Counting,
     Underway
<1>5. CASE Store(r)
  <2>1. CASE UNCHANGED <<storeVars, persisted>> /\ Goto(r, "catch")
    BY <2>1, <1>a DEF Goto, storeVars, InStep, Counting, Underway
  <2>2. CASE /\ Appendable(r, persisted[r] + 1)
             /\ AppendEvent(r, pending[r])
             /\ persisted' = [persisted EXCEPT ![r] = @ + 1]
             /\ Goto(r, AfterAppend(pending[r]))
    <3>1. pc[r] = "append" /\ pending[r] \in Event
      BY <1>5 DEF Store, PlaceInv
    <3>2. persisted[r] = Len(log[r]) /\ status[r] = "running"
      BY <3>1 DEF SeqInv, InStep, Counting, Underway
    <3>3. /\ Len(log'[r]) = Len(log[r]) + 1
          /\ pending[r].type \notin Terminal => status'[r] = status[r]
          /\ \A q \in Runs \ {r} : log'[q] = log[q] /\ status'[q] = status[q]
      BY <1>0, <2>2, <3>1, AppendedLength
    <3>4. persisted'[r] = Len(log'[r]) /\ pc'[r] = AfterAppend(pending[r])
      BY <2>2, <3>2, <3>3 DEF Goto
    <3>5. pc'[r] \in Underway => status'[r] = "running"
      BY <3>2, <3>3, <3>4 DEF AfterAppend, Underway, Terminal
    <3>6. InStep(r)'
      BY <3>4, <3>5 DEF InStep
    <3>7. \A q \in Runs \ {r} : pc'[q] = pc[q] /\ persisted'[q] = persisted[q]
      BY <2>2 DEF Goto
    <3> QED BY <1>a, <3>3, <3>6, <3>7
  <2> QED BY <1>5, <2>1, <2>2 DEF Store
<1>6. CASE CreateDelegatedRun(r)
  <2>1. Exists(r) /\ pc[r] = "delegate"
    BY <1>6 DEF CreateDelegatedRun, PlaceInv
  <2>2. persisted[r] = Len(log[r]) /\ status[r] = "running"
    BY <2>1 DEF SeqInv, InStep, Counting, Underway
  <2>3. UNCHANGED <<log, persisted>>
    BY <1>6 DEF CreateDelegatedRun
  <2>4. CASE Goto(r, "repeat") /\ UNCHANGED <<row, status>>
    BY <1>a, <2>2, <2>3, <2>4 DEF Goto, InStep
  <2>5. ASSUME NEW c \in Absent, Goto(r, "record"),
               InsertDerived(c, "delegation", r, pending[r].delegate, pending[r].key)
        PROVE  SeqInv'
    <3>1. c \in Runs /\ c # r /\ pc[c] = "idle" /\ pc' = [pc EXCEPT ![r] = "record"]
      BY <2>1, <2>5 DEF Absent, PlaceInv, Goto
    <3>2. \A q \in Runs \ {c} : status'[q] = status[q]
      BY <1>0, <2>5, InsertDerivedFacts
    <3>3. InStep(r)'
      BY <2>2, <2>3, <3>1, <3>2 DEF InStep
    <3>4. \A q \in Runs \ {r} : InStep(q)'
      BY <2>3, <3>1, <3>2, InStepKept DEF SeqInv
    <3> QED BY <3>3, <3>4 DEF SeqInv
  <2> QED BY <1>6, <2>4, <2>5, CreateDelegatedRunFacts
<1>7. CASE RecordDelegation(r)
  <2>1. PICK c \in Derived("delegation", r, pending[r].key) :
          \/ pc' = [pc EXCEPT ![r] = "adapter", ![c] = IF @ = "idle" THEN "claim" ELSE @]
          \/ pc' = [pc EXCEPT ![r] = "catch"]
    BY <1>7 DEF RecordDelegation, RecordOrElse, Goto
  <2>2. c \in Runs /\ pc[r] = "record" /\ UNCHANGED <<status, log, persisted>>
    BY <1>7 DEF RecordDelegation, RecordOrElse, Derived
  <2>3. pc[c] = "idle" /\ c # r
    BY <2>2 DEF RecordInv
  <2>4. InStep(r)'
    BY <2>1, <2>2, <2>3 DEF SeqInv, InStep, Counting, Underway
  <2>5. \A q \in Runs \ {r} : pc'[q] = pc[q] \/ pc'[q] = "claim"
    BY <2>1, <2>2, <2>3
  <2> QED BY <1>a, <2>2, <2>4, <2>5
<1>8. CASE RepeatDelegation(r)
  <2>1. pc' = [pc EXCEPT ![r] = "adapter"] \/ pc' = [pc EXCEPT ![r] = "catch"]
    BY <1>8 DEF RepeatDelegation, Goto
  <2>2. pc[r] = "repeat" /\ UNCHANGED <<status, log, persisted>>
    BY <1>8 DEF RepeatDelegation
  <2> QED BY <1>a, <2>1, <2>2 DEF SeqInv, InStep, Counting, Underway
<1>9. CASE CreateArtifact(r)
  <2>1. pc' = [pc EXCEPT ![r] = "adapter"] \/ pc' = [pc EXCEPT ![r] = "catch"]
    BY <1>9 DEF CreateArtifact, Goto
  <2>2. pc[r] = "artifact" /\ UNCHANGED <<status, log, persisted>>
    BY <1>9 DEF CreateArtifact
  <2> QED BY <1>a, <2>1, <2>2 DEF SeqInv, InStep, Counting, Underway
<1>10. CASE Settle(r)
  BY <1>10, <1>a DEF Settle, SettleByChildRun, Finish, Goto, InStep, Counting, Underway
<1>11. CASE Catch(r)
  BY <1>11, <1>a DEF Catch, Finish, Goto, storeVars, InStep, Counting, Underway
<1>12. CASE Interrupt(r)
  <2>1. pc' = [pc EXCEPT ![r] = "idle"] \/ pc' = [pc EXCEPT ![r] = "settle"]
    BY <1>12 DEF Interrupt, Finish, Goto
  <2>2. InStep(r)'
    BY <2>1 DEF InStep, Counting, Underway
  <2>3. \A q \in Runs \ {r} : persisted'[q] = persisted[q]
    BY <1>12 DEF Interrupt, Finish
  <2>4. \A q \in Runs \ {r} : log'[q] = log[q] /\ status'[q] = status[q]
    BY <1>0, <1>12, AppendedLength, EventTypes
    DEF Interrupt, PlaceInv, storeVars
  <2> QED BY <1>a, <2>1, <2>2, <2>3, <2>4
<1>13. CASE Fault(r)
  BY <1>13, <1>a DEF Fault, RecordUnheard, Finish, Goto, storeVars, InStep, Counting,
    Underway
<1> QED BY <1>1, <1>2, <1>3, <1>4, <1>5, <1>6, <1>7, <1>8, <1>9, <1>10, <1>11, <1>12,
  <1>13 DEF Execute

\* So do the requests and the process.
LEMMA SeqStep ==
  ASSUME Inv, SeqInv, [Next]_vars PROVE SeqInv'
<1> USE DEF Inv, TypeOK, MemoryTypeOK
<1>1. ASSUME UNCHANGED <<status, log, pc, persisted>> PROVE SeqInv'
  BY <1>1 DEF SeqInv, InStep
<1>2. ASSUME NEW m \in Messages, CreateForMessage(m) PROVE SeqInv'
  <2>1. PICK made \in SUBSET Absent :
           /\ Starting(made)
           /\ \A q \in Runs \ made : row'[q] = row[q] /\ status'[q] = status[q]
    BY <1>2, CreateForMessageFacts
  <2>2. \A q \in made : q \in Runs /\ pc[q] = "idle"
    BY DEF Absent, PlaceInv
  <2>3. UNCHANGED log
    BY <1>2 DEF CreateForMessage
  <2> QED BY <2>1, <2>2, <2>3, InStepKept DEF Starting, SeqInv
<1>3. ASSUME NEW r \in Runs, CreateRetry(r) PROVE SeqInv'
  <2>1. PICK c \in Absent : /\ InsertDerived(c, "retry", r, row[r].agent, retrying[r])
                            /\ Starting({c})
    BY <1>3, StartingFacts DEF CreateRetry
  <2>2. c \in Runs /\ pc[c] = "idle"
    BY DEF Absent, PlaceInv
  <2>3. UNCHANGED log /\ \A q \in Runs \ {c} : status'[q] = status[q]
    BY <1>3, <2>1, InsertDerivedFacts DEF CreateRetry
  <2> QED BY <2>1, <2>2, <2>3, InStepKept DEF Starting, SeqInv
<1>4. ASSUME NEW r \in Runs, NEW k \in RetryKeys, CheckRetry(r, k) PROVE SeqInv'
  BY <1>1, <1>4 DEF CheckRetry, LockForRetry, storeVars, execVars
<1>5. ASSUME NEW m \in Messages, Submit(m) \/ Route(m) \/ CheckRetract(m) \/ Retract(m)
      PROVE  SeqInv'
  BY <1>1, <1>5 DEF Submit, Route, CheckRetract, Retract, storeVars, execVars
<1>6. ASSUME NEW r \in Runs, ReadForCancel(r) \/ Abort(r) \/ Intervene(r) PROVE SeqInv'
  BY <1>1, <1>6 DEF ReadForCancel, Abort, Intervene, storeVars, execVars
<1>7. ASSUME NEW a \in Agents, CheckRemove(a) \/ RemoveMember(a) \/ AddMember(a)
      PROVE  SeqInv'
  BY <1>1, <1>7 DEF CheckRemove, RemoveMember, AddMember, storeVars, memoryVars, execVars
<1>8. CASE Crash \/ Exit
  BY <1>8, InStepKept DEF Crash, Exit, LoseMemory, SeqInv
<1>9. CASE Shutdown
  BY <1>1, <1>9 DEF Shutdown, storeVars
<1>10. ASSUME NEW r \in Runs, FailInterrupted(r) PROVE SeqInv'
  <2>1. \A q \in Runs : pc'[q] = "idle"
    BY <1>10 DEF FailInterrupted, BootInv, memoryVars, execVars
  <2> QED BY <2>1, InStepKept DEF SeqInv
<1>11. CASE Requeue
  <2>1. \A q \in Runs : pc'[q] \in {"idle", "claim"}
    BY <1>11 DEF Requeue, RequeueAndStart, Start, BootInv
  <2> QED BY <2>1, InStepKept DEF SeqInv
<1>12. CASE UNCHANGED vars
  BY <1>1, <1>12 DEF vars, storeVars, memoryVars, execVars
<1>13. Movable \subseteq Agents
  BY BoundAssumption
<1> QED BY <1>2, <1>3, <1>4, <1>5, <1>6, <1>7, <1>8, <1>9, <1>10, <1>11, <1>12, <1>13,
  ExecuteInStep DEF Next, Boot

\* The count an execution keeps in memory is the length of its log, across
\* restarts and whoever else writes (listEvents, persistedSequence).
THEOREM CountsFollowLogs == Spec => []SequenceInStep
<1>1. Inv /\ SeqInv /\ [Next]_vars => (Inv /\ SeqInv)'
  BY InvStep, SeqStep
<1>2. SeqInv => SequenceInStep
  BY DEF SeqInv, InStep, Counting, Underway, SequenceInStep
<1> QED BY InvInit, SeqInit, <1>1, <1>2, PTL DEF Spec

-----------------------------------------------------------------------------
(* Stranded runs.                                                          *)

\* Where the run of an execution stands at the ends of the execution; and a
\* run nobody executes, while no database call has failed, has too long a text
\* or waits for a delegation that was not stored, and its parent cannot complete.
EndsInv ==
  \A r \in Runs :
    /\ pc[r] = "claim" => status[r] = "queued"
    /\ pc[r] = "settle" => status[r] \in Terminal
    /\ pc[r] = "interrupt" => status[r] \in Active

StrandedOrphan(r) ==
  Up /\ status[r] \in Active /\ pc[r] = "idle" /\ faults = 0 /\ ~Overlong(r) =>
    status[r] = "queued" /\ Orphan(r, row[r].source)
StrandInv == \A r \in Runs : StrandedOrphan(r)

ParentInv ==
  \A c \in Runs : Orphan(c, row[c].source) => status[row[c].source] # "completed"

LEMMA StrandInit == Init => EndsInv /\ StrandInv /\ ParentInv
BY DEF Init, StoreInit, EndsInv, StrandInv, StrandedOrphan,
   ParentInv, Orphan, Exists, Active, Up

\* Every step keeps what is known at the ends of an execution.
LEMMA EndsStep ==
  ASSUME Inv, EndsInv, [Next]_vars PROVE EndsInv'
<1> USE DEF Inv, TypeOK, MemoryTypeOK
<1>0. TypeOK /\ status \in [Runs -> Active \cup Terminal \cup {"absent"}]
  BY DEF StoreTypeOK
<1>1. ASSUME UNCHANGED <<status, pc>> PROVE EndsInv'
  BY <1>1 DEF EndsInv
<1>a. ASSUME NEW r \in Runs,
             \A q \in Runs \ {r} : pc'[q] = pc[q] /\ status'[q] = status[q],
             \/ pc'[r] \notin {"claim", "settle", "interrupt"}
             \/ pc'[r] = "settle" /\ status'[r] \in Terminal
             \/ pc'[r] = "interrupt" /\ status'[r] \in Active
      PROVE  EndsInv'
  BY <1>a DEF EndsInv
<1>2. ASSUME NEW m \in Messages, CreateForMessage(m) PROVE EndsInv'
  <2>1. PICK made \in SUBSET Absent :
           /\ Starting(made)
           /\ \A q \in Runs \ made : row'[q] = row[q] /\ status'[q] = status[q]
           /\ \A q \in made : status'[q] = "queued" /\ row'[q].kind = "message"
    BY <1>2, CreateForMessageFacts
  <2>2. \A q \in made : q \in Runs /\ pc[q] = "idle"
    BY DEF Absent, PlaceInv
  <2> QED BY <2>1, <2>2 DEF Starting, EndsInv
<1>3. ASSUME NEW r \in Runs, CreateRetry(r) PROVE EndsInv'
  <2>1. PICK c \in Absent : /\ InsertDerived(c, "retry", r, row[r].agent, retrying[r])
                            /\ Starting({c})
    BY <1>3, StartingFacts DEF CreateRetry
  <2>2. c \in Runs /\ pc[c] = "idle"
    BY DEF Absent, PlaceInv
  <2>3. status'[c] = "queued" /\ \A q \in Runs \ {c} : status'[q] = status[q]
    BY <1>0, <2>1, InsertDerivedFacts
  <2> QED BY <2>1, <2>2, <2>3 DEF Starting, EndsInv
<1>4. ASSUME NEW r \in Runs, NEW k \in RetryKeys, CheckRetry(r, k) PROVE EndsInv'
  BY <1>1, <1>4 DEF CheckRetry, LockForRetry, storeVars, execVars
<1>5. ASSUME NEW r \in Runs, Claim(r) PROVE EndsInv'
  <2>1. /\ pc' = [pc EXCEPT ![r] = "context"] \/ pc' = [pc EXCEPT ![r] = "idle"]
        /\ \A q \in Runs \ {r} : status'[q] = status[q]
    BY <1>0, <1>5 DEF Claim, Goto, Finish
  <2> QED BY <1>a, <2>1
<1>6. ASSUME NEW r \in Runs,
             LoadContext(r) \/ ListEvents(r) \/ Yield(r) \/ StreamEnds(r)
               \/ StreamThrows(r)
      PROVE  EndsInv'
  BY <1>6, <1>a DEF LoadContext, ListEvents, Yield, StreamEnds, StreamThrows, Goto,
     storeVars
<1>7. ASSUME NEW r \in Runs, Store(r) PROVE EndsInv'
  <2>1. CASE UNCHANGED <<storeVars, persisted>> /\ Goto(r, "catch")
    BY <1>a, <2>1 DEF Goto, storeVars
  <2>2. CASE AppendEvent(r, pending[r]) /\ Goto(r, AfterAppend(pending[r]))
    <3>1. \A q \in Runs \ {r} : pc'[q] = pc[q] /\ status'[q] = status[q]
      BY <1>0, <2>2 DEF AppendEvent, Goto
    <3>2. pc'[r] = AfterAppend(pending[r])
      BY <2>2 DEF Goto
    <3>3. CASE pending[r].type \in Terminal
      <4>1. status'[r] \in Terminal
        BY <1>0, <2>2, <3>3 DEF AppendEvent
      <4>2. pc'[r] = "settle"
        BY <3>2, <3>3 DEF AfterAppend, Terminal
      <4> QED BY <1>a, <3>1, <4>1, <4>2
    <3>4. CASE pending[r].type \notin Terminal
      BY <1>a, <3>1, <3>2, <3>4 DEF AfterAppend
    <3> QED BY <3>3, <3>4
  <2> QED BY <1>7, <2>1, <2>2 DEF Store
<1>8. ASSUME NEW r \in Runs, CreateDelegatedRun(r) PROVE EndsInv'
  <2>1. CASE Goto(r, "repeat") /\ UNCHANGED <<row, status>>
    BY <1>a, <2>1 DEF Goto
  <2>2. ASSUME NEW c \in Absent, Goto(r, "record"),
               InsertDerived(c, "delegation", r, pending[r].delegate, pending[r].key)
        PROVE  EndsInv'
    <3>1. c \in Runs /\ pc[c] = "idle" /\ \A q \in Runs \ {c} : status'[q] = status[q]
      BY <1>0, <2>2, InsertDerivedFacts DEF Absent, PlaceInv
    <3> QED BY <2>2, <3>1 DEF EndsInv, Goto
  <2> QED BY <1>8, <2>1, <2>2, CreateDelegatedRunFacts
<1>9. ASSUME NEW r \in Runs, RecordDelegation(r) PROVE EndsInv'
  <2>1. PICK c \in Derived("delegation", r, pending[r].key) :
          \/ pc' = [pc EXCEPT ![r] = "adapter", ![c] = IF @ = "idle" THEN "claim" ELSE @]
          \/ pc' = [pc EXCEPT ![r] = "catch"]
    BY <1>9 DEF RecordDelegation, RecordOrElse, Goto
  <2>2. c \in Runs /\ pc[r] = "record" /\ status' = status
    BY <1>9 DEF RecordDelegation, RecordOrElse, Derived
  <2>3. pc[c] = "idle" /\ status[c] = "queued" /\ c # r
    BY <2>2 DEF RecordInv
  <2> QED BY <2>1, <2>2, <2>3 DEF EndsInv
<1>10. ASSUME NEW r \in Runs, RepeatDelegation(r) \/ CreateArtifact(r) PROVE EndsInv'
  <2>1. pc' = [pc EXCEPT ![r] = "adapter"] \/ pc' = [pc EXCEPT ![r] = "catch"]
    BY <1>10 DEF RepeatDelegation, CreateArtifact, Goto
  <2>2. status' = status
    BY <1>10 DEF RepeatDelegation, CreateArtifact
  <2> QED BY <1>a, <2>1, <2>2
<1>11. ASSUME NEW r \in Runs, Settle(r) PROVE EndsInv'
  BY <1>11, <1>a DEF Settle, SettleByChildRun, Finish, Goto
<1>12. ASSUME NEW r \in Runs, Catch(r) PROVE EndsInv'
  BY <1>12, <1>a DEF Catch, Finish, Goto, storeVars
<1>13. ASSUME NEW r \in Runs, Interrupt(r) PROVE EndsInv'
  <2>1. CASE Finish(r) /\ UNCHANGED storeVars
    BY <1>a, <2>1 DEF Finish, Goto, storeVars
  <2>2. CASE AppendEvent(r, pending[r]) /\ Goto(r, "settle")
    <3>1. pending[r].type \in Terminal
      BY <1>13, EventTypes DEF Interrupt, PlaceInv, Terminal
    <3>2. /\ \A q \in Runs \ {r} : pc'[q] = pc[q] /\ status'[q] = status[q]
          /\ pc'[r] = "settle" /\ status'[r] \in Terminal
      BY <1>0, <2>2, <3>1 DEF AppendEvent, Goto
    <3> QED BY <1>a, <3>2
  <2> QED BY <1>13, <2>1, <2>2 DEF Interrupt
<1>14. ASSUME NEW r \in Runs, Fault(r) PROVE EndsInv'
  BY <1>14, <1>a DEF Fault, RecordUnheard, Finish, Goto, storeVars
<1>15. ASSUME UNCHANGED runState PROVE EndsInv'
  BY <1>1, <1>15 DEF runState
<1>16. CASE Crash \/ Exit
  BY <1>16 DEF Crash, Exit, LoseMemory, EndsInv
<1>17. CASE Shutdown
  BY <1>1, <1>17 DEF Shutdown, storeVars
<1>18. ASSUME NEW r \in Runs, FailInterrupted(r) PROVE EndsInv'
  BY <1>18 DEF FailInterrupted, BootInv, memoryVars, execVars, EndsInv
<1>19. CASE Requeue
  BY <1>19 DEF Requeue, RequeueAndStart, ActiveRuns, Start, BootInv, EndsInv
<1>20. Movable \subseteq Agents
  BY BoundAssumption
<1> QED BY <1>2, <1>3, <1>4, <1>5, <1>6, <1>7, <1>8, <1>9, <1>10, <1>11, <1>12, <1>13,
  <1>14, <1>15, <1>16, <1>17, <1>18, <1>19, <1>20, QuietSteps DEF Next, Boot, Execute

\* A run nobody begins to execute or ends to, and nothing happens to.
LEMMA StrandKept ==
  ASSUME NEW q \in Runs, StrandedOrphan(q), Up' => Up, faults' = 0 => faults = 0,
         Overlong(q) => Overlong(q)',
         \/ status'[q] \notin Active
         \/ pc'[q] # "idle"
         \/ /\ status'[q] = status[q] /\ row'[q] = row[q]
            /\ delegation'[q] = delegation[q] /\ pc[q] = "idle"
  PROVE  StrandedOrphan(q)'
BY DEF StrandedOrphan, Orphan, Exists

\* A log does not lose what makes its run's text too long.
LEMMA OverlongStays ==
  ASSUME Inv, [Next]_vars, NEW q \in Runs, Overlong(q)
  PROVE  Overlong(q)'
<1>1. PICK i \in 1 .. Len(log[q]) : log[q][i].type = "excess"
  BY DEF Overlong, HasEvent
<1>2. CASE log'[q] = log[q]
  BY <1>2 DEF Overlong, HasEvent
<1>3. ASSUME NEW r \in Runs, NEW e \in Event, AppendEvent(r, e)
      PROVE  Overlong(q)'
  <2>1. \/ log'[q] = log[q]
        \/ /\ Len(log[q]) \in Nat /\ Len(log'[q]) = Len(log[q]) + 1
           /\ \A k \in 1 .. Len(log[q]) : log'[q][k] = log[q][k]
    BY <1>3, AppendedLog DEF Inv
  <2>2. CASE Len(log[q]) \in Nat /\ Len(log'[q]) = Len(log[q]) + 1
    <3>1. i \in 1 .. Len(log'[q])
      BY <1>1, <2>2
    <3> QED BY <1>1, <1>2, <2>1, <3>1 DEF Overlong, HasEvent
  <2> QED BY <1>2, <2>1, <2>2
<1> QED
  BY <1>2, <1>3, StepKinds
  DEF runColumns, Claimed, NewRuns, Delegated, Requeued

\* Every step keeps what is known of the runs nobody executes.
LEMMA StrandStep ==
  ASSUME Inv, SeqInv, EndsInv, StrandInv, [Next]_vars PROVE StrandInv'
<1> USE DEF Inv, TypeOK, MemoryTypeOK
<1>0. /\ TypeOK /\ row \in [Runs -> Row \cup {NoRow}]
      /\ status \in [Runs -> Active \cup Terminal \cup {"absent"}]
      /\ delegation \in [Runs -> Terminal \cup {"running", "none"}]
  BY DEF StoreTypeOK
<1>1. ASSUME UNCHANGED <<status, row, delegation, pc>>, Up' => Up,
             faults' = 0 => faults = 0
      PROVE  StrandInv'
  BY <1>1, StrandKept, OverlongStays DEF StrandInv
<1>a. ASSUME NEW r \in Runs, Up' => Up, faults' = 0 => faults = 0,
             \A q \in Runs \ {r} : /\ pc'[q] = pc[q] /\ status'[q] = status[q]
                                   /\ row'[q] = row[q]
                                   /\ delegation'[q] = delegation[q],
             pc'[r] # "idle" \/ status'[r] \notin Active
      PROVE  StrandInv'
  BY <1>a, StrandKept, OverlongStays DEF StrandInv
<1>2. ASSUME NEW m \in Messages, CreateForMessage(m) PROVE StrandInv'
  <2>1. PICK made \in SUBSET Absent :
           /\ Starting(made)
           /\ \A q \in Runs \ made : row'[q] = row[q] /\ status'[q] = status[q]
           /\ \A q \in made : status'[q] = "queued" /\ row'[q].kind = "message"
    BY <1>2, CreateForMessageFacts
  <2>2. \A q \in made : q \in Runs /\ pc[q] = "idle"
    BY DEF Absent, PlaceInv
  <2>a. CASE faults' = faults + 1
    BY <2>a DEF StrandInv, StrandedOrphan
  <2>b. CASE faults' # faults + 1
    <3>3. UNCHANGED <<delegation, phase, faults>>
      BY <1>2, <2>b DEF CreateForMessage, StartCommitted
    <3>4. Up' => Up
      BY <3>3 DEF Up
    <3>5. \A q \in made : pc'[q] # "idle"
      BY <2>1, <2>2, <2>b DEF Starting
    <3>6. \A q \in Runs \ made : pc'[q] = pc[q]
      BY <2>1 DEF Starting
    <3> QED BY <2>1, <3>3, <3>4, <3>5, <3>6, StrandKept, OverlongStays DEF StrandInv
  <2> QED BY <2>a, <2>b
<1>3. ASSUME NEW r \in Runs, CreateRetry(r) PROVE StrandInv'
  <2>1. PICK c \in Absent : /\ InsertDerived(c, "retry", r, row[r].agent, retrying[r])
                            /\ Starting({c})
    BY <1>3, StartingFacts DEF CreateRetry
  <2>2. c \in Runs /\ pc[c] = "idle"
    BY DEF Absent, PlaceInv
  <2>3. \A q \in Runs \ {c} : status'[q] = status[q] /\ row'[q] = row[q]
    BY <1>0, <2>1, InsertDerivedFacts
  <2>a. CASE faults' = faults + 1
    BY <2>a DEF StrandInv, StrandedOrphan
  <2>b. CASE faults' # faults + 1
    <3>4. UNCHANGED <<delegation, phase, faults>>
      BY <1>3, <2>b DEF CreateRetry, StartCommitted
    <3>5. pc'[c] # "idle" /\ \A q \in Runs \ {c} : pc'[q] = pc[q]
      BY <2>1, <2>2, <2>b DEF Starting
    <3> QED BY <1>a, <2>2, <2>3, <3>4, <3>5 DEF Up
  <2> QED BY <2>a, <2>b
<1>4. ASSUME NEW r \in Runs, NEW k \in RetryKeys, CheckRetry(r, k) PROVE StrandInv'
  BY <1>1, <1>4 DEF CheckRetry, LockForRetry, storeVars, execVars, countVars, Up
<1>5. ASSUME NEW r \in Runs, Claim(r) PROVE StrandInv'
  <2>1. status[r] = "queued" /\ pc[r] = "claim"
    BY <1>5 DEF Claim, EndsInv
  <2>2. /\ pc' = [pc EXCEPT ![r] = "context"]
        /\ status' = [status EXCEPT ![r] = "running"]
        /\ UNCHANGED <<row, delegation, phase, faults>>
    BY <1>5, <2>1 DEF Claim, Goto, ExecFrame, countVars
  <2> QED BY <1>0, <1>a, <2>2 DEF Up
<1>6. ASSUME NEW r \in Runs,
             LoadContext(r) \/ ListEvents(r) \/ Yield(r) \/ StreamEnds(r)
               \/ StreamThrows(r)
      PROVE  StrandInv'
  BY <1>6, <1>a DEF LoadContext, ListEvents, Yield, StreamEnds, StreamThrows, Goto,
     storeVars, ExecFrame, countVars, Up
<1>7. ASSUME NEW r \in Runs, Store(r) PROVE StrandInv'
  <2>1. UNCHANGED <<phase, faults>>
    BY <1>7 DEF Store, ExecFrame, countVars
  <2>2. CASE UNCHANGED <<storeVars, persisted>> /\ Goto(r, "catch")
    BY <1>a, <2>1, <2>2 DEF Goto, storeVars, Up
  <2>3. CASE AppendEvent(r, pending[r]) /\ Goto(r, AfterAppend(pending[r]))
    <3>1. /\ \A q \in Runs \ {r} : pc'[q] = pc[q] /\ status'[q] = status[q]
          /\ UNCHANGED row
      BY <1>0, <2>3 DEF AppendEvent, Goto
    <3>2. \A q \in Runs \ {r} : delegation'[q] = delegation[q]
      BY <1>0, <2>3 DEF AppendEvent
    <3>3. pc'[r] # "idle"
      BY <2>3 DEF AfterAppend, Goto
    <3> QED BY <1>a, <2>1, <3>1, <3>2, <3>3 DEF Up
  <2> QED BY <1>7, <2>2, <2>3 DEF Store
<1>8. ASSUME NEW r \in Runs, CreateDelegatedRun(r) PROVE StrandInv'
  <2>1. UNCHANGED <<delegation, phase, faults>>
    BY <1>8 DEF CreateDelegatedRun, ExecFrame, countVars
  <2>2. CASE Goto(r, "repeat") /\ UNCHANGED <<row, status>>
    BY <1>a, <2>1, <2>2 DEF Goto, Up
  <2>3. ASSUME NEW c \in Absent, Goto(r, "record"),
               InsertDerived(c, "delegation", r, pending[r].delegate, pending[r].key)
        PROVE  StrandInv'
    <3>1. /\ c \in Runs /\ status[c] = "absent" /\ status'[c] = "queued"
          /\ row'[c].kind = "delegation" /\ row'[c].source = r
          /\ \A q \in Runs \ {c} : row'[q] = row[q] /\ status'[q] = status[q]
      BY <1>0, <2>3, InsertDerivedFacts
    <3>2. delegation[c] = "none"
      BY <3>1 DEF OutputInv, Exists
    <3>3. StrandedOrphan(c)'
      BY <2>1, <3>1, <3>2 DEF StrandedOrphan, Orphan, Exists
    <3>4. pc'[r] # "idle" /\ \A q \in Runs \ {r} : pc'[q] = pc[q]
      BY <2>3 DEF Goto
    <3> QED BY <2>1, <3>1, <3>3, <3>4, StrandKept, OverlongStays DEF StrandInv, Up
  <2> QED BY <1>8, <2>2, <2>3, CreateDelegatedRunFacts
<1>9. ASSUME NEW r \in Runs, RecordDelegation(r) PROVE StrandInv'
  <2>1. PICK c \in Derived("delegation", r, pending[r].key) :
          \/ /\ pc' = [pc EXCEPT ![r] = "adapter", ![c] = IF @ = "idle" THEN "claim" ELSE @]
             /\ delegation' = [delegation EXCEPT ![c] = "running"]
          \/ pc' = [pc EXCEPT ![r] = "catch"] /\ UNCHANGED delegation
    BY <1>9 DEF RecordDelegation, RecordOrElse, Goto
  <2>2. c \in Runs /\ pc[r] = "record" /\ UNCHANGED <<row, status, phase, faults>>
    BY <1>9 DEF RecordDelegation, RecordOrElse, Derived, ExecFrame, countVars
  <2>3. pc[c] = "idle" /\ c # r
    BY <2>2 DEF RecordInv
  <2>4. CASE pc' = [pc EXCEPT ![r] = "catch"] /\ UNCHANGED delegation
    BY <1>a, <2>2, <2>4 DEF Up
  <2>5. CASE /\ pc' = [pc EXCEPT ![r] = "adapter", ![c] = IF @ = "idle" THEN "claim" ELSE @]
             /\ delegation' = [delegation EXCEPT ![c] = "running"]
    <3>1. /\ pc'[r] # "idle" /\ pc'[c] # "idle"
          /\ \A q \in Runs \ {r, c} : pc'[q] = pc[q] /\ delegation'[q] = delegation[q]
      BY <1>0, <2>2, <2>3, <2>5
    <3> QED BY <2>2, <3>1, StrandKept, OverlongStays DEF StrandInv, Up
  <2> QED BY <2>1, <2>4, <2>5
<1>10. ASSUME NEW r \in Runs, RepeatDelegation(r) \/ CreateArtifact(r) PROVE StrandInv'
  <2>1. pc' = [pc EXCEPT ![r] = "adapter"] \/ pc' = [pc EXCEPT ![r] = "catch"]
    BY <1>10 DEF RepeatDelegation, CreateArtifact, Goto
  <2>2. UNCHANGED <<row, status, phase, faults>>
    BY <1>10 DEF RepeatDelegation, CreateArtifact, ExecFrame, countVars
  <2>3. CASE CreateArtifact(r)
    BY <1>a, <2>1, <2>2, <2>3 DEF CreateArtifact, Up
  <2>4. CASE RepeatDelegation(r)
    <3>1. \A d \in Derived("delegation", r, pending[r].key) : delegation[d] # "none"
      BY <2>4 DEF RepeatDelegation, OrphanInv, Orphan, Derived, IsDerived
    <3>2. UNCHANGED delegation
      BY <2>4, <3>1 DEF RepeatDelegation
    <3> QED BY <1>a, <2>1, <2>2, <3>2 DEF Up
  <2> QED BY <1>10, <2>3, <2>4
<1>11. ASSUME NEW r \in Runs, Settle(r) PROVE StrandInv'
  <2>1. status[r] \in Terminal
    BY <1>11 DEF Settle, EndsInv
  <2>2. delegation' = delegation
    BY <1>11 DEF Settle, SettleByChildRun, DelegationFollowsChild, StoreTypeOK, Terminal
  <2>3. /\ pc' = [pc EXCEPT ![r] = "idle"]
        /\ UNCHANGED <<row, status, phase, faults>>
    BY <1>11 DEF Settle, SettleByChildRun, Finish, Goto, ExecFrame, countVars
  <2>4. status'[r] \notin Active
    BY <2>1, <2>3 DEF Active, Terminal
  <2> QED BY <1>a, <2>2, <2>3, <2>4 DEF Up
<1>12. ASSUME NEW r \in Runs, Catch(r) PROVE StrandInv'
  <2>1. \/ pc' = [pc EXCEPT ![r] = "interrupt"]
        \/ pc' = [pc EXCEPT ![r] = "idle"] /\ status[r] \notin Active
    BY <1>12 DEF Catch, Finish, Goto
  <2>2. UNCHANGED <<row, status, delegation, phase, faults>>
    BY <1>12 DEF Catch, storeVars, ExecFrame, countVars
  <2> QED BY <1>a, <2>1, <2>2 DEF Up
<1>13. ASSUME NEW r \in Runs, Interrupt(r) PROVE StrandInv'
  <2>1. Appendable(r, persisted[r] + 1)
    BY <1>13 DEF Interrupt, Appendable, EndsInv, SeqInv, InStep, Counting
  <2>2. CASE Storable(r, pending[r])
    <3>1. /\ AppendEvent(r, pending[r]) /\ pc' = [pc EXCEPT ![r] = "settle"]
          /\ UNCHANGED <<phase, faults>>
      BY <1>13, <2>1, <2>2 DEF Interrupt, Goto, ExecFrame, countVars
    <3>2. \A q \in Runs \ {r} : /\ status'[q] = status[q] /\ row'[q] = row[q]
                                /\ delegation'[q] = delegation[q]
      BY <1>0, <3>1 DEF AppendEvent
    <3> QED BY <1>a, <3>1, <3>2 DEF Up
  <2>3. CASE ~Storable(r, pending[r])
    <3>1. /\ UNCHANGED <<row, status, log, delegation, phase, faults>>
          /\ \A q \in Runs \ {r} : pc'[q] = pc[q]
      BY <1>13, <2>1, <2>3 DEF Interrupt, Finish, Goto, storeVars, ExecFrame, countVars
    <3>2. pending[r] \in {Failed, Stopped}
      BY <1>13 DEF Interrupt, PlaceInv
    <3>3. Overlong(r)
      BY <2>3, <3>2 DEF Storable, Failed, Stopped
    <3>4. StrandedOrphan(r)'
      BY <3>1, <3>3 DEF StrandedOrphan, Overlong, HasEvent
    <3> QED BY <3>1, <3>4, StrandKept, OverlongStays DEF StrandInv, Up
  <2> QED BY <2>2, <2>3
<1>14. ASSUME NEW r \in Runs, Fault(r) PROVE StrandInv'
  <2>1. faults' # 0
    BY <1>14 DEF Fault
  <2> QED BY <2>1 DEF StrandInv, StrandedOrphan
<1>15. ASSUME \/ \E m \in Messages :
                    Submit(m) \/ Route(m) \/ CheckRetract(m) \/ Retract(m)
              \/ \E r \in Runs : ReadForCancel(r) \/ Abort(r) \/ Intervene(r)
              \/ \E a \in Agents : CheckRemove(a) \/ RemoveMember(a) \/ AddMember(a)
              \/ UNCHANGED vars
      PROVE  StrandInv'
  <2>1. UNCHANGED runState
    BY <1>15, QuietSteps
  <2>2. UNCHANGED faults
    BY <1>15 DEF Submit, Route, CheckRetract, Retract, ReadForCancel, Abort, Intervene,
      CheckRemove, RemoveMember, AddMember, vars, countVars
  <2> QED BY <1>1, <2>1, <2>2 DEF runState, Up
<1>16. CASE Crash \/ Exit \/ \E r \in Runs : FailInterrupted(r)
  <2>1. phase' = "boot"
    BY <1>16 DEF Crash, Exit, FailInterrupted
  <2> QED BY <2>1 DEF StrandInv, StrandedOrphan, Up
<1>17. CASE Shutdown
  BY <1>1, <1>17 DEF Shutdown, storeVars, Up
<1>19. CASE Requeue
  <2>1. \A q \in Runs : status'[q] \in Active => q \in ActiveRuns
    BY <1>19 DEF Requeue, RequeueAndStart, ActiveRuns
  <2>2. \A q \in ActiveRuns : pc'[q] # "idle"
    BY <1>19 DEF Requeue, RequeueAndStart, ActiveRuns, Start
  <2> QED BY <2>1, <2>2 DEF StrandInv, StrandedOrphan
<1>20. Movable \subseteq Agents
  BY BoundAssumption
<1> QED BY <1>2, <1>3, <1>4, <1>5, <1>6, <1>7, <1>8, <1>9, <1>10, <1>11, <1>12, <1>13,
  <1>14, <1>15, <1>16, <1>17, <1>19, <1>20 DEF Next, Boot, Execute

\* A run completes only by the event its own execution is storing.
LEMMA Completing ==
  ASSUME Inv, [Next]_vars, NEW s \in Runs, status'[s] = "completed"
  PROVE  status[s] = "completed" \/ pc[s] = "append"
<1> USE DEF Inv, TypeOK, StoreTypeOK
<1>1. ASSUME NEW r \in Runs, NEW e \in Event, AppendEvent(r, e),
             e.type = "completed" => pc[r] = "append"
      PROVE  status[s] = "completed" \/ pc[s] = "append"
  BY <1>1 DEF AppendEvent
<1>2. ASSUME status' = status PROVE status[s] = "completed"
  BY <1>2
<1>3. ASSUME NEW r \in Runs, Store(r) \/ Interrupt(r) \/ FailInterrupted(r)
      PROVE  status[s] = "completed" \/ pc[s] = "append"
  <2>1. CASE Store(r)
    <3>1. pc[r] = "append" /\ pending[r] \in Event
      BY <2>1 DEF Store, PlaceInv
    <3> QED BY <1>1, <1>2, <2>1, <3>1 DEF Store, storeVars
  <2>2. CASE Interrupt(r)
    <3>1. pending[r] \in Event /\ pending[r].type # "completed"
      BY <2>2, EventTypes DEF Interrupt, PlaceInv
    <3> QED BY <1>1, <1>2, <2>2, <3>1 DEF Interrupt, storeVars
  <2>3. CASE FailInterrupted(r)
    BY <1>1, <2>3, EventTypes DEF FailInterrupted
  <2> QED BY <1>3, <2>1, <2>2, <2>3
<1>4. ASSUME NEW r \in Runs, CreateDelegatedRun(r) \/ CreateRetry(r)
      PROVE  status[s] = "completed"
  BY <1>4 DEF CreateDelegatedRun, CreateRetry, InsertDerived, Absent
<1>5. ASSUME NEW m \in Messages, CreateForMessage(m) PROVE status[s] = "completed"
  BY <1>5, CreateForMessageFacts
<1>6. CASE Requeue
  BY <1>6 DEF Requeue, RequeueAndStart
<1>7. ASSUME NEW r \in Runs, Claim(r) PROVE status[s] = "completed"
  BY <1>7 DEF Claim
<1>8. ASSUME NEW r \in Runs,
             RecordDelegation(r) \/ RepeatDelegation(r) \/ CreateArtifact(r) \/ Settle(r)
      PROVE  status[s] = "completed"
  BY <1>8 DEF RecordDelegation, RecordOrElse, RepeatDelegation, CreateArtifact, Settle,
     SettleByChildRun
<1>9. CASE Crash \/ Exit \/ Shutdown
  BY <1>9 DEF Crash, Exit, Shutdown, storeVars
<1>10. ASSUME NEW r \in Runs, NEW k \in RetryKeys, CheckRetry(r, k)
       PROVE  status[s] = "completed"
  BY <1>10 DEF CheckRetry, LockForRetry, storeVars
<1>11. ASSUME NEW r \in Runs,
              LoadContext(r) \/ ListEvents(r) \/ Yield(r) \/ StreamEnds(r)
                \/ StreamThrows(r) \/ Catch(r)
       PROVE  status[s] = "completed"
  BY <1>11, MemorySteps DEF storeVars
<1>14. ASSUME NEW r \in Runs, Fault(r) PROVE status[s] = "completed"
  BY <1>14 DEF Fault, RecordUnheard, storeVars
<1>12. ASSUME UNCHANGED runState PROVE status[s] = "completed"
  BY <1>12 DEF runState
<1>13. Movable \subseteq Agents
  BY BoundAssumption
<1> QED BY <1>3, <1>4, <1>5, <1>6, <1>7, <1>8, <1>9, <1>10, <1>11, <1>12, <1>13,
  <1>14, QuietSteps DEF Next, Boot, Execute

\* Every step keeps the parent of an orphan from completing.
LEMMA ParentStep ==
  ASSUME Inv, SeqInv, ParentInv, [Next]_vars PROVE ParentInv'
<1> USE DEF Inv, TypeOK, StoreTypeOK
<1> SUFFICES ASSUME NEW c \in Runs, Orphan(c, row[c].source)',
                    status'[row'[c].source] = "completed"
             PROVE  FALSE
  BY DEF ParentInv
<1>1. PICK s : s = row'[c].source
  OBVIOUS
<1>2. Exists(c)' /\ row'[c].kind = "delegation" /\ delegation'[c] = "none"
  BY DEF Orphan
<1>3. ASSUME Exists(c), row'[c] = row[c], delegation[c] = "none" PROVE FALSE
  <2>1. Orphan(c, row[c].source) /\ row[c].source = s
    BY <1>1, <1>2, <1>3 DEF Orphan
  <2>2. s \in Runs /\ pc[s] # "append" /\ status[s] # "completed"
    BY <2>1 DEF OrphanInv, ParentInv
  <2> QED BY <1>1, <2>2, Completing
<1>4. CASE Calm
  BY <1>2, <1>3, <1>4 DEF Calm
<1>5. ASSUME NEW r \in Runs, Tame(r) PROVE FALSE
  BY <1>2, <1>3, <1>5 DEF Tame
<1>6. ASSUME NEW r \in Runs, CreateDelegatedRun(r) PROVE FALSE
  <2>1. pc[r] = "delegate" /\ UNCHANGED delegation
    BY <1>6 DEF CreateDelegatedRun
  <2>2. CASE UNCHANGED <<row, status>>
    BY <1>2, <1>3, <2>1, <2>2 DEF Exists
  <2>3. ASSUME NEW d \in Absent,
               InsertDerived(d, "delegation", r, pending[r].delegate, pending[r].key)
        PROVE  FALSE
    <3>1. /\ d \in Runs /\ status[d] = "absent" /\ row'[d].source = r
          /\ \A q \in Runs \ {d} : row'[q] = row[q] /\ status'[q] = status[q]
      BY <2>3, InsertDerivedFacts
    <3>2. CASE c = d
      <4>1. s = r /\ status[r] = "running"
        BY <1>1, <2>1, <3>1, <3>2 DEF SeqInv, InStep, Underway
      <4> QED BY <1>1, <3>1, <4>1
    <3>3. CASE c # d
      BY <1>2, <1>3, <2>1, <3>1, <3>3 DEF Exists
    <3> QED BY <3>2, <3>3
  <2> QED BY <1>6, <2>2, <2>3, CreateDelegatedRunFacts
<1>7. ASSUME NEW r \in Runs, RecordDelegation(r) PROVE FALSE
  <2>1. UNCHANGED <<row, status>>
    BY <1>7 DEF RecordDelegation, RecordOrElse
  <2>2. \/ UNCHANGED delegation
        \/ \E d \in Runs : delegation' = [delegation EXCEPT ![d] = "running"]
    BY <1>7 DEF RecordDelegation, RecordOrElse, Derived
  <2>3. delegation[c] = "none"
    BY <1>2, <2>2
  <2> QED BY <1>2, <1>3, <2>1, <2>3 DEF Exists
<1>8. CASE Requeue
  BY <1>2, <1>3, <1>8 DEF Requeue, RequeueAndStart, ActiveRuns, Exists, Active
<1> QED BY <1>4, <1>5, <1>6, <1>7, <1>8, StepShapes

\* While no database call has failed, only runs with too long a text and
\* children whose delegation was not stored are active and executed by nobody,
\* and the parent of such a child does not complete.
THEOREM StrandedRunsAreChildren == Spec => []OnlyUnrecordedChildrenAreStranded
<1> DEFINE All == Inv /\ SeqInv /\ EndsInv /\ StrandInv /\ ParentInv
<1>1. All /\ [Next]_vars => All'
  BY InvStep, SeqStep, EndsStep, StrandStep, ParentStep
<1>2. ASSUME All PROVE OnlyUnrecordedChildrenAreStranded
  <2> SUFFICES ASSUME NEW c \in Runs, Up, status[c] \in Active, pc[c] = "idle",
                      faults = 0, ~Overlong(c)
               PROVE  /\ row[c].kind = "delegation" /\ delegation[c] = "none"
                      /\ \/ pc[row[c].source] \in {"record", "catch", "interrupt"}
                         \/ status[row[c].source] \in {"failed", "stopped"}
                         \/ Overlong(row[c].source)
    BY DEF OnlyUnrecordedChildrenAreStranded
  <2>1. Orphan(c, row[c].source)
    BY <1>2 DEF StrandInv, StrandedOrphan
  <2>2. PICK s \in Runs :
          /\ s = row[c].source /\ Exists(s) /\ status[s] \notin {"queued", "completed"}
          /\ pc[s] \in {"record", "catch", "interrupt", "settle", "idle"}
    BY <1>2, <2>1 DEF Inv, OrphanInv, ParentInv
  <2>3. pc[s] = "settle" => status[s] \in Terminal
    BY <1>2 DEF EndsInv
  <2>4. pc[s] = "idle" => status[s] \notin Active \/ Overlong(s)
    BY <1>2, <2>2 DEF StrandInv, StrandedOrphan
  <2>5. status[s] \in Active \cup Terminal
    BY <1>2, <2>2 DEF Inv, TypeOK, StoreTypeOK, Exists
  <2> QED BY <2>1, <2>2, <2>3, <2>4, <2>5 DEF Orphan, Terminal
<1>3. Init => All
  BY InvInit, SeqInit, StrandInit
<1>4. All => OnlyUnrecordedChildrenAreStranded
  BY <1>2
<1> HIDE DEF All
<1> QED BY <1>1, <1>3, <1>4, PTL DEF Spec

-----------------------------------------------------------------------------
(* The effects of the logged events.                                       *)

Asking == {"delegate", "record", "repeat", "artifact"}
Halted == {"catch", "interrupt", "settle", "idle"}

Effected(r, e) ==
  /\ e.type = "artifact" => e.key \in artifacts[r]
  /\ e.type = "delegation" =>
       \E c \in Derived("delegation", r, e.key) : delegation[c] # "none"

\* An execution that creates a child or an artifact has just logged the event
\* that asks for it; only Producers log artifacts.
AskInv ==
  \A r \in Runs :
    /\ pc[r] \in Asking => log[r] # <<>> /\ log[r][Len(log[r])] = pending[r]
    /\ pc[r] = "append" /\ pending[r].type = "artifact" => row[r].agent \in Producers
    /\ log[r] # <<>> => Exists(r)

\* An event without its effect is the one an execution is busy with, or the
\* execution has failed: in a run that is not requeued and does not complete.
EffectInv ==
  \A r \in Runs : \A i \in 1 .. Len(log[r]) :
    ~Effected(r, log[r][i]) =>
      /\ row[r].agent \notin Gateway
      /\ status[r] \notin {"queued", "completed"}
      /\ pc[r] \in Halted \/ (i = Len(log[r]) /\ pc[r] \in Asking)

\* An effect has its event.
CauseInv ==
  \A r \in Runs :
    /\ \A k \in artifacts[r] :
         \E i \in 1 .. Len(log[r]) : log[r][i].type = "artifact" /\ log[r][i].key = k
    /\ Exists(r) /\ row[r].kind = "delegation" =>
         row[r].source \in Runs /\ HasEvent(row[r].source, "delegation")

EffectsInv == AskInv /\ EffectInv /\ CauseInv

LEMMA EffectsInit == Init => EffectsInv
BY DEF Init, StoreInit, EffectsInv, AskInv, EffectInv, CauseInv, Asking, Exists

\* Rows, delegations and the queue.
LEMMA RowsStay ==
  ASSUME Inv, [Next]_vars, NEW s \in Runs
  PROVE  /\ Exists(s) => Exists(s)' /\ row'[s] = row[s]
         /\ delegation[s] # "none" => delegation'[s] # "none"
         /\ ~Exists(s) => status'[s] \in {"absent", "queued"}
<1> DEFINE Stays == /\ Exists(s) => status'[s] # "absent" /\ row'[s] = row[s]
                    /\ delegation[s] # "none" => delegation'[s] # "none"
                    /\ ~Exists(s) => status'[s] \in {"absent", "queued"}
<1> SUFFICES Stays
  BY DEF Exists
<1> USE DEF Inv, TypeOK, StoreTypeOK, Exists
<1>1. CASE UNCHANGED runColumns
  BY <1>1 DEF runColumns
<1>2. ASSUME NEW r \in Runs, Claimed(r) PROVE Stays
  BY <1>2 DEF Claimed
<1>3. ASSUME NEW r \in Runs, NEW e \in Event, status[r] \in Active, AppendEvent(r, e)
      PROVE  Stays
  BY <1>3 DEF AppendEvent, Active, Terminal
<1>4. ASSUME NEW made \in SUBSET Absent, NewRuns(made) PROVE Stays
  BY <1>4 DEF NewRuns, Absent
<1>5. ASSUME NEW c \in Runs, Delegated(c) PROVE Stays
  BY <1>5 DEF Delegated
<1>6. CASE Requeued
  BY <1>6 DEF Requeued, ActiveRuns
<1> HIDE DEF Stays
<1> QED BY <1>1, <1>2, <1>3, <1>4, <1>5, <1>6, StepKinds

\* A stored run goes back to the queue at a boot only, and only the gateway's.
LEMMA Queueing ==
  ASSUME Inv, [Next]_vars, NEW s \in Runs, Exists(s), status'[s] = "queued"
  PROVE  status[s] = "queued" \/ row[s].agent \in Gateway
<1> USE DEF Inv, TypeOK, StoreTypeOK
<1>1. CASE Calm
  BY <1>1 DEF Calm
<1>2. ASSUME NEW r \in Runs, Tame(r) PROVE status[s] = "queued"
  BY <1>2 DEF Tame
<1>3. ASSUME NEW r \in Runs, CreateDelegatedRun(r) PROVE status[s] = "queued"
  BY <1>3 DEF CreateDelegatedRun, InsertDerived, Absent
<1>4. ASSUME NEW r \in Runs, RecordDelegation(r) PROVE status[s] = "queued"
  BY <1>4 DEF RecordDelegation, RecordOrElse
<1>5. CASE Requeue
  BY <1>5 DEF Requeue, RequeueAndStart, ActiveRuns
<1> QED BY <1>1, <1>2, <1>3, <1>4, <1>5, StepShapes

\* A log grows by the event its execution stores, or by an interruption.
LEMMA LogSteps ==
  ASSUME Inv, [Next]_vars, NEW s \in Runs
  PROVE  \/ log'[s] = log[s]
         \/ pc[s] = "append" /\ Store(s) /\ AppendEvent(s, pending[s])
         \/ /\ pc[s] \in {"interrupt", "idle"} /\ pc'[s] \in {"settle", "idle"}
            /\ \E e \in {Failed, Stopped} : AppendEvent(s, e)
            /\ status[s] \in Active
<1> DEFINE Shape == \/ log'[s] = log[s]
                    \/ pc[s] = "append" /\ Store(s) /\ AppendEvent(s, pending[s])
                    \/ /\ pc[s] \in {"interrupt", "idle"} /\ pc'[s] \in {"settle", "idle"}
                       /\ \E e \in {Failed, Stopped} : AppendEvent(s, e)
                       /\ status[s] \in Active
<1> SUFFICES Shape
  OBVIOUS
<1> USE DEF Inv, TypeOK, StoreTypeOK, MemoryTypeOK
<1>1. ASSUME log' = log PROVE Shape
  BY <1>1
<1>2. ASSUME NEW r \in Runs, Store(r) PROVE Shape
  <2>1. CASE UNCHANGED storeVars
    BY <1>1, <2>1 DEF storeVars
  <2>2. CASE AppendEvent(r, pending[r]) /\ pc[r] = "append"
    <3>1. r # s => log'[s] = log[s]
      BY <2>2 DEF AppendEvent
    <3> QED BY <1>2, <2>2, <3>1
  <2> QED BY <1>2, <2>1, <2>2 DEF Store
<1>3. ASSUME NEW r \in Runs, Interrupt(r) PROVE Shape
  <2>1. CASE UNCHANGED storeVars
    BY <1>1, <2>1 DEF storeVars
  <2>2. CASE AppendEvent(r, pending[r]) /\ status[r] \in Active /\ Goto(r, "settle")
    <3>1. r # s => log'[s] = log[s]
      BY <2>2 DEF AppendEvent
    <3>2. pc[r] = "interrupt" /\ pc'[r] = "settle" /\ pending[r] \in {Failed, Stopped}
      BY <1>3, <2>2 DEF Interrupt, PlaceInv, Goto
    <3> QED BY <2>2, <3>1, <3>2
  <2> QED BY <1>3, <2>1, <2>2 DEF Interrupt, Appendable
<1>4. ASSUME NEW r \in Runs, FailInterrupted(r) PROVE Shape
  <2>1. /\ AppendEvent(r, Failed) /\ status[r] \in Active /\ UNCHANGED pc
        /\ pc[r] = "idle"
    BY <1>4 DEF FailInterrupted, BootInv, memoryVars, execVars
  <2>2. r # s => log'[s] = log[s]
    BY <2>1 DEF AppendEvent
  <2> QED BY <2>1, <2>2
<1>5. ASSUME NEW r \in Runs,
             \/ Claim(r) \/ CreateDelegatedRun(r) \/ RecordDelegation(r)
             \/ RepeatDelegation(r) \/ CreateArtifact(r) \/ Settle(r) \/ CreateRetry(r)
             \/ \E k \in RetryKeys : CheckRetry(r, k)
      PROVE  log' = log
  BY <1>5 DEF Claim, CreateDelegatedRun, RecordDelegation, RecordOrElse,
     RepeatDelegation, CreateArtifact, Settle, SettleByChildRun, CreateRetry, CheckRetry,
     LockForRetry, storeVars
<1>6. ASSUME NEW r \in Runs,
             LoadContext(r) \/ ListEvents(r) \/ Yield(r) \/ StreamEnds(r)
               \/ StreamThrows(r) \/ Catch(r)
       PROVE  log' = log
  BY <1>6, MemorySteps DEF storeVars
<1>11. ASSUME NEW r \in Runs, Fault(r) PROVE log' = log
  BY <1>11 DEF Fault, RecordUnheard, storeVars
<1>7. ASSUME NEW m \in Messages, CreateForMessage(m) PROVE log' = log
  BY <1>7 DEF CreateForMessage
<1>8. CASE Crash \/ Exit \/ Shutdown \/ Requeue
  BY <1>1, <1>8 DEF Crash, Exit, Shutdown, storeVars, Requeue, RequeueAndStart
<1>9. ASSUME UNCHANGED runState PROVE log' = log
  BY <1>9 DEF runState
<1>10. Movable \subseteq Agents
  BY BoundAssumption
<1> HIDE DEF Shape
<1> QED BY <1>1, <1>2, <1>3, <1>4, <1>5, <1>6, <1>7, <1>8, <1>9, <1>10, <1>11, QuietSteps
  DEF Next, Boot, Execute

\* Artifacts are only created by an execution that stands there.
LEMMA ArtifactSteps ==
  ASSUME Inv, [Next]_vars
  PROVE  \/ artifacts' = artifacts
         \/ \E r \in Runs : /\ pc[r] = "artifact"
                            /\ artifacts' = [artifacts EXCEPT ![r] = @ \cup {pending[r].key}]
<1> DEFINE Shape == \/ artifacts' = artifacts
                    \/ \E r \in Runs :
                         /\ pc[r] = "artifact"
                         /\ artifacts' = [artifacts EXCEPT ![r] = @ \cup {pending[r].key}]
<1> SUFFICES Shape
  OBVIOUS
<1>1. ASSUME NEW r \in Runs, CreateArtifact(r) PROVE Shape
  BY <1>1 DEF CreateArtifact
<1>2. ASSUME NEW r \in Runs, Store(r) \/ Interrupt(r) \/ FailInterrupted(r)
      PROVE  artifacts' = artifacts
  BY <1>2 DEF Store, Interrupt, FailInterrupted, AppendEvent, storeVars
<1>5. ASSUME NEW r \in Runs,
             \/ Claim(r) \/ CreateDelegatedRun(r) \/ RecordDelegation(r)
             \/ RepeatDelegation(r) \/ Settle(r) \/ CreateRetry(r)
             \/ \E k \in RetryKeys : CheckRetry(r, k)
      PROVE  artifacts' = artifacts
  BY <1>5 DEF Claim, CreateDelegatedRun, RecordDelegation, RecordOrElse,
     RepeatDelegation, Settle, SettleByChildRun, CreateRetry, CheckRetry,
     LockForRetry, storeVars
<1>6. ASSUME NEW r \in Runs,
             LoadContext(r) \/ ListEvents(r) \/ Yield(r) \/ StreamEnds(r)
               \/ StreamThrows(r) \/ Catch(r)
       PROVE  artifacts' = artifacts
  BY <1>6, MemorySteps DEF storeVars
<1>12. ASSUME NEW r \in Runs, Fault(r) PROVE artifacts' = artifacts
  BY <1>12 DEF Fault, RecordUnheard, storeVars
<1>7. ASSUME NEW m \in Messages,
             Submit(m) \/ Route(m) \/ CreateForMessage(m) \/ CheckRetract(m) \/ Retract(m)
      PROVE  artifacts' = artifacts
  BY <1>7 DEF CreateForMessage, Submit, Route, CheckRetract, Retract, storeVars
<1>8. CASE Crash \/ Exit \/ Shutdown \/ Requeue \/ UNCHANGED vars
  BY <1>8 DEF Crash, Exit, Shutdown, storeVars, Requeue, RequeueAndStart, vars
<1>9. ASSUME NEW r \in Runs, ReadForCancel(r) \/ Abort(r) \/ Intervene(r)
      PROVE  artifacts' = artifacts
  BY <1>9 DEF ReadForCancel, Abort, Intervene, storeVars
<1>10. ASSUME NEW a \in Movable, CheckRemove(a) \/ RemoveMember(a) \/ AddMember(a)
       PROVE  artifacts' = artifacts
  BY <1>10 DEF CheckRemove, RemoveMember, AddMember, storeVars
<1> HIDE DEF Shape
<1>11. artifacts' = artifacts => Shape
  BY DEF Shape
<1> QED BY <1>1, <1>2, <1>5, <1>6, <1>7, <1>8, <1>9, <1>10, <1>11, <1>12
  DEF Next, Boot, Execute

\* What has had its effect keeps it.
LEMMA EffectsStay ==
  ASSUME Inv, [Next]_vars, NEW r \in Runs, NEW e, Effected(r, e)
  PROVE  Effected(r, e)'
<1> USE DEF Inv, TypeOK, StoreTypeOK
<1>1. e.type = "artifact" => e.key \in artifacts'[r]
  BY ArtifactSteps DEF Effected
<1>2. ASSUME e.type = "delegation"
      PROVE  \E c \in Runs : IsDerived(c, "delegation", r, e.key)' /\ delegation'[c] # "none"
  <2>1. PICK c \in Runs : IsDerived(c, "delegation", r, e.key) /\ delegation[c] # "none"
    BY <1>2 DEF Effected, Derived
  <2> QED BY <2>1, RowsStay DEF IsDerived
<1> QED BY <1>1, <1>2 DEF Effected, Derived

\* An execution is moved by its own steps, started from idle, or dropped.
LEMMA OwnSteps ==
  ASSUME Inv, [Next]_vars, NEW s \in Runs
  PROVE  \/ Execute(s) \/ Fault(s)
         \/ pc'[s] = "idle"
         \/ pc[s] = "idle" /\ pc'[s] = "claim"
         \/ pc'[s] = pc[s] /\ pending'[s] = pending[s]
<1> DEFINE Moves == \/ Execute(s) \/ Fault(s)
                    \/ pc'[s] = "idle"
                    \/ pc[s] = "idle" /\ pc'[s] = "claim"
                    \/ pc'[s] = pc[s] /\ pending'[s] = pending[s]
<1> SUFFICES Moves
  OBVIOUS
<1> USE DEF Inv, TypeOK, StoreTypeOK, MemoryTypeOK
<1>1. ASSUME NEW r \in Runs, Execute(r) \/ Fault(r), r # s PROVE Moves
  <2>1. CASE CreateDelegatedRun(r)
    BY <1>1, <2>1 DEF CreateDelegatedRun, Goto
  <2>2. CASE RecordDelegation(r)
    <3>1. pending'[s] = pending[s]
      BY <1>1, <2>2 DEF RecordDelegation, RecordOrElse
    <3>2. PICK c \in Derived("delegation", r, pending[r].key) :
          \/ pc' = [pc EXCEPT ![r] = "adapter", ![c] = IF @ = "idle" THEN "claim" ELSE @]
          \/ pc' = [pc EXCEPT ![r] = "catch"]
      BY <2>2 DEF RecordDelegation, RecordOrElse, Goto
    <3>3. c \in Runs
      BY DEF Derived
    <3> QED BY <1>1, <3>1, <3>2, <3>3
  <2>3. CASE ~CreateDelegatedRun(r) /\ ~RecordDelegation(r)
    BY <1>1, <2>3, TameSteps DEF Tame
  <2> QED BY <2>1, <2>2, <2>3
<1>2. ASSUME NEW S, Starting(S) PROVE Moves
  BY <1>2 DEF Starting
<1>3. ASSUME NEW m \in Messages, CreateForMessage(m) PROVE Moves
  BY <1>2, <1>3, CreateForMessageFacts
<1>4. ASSUME NEW r \in Runs, CreateRetry(r) PROVE Moves
  BY <1>2, <1>4, StartingFacts DEF CreateRetry
<1>5. ASSUME NEW r \in Runs, NEW k \in RetryKeys, CheckRetry(r, k) PROVE Moves
  BY <1>5 DEF CheckRetry, LockForRetry, execVars
<1>6. CASE Crash \/ Exit \/ Shutdown
  BY <1>6 DEF Crash, Exit, Shutdown, LoseMemory
<1>7. CASE Requeue
  BY <1>2, <1>7, StartingFacts DEF Requeue, RequeueAndStart
<1>8. ASSUME NEW r \in Runs, FailInterrupted(r) PROVE Moves
  BY <1>8 DEF FailInterrupted, memoryVars, execVars
<1>9. ASSUME UNCHANGED runState PROVE Moves
  BY <1>9 DEF runState
<1>10. Movable \subseteq Agents
  BY BoundAssumption
<1> HIDE DEF Moves
<1>11. Execute(s) \/ Fault(s) => Moves
  BY DEF Moves
<1> QED BY <1>1, <1>3, <1>4, <1>5, <1>6, <1>7, <1>8, <1>9, <1>10, <1>11, QuietSteps
  DEF Next, Boot

\* An execution that has stopped asking its adapter does not go on.
LEMMA HaltedSteps ==
  ASSUME Inv, [Next]_vars, NEW s \in Runs, pc[s] \in Halted
  PROVE  pc'[s] \in Halted \cup {"claim"}
<1> USE DEF Inv, TypeOK, MemoryTypeOK
<1>1. ASSUME Execute(s) \/ Fault(s) PROVE pc'[s] \in Halted
  <2>1. ~CreateDelegatedRun(s) /\ ~RecordDelegation(s)
    BY DEF CreateDelegatedRun, RecordDelegation, RecordOrElse, Halted
  <2>2. Tame(s)
    BY <1>1, <2>1, TameSteps
  <2> QED BY <2>2 DEF Tame, OrphanPlaces, Halted
<1> QED BY <1>1, OwnSteps DEF Halted

\* A child or an artifact leads back to the adapter, or to the end.
LEMMA AskingPlaces ==
  ASSUME Inv, NEW s \in Runs
  PROVE  /\ CreateDelegatedRun(s) => pc'[s] \in {"record", "repeat"}
         /\ RecordDelegation(s) \/ RepeatDelegation(s) \/ CreateArtifact(s) =>
              pc'[s] \in {"adapter", "catch"}
<1> USE DEF Inv, TypeOK, MemoryTypeOK
<1>1. ASSUME RecordDelegation(s) PROVE pc'[s] \in {"adapter", "catch"}
  <2>1. PICK c \in Runs :
          \/ pc' = [pc EXCEPT ![s] = "adapter", ![c] = IF @ = "idle" THEN "claim" ELSE @]
          \/ pc' = [pc EXCEPT ![s] = "catch"]
    BY <1>1 DEF RecordDelegation, RecordOrElse, Goto, Derived
  <2> QED BY <2>1
<1>2. RepeatDelegation(s) \/ CreateArtifact(s) => pc'[s] \in {"adapter", "catch"}
  BY DEF RepeatDelegation, CreateArtifact, Goto
<1>3. CreateDelegatedRun(s) => pc'[s] \in {"record", "repeat"}
  BY DEF CreateDelegatedRun, Goto
<1> QED BY <1>1, <1>2, <1>3

\* One that asks for a child or an artifact stays with its event until that
\* has its effect, or fails.
LEMMA AskingSteps ==
  ASSUME Inv, [Next]_vars, NEW s \in Runs, pc[s] \in Asking,
         NEW e, e = pending[s]
  PROVE  \/ pc'[s] \in Halted
         \/ pc'[s] \in Asking /\ pending'[s] = pending[s]
         \/ pc'[s] \notin Asking /\ Effected(s, e)'
<1> USE DEF Inv, TypeOK, StoreTypeOK, MemoryTypeOK
<1>1. ASSUME CreateDelegatedRun(s)
      PROVE  pc'[s] \in Asking /\ pending'[s] = pending[s]
  BY <1>1 DEF CreateDelegatedRun, Goto, Asking
<1>2. ASSUME RecordDelegation(s), pc'[s] \notin Halted
      PROVE  Effected(s, e)'
  <2>1. PICK c \in Derived("delegation", s, pending[s].key) :
          \/ delegation' = [delegation EXCEPT ![c] = "running"]
          \/ pc' = [pc EXCEPT ![s] = "catch"]
    BY <1>2 DEF RecordDelegation, RecordOrElse, Goto
  <2>2. /\ c \in Runs /\ IsDerived(c, "delegation", s, pending[s].key)
        /\ UNCHANGED <<row, status>>
    BY <1>2 DEF RecordDelegation, RecordOrElse, Derived
  <2>3. delegation'[c] = "running"
    BY <1>2, <2>1, <2>2 DEF Halted
  <2>4. IsDerived(c, "delegation", s, e.key)'
    BY <2>2 DEF IsDerived, Exists
  <2>5. pending[s] \in Delegation
    BY <1>2 DEF RecordDelegation, RecordOrElse, PlaceInv
  <2>6. pending[s].type = "delegation"
    BY <2>5 DEF Delegation
  <2> QED BY <2>2, <2>3, <2>4, <2>6 DEF Effected, Derived
<1>3. ASSUME RepeatDelegation(s), pc'[s] \notin Halted
      PROVE  Effected(s, e)'
  <2>1. PICK c \in Derived("delegation", s, pending[s].key) : TRUE
    BY <1>3 DEF RepeatDelegation
  <2>2. delegation[c] # "none"
    BY <1>3, <2>1 DEF RepeatDelegation, OrphanInv, Orphan, Derived, IsDerived
  <2>3. pending[s] \in Delegation
    BY <1>3 DEF RepeatDelegation, PlaceInv
  <2>4. Effected(s, e)
    BY <2>1, <2>2, <2>3 DEF Effected, Delegation
  <2> QED BY <2>4, EffectsStay
<1>4. ASSUME CreateArtifact(s), pc'[s] \notin Halted
      PROVE  Effected(s, e)'
  <2>1. pending[s].key \in artifacts'[s]
    BY <1>4 DEF CreateArtifact, Goto, Halted
  <2>2. pending[s].type = "artifact"
    BY <1>4 DEF CreateArtifact, PlaceInv, Artifact
  <2> QED BY <2>1, <2>2 DEF Effected
<1>5. ASSUME Fault(s) PROVE pc'[s] \in Halted
  BY <1>5 DEF Fault, Goto, Finish, Halted
<1>7. RecordDelegation(s) \/ RepeatDelegation(s) \/ CreateArtifact(s) => pc'[s] \notin Asking
  BY AskingPlaces DEF Asking
<1>6. Execute(s) => \/ CreateDelegatedRun(s) \/ RecordDelegation(s)
                    \/ RepeatDelegation(s) \/ CreateArtifact(s)
  BY DEF Execute, Claim, LoadContext, ListEvents, Yield, StreamEnds, StreamThrows, Store,
     Settle, Catch, Interrupt, Asking
<1> QED BY <1>1, <1>2, <1>3, <1>4, <1>5, <1>6, <1>7, OwnSteps DEF Halted, Asking

\* It begins to ask when it has stored the event; and the event it is about to
\* store is one its Agent may produce.
LEMMA AskingBegins ==
  ASSUME Inv, [Next]_vars, NEW s \in Runs
  PROVE  /\ pc[s] \notin Asking /\ pc'[s] \in Asking =>
              /\ AppendEvent(s, pending[s]) /\ pc[s] = "append"
              /\ pending'[s] = pending[s] /\ pending[s].type \in {"delegation", "artifact"}
         /\ Store(s) => pc'[s] \in Halted \cup {AfterAppend(pending[s])}
         /\ pc[s] = "append" /\ pc'[s] = "append" => pending'[s] = pending[s]
         /\ pc[s] # "append" /\ pc'[s] = "append" /\ pending'[s].type = "artifact" =>
              row[s].agent \in Producers
<1> DEFINE Begins ==
      /\ pc[s] \notin Asking /\ pc'[s] \in Asking =>
           /\ AppendEvent(s, pending[s]) /\ pc[s] = "append"
           /\ pending'[s] = pending[s] /\ pending[s].type \in {"delegation", "artifact"}
      /\ Store(s) => pc'[s] \in Halted \cup {AfterAppend(pending[s])}
      /\ pc[s] = "append" /\ pc'[s] = "append" => pending'[s] = pending[s]
      /\ pc[s] # "append" /\ pc'[s] = "append" /\ pending'[s].type = "artifact" =>
           row[s].agent \in Producers
<1> SUFFICES Begins
  OBVIOUS
<1> USE DEF Inv, TypeOK, MemoryTypeOK
<1>1. CASE Store(s)
  <2>1. pc[s] = "append"
    BY <1>1 DEF Store
  <2>2. CASE Goto(s, "catch")
    BY <2>1, <2>2 DEF Goto, Asking, Halted
  <2>3. CASE /\ AppendEvent(s, pending[s]) /\ Goto(s, AfterAppend(pending[s]))
             /\ pending' = IF AfterAppend(pending[s]) \in {"delegate", "artifact"}
                           THEN pending ELSE [pending EXCEPT ![s] = NoEvent]
    <3>1. pc'[s] = AfterAppend(pending[s])
      BY <2>3 DEF Goto
    <3>2. pc'[s] \in Asking => /\ pending[s].type \in {"delegation", "artifact"}
                              /\ pending'[s] = pending[s]
      BY <2>3, <3>1 DEF AfterAppend, Asking
    <3>3. pc'[s] # "append"
      BY <3>1 DEF AfterAppend
    <3> QED BY <2>1, <2>3, <3>1, <3>2, <3>3
  <2> QED BY <1>1, <2>2, <2>3 DEF Store
<1>0. pc[s] # "append" => ~Store(s)
  BY DEF Store
<1>2. CASE Yield(s)
  <2>1. pc[s] = "adapter" /\ pc'[s] \in {"append", "catch"}
    BY <1>2 DEF Yield, Goto
  <2>2. pc'[s] = "append" /\ pending'[s].type = "artifact" => row[s].agent \in Producers
    <3>1. PICK e \in Event :
            IF Supported(s, e)
            THEN pending' = [pending EXCEPT ![s] =
                               IF aborted[s] /\ e.type = "completed" THEN Stopped ELSE e]
            ELSE pc' = [pc EXCEPT ![s] = "catch"]
      BY <1>2 DEF Yield, Goto
    <3>2. CASE Supported(s, e)
      <4>1. pending'[s] = e \/ pending'[s] = Stopped
        BY <3>1, <3>2
      <4> QED BY <3>2, <4>1, EventTypes DEF Supported
    <3>3. CASE ~Supported(s, e)
      BY <3>1, <3>3
    <3> QED BY <3>2, <3>3
  <2> QED BY <1>0, <2>1, <2>2 DEF Asking
<1>3. CASE ListEvents(s) \/ StreamEnds(s)
  <2>1. pc[s] \in {"events", "adapter"} /\ pc'[s] \in {"adapter", "append"}
    BY <1>3 DEF ListEvents, StreamEnds, Goto
  <2>2. pc'[s] = "append" => pending'[s] \in {Failed, Stopped}
    BY <1>3 DEF ListEvents, StreamEnds, Goto, Interruption
  <2> QED BY <1>0, <2>1, <2>2, EventTypes DEF Asking
<1>4. CASE Claim(s) \/ LoadContext(s) \/ StreamThrows(s) \/ Settle(s) \/ Catch(s)
             \/ Interrupt(s) \/ Fault(s)
  <2>1. pc'[s] \in {"idle", "context", "catch", "events", "settle", "interrupt"}
    BY <1>4 DEF Claim, LoadContext, StreamThrows, Settle, Catch, Interrupt, Fault, Goto,
       Finish
  <2>2. pc[s] = "append" => pc'[s] \in Halted
    BY <1>4 DEF Claim, LoadContext, StreamThrows, Settle, Catch, Interrupt, Fault, Goto,
       Finish, Halted
  <2> QED BY <1>0, <2>1, <2>2 DEF Asking
<1>5. CASE CreateDelegatedRun(s) \/ RecordDelegation(s) \/ RepeatDelegation(s)
             \/ CreateArtifact(s)
  <2>1. pc[s] \in Asking /\ pc[s] # "append"
    BY <1>5 DEF CreateDelegatedRun, RecordDelegation, RecordOrElse, RepeatDelegation,
       CreateArtifact, Asking
  <2>2. pc'[s] # "append"
    BY <1>5, AskingPlaces
  <2> QED BY <1>0, <2>1, <2>2
<1>6. CASE ~Store(s) /\ \/ pc'[s] = "idle"
                        \/ pc[s] = "idle" /\ pc'[s] = "claim"
                        \/ pc'[s] = pc[s] /\ pending'[s] = pending[s]
  BY <1>6 DEF Asking, Halted
<1> HIDE DEF Begins
<1> QED BY <1>1, <1>2, <1>3, <1>4, <1>5, <1>6, OwnSteps DEF Execute

\* No execution moves from idle on its own.
LEMMA NotFromIdle ==
  ASSUME Inv, NEW s \in Runs, pc[s] = "idle" PROVE ~Execute(s) /\ ~Fault(s)
BY DEF Execute, Claim, LoadContext, ListEvents, Yield, StreamEnds, StreamThrows, Store,
   Settle, Catch, Interrupt, CreateDelegatedRun, RecordDelegation, RecordOrElse,
   RepeatDelegation, CreateArtifact, Fault

\* Logs only grow.
LEMMA LogExtends ==
  ASSUME Inv, [Next]_vars, NEW s \in Runs
  PROVE  \A i \in 1 .. Len(log[s]) : i \in 1 .. Len(log'[s]) /\ log'[s][i] = log[s][i]
<1>1. ASSUME NEW e \in Event, AppendEvent(s, e)
      PROVE  \A i \in 1 .. Len(log[s]) : i \in 1 .. Len(log'[s]) /\ log'[s][i] = log[s][i]
  BY <1>1, AppendedLog DEF Inv
<1>2. pc[s] = "append" => pending[s] \in Event
  BY DEF Inv, PlaceInv
<1> QED BY <1>1, <1>2, LogSteps, EventTypes

\* Every step keeps what an execution that asks knows ...
LEMMA AskStep ==
  ASSUME Inv, EffectsInv, [Next]_vars PROVE AskInv'
<1> USE DEF Inv, EffectsInv
<1> SUFFICES ASSUME NEW s \in Runs
             PROVE  /\ pc'[s] \in Asking =>
                         log'[s] # <<>> /\ log'[s][Len(log'[s])] = pending'[s]
                    /\ pc'[s] = "append" /\ pending'[s].type = "artifact" =>
                         row'[s].agent \in Producers
                    /\ log'[s] # <<>> => Exists(s)'
  BY DEF AskInv
<1>1. ASSUME pc[s] \in Asking, pc'[s] \in Asking
      PROVE  log'[s] # <<>> /\ log'[s][Len(log'[s])] = pending'[s]
  <2>1. pending'[s] = pending[s]
    BY <1>1, AskingSteps DEF Asking, Halted
  <2>2. log'[s] = log[s]
    BY <1>1, LogSteps DEF Asking
  <2> QED BY <1>1, <2>1, <2>2 DEF AskInv
<1>2. ASSUME pc[s] \notin Asking, pc'[s] \in Asking
      PROVE  log'[s] # <<>> /\ log'[s][Len(log'[s])] = pending'[s]
  <2>1. /\ AppendEvent(s, pending[s]) /\ pending'[s] = pending[s] /\ pending[s] \in Event
    BY <1>2, AskingBegins DEF PlaceInv
  <2> QED BY <2>1, AppendedLog
<1>3. ASSUME pc'[s] = "append", pending'[s].type = "artifact"
      PROVE  row'[s].agent \in Producers
  <2>1. row[s].agent \in Producers /\ pc[s] # "idle"
    <3>1. CASE pc[s] = "append"
      BY <1>3, <3>1, AskingBegins DEF AskInv
    <3>2. CASE pc[s] # "append"
      BY <1>3, <3>2, AskingBegins, OwnSteps, NotFromIdle
    <3> QED BY <3>1, <3>2
  <2> QED BY <2>1, RowsStay DEF PlaceInv
<1>4. ASSUME log'[s] # <<>> PROVE Exists(s)'
  <2>1. Exists(s)
    BY <1>4, LogSteps DEF AskInv, PlaceInv, Exists, Active
  <2> QED BY <2>1, RowsStay
<1> QED BY <1>1, <1>2, <1>3, <1>4

\* ... what is known of events without their effect ...
LEMMA EffectStep ==
  ASSUME Inv, SeqInv, EndsInv, EffectsInv, [Next]_vars PROVE EffectInv'
<1> USE DEF Inv, EffectsInv
<1> SUFFICES ASSUME NEW s \in Runs, NEW i \in 1 .. Len(log'[s]),
                    NEW e, e = log'[s][i], ~Effected(s, e)'
             PROVE  /\ row'[s].agent \notin Gateway
                    /\ status'[s] \notin {"queued", "completed"}
                    /\ pc'[s] \in Halted \/ (i = Len(log'[s]) /\ pc'[s] \in Asking)
  BY DEF EffectInv
<1>1. ASSUME i \in 1 .. Len(log[s]), log'[s][i] = log[s][i]
      PROVE  /\ row'[s].agent \notin Gateway
             /\ status'[s] \notin {"queued", "completed"}
             /\ \/ pc'[s] \in Halted
                \/ /\ pc[s] \in Asking
                   /\ log'[s] = log[s] => i = Len(log'[s]) /\ pc'[s] \in Asking
             /\ pc[s] # "append"
  <2>1. ~Effected(s, log[s][i]) /\ e = log[s][i]
    BY <1>1, EffectsStay
  <2>2. /\ row[s].agent \notin Gateway /\ status[s] \notin {"queued", "completed"}
        /\ pc[s] \in Halted \/ (i = Len(log[s]) /\ pc[s] \in Asking)
    BY <1>1, <2>1 DEF EffectInv
  <2>3. pc[s] # "append"
    BY <2>2 DEF Halted, Asking
  <2>4. Exists(s)
    BY <1>1 DEF AskInv
  <2>5. row'[s].agent \notin Gateway /\ status'[s] \notin {"queued", "completed"}
    BY <2>2, <2>3, <2>4, RowsStay, Queueing, Completing
  <2>6. ASSUME pc[s] \in Halted PROVE pc'[s] \in Halted
    <3>1. pc'[s] # "claim"
      BY <2>5, EndsStep DEF EndsInv
    <3> QED BY <2>6, <3>1, HaltedSteps
  <2>7. ASSUME i = Len(log[s]), pc[s] \in Asking
        PROVE  pc'[s] \in Halted \/ pc'[s] \in Asking
    <3>1. e = pending[s]
      BY <2>1, <2>7 DEF AskInv
    <3> QED BY <2>7, <3>1, AskingSteps
  <2> QED BY <2>2, <2>3, <2>5, <2>6, <2>7
<1>2. CASE log'[s] = log[s]
  BY <1>1, <1>2
<1>3. CASE pc[s] = "append" /\ Store(s) /\ AppendEvent(s, pending[s])
  <2>1. pending[s] \in Event /\ Exists(s) /\ status[s] = "running"
    BY <1>3 DEF PlaceInv, SeqInv, InStep, Underway
  <2>2. /\ Len(log'[s]) = Len(log[s]) + 1 /\ Len(log[s]) \in Nat
        /\ log'[s][Len(log[s]) + 1] = pending[s]
        /\ \A j \in 1 .. Len(log[s]) : log'[s][j] = log[s][j]
    BY <1>3, <2>1, AppendedLog
  <2>3. i \notin 1 .. Len(log[s])
    BY <1>1, <1>3, <2>2
  <2>4. i = Len(log'[s]) /\ e = pending[s]
    BY <2>2, <2>3
  <2>5. e.type \in {"artifact", "delegation"}
    BY DEF Effected
  <2>6. row[s].agent \in Producers \cup Delegators
    BY <1>3, <2>4, <2>5 DEF AskInv, PlaceInv
  <2>7. row'[s].agent \notin Gateway
    BY <2>1, <2>6, RowsStay, CapabilityAssumption
  <2>8. status'[s] = "running"
    BY <1>3, <2>1, <2>4, <2>5 DEF AppendEvent, Terminal
  <2>9. AfterAppend(pending[s]) \in Asking
    <3>1. pending[s].type = "delegation" \/ pending[s].type = "artifact"
      BY <2>4, <2>5
    <3> QED BY <3>1 DEF AfterAppend, Asking, Terminal
  <2>10. pc'[s] \in Halted \/ pc'[s] \in Asking
    BY <1>3, <2>9, AskingBegins
  <2> QED BY <2>4, <2>7, <2>8, <2>10
<1>4. CASE /\ pc'[s] \in {"settle", "idle"}
           /\ \E x \in {Failed, Stopped} : AppendEvent(s, x)
  <2>1. PICK x \in {Failed, Stopped} : AppendEvent(s, x)
    BY <1>4
  <2>2. /\ Len(log'[s]) = Len(log[s]) + 1 /\ Len(log[s]) \in Nat
        /\ log'[s][Len(log[s]) + 1] = x
        /\ \A j \in 1 .. Len(log[s]) : log'[s][j] = log[s][j]
    BY <2>1, AppendedLog, EventTypes
  <2>3. i \in 1 .. Len(log[s])
    <3>1. CASE i = Len(log[s]) + 1
      BY <2>2, <3>1, EventTypes DEF Effected
    <3> QED BY <2>2, <3>1
  <2> QED BY <1>1, <1>4, <2>2, <2>3 DEF Halted
<1> QED BY <1>2, <1>3, <1>4, LogSteps

\* ... and that effects have their event.
LEMMA CauseStep ==
  ASSUME Inv, EffectsInv, [Next]_vars PROVE CauseInv'
<1> USE DEF Inv, EffectsInv, TypeOK, StoreTypeOK
<1>1. ASSUME NEW s \in Runs, NEW k \in artifacts'[s]
      PROVE  \E i \in 1 .. Len(log'[s]) :
               log'[s][i].type = "artifact" /\ log'[s][i].key = k
  <2>1. CASE k \in artifacts[s]
    <3>1. PICK i \in 1 .. Len(log[s]) : log[s][i].type = "artifact" /\ log[s][i].key = k
      BY <2>1 DEF CauseInv
    <3>2. i \in 1 .. Len(log'[s]) /\ log'[s][i] = log[s][i]
      BY LogExtends
    <3> QED BY <3>1, <3>2, Zenon
  <2>2. CASE k \notin artifacts[s]
    <3>1. pc[s] = "artifact" /\ k = pending[s].key
      BY <2>2, ArtifactSteps
    <3>2. pending[s].type = "artifact"
      BY <3>1 DEF PlaceInv, Artifact
    <3>3. log[s] # <<>> /\ log[s][Len(log[s])] = pending[s]
      BY <3>1 DEF AskInv, Asking
    <3>4. Len(log[s]) \in 1 .. Len(log[s])
      BY <3>3
    <3> QED BY <3>1, <3>2, <3>3, <3>4, LogExtends
  <2> QED BY <2>1, <2>2
<1>2. ASSUME NEW s \in Runs, NEW r \in Runs, HasEvent(r, "delegation")
      PROVE  HasEvent(r, "delegation")'
  BY <1>2, LogExtends DEF HasEvent
<1>3. ASSUME NEW s \in Runs, Exists(s)', row'[s].kind = "delegation"
      PROVE  \E r \in Runs : row'[s].source = r /\ HasEvent(r, "delegation")'
  <2>1. CASE Exists(s)
    BY <1>2, <1>3, <2>1, RowsStay DEF CauseInv
  <2>2. CASE ~Exists(s)
    <3>1. CASE Calm
      BY <1>3, <2>2, <3>1 DEF Calm
    <3>2. ASSUME NEW r \in Runs, Tame(r) PROVE FALSE
      BY <1>3, <2>2, <3>2 DEF Tame
    <3>3. ASSUME NEW r \in Runs, CreateDelegatedRun(r)
          PROVE  \E q \in Runs : row'[s].source = q /\ HasEvent(q, "delegation")'
      <4>1. pc[r] = "delegate" /\ pending[r].type = "delegation"
        BY <3>3 DEF CreateDelegatedRun, PlaceInv, Delegation
      <4>2. log[r] # <<>> /\ log[r][Len(log[r])] = pending[r]
        BY <4>1 DEF AskInv, Asking
      <4>3. Len(log[r]) \in 1 .. Len(log[r])
        BY <4>2
      <4>4. HasEvent(r, "delegation")
        BY <4>1, <4>2, <4>3 DEF HasEvent
      <4>5. row'[s].source = r
        <5>1. CASE UNCHANGED <<row, status>>
          BY <1>3, <2>2, <5>1 DEF Exists
        <5>2. ASSUME NEW d \in Absent, InsertDerived(d, "delegation", r,
                                                     pending[r].delegate, pending[r].key)
              PROVE  row'[s].source = r
          <6>1. /\ row'[d].source = r
                /\ \A q \in Runs \ {d} : row'[q] = row[q] /\ status'[q] = status[q]
            BY <5>2, InsertDerivedFacts
          <6>2. s = d
            BY <1>3, <2>2, <6>1 DEF Exists
          <6> QED BY <6>1, <6>2
        <5> QED BY <3>3, <5>1, <5>2, CreateDelegatedRunFacts
      <4> QED BY <1>2, <4>4, <4>5
    <3>4. ASSUME NEW r \in Runs, RecordDelegation(r) PROVE FALSE
      BY <1>3, <2>2, <3>4 DEF RecordDelegation, RecordOrElse, Exists
    <3>5. CASE Requeue
      BY <1>3, <2>2, <3>5 DEF Requeue, RequeueAndStart, ActiveRuns, Exists, Active
    <3> QED BY <3>1, <3>2, <3>3, <3>4, <3>5, StepShapes
  <2> QED BY <2>1, <2>2
<1>4. (\A r \in Runs : Exists(r) /\ row[r].kind = "delegation" =>
          row[r].source \in Runs /\ HasEvent(row[r].source, "delegation"))'
  <2> SUFFICES ASSUME NEW s \in Runs, Exists(s)', row'[s].kind = "delegation"
               PROVE  /\ row'[s].source \in Runs
                      /\ \E i \in 1 .. Len(log'[row'[s].source]) :
                           log'[row'[s].source][i].type = "delegation"
    BY Zenon DEF HasEvent
  <2>1. PICK r \in Runs : row'[s].source = r /\ HasEvent(r, "delegation")'
    BY <1>3
  <2>2. \E i \in 1 .. Len(log'[r]) : log'[r][i].type = "delegation"
    BY <2>1, Zenon DEF HasEvent
  <2> QED BY <2>1, <2>2, Zenon
<1>5. (\A r \in Runs : \A k \in artifacts[r] :
         \E i \in 1 .. Len(log[r]) : log[r][i].type = "artifact" /\ log[r][i].key = k)'
  BY <1>1
<1> QED BY <1>4, <1>5, Zenon DEF CauseInv

\* Every delegation and artifact has its event, and a run that completed has
\* the effects of all the events it logged, whatever was refused or failed.
THEOREM LoggedEffects == Spec => []EffectsMatchLog
<1> DEFINE All == Inv /\ SeqInv /\ EndsInv /\ EffectsInv
<1>1. All /\ [Next]_vars => All'
  BY InvStep, SeqStep, EndsStep, AskStep, EffectStep, CauseStep DEF EffectsInv
<1>2. Init => All
  BY InvInit, SeqInit, StrandInit, EffectsInit
<1>3. All => EffectsMatchLog
  BY DEF EffectsInv, EffectInv, CauseInv, Effected, EffectsMatchLog
<1> HIDE DEF All
<1> QED BY <1>1, <1>2, <1>3, PTL DEF Spec

-----------------------------------------------------------------------------
(* The board.                                                              *)

\* What a claim, an event, new runs, a recorded delegation and a requeue are
\* on the board.
LEMMA BoardStep ==
  ASSUME Inv, [Next]_vars
  PROVE  [Board!BoardNext]_(Board!boardVars)
<1> USE DEF Inv, TypeOK, StoreTypeOK
<1> DEFINE W == [r \in Runs |-> IF status[r] \in Active THEN "active"
                                ELSE IF Exists(r) THEN status[r] ELSE "none"]
           D == [r \in Runs |-> IF delegation[r] = "running" THEN "active"
                                ELSE delegation[r]]
<1>1. /\ Board!Outcome = Terminal
      /\ \A S : Board!Create(S) <=> /\ \A r \in S : W[r] = "none"
                                    /\ W' = [r \in Runs |-> IF r \in S THEN "active"
                                                            ELSE W[r]]
                                    /\ D' = D /\ output' = output
      /\ \A r : Board!Delegate(r) <=> /\ W[r] = "active" /\ D[r] = "none"
                                      /\ D' = [D EXCEPT ![r] = "active"]
                                      /\ W' = W /\ output' = output
      /\ \A r, o : Board!FinishAs(r, o) <=>
           /\ W[r] = "active"
           /\ W' = [W EXCEPT ![r] = o]
           /\ D' = [D EXCEPT ![r] = IF @ = "active" THEN o ELSE @]
           /\ \E a \in {"none", o} : output' = [output EXCEPT ![r] = a]
  BY DEF Board!Outcome, Terminal, Board!Create, Board!Delegate, Board!FinishAs
<1>2. W' = W /\ D' = D /\ output' = output => UNCHANGED Board!boardVars
  BY DEF Board!boardVars
<1>3. ASSUME \A q \in Runs : \/ status'[q] = status[q]
                             \/ status[q] \in Active /\ status'[q] \in Active,
             UNCHANGED <<delegation, output>>
      PROVE  UNCHANGED Board!boardVars
  BY <1>2, <1>3 DEF Active, Exists
<1> HIDE DEF W, D
<1>4. ASSUME \/ UNCHANGED runColumns
             \/ \E r \in Runs : Claimed(r)
             \/ Requeued
      PROVE  UNCHANGED Board!boardVars
  <2>1. UNCHANGED <<delegation, output>>
    BY <1>4 DEF runColumns, Claimed, Requeued
  <2>2. \A q \in Runs : \/ status'[q] = status[q]
                        \/ status[q] \in Active /\ status'[q] \in Active
    BY <1>4 DEF runColumns, Claimed, Requeued, ActiveRuns, Active
  <2> QED
    BY <1>3, <2>1, <2>2
<1>5. ASSUME NEW made \in SUBSET Absent, NewRuns(made)
      PROVE  Board!BoardNext
  <2>1. \A r \in made : r \in Runs /\ status[r] = "absent"
    BY DEF Absent, Exists
  <2>2. \A r \in made : W[r] = "none"
    BY <2>1 DEF Active, Exists, W
  <2>3. \A r \in Runs : status'[r] = IF r \in made THEN "queued" ELSE status[r]
    BY <1>5 DEF NewRuns
  <2>4. W' = [r \in Runs |-> IF r \in made THEN "active" ELSE W[r]]
    BY <2>3 DEF Active, Exists, W
  <2>5. D' = D /\ output' = output /\ made \in SUBSET Runs
    BY <1>5 DEF NewRuns, Absent, D
  <2>6. Board!Create(made)
    BY <1>1, <2>2, <2>4, <2>5
  <2> QED
    BY <2>5, <2>6 DEF Board!BoardNext
<1>6. ASSUME NEW c \in Runs, Delegated(c)
      PROVE  Board!BoardNext
  <2>1. W[c] = "active" /\ D[c] = "none" /\ W' = W /\ output' = output
    BY <1>6 DEF Delegated, Active, Exists, W, D
  <2>2. D' = [D EXCEPT ![c] = "active"]
    BY <1>6 DEF Delegated, D
  <2>3. Board!Delegate(c)
    BY <1>1, <2>1, <2>2
  <2> QED
    BY <2>3 DEF Board!BoardNext
<1>7. ASSUME NEW r \in Runs, NEW e \in Event, AppendEvent(r, e), e.type \notin Terminal
      PROVE  UNCHANGED Board!boardVars
  <2>1. UNCHANGED <<status, delegation, output>>
    BY <1>7 DEF AppendEvent
  <2> QED
    BY <1>3, <2>1
<1>8. ASSUME NEW r \in Runs, NEW e \in Event, status[r] \in Active, AppendEvent(r, e),
             e.type \in Terminal
      PROVE  Board!BoardNext
  <2>1. W[r] = "active" /\ output[r] = "none"
    BY <1>8 DEF Active, Terminal, OutputInv, Exists, W
  <2>2. W' = [W EXCEPT ![r] = e.type]
    BY <1>8 DEF AppendEvent, Active, Terminal, Exists, W
  <2>3. D' = [D EXCEPT ![r] = IF @ = "active" THEN e.type ELSE @]
    BY <1>8 DEF AppendEvent, Terminal, D
  <2>4. \E a \in {"none", e.type} : output' = [output EXCEPT ![r] = a]
    <3>1. output' = output \/ output' = [output EXCEPT ![r] = e.type]
      BY <1>8 DEF AppendEvent
    <3>2. output = [output EXCEPT ![r] = "none"]
      BY <2>1
    <3> QED
      BY <3>1, <3>2
  <2>5. Board!FinishAs(r, e.type) /\ e.type \in Board!Outcome
    BY <1>1, <1>8, <2>1, <2>2, <2>3, <2>4
  <2> QED
    BY <2>5 DEF Board!BoardNext
<1> QED
  BY <1>4, <1>5, <1>6, <1>7, <1>8, StepKinds

\* The system implements the board: whoever reads the runs, the delegations and
\* the terminal messages at one commit sees each run finish once and as a whole.
THEOREM BoardImplemented == Spec => ImplementsBoard
<1>1. ASSUME Init
      PROVE  Board!BoardInit
  <2>1. \A r \in Runs : /\ status[r] = "absent" /\ delegation[r] = "none"
    BY <1>1 DEF Init, StoreInit
  <2>2. output = [r \in Runs |-> "none"]
    BY <1>1 DEF Init, StoreInit
  <2> QED
    BY <2>1, <2>2 DEF Board!BoardInit, Active, Exists
<1>2. Inv /\ [Next]_vars => [Board!BoardNext]_(Board!boardVars)
  BY BoardStep
<1> QED
  BY <1>1, <1>2, Invariance, PTL DEF Spec, ImplementsBoard, Board!BoardSpec
=============================================================================
