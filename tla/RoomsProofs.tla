----------------------------- MODULE RoomsProofs ------------------------------
(***************************************************************************)
(* Proofs that a room stays active, that a message shows what its history  *)
(* ends in, and that what the server has answered stays true, for any      *)
(* number of rooms, clients, messages, requests and starts of the server.  *)
(***************************************************************************)
EXTENDS Rooms, FiniteSetTheorems, TLAPS

\* Every request in progress is one the server takes.
TxInv == tx \in [Clients -> Request \cup {Idle}]

-----------------------------------------------------------------------------
(* Requests keep their types.                                              *)

LEMMA TxInit == Init => TxInv
BY DEF Init, TxInv

\* A client's request may be replaced by another, or by none.
LEMMA TxReplaced ==
  ASSUME TxInv, NEW c \in Clients, NEW q \in Request \cup {Idle},
         tx' = [tx EXCEPT ![c] = q]
  PROVE  TxInv'
BY DEF TxInv

\* What a request in progress is, by its operation.
LEMMA TxKinds ==
  ASSUME TxInv, NEW c \in Clients, tx[c] # Idle
  PROVE  /\ tx[c].op \in {"status", "update"} => tx[c] \in StatusRequest
         /\ tx[c].op = "post" => tx[c] \in PostRequest
         /\ tx[c].op = "route" => tx[c] \in RouteRequest
         /\ tx[c].op = "edit" => tx[c] \in EditRequest
         /\ tx[c].op = "retract" => tx[c] \in RetractRequest
<1>1. tx[c] \in Request
  BY DEF TxInv
<1> QED BY <1>1 DEF Request, StatusRequest, ListRequest, MemberRequest,
          PostRequest, RouteRequest, EditRequest, RetractRequest

LEMMA RowsAreRows == Rows \subseteq Row
BY RoomsAssumption DEF Rows, Row, People

LEMMA LifecycleTx ==
  ASSUME TxInv, NEW c \in Clients, LifecycleStep(c) PROVE TxInv'
<1>1. CASE \/ \E r \in GroupRooms : CreateRoom(c, r)
           \/ \E r \in DirectRooms : CreateDirect(c, r)
  BY <1>1 DEF CreateRoom, CreateDirect, TxInv
<1>2. ASSUME NEW r \in Rooms, NEW to \in {"active", "archived"}, BeginStatus(c, r, to)
      PROVE  TxInv'
  <2> DEFINE q == [op |-> "status", room |-> r, to |-> to]
  <2>1. q \in Request
    BY DEF Request, StatusRequest
  <2>2. tx' = [tx EXCEPT ![c] = q]
    BY <1>2 DEF BeginStatus, Start
  <2> QED BY <2>1, <2>2, TxReplaced
<1>3. CASE CheckStatus(c)
  <2>1. tx[c] \in StatusRequest
    BY <1>3, TxKinds DEF CheckStatus
  <2>2. CASE tx' = [tx EXCEPT ![c].op = "update"]
    <3>1. [tx[c] EXCEPT !.op = "update"] \in Request
      BY <2>1 DEF StatusRequest, Request
    <3>2. tx' = [tx EXCEPT ![c] = [tx[c] EXCEPT !.op = "update"]]
      BY <2>2
    <3> QED BY <3>1, <3>2, TxReplaced
  <2>3. CASE Finish(c)
    BY <2>3, TxReplaced DEF Finish
  <2> QED BY <1>3, <2>2, <2>3 DEF CheckStatus
<1>4. CASE CommitStatus(c) \/ CommitList(c)
  BY <1>4, TxReplaced DEF CommitStatus, CommitList, Finish
<1>5. ASSUME NEW r \in Rooms, NEW p \in Humans, NEW a \in Lists, BeginList(c, r, p, a)
      PROVE  TxInv'
  <2> DEFINE q == [op |-> "list", room |-> r, who |-> p, action |-> a]
  <2>1. q \in Request
    BY RoomsAssumption DEF Request, ListRequest
  <2>2. tx' = [tx EXCEPT ![c] = q]
    BY <1>5 DEF BeginList, Start
  <2> QED BY <2>1, <2>2, TxReplaced
<1> QED BY <1>1, <1>2, <1>3, <1>4, <1>5 DEF LifecycleStep

LEMMA MemberTx ==
  ASSUME TxInv, NEW c \in Clients, MemberStep(c) PROVE TxInv'
<1>1. CASE CommitAdd(c) \/ CommitRemove(c)
  BY <1>1, TxReplaced DEF CommitAdd, CommitRemove, Finish
<1>2. ASSUME NEW r \in Rooms, NEW p \in People, BeginAdd(c, r, p)
      PROVE  TxInv'
  <2> DEFINE q == [op |-> "add", room |-> r, who |-> p]
  <2>1. q \in Request
    BY DEF Request, MemberRequest
  <2>2. tx' = [tx EXCEPT ![c] = q]
    BY <1>2 DEF BeginAdd, Start
  <2> QED BY <2>1, <2>2, TxReplaced
<1>3. ASSUME NEW r \in Rooms, NEW p \in People, BeginRemove(c, r, p)
      PROVE  TxInv'
  <2> DEFINE q == [op |-> "remove", room |-> r, who |-> p]
  <2>1. q \in Request
    BY DEF Request, MemberRequest
  <2>2. tx' = [tx EXCEPT ![c] = q]
    BY <1>3 DEF BeginRemove, Start
  <2> QED BY <2>1, <2>2, TxReplaced
<1> QED BY <1>1, <1>2, <1>3 DEF MemberStep

LEMMA MessageTx ==
  ASSUME TxInv, NEW c \in Clients, MessageStep(c) PROVE TxInv'
<1>1. CASE \E row \in Rows : RepeatPost(c, row)
  BY <1>1 DEF RepeatPost, TxInv
<1>2. ASSUME NEW row \in Rows, BeginPost(c, row) PROVE TxInv'
  <2> DEFINE q == [op |-> "post", row |-> row]
  <2>1. q \in Request
    BY RowsAreRows DEF Request, PostRequest
  <2>2. tx' = [tx EXCEPT ![c] = q]
    BY <1>2 DEF BeginPost, Start
  <2> QED BY <2>1, <2>2, TxReplaced
<1>3. ASSUME NEW m \in Messages, CommitPost(c, m) PROVE TxInv'
  <2> DEFINE q == [op |-> "route", message |-> m]
  <2>1. q \in Request
    BY DEF Request, RouteRequest
  <2>2. tx' = [tx EXCEPT ![c] = q]
    BY <1>3 DEF CommitPost
  <2> QED BY <2>1, <2>2, TxReplaced
<1>4. CASE Route(c) \/ CommitEdit(c) \/ CommitRetract(c)
  BY <1>4, TxReplaced DEF Route, CommitEdit, CommitRetract, Finish
<1>5. ASSUME NEW m \in Messages, NEW p \in Humans, NEW t \in Contents,
             NEW n \in 1 .. MaxRevision, BeginEdit(c, m, p, t, n)
      PROVE  TxInv'
  <2> DEFINE q == [op |-> "edit", message |-> m, actor |-> p, text |-> t,
                   expected |-> n, allowed |-> Allowed(m)]
  <2>1. Allowed(m) \in BOOLEAN
    BY DEF Allowed
  <2>2. n \in Nat
    BY RoomsAssumption
  <2>3. q \in EditRequest
    BY <2>1, <2>2 DEF EditRequest
  <2>4. tx' = [tx EXCEPT ![c] = q]
    BY <1>5 DEF BeginEdit, Start
  <2> QED BY <2>3, <2>4, TxReplaced DEF Request
<1>6. ASSUME NEW m \in Messages, NEW p \in Humans, NEW n \in 1 .. MaxRevision,
             BeginRetract(c, m, p, n)
      PROVE  TxInv'
  <2> DEFINE q == [op |-> "retract", message |-> m, actor |-> p,
                   expected |-> n, allowed |-> Allowed(m)]
  <2>1. Allowed(m) \in BOOLEAN
    BY DEF Allowed
  <2>2. n \in Nat
    BY RoomsAssumption
  <2>3. q \in RetractRequest
    BY <2>1, <2>2 DEF RetractRequest
  <2>4. tx' = [tx EXCEPT ![c] = q]
    BY <1>6 DEF BeginRetract, Start
  <2> QED BY <2>3, <2>4, TxReplaced DEF Request
<1> QED BY <1>1, <1>2, <1>3, <1>4, <1>5, <1>6 DEF MessageStep

LEMMA TxStep == TxInv /\ [Next]_vars => TxInv'
<1> SUFFICES ASSUME TxInv, [Next]_vars PROVE TxInv'
  OBVIOUS
<1>1. CASE UNCHANGED vars
  BY <1>1 DEF vars, TxInv
<1>2. CASE Boot
  BY <1>2 DEF Boot, TxInv
<1>3. CASE \E x \in running : EndRun(x)
  BY <1>3 DEF EndRun, TxInv
<1>4. CASE \E c \in Clients : LifecycleStep(c) \/ MemberStep(c) \/ MessageStep(c)
  BY <1>4, LifecycleTx, MemberTx, MessageTx
<1> QED BY <1>1, <1>2, <1>3, <1>4 DEF Next

-----------------------------------------------------------------------------
(* A room stays active.                                                    *)

\* A change of a room's status that has passed its checks.
Updating(c) == tx[c] # Idle /\ tx[c].op = "update"

\* The lifecycle lock lets one change be past its checks at a time, and while
\* an archive is, another room is active.
UpdatesInv ==
  /\ \A c, d \in Clients : Updating(c) /\ Updating(d) => c = d
  /\ \A c \in Clients : Updating(c) /\ tx[c].to = "archived" =>
       \E r \in Rooms : r # tx[c].room /\ status[r] = "active"

StatusInv == status \in [Rooms -> RoomStatus]

LifeInv == StatusInv /\ UpdatesInv /\ SomeRoomActive

LEMMA LifeInit == Init => LifeInv
<1> SUFFICES ASSUME Init PROVE LifeInv
  OBVIOUS
<1>1. StatusInv
  BY DEF Init, StatusInv, RoomStatus
<1>2. UpdatesInv
  BY DEF Init, UpdatesInv, Updating
<1>3. SomeRoomActive
  BY DEF Init, SomeRoomActive, Exists
<1> QED BY <1>1, <1>2, <1>3 DEF LifeInv

\* A step that begins no change of a status, and takes no room out of use.
LEMMA QuietLife ==
  ASSUME LifeInv, StatusInv',
         \A r \in Rooms : status[r] = "active" => status'[r] = "active",
         status' = status \/ \E r \in Rooms : status'[r] = "active",
         \A d \in Clients : Updating(d)' => Updating(d) /\ tx'[d] = tx[d]
  PROVE  LifeInv'
<1>1. UpdatesInv'
  BY DEF LifeInv, UpdatesInv
<1>2. SomeRoomActive'
  BY DEF LifeInv, SomeRoomActive, ActiveRooms, Exists
<1> QED BY <1>1, <1>2 DEF LifeInv

\* A client begins another request, or has none any more.
LEMMA QuietTx ==
  ASSUME TxInv, NEW c \in Clients, NEW q,
         q = Idle \/ q.op # "update", tx' = [tx EXCEPT ![c] = q]
  PROVE  \A d \in Clients : Updating(d)' => Updating(d) /\ tx'[d] = tx[d]
BY DEF TxInv, Updating

\* Two active rooms: one of them is not the one in question.
LEMMA AnotherRoom ==
  ASSUME NEW A, IsFiniteSet(A), Cardinality(A) > 1, NEW r
  PROVE  \E s \in A : s # r
<1> SUFFICES ASSUME A \subseteq {r} PROVE FALSE
  OBVIOUS
<1>1. IsFiniteSet({r}) /\ Cardinality({r}) = 1
  BY FS_Singleton
<1> DEFINE S == {r}
<1>2. Cardinality(A) <= 1
  <2>1. A \in SUBSET S
    OBVIOUS
  <2>2. Cardinality(A) <= Cardinality(S)
    BY <1>1, <2>1, FS_Subset
  <2> QED BY <1>1, <2>2
<1>3. Cardinality(A) \in Nat
  BY FS_CardinalityType
<1> QED BY <1>2, <1>3

LEMMA LifecycleLife ==
  ASSUME TxInv, LifeInv, IsFiniteSet(Rooms), NEW c \in Clients, LifecycleStep(c)
  PROVE  LifeInv'
<1> USE DEF StatusInv
<1>1. ASSUME NEW r \in Rooms, status' = [status EXCEPT ![r] = "active"],
             UNCHANGED tx
      PROVE  LifeInv'
  <2>1. StatusInv' /\ status'[r] = "active"
    BY <1>1 DEF LifeInv, RoomStatus
  <2>2. \A s \in Rooms : status[s] = "active" => status'[s] = "active"
    BY <1>1 DEF LifeInv
  <2>3. \A d \in Clients : Updating(d)' => Updating(d) /\ tx'[d] = tx[d]
    BY <1>1 DEF Updating
  <2> QED BY <2>1, <2>2, <2>3, QuietLife
<1>2. CASE \/ \E r \in GroupRooms : CreateRoom(c, r)
           \/ \E r \in DirectRooms : CreateDirect(c, r)
  BY <1>1, <1>2 DEF CreateRoom, CreateDirect, Rooms
<1>3. ASSUME NEW q, q = Idle \/ q.op # "update", tx' = [tx EXCEPT ![c] = q],
             UNCHANGED status
      PROVE  LifeInv'
  <2>1. StatusInv'
    BY <1>3 DEF LifeInv
  <2> QED BY <1>3, <2>1, QuietTx, QuietLife
<1>4. CASE \E r \in Rooms, to \in {"active", "archived"} : BeginStatus(c, r, to)
  BY <1>3, <1>4 DEF BeginStatus, Start, roomVars
<1>5. CASE CheckStatus(c)
  <2>1. UNCHANGED status
    BY <1>5 DEF CheckStatus, roomVars
  <2>2. CASE Finish(c)
    BY <1>3, <2>1, <2>2 DEF Finish
  <2>3. CASE MayTurn(tx[c].room, tx[c].to) /\ tx' = [tx EXCEPT ![c].op = "update"]
    <3>1. tx[c] \in StatusRequest
      BY <1>5, TxKinds DEF CheckStatus
    <3>2. /\ tx'[c] = [tx[c] EXCEPT !.op = "update"]
          /\ \A d \in Clients : d # c => tx'[d] = tx[d]
      BY <2>3 DEF TxInv
    <3>3. tx'[c].room = tx[c].room /\ tx'[c].to = tx[c].to
      BY <3>1, <3>2 DEF StatusRequest
    <3>4. \A d \in Clients : ~Updating(d)
      BY <1>5 DEF CheckStatus, LifecycleFree, InProgress, Updating
    <3>5. \A d \in Clients : Updating(d)' => d = c
      BY <3>2, <3>4 DEF Updating
    <3>6. ASSUME tx[c].to = "archived"
          PROVE  \E r \in Rooms : r # tx[c].room /\ status[r] = "active"
      <4>1. Cardinality(ActiveRooms) > 1
        BY <2>3, <3>6 DEF MayTurn
      <4>2. IsFiniteSet(ActiveRooms)
        BY FS_Subset DEF ActiveRooms
      <4> QED BY <4>1, <4>2, AnotherRoom DEF ActiveRooms
    <3>7. UpdatesInv'
      BY <2>1, <3>3, <3>5, <3>6 DEF UpdatesInv
    <3> QED BY <2>1, <3>7 DEF LifeInv, SomeRoomActive, ActiveRooms, Exists
  <2> QED BY <1>5, <2>2, <2>3 DEF CheckStatus
<1>6. CASE CommitStatus(c)
  <2>1. /\ Updating(c) /\ tx' = [tx EXCEPT ![c] = Idle]
        /\ status' = [status EXCEPT ![tx[c].room] = tx[c].to]
    BY <1>6 DEF CommitStatus, Finish, Updating
  <2>2. tx[c].room \in Rooms /\ tx[c].to \in {"active", "archived"}
    BY <1>6, TxKinds DEF CommitStatus, StatusRequest
  <2>3. StatusInv'
    BY <2>1, <2>2 DEF LifeInv, RoomStatus
  <2>4. \A d \in Clients : ~Updating(d)'
    BY <2>1 DEF LifeInv, UpdatesInv, Updating, TxInv
  <2>5. \E r \in Rooms : status'[r] = "active"
    <3>1. CASE tx[c].to = "active"
      BY <2>1, <2>2, <3>1 DEF LifeInv
    <3>2. CASE tx[c].to = "archived"
      <4>1. PICK r \in Rooms : r # tx[c].room /\ status[r] = "active"
        BY <2>1, <3>2 DEF LifeInv, UpdatesInv
      <4>2. status'[r] = "active"
        BY <2>1, <4>1 DEF LifeInv
      <4> QED BY <4>2
    <3> QED BY <2>2, <3>1, <3>2
  <2> QED BY <2>3, <2>4, <2>5 DEF LifeInv, UpdatesInv, SomeRoomActive, ActiveRooms
<1>7. CASE CommitList(c)
  BY <1>3, <1>7 DEF CommitList, Finish, roomVars
<1>8. CASE \E r \in Rooms, p \in Humans, a \in Lists : BeginList(c, r, p, a)
  BY <1>3, <1>8 DEF BeginList, Start, roomVars
<1> QED BY <1>2, <1>4, <1>5, <1>6, <1>7, <1>8 DEF LifecycleStep

LEMMA OtherLife ==
  ASSUME TxInv, LifeInv, NEW c \in Clients, MemberStep(c) \/ MessageStep(c)
  PROVE  LifeInv'
<1>1. ASSUME NEW q, q = Idle \/ q.op # "update", tx' = [tx EXCEPT ![c] = q],
             UNCHANGED status
      PROVE  LifeInv'
  <2>1. StatusInv'
    BY <1>1 DEF LifeInv, StatusInv
  <2> QED BY <1>1, <2>1, QuietTx, QuietLife
<1>2. CASE CommitAdd(c) \/ CommitRemove(c)
  BY <1>1, <1>2 DEF CommitAdd, CommitRemove, Finish
<1>3. CASE \E r \in Rooms, p \in People : BeginAdd(c, r, p) \/ BeginRemove(c, r, p)
  BY <1>1, <1>3 DEF BeginAdd, BeginRemove, Start, roomVars
<1>4. CASE \E row \in Rows : RepeatPost(c, row)
  <2>1. UNCHANGED <<status, tx>>
    BY <1>4 DEF RepeatPost, roomVars
  <2>2. StatusInv' /\ \A d \in Clients : Updating(d)' => Updating(d) /\ tx'[d] = tx[d]
    BY <2>1 DEF LifeInv, StatusInv, Updating
  <2> QED BY <2>1, <2>2, QuietLife
<1>5. CASE \E row \in Rows : BeginPost(c, row)
  BY <1>1, <1>5 DEF BeginPost, Start, roomVars
<1>6. CASE \E m \in Messages : CommitPost(c, m)
  BY <1>1, <1>6 DEF CommitPost, roomVars
<1>7. CASE Route(c) \/ CommitEdit(c) \/ CommitRetract(c)
  BY <1>1, <1>7 DEF Route, CommitEdit, CommitRetract, Finish, roomVars
<1>8. CASE \E m \in Messages, p \in Humans, t \in Contents, n \in 1 .. MaxRevision :
             BeginEdit(c, m, p, t, n)
  BY <1>1, <1>8 DEF BeginEdit, Start, roomVars
<1>9. CASE \E m \in Messages, p \in Humans, n \in 1 .. MaxRevision :
             BeginRetract(c, m, p, n)
  BY <1>1, <1>9 DEF BeginRetract, Start, roomVars
<1> QED BY <1>2, <1>3, <1>4, <1>5, <1>6, <1>7, <1>8, <1>9
        DEF MemberStep, MessageStep

LEMMA LifeStep ==
  ASSUME IsFiniteSet(Rooms)
  PROVE  TxInv /\ LifeInv /\ [Next]_vars => LifeInv'
<1> SUFFICES ASSUME TxInv, LifeInv, [Next]_vars PROVE LifeInv'
  OBVIOUS
<1>1. ASSUME UNCHANGED <<status, tx>> PROVE LifeInv'
  BY <1>1 DEF LifeInv, StatusInv, UpdatesInv, Updating, SomeRoomActive,
       ActiveRooms, Exists
<1>2. CASE UNCHANGED vars
  BY <1>1, <1>2 DEF vars, roomVars
<1>3. CASE \E x \in running : EndRun(x)
  BY <1>1, <1>3 DEF EndRun, roomVars
<1>4. CASE Boot
  <2>1. \A d \in Clients : ~Updating(d)'
    BY <1>4 DEF Boot, Updating
  <2>2. \/ UNCHANGED status
        \/ status' = [status EXCEPT ![FirstRoom] = "active"]
    BY <1>4 DEF Boot
  <2>3. FirstRoom \in Rooms
    BY RoomsAssumption DEF Rooms
  <2>4. StatusInv'
    BY <2>2, <2>3 DEF LifeInv, StatusInv, RoomStatus
  <2>5. /\ \A r \in Rooms : status[r] = "active" => status'[r] = "active"
        /\ status' = status \/ \E r \in Rooms : status'[r] = "active"
    BY <2>2, <2>3 DEF LifeInv, StatusInv
  <2> QED BY <2>1, <2>4, <2>5, QuietLife
<1>5. CASE \E c \in Clients : LifecycleStep(c) \/ MemberStep(c) \/ MessageStep(c)
  BY <1>5, LifecycleLife, OtherLife
<1> QED BY <1>2, <1>3, <1>4, <1>5 DEF Next

-----------------------------------------------------------------------------
(* A message shows what its history ends in.                               *)

\* Facts about sequences of any elements.
LEMMA SingleHistory ==
  ASSUME NEW S, NEW r \in S
  PROVE  <<r>> \in Seq(S) /\ Len(<<r>>) = 1 /\ <<r>>[1] = r
OBVIOUS

LEMMA LengthIsNat ==
  ASSUME NEW S, NEW h \in Seq(S) PROVE Len(h) \in Nat
OBVIOUS

LEMMA NotLess ==
  ASSUME NEW a \in Nat PROVE a >= a
OBVIOUS

LEMMA LastIndex ==
  ASSUME NEW n \in Nat
  PROVE  /\ n + 1 \in Nat /\ n + 1 \in 1 .. (n + 1)
         /\ n # 0 => n + 1 \in 2 .. (n + 1)
OBVIOUS

LEMMA LongerIndices ==
  ASSUME NEW a \in Nat, NEW b \in Nat, b >= a, NEW j \in 1 .. a
  PROVE  j \in 1 .. b
OBVIOUS

Longer(S, h, r) ==
  /\ Append(h, r) \in Seq(S) /\ Len(h) \in Nat
  /\ Len(Append(h, r)) = Len(h) + 1 /\ Append(h, r)[Len(h) + 1] = r
  /\ \A i \in 1 .. Len(h) : Append(h, r)[i] = h[i]

LEMMA LongerHistory ==
  ASSUME NEW S, NEW h \in Seq(S), NEW r \in S PROVE Longer(S, h, r)
BY DEF Longer

\* A history that can grow, what it grows by, and what it then is.
Open(N, h, p) ==
  /\ N \in Nat /\ N > 0 /\ h[1].action = "created"
  /\ \A i \in 2 .. N : h[i].action # "created"
  /\ \A i \in 1 .. N : h[i].actor = p /\ (h[i].action = "retracted" => i = N)
  /\ h[N].action # "retracted"
Extends(N, h, g, p) ==
  /\ \A i \in 1 .. N : g[i] = h[i]
  /\ g[N + 1].action # "created" /\ g[N + 1].actor = p
Grown(N, h, g, p) ==
  /\ g[1].action = "created" /\ g[(N + 1) - 1] = h[N] /\ N + 1 > 0
  /\ \A i \in 2 .. (N + 1) : g[i].action # "created"
  /\ \A i \in 1 .. (N + 1) :
       g[i].actor = p /\ (g[i].action = "retracted" => i = N + 1)

LEMMA GrownHistory ==
  ASSUME NEW N, NEW h, NEW g, NEW p, Open(N, h, p), Extends(N, h, g, p)
  PROVE  Grown(N, h, g, p)
<1> USE DEF Open, Extends
<1>1. \A i \in 1 .. (N + 1) : i \in 1 .. N \/ i = N + 1
  OBVIOUS
<1>2. g[1] = h[1] /\ g[N] = h[N] /\ (N + 1) - 1 = N
  OBVIOUS
<1>3. \A i \in 2 .. (N + 1) : g[i].action # "created"
  <2> SUFFICES ASSUME NEW i \in 2 .. (N + 1) PROVE g[i].action # "created"
    OBVIOUS
  <2>1. CASE i \in 2 .. N
    <3>1. g[i] = h[i]
      BY <2>1
    <3> QED BY <2>1, <3>1
  <2>2. CASE i = N + 1
    BY <2>2
  <2> QED BY <2>1, <2>2
<1>4. ASSUME NEW i \in 1 .. (N + 1)
      PROVE  g[i].actor = p /\ (g[i].action = "retracted" => i = N + 1)
  <2>1. CASE i \in 1 .. N
    <3>1. g[i] = h[i] /\ (i = N => g[i].action # "retracted")
      BY <2>1
    <3> QED BY <2>1, <3>1
  <2>2. CASE i = N + 1
    BY <2>2
  <2> QED BY <1>1, <2>1, <2>2
<1> QED BY <1>2, <1>3, <1>4 DEF Grown

MessageTypes ==
  /\ message \in [Messages -> Row \cup {NoMessage}]
  /\ history \in [Messages -> Seq(Revision)]
  /\ content \in [Messages -> Contents \cup {""}]
  /\ retracted \subseteq Messages
  /\ running \subseteq Messages \X Agents

\* Only a message there is can be retracted, have runs, or be what a request
\* is about.
UnpostedInv == \A m \in Messages : ~Posted(m) => m \notin retracted
RunningInv == \A x \in running : Posted(x[1])
AboutMessage == {"route", "edit", "retract"}
RequestsInv ==
  \A c \in Clients : tx[c] # Idle /\ tx[c].op \in AboutMessage =>
    tx[c].message \in Messages /\ Posted(tx[c].message)

MessageInv ==
  /\ MessageTypes /\ UnpostedInv /\ RunningInv /\ RequestsInv
  /\ HistoryTellsMessage

LEMMA MessageInit == Init => MessageInv
<1> SUFFICES ASSUME Init PROVE MessageInv
  OBVIOUS
<1>1. <<>> \in Seq(Revision)
  OBVIOUS
<1>2. history \in [Messages -> Seq(Revision)]
  BY <1>1 DEF Init
<1>3. MessageTypes
  BY <1>2, Zenon DEF Init, MessageTypes
<1>4. \A m \in Messages : ~Posted(m)
  BY DEF Init, Posted
<1> QED BY <1>3, <1>4 DEF Init, MessageInv, UnpostedInv, RunningInv, RequestsInv,
          HistoryTellsMessage

\* What HistoryTellsMessage says of one message.
Tells(m) ==
  LET h == history[m]
  IN /\ Number(m) > 0 /\ h[1].action = "created"
     /\ \A i \in 2 .. Number(m) : h[i].action # "created"
     /\ \A i \in 1 .. Number(m) :
          h[i].actor = message[m].sender
            /\ (h[i].action = "retracted" => i = Number(m))
     /\ m \in retracted <=> h[Number(m)].action = "retracted"
     /\ content[m] = IF m \in retracted THEN "" ELSE h[Number(m)].text
     /\ m \in retracted => h[Number(m)].text = h[Number(m) - 1].text

LEMMA TellsAll == HistoryTellsMessage <=> \A m \in Messages : Posted(m) => Tells(m)
BY DEF HistoryTellsMessage, Tells

\* Steps that change no message.
LEMMA QuietMessages ==
  ASSUME MessageInv, UNCHANGED messageVars,
         running' \subseteq Messages \X Agents,
         \A x \in running' : Posted(x[1]),
         RequestsInv'
  PROVE  MessageInv'
BY DEF MessageInv, messageVars, MessageTypes, UnpostedInv, RunningInv, Posted,
   HistoryTellsMessage, Number

\* A new message: its history is its creation.
LEMMA InsertStep ==
  ASSUME MessageInv, NEW m \in Messages, NEW row \in Row, ~Posted(m),
         Insert(m, row), running' \subseteq running,
         \A c \in Clients : tx'[c] # Idle /\ tx'[c].op \in AboutMessage =>
           tx'[c] = tx[c] \/ tx'[c].message = m
  PROVE  MessageInv'
<1>1. PICK first : first = [action |-> "created", actor |-> row.sender,
                            text |-> row.text]
  OBVIOUS
<1>2. MessageTypes
  BY DEF MessageInv
<1>3. row.sender \in People /\ row.text \in Contents
  BY DEF Row
<1>4. /\ first \in Revision
      /\ first.action = "created" /\ first.actor = row.sender /\ first.text = row.text
  BY <1>1, <1>3 DEF Revision
<1>5. /\ message' = [message EXCEPT ![m] = row]
      /\ content' = [content EXCEPT ![m] = row.text]
      /\ history' = [history EXCEPT ![m] = <<first>>]
      /\ retracted' = retracted
  BY <1>1 DEF Insert
<1>6. /\ <<first>> \in Seq(Revision)
      /\ Len(<<first>>) = 1 /\ <<first>>[1] = first
  BY <1>4, SingleHistory, Zenon
<1>7. MessageTypes'
  <2>1. message' \in [Messages -> Row \cup {NoMessage}]
    BY <1>2, <1>5, Zenon DEF MessageTypes
  <2>2. history' \in [Messages -> Seq(Revision)]
    BY <1>2, <1>5, <1>6, Zenon DEF MessageTypes
  <2>3. content' \in [Messages -> Contents \cup {""}]
    BY <1>2, <1>3, <1>5, Zenon DEF MessageTypes
  <2>4. retracted' \subseteq Messages /\ running' \subseteq Messages \X Agents
    BY <1>2, <1>5, Zenon DEF MessageTypes
  <2> QED BY <2>1, <2>2, <2>3, <2>4 DEF MessageTypes
<1>8. /\ message'[m] = row /\ history'[m] = <<first>> /\ content'[m] = row.text
      /\ \A n \in Messages \ {m} :
           /\ message'[n] = message[n] /\ history'[n] = history[n]
           /\ content'[n] = content[n]
  BY <1>2, <1>5, Zenon DEF MessageTypes
<1>9. /\ row # NoMessage /\ m \notin retracted'
      /\ \A n \in Messages : Posted(n) => Posted(n)'
      /\ \A n \in Messages \ {m} : Posted(n)' => Posted(n)
  BY <1>5, <1>8, NoMessageAssumption DEF Posted, MessageInv, UnpostedInv
<1>10. UnpostedInv'
  BY <1>5, <1>9 DEF UnpostedInv, MessageInv
<1>11. RunningInv'
  <2> SUFFICES ASSUME NEW x \in running' PROVE Posted(x[1])'
    BY DEF RunningInv
  <2>1. x[1] \in Messages /\ Posted(x[1])
    BY <1>2 DEF MessageInv, MessageTypes, RunningInv
  <2> QED BY <1>9, <2>1
<1>12. RequestsInv'
  <2> SUFFICES ASSUME NEW c \in Clients, tx'[c] # Idle, tx'[c].op \in AboutMessage
               PROVE  /\ tx'[c].message \in Messages
                      /\ message'[tx'[c].message] # NoMessage
    BY DEF RequestsInv, Posted
  <2>1. CASE tx'[c] = tx[c]
    <3>1. tx[c].message \in Messages /\ Posted(tx[c].message)
      BY <2>1 DEF MessageInv, RequestsInv
    <3> QED BY <1>9, <2>1, <3>1 DEF Posted
  <2>2. CASE tx'[c].message = m
    BY <1>8, <1>9, <2>2 DEF Posted
  <2> QED BY <2>1, <2>2
<1>13. Tells(m)'
  BY <1>4, <1>6, <1>8, <1>9 DEF Tells, Number
<1>14. ASSUME NEW n \in Messages \ {m}, Posted(n)' PROVE Tells(n)'
  <2>1. Tells(n)
    BY <1>9, <1>14, TellsAll DEF MessageInv
  <2> QED BY <1>5, <1>8, <2>1 DEF Tells, Number
<1>15. \A n \in Messages : Posted(n)' => Tells(n)'
  BY <1>13, <1>14
<1>16. HistoryTellsMessage'
  BY <1>15 DEF HistoryTellsMessage, Tells
<1> QED BY <1>7, <1>10, <1>11, <1>12, <1>16 DEF MessageInv

\* A revision of a message that stands, by its sender: an edit shows its text,
\* a retraction keeps the last one.
LEMMA ReviseStep ==
  ASSUME MessageInv, NEW m \in Messages, NEW action, NEW p, NEW kept, NEW shown,
         Posted(m), m \notin retracted, p = message[m].sender,
         Revise(m, action, p, kept, shown),
         \/ action = "edited" /\ kept = shown /\ kept \in Contents
              /\ retracted' = retracted
         \/ action = "retracted" /\ kept = content[m] /\ shown = ""
              /\ retracted' = retracted \cup {m},
         UNCHANGED running,
         \A c \in Clients : tx'[c] # Idle /\ tx'[c].op \in AboutMessage =>
           tx'[c] = tx[c]
  PROVE  MessageInv'
<1>1. PICK r : r = [action |-> action, actor |-> p, text |-> kept]
  OBVIOUS
<1>2. MessageTypes
  BY DEF MessageInv
<1>3. p \in People /\ kept \in Contents \cup {""} /\ shown \in Contents \cup {""}
  BY <1>2 DEF MessageTypes, Posted, Row
<1>4. /\ r \in Revision
      /\ r.action = action /\ r.actor = p /\ r.text = kept
  BY <1>1, <1>3 DEF Revision
<1>5. /\ history' = [history EXCEPT ![m] = Append(history[m], r)]
      /\ content' = [content EXCEPT ![m] = shown] /\ message' = message
  BY <1>1, Zenon DEF Revise
<1>6. PICK h \in Seq(Revision) : h = history[m]
  BY <1>2 DEF MessageTypes
<1>7. PICK N \in Nat, g \in Seq(Revision) :
        /\ N = Len(h) /\ g = Append(h, r)
        /\ Len(g) = N + 1 /\ g[N + 1] = r
        /\ \A i \in 1 .. N : g[i] = h[i]
  <2>1. h \in Seq(Revision) /\ r \in Revision
    BY <1>4, <1>6
  <2>2. Longer(Revision, h, r)
    BY <2>1, LongerHistory, Zenon
  <2> QED BY <2>2, Zenon DEF Longer
<1>8. N \in Nat /\ g[N + 1] = r /\ \A i \in 1 .. N : g[i] = h[i]
  BY <1>7, Zenon
<1>9. Len(g) = N + 1
  BY <1>7, Zenon
<1>10. history' = [history EXCEPT ![m] = g]
  BY <1>5, <1>6, <1>7, Zenon
<1>11. /\ history'[m] = g /\ content'[m] = shown
       /\ \A n \in Messages \ {m} :
            history'[n] = history[n] /\ content'[n] = content[n]
  BY <1>2, <1>5, <1>10, Zenon DEF MessageTypes
<1>12. MessageTypes'
  <2>1. history' \in [Messages -> Seq(Revision)]
    BY <1>2, <1>10, Zenon DEF MessageTypes
  <2>2. content' \in [Messages -> Contents \cup {""}]
    BY <1>2, <1>3, <1>5, Zenon DEF MessageTypes
  <2> QED BY <1>2, <1>5, <2>1, <2>2, Zenon DEF MessageTypes
<1>13. UnpostedInv'
  BY <1>5 DEF UnpostedInv, MessageInv, Posted
<1>14. RunningInv' /\ RequestsInv'
  BY <1>5 DEF MessageInv, RunningInv, RequestsInv, Posted
<1>15. Tells(m)'
  <2>1. /\ N > 0 /\ h[1].action = "created"
        /\ \A i \in 2 .. N : h[i].action # "created"
        /\ \A i \in 1 .. N : h[i].actor = p
                              /\ (h[i].action = "retracted" => i = N)
        /\ h[N].action # "retracted" /\ content[m] = h[N].text
    BY <1>6, <1>7, TellsAll DEF MessageInv, Tells, Number
  <2>2. Open(N, h, p)
    BY <1>8, <2>1 DEF Open
  <2>3. Extends(N, h, g, p)
    BY <1>4, <1>8 DEF Extends
  <2>4. Grown(N, h, g, p)
    BY <2>2, <2>3, GrownHistory, Zenon
  <2>5. /\ m \in retracted' <=> g[N + 1].action = "retracted"
        /\ shown = IF m \in retracted' THEN "" ELSE g[N + 1].text
        /\ m \in retracted' => g[N + 1].text = h[N].text
    BY <1>4, <1>8, <2>1
  <2>6. message'[m].sender = p
    BY <1>5
  <2> QED BY <1>9, <1>11, <2>4, <2>5, <2>6 DEF Tells, Number, Grown
<1>16. ASSUME NEW n \in Messages \ {m}, Posted(n)' PROVE Tells(n)'
  <2>1. Tells(n)
    BY <1>5, <1>16, TellsAll DEF MessageInv, Posted
  <2>2. n \in retracted' <=> n \in retracted
    OBVIOUS
  <2> QED BY <1>5, <1>11, <2>1, <2>2 DEF Tells, Number
<1>17. \A n \in Messages : Posted(n)' => Tells(n)'
  BY <1>15, <1>16
<1>18. HistoryTellsMessage'
  BY <1>17 DEF HistoryTellsMessage, Tells
<1> QED BY <1>12, <1>13, <1>14, <1>18 DEF MessageInv

\* No step changes what a message and its history say of each other.
LEMMA MessageSteps ==
  ASSUME TxInv, MessageInv, NEW c \in Clients, MessageStep(c)
  PROVE  MessageInv'
<1> USE DEF AboutMessage
<1>1. MessageTypes /\ RunningInv /\ RequestsInv
  BY DEF MessageInv
<1>2. ASSUME NEW row \in Rows, RepeatPost(c, row) PROVE MessageInv'
  BY <1>1, <1>2, QuietMessages DEF RepeatPost, MessageTypes, RunningInv,
     RequestsInv, messageVars, Posted
<1>3. ASSUME NEW row \in Rows, BeginPost(c, row) PROVE MessageInv'
  <2>1. /\ tx' = [tx EXCEPT ![c] = [op |-> "post", row |-> row]]
        /\ UNCHANGED <<messageVars, running>>
    BY <1>3 DEF BeginPost, Start
  <2>2. RequestsInv'
    BY <1>1, <2>1 DEF TxInv, RequestsInv, messageVars, Posted
  <2> QED BY <1>1, <2>1, <2>2, QuietMessages DEF MessageTypes, RunningInv
<1>4. ASSUME NEW m \in Messages, CommitPost(c, m) PROVE MessageInv'
  <2>1. /\ tx[c].row \in Row /\ ~Posted(m) /\ Insert(m, tx[c].row)
        /\ tx' = [tx EXCEPT ![c] = [op |-> "route", message |-> m]]
        /\ running' = running
    BY <1>4, TxKinds DEF CommitPost, PostRequest
  <2>2. \A d \in Clients : tx'[d] = tx[d] \/ tx'[d].message = m
    BY <2>1 DEF TxInv
  <2> QED BY <2>1, <2>2, InsertStep
<1>5. CASE Route(c)
  <2>1. /\ tx' = [tx EXCEPT ![c] = Idle] /\ UNCHANGED messageVars
        /\ tx[c].message \in Messages /\ Posted(tx[c].message)
        /\ \/ running' = running
           \/ running' = running
                \cup ({tx[c].message} \X Targets(message[tx[c].message]))
    BY <1>1, <1>5 DEF Route, Finish, RequestsInv
  <2>2. Targets(message[tx[c].message]) \subseteq Agents
    BY DEF Targets
  <2>3. /\ running' \subseteq Messages \X Agents
        /\ \A x \in running' : Posted(x[1])
    BY <1>1, <2>1, <2>2 DEF MessageTypes, RunningInv
  <2>4. RequestsInv'
    BY <1>1, <2>1 DEF TxInv, RequestsInv, messageVars, Posted
  <2> QED BY <2>1, <2>3, <2>4, QuietMessages
<1>6. ASSUME NEW m \in Messages, NEW p \in Humans, NEW t \in Contents,
             NEW n \in 1 .. MaxRevision, BeginEdit(c, m, p, t, n)
      PROVE  MessageInv'
  <2>1. PICK q : /\ q = [op |-> "edit", message |-> m, actor |-> p, text |-> t,
                          expected |-> n, allowed |-> Allowed(m)]
                 /\ tx' = [tx EXCEPT ![c] = q]
    BY <1>6 DEF BeginEdit, Start
  <2>2. q.message = m /\ Posted(m) /\ UNCHANGED <<messageVars, running>>
    BY <1>6, <2>1 DEF BeginEdit, Found
  <2>3. RequestsInv'
    BY <1>1, <2>1, <2>2 DEF TxInv, RequestsInv, messageVars, Posted
  <2> QED BY <1>1, <2>2, <2>3, QuietMessages DEF MessageTypes, RunningInv
<1>7. ASSUME NEW m \in Messages, NEW p \in Humans, NEW n \in 1 .. MaxRevision,
             BeginRetract(c, m, p, n)
      PROVE  MessageInv'
  <2>1. PICK q : /\ q = [op |-> "retract", message |-> m, actor |-> p,
                          expected |-> n, allowed |-> Allowed(m)]
                 /\ tx' = [tx EXCEPT ![c] = q]
    BY <1>7 DEF BeginRetract, Start
  <2>2. q.message = m /\ Posted(m) /\ UNCHANGED <<messageVars, running>>
    BY <1>7, <2>1 DEF BeginRetract, Found
  <2>3. RequestsInv'
    BY <1>1, <2>1, <2>2 DEF TxInv, RequestsInv, messageVars, Posted
  <2> QED BY <1>1, <2>2, <2>3, QuietMessages DEF MessageTypes, RunningInv
<1>8. ASSUME tx' = [tx EXCEPT ![c] = Idle], UNCHANGED running
      PROVE  \A d \in Clients : tx'[d] # Idle => tx'[d] = tx[d]
  BY <1>8 DEF TxInv
<1>9. ASSUME tx' = [tx EXCEPT ![c] = Idle], UNCHANGED <<messageVars, running>>
      PROVE  MessageInv'
  <2>1. RequestsInv'
    BY <1>1, <1>8, <1>9 DEF RequestsInv, messageVars, Posted
  <2> QED BY <1>1, <1>9, <2>1, QuietMessages DEF MessageTypes, RunningInv
<1>10. CASE CommitEdit(c)
  <2>1. /\ tx[c] \in EditRequest /\ tx[c].message \in Messages
        /\ Posted(tx[c].message)
    BY <1>1, <1>10, TxKinds DEF CommitEdit, RequestsInv
  <2>2. tx' = [tx EXCEPT ![c] = Idle] /\ UNCHANGED running
    BY <1>10 DEF CommitEdit, Finish
  <2>3. CASE UNCHANGED messageVars
    BY <1>9, <2>2, <2>3
  <2>4. CASE /\ MayChange(tx[c])
             /\ Revise(tx[c].message, "edited", tx[c].actor, tx[c].text, tx[c].text)
             /\ UNCHANGED retracted
    <3>1. /\ tx[c].text \in Contents /\ tx[c].message \notin retracted
          /\ tx[c].actor = message[tx[c].message].sender
      BY <2>1, <2>4 DEF EditRequest, MayChange
    <3> QED BY <1>8, <2>1, <2>2, <2>4, <3>1, ReviseStep
  <2> QED BY <1>10, <2>3, <2>4 DEF CommitEdit
<1>11. CASE CommitRetract(c)
  <2>1. tx[c].message \in Messages /\ Posted(tx[c].message)
    BY <1>1, <1>11 DEF CommitRetract, RequestsInv
  <2>2. tx' = [tx EXCEPT ![c] = Idle] /\ UNCHANGED running
    BY <1>11 DEF CommitRetract, Finish
  <2>3. CASE UNCHANGED messageVars
    BY <1>9, <2>2, <2>3
  <2>4. CASE /\ MayChange(tx[c])
             /\ Revise(tx[c].message, "retracted", tx[c].actor,
                       content[tx[c].message], "")
             /\ retracted' = retracted \cup {tx[c].message}
    <3>1. /\ tx[c].message \notin retracted
          /\ tx[c].actor = message[tx[c].message].sender
      BY <2>4 DEF MayChange
    <3> QED BY <1>8, <2>1, <2>2, <2>4, <3>1, ReviseStep
  <2> QED BY <1>11, <2>3, <2>4 DEF CommitRetract
<1> QED BY <1>2, <1>3, <1>4, <1>5, <1>6, <1>7, <1>10, <1>11 DEF MessageStep

LEMMA OtherMessages ==
  ASSUME TxInv, MessageInv, NEW c \in Clients, LifecycleStep(c) \/ MemberStep(c)
  PROVE  MessageInv'
<1>1. MessageTypes /\ RunningInv /\ RequestsInv
  BY DEF MessageInv
<1>2. ASSUME UNCHANGED <<messageVars, running>>,
             \A d \in Clients :
               tx'[d] = tx[d] \/ tx'[d] = Idle \/ tx'[d].op \notin AboutMessage
      PROVE  MessageInv'
  <2>1. RequestsInv'
    BY <1>1, <1>2 DEF RequestsInv, messageVars, Posted
  <2> QED BY <1>1, <1>2, <2>1, QuietMessages DEF MessageTypes, RunningInv
<1> USE DEF TxInv, AboutMessage
<1>3. CASE \/ \E r \in GroupRooms : CreateRoom(c, r)
           \/ \E r \in DirectRooms : CreateDirect(c, r)
  BY <1>2, <1>3 DEF CreateRoom, CreateDirect
<1>4. ASSUME NEW q, tx' = [tx EXCEPT ![c] = q], q = Idle \/ q.op \notin AboutMessage,
             UNCHANGED <<messageVars, running>>
      PROVE  MessageInv'
  BY <1>2, <1>4
<1>5. ASSUME NEW r \in Rooms, NEW to \in {"active", "archived"}, BeginStatus(c, r, to)
      PROVE  MessageInv'
  BY <1>4, <1>5 DEF BeginStatus, Start
<1>6. CASE CheckStatus(c)
  <2>1. CASE tx' = [tx EXCEPT ![c].op = "update"]
    <3>1. tx' = [tx EXCEPT ![c] = [tx[c] EXCEPT !.op = "update"]]
      BY <2>1
    <3>2. [tx[c] EXCEPT !.op = "update"].op = "update"
      BY <1>6, TxKinds DEF CheckStatus, StatusRequest
    <3> QED BY <1>4, <1>6, <3>1, <3>2 DEF CheckStatus
  <2>2. CASE Finish(c)
    BY <1>4, <1>6, <2>2 DEF CheckStatus, Finish
  <2> QED BY <1>6, <2>1, <2>2 DEF CheckStatus
<1>7. CASE CommitStatus(c) \/ CommitList(c) \/ CommitAdd(c) \/ CommitRemove(c)
  BY <1>4, <1>7 DEF CommitStatus, CommitList, CommitAdd, CommitRemove, Finish
<1>8. ASSUME NEW r \in Rooms, NEW p \in Humans, NEW a \in Lists, BeginList(c, r, p, a)
      PROVE  MessageInv'
  BY <1>4, <1>8 DEF BeginList, Start
<1>9. ASSUME NEW r \in Rooms, NEW p \in People, BeginAdd(c, r, p) \/ BeginRemove(c, r, p)
      PROVE  MessageInv'
  BY <1>4, <1>9 DEF BeginAdd, BeginRemove, Start
<1> QED BY <1>3, <1>5, <1>6, <1>7, <1>8, <1>9 DEF LifecycleStep, MemberStep

LEMMA MessageNext ==
  TxInv /\ MessageInv /\ [Next]_vars => MessageInv'
<1> SUFFICES ASSUME TxInv, MessageInv, [Next]_vars PROVE MessageInv'
  OBVIOUS
<1>1. MessageTypes /\ RunningInv /\ RequestsInv
  BY DEF MessageInv
<1>2. CASE UNCHANGED vars
  <2>1. UNCHANGED messageVars /\ running' = running /\ tx' = tx
    BY <1>2 DEF vars, messageVars
  <2>2. RequestsInv'
    BY <1>1, <2>1 DEF messageVars, RequestsInv, Posted
  <2> QED BY <1>1, <2>1, <2>2, QuietMessages DEF MessageTypes, RunningInv
<1>3. CASE Boot
  <2>1. RequestsInv'
    BY <1>3 DEF Boot, RequestsInv
  <2> QED BY <1>1, <1>3, <2>1, QuietMessages DEF Boot, MessageTypes, RunningInv
<1>4. ASSUME NEW x \in running, EndRun(x) PROVE MessageInv'
  <2>1. /\ x[1] \in Messages /\ x[2] \in Agents /\ Posted(x[1])
        /\ running' \subseteq running /\ tx' = tx
    BY <1>1, <1>4 DEF EndRun, MessageTypes, RunningInv
  <2>2. ASSUME NEW m \in Messages, NEW t \in Contents, ~Posted(m),
               Insert(m, [room |-> message[x[1]].room, sender |-> x[2],
                          key |-> NoKey, text |-> t, reply |-> NoMessage,
                          mentions |-> {}])
        PROVE  MessageInv'
    <3>1. message[x[1]].room \in Rooms
      BY <1>1, <2>1 DEF MessageTypes, Posted, Row
    <3>2. [room |-> message[x[1]].room, sender |-> x[2], key |-> NoKey,
           text |-> t, reply |-> NoMessage, mentions |-> {}] \in Row
      BY <2>1, <3>1 DEF Row, People
    <3> QED BY <2>1, <2>2, <3>2, InsertStep
  <2>3. CASE UNCHANGED messageVars
    <3>1. RequestsInv'
      BY <1>1, <2>1, <2>3 DEF messageVars, RequestsInv, Posted
    <3>2. /\ running' \subseteq Messages \X Agents
          /\ \A y \in running' : Posted(y[1])
      BY <1>1, <2>1 DEF MessageTypes, RunningInv
    <3> QED BY <2>3, <3>1, <3>2, QuietMessages
  <2> QED BY <1>4, <2>2, <2>3 DEF EndRun
<1> QED BY <1>2, <1>3, <1>4, MessageSteps, OtherMessages DEF Next

-----------------------------------------------------------------------------
(* What has been answered stays true.                                      *)

\* A key names one message, and only one request at a time may post with it.
Posting(c) == tx[c] # Idle /\ tx[c].op = "post"
OneKeyInv ==
  \A m, n \in Messages :
    /\ Posted(m) /\ Posted(n) /\ message[m].key # NoKey
    /\ message[m].key = message[n].key /\ message[m].room = message[n].room
    => m = n
PostingInv ==
  \A c \in Clients : Posting(c) =>
    /\ tx[c].row.key # NoKey
    /\ \A m \in Messages : Posted(m) =>
         ~(message[m].room = tx[c].row.room /\ message[m].key = tx[c].row.key)
    /\ \A d \in Clients \ {c} : Posting(d) =>
         ~(tx[d].row.room = tx[c].row.room /\ tx[d].row.key = tx[c].row.key)
PostAckInv ==
  \A x \in acks \cap PostAck :
    /\ Posted(x.message) /\ message[x.message].key = x.key
    /\ message[x.message].room = x.room
ChangeAckInv ==
  \A x \in acks \cap ChangeAck :
    /\ Posted(x.revised) /\ x.number \in 1 .. Number(x.revised)
    /\ history[x.revised][x.number].action = x.action
    /\ x.action = "edited" => history[x.revised][x.number].text = x.text
AckInv ==
  acks \subseteq Ack /\ OneKeyInv /\ PostingInv /\ PostAckInv /\ ChangeAckInv

LEMMA AckInit == Init => AckInv
BY DEF Init, AckInv, OneKeyInv, PostingInv, PostAckInv, ChangeAckInv, Posted, Posting

LEMMA AckKinds ==
  /\ \A x \in PostAck : DOMAIN x = {"room", "key", "message"}
  /\ \A x \in ChangeAck : DOMAIN x = {"revised", "number", "action", "text"}
BY DEF PostAck, ChangeAck

LEMMA AckAnswers == AckInv => AnswersStand
<1> SUFFICES ASSUME AckInv PROVE AnswersStand
  OBVIOUS
<1>1. KeyNamesOneMessage
  <2> SUFFICES ASSUME NEW x \in acks, NEW y \in acks,
                      {"key"} \subseteq DOMAIN x \cap DOMAIN y,
                      x.room = y.room, x.key = y.key
               PROVE  x.message = y.message
    BY DEF KeyNamesOneMessage
  <2>1. x \in PostAck /\ y \in PostAck
    BY AckKinds DEF AckInv, Ack
  <2>2. /\ x.message \in Messages /\ y.message \in Messages /\ x.key \in Keys
    BY <2>1 DEF PostAck
  <2> QED BY <2>1, <2>2, RoomsAssumption DEF AckInv, OneKeyInv, PostAckInv
<1>2. ConfirmedChangesStand
  <2> SUFFICES ASSUME NEW x \in acks, "revised" \in DOMAIN x
               PROVE  /\ x.number \in 1 .. Number(x.revised)
                      /\ history[x.revised][x.number].action = x.action
                      /\ x.action = "edited" =>
                           history[x.revised][x.number].text = x.text
    BY DEF ConfirmedChangesStand
  <2>1. x \in ChangeAck
    BY AckKinds DEF AckInv, Ack
  <2> QED BY <2>1 DEF AckInv, ChangeAckInv
<1> QED BY <1>1, <1>2 DEF AnswersStand

\* Steps that store no message and give no answer: nobody new is posting.
LEMMA QuietAcks ==
  ASSUME AckInv, UNCHANGED <<messageVars, acks>>,
         \A c \in Clients : Posting(c)' => Posting(c) /\ tx'[c] = tx[c]
  PROVE  AckInv'
<1> USE DEF messageVars, AckInv
<1>1. OneKeyInv'
  BY DEF OneKeyInv, Posted
<1>2. PostingInv'
  BY DEF PostingInv, Posted, Posting
<1>3. PostAckInv'
  BY DEF PostAckInv, Posted
<1>4. ChangeAckInv'
  BY DEF ChangeAckInv, Posted, Number
<1> QED BY <1>1, <1>2, <1>3, <1>4

\* A new message that nobody posts under the same key, with its answer.
LEMMA InsertAcks ==
  ASSUME MessageInv, AckInv, NEW m \in Messages, NEW row \in Row, ~Posted(m),
         Insert(m, row),
         \/ row.key = NoKey
         \/ \A n \in Messages : Posted(n) =>
              ~(message[n].room = row.room /\ message[n].key = row.key),
         \A c \in Clients : Posting(c)' =>
           /\ Posting(c) /\ tx'[c] = tx[c]
           /\ ~(row.room = tx[c].row.room /\ row.key = tx[c].row.key),
         \/ UNCHANGED acks
         \/ /\ row.key \in Keys
            /\ acks' = acks \cup
                 {[room |-> row.room, key |-> row.key, message |-> m]}
  PROVE  AckInv'
<1>1. MessageTypes /\ acks \subseteq Ack
  BY DEF MessageInv, AckInv
<1>2. /\ message'[m] = row /\ Posted(m)'
      /\ \A n \in Messages \ {m} :
           message'[n] = message[n] /\ history'[n] = history[n]
      /\ \A n \in Messages \ {m} : Posted(n)' <=> Posted(n)
  BY <1>1, NoMessageAssumption DEF Insert, MessageTypes, Posted
<1>3. OneKeyInv'
  <2> SUFFICES ASSUME NEW a \in Messages, NEW b \in Messages, Posted(a)', Posted(b)',
                      message'[a].key # NoKey,
                      message'[a].key = message'[b].key,
                      message'[a].room = message'[b].room
               PROVE  a = b
    BY DEF OneKeyInv
  <2>1. CASE a # m /\ b # m
    BY <1>2, <2>1 DEF AckInv, OneKeyInv
  <2>2. CASE a = m \/ b = m
    BY <1>2, <2>2
  <2> QED BY <2>1, <2>2
<1>4. PostingInv'
  <2> SUFFICES ASSUME NEW c \in Clients, Posting(c)'
               PROVE  /\ tx'[c].row.key # NoKey
                      /\ \A n \in Messages : Posted(n)' =>
                           ~(/\ message'[n].room = tx'[c].row.room
                             /\ message'[n].key = tx'[c].row.key)
                      /\ \A d \in Clients \ {c} : Posting(d)' =>
                           ~(/\ tx'[d].row.room = tx'[c].row.room
                             /\ tx'[d].row.key = tx'[c].row.key)
    BY DEF PostingInv
  <2>1. /\ Posting(c) /\ tx'[c] = tx[c]
        /\ ~(row.room = tx[c].row.room /\ row.key = tx[c].row.key)
    OBVIOUS
  <2>2. \A d \in Clients : Posting(d)' => Posting(d) /\ tx'[d] = tx[d]
    OBVIOUS
  <2> QED BY <1>2, <2>1, <2>2 DEF AckInv, PostingInv
<1>5. \A x \in Ack :
        x = [room |-> row.room, key |-> row.key, message |-> m] => x \notin ChangeAck
  BY AckKinds
<1>6. acks' \subseteq Ack
  BY <1>1 DEF Ack, PostAck, Row
<1>7. PostAckInv'
  <2> SUFFICES ASSUME NEW x \in acks' \cap PostAck
               PROVE  /\ message'[x.message] # NoMessage
                      /\ message'[x.message].key = x.key
                      /\ message'[x.message].room = x.room
    BY DEF PostAckInv, Posted
  <2>1. CASE x \in acks
    <3>1. /\ x.message \in Messages /\ Posted(x.message)
          /\ message[x.message].key = x.key /\ message[x.message].room = x.room
      BY <2>1 DEF AckInv, PostAckInv, PostAck
    <3>2. x.message # m
      BY <3>1
    <3> QED BY <1>2, <3>1, <3>2 DEF Posted
  <2>2. CASE x = [room |-> row.room, key |-> row.key, message |-> m]
    BY <1>2, <2>2 DEF Posted
  <2> QED BY <2>1, <2>2
<1>8. ChangeAckInv'
  <2> SUFFICES ASSUME NEW x \in acks' \cap ChangeAck
               PROVE  /\ message'[x.revised] # NoMessage
                      /\ x.number \in 1 .. Len(history'[x.revised])
                      /\ history'[x.revised][x.number].action = x.action
                      /\ x.action = "edited" =>
                           history'[x.revised][x.number].text = x.text
    BY DEF ChangeAckInv, Posted, Number
  <2>1. x \in acks
    BY AckKinds
  <2>2. /\ x.revised \in Messages /\ Posted(x.revised)
        /\ x.number \in 1 .. Len(history[x.revised])
        /\ history[x.revised][x.number].action = x.action
        /\ x.action = "edited" => history[x.revised][x.number].text = x.text
    BY <2>1 DEF AckInv, ChangeAckInv, ChangeAck, Number
  <2>3. x.revised # m
    BY <2>2
  <2> QED BY <1>2, <2>2, <2>3 DEF Posted
<1> QED BY <1>3, <1>4, <1>6, <1>7, <1>8 DEF AckInv

\* A confirmed revision, new or repeated, is in the history under its number.
LEMMA ChangeAcks ==
  ASSUME MessageInv, AckInv, NEW m \in Messages, Posted(m), message' = message,
         NEW n \in Nat, NEW action \in {"edited", "retracted"},
         NEW text \in Contents \cup {""},
         acks' = acks \cup {[revised |-> m, number |-> n, action |-> action,
                            text |-> text]},
         \A k \in Messages : Number(k) \in Nat /\ Number(k)' \in Nat
           /\ Number(k)' >= Number(k)
           /\ \A i \in 1 .. Number(k) : history'[k][i] = history[k][i],
         n \in 1 .. Number(m)', history'[m][n].action = action,
         action = "edited" => history'[m][n].text = text,
         \A c \in Clients : Posting(c)' => Posting(c) /\ tx'[c] = tx[c]
  PROVE  AckInv'
<1>1. PICK new : new = [revised |-> m, number |-> n, action |-> action,
                        text |-> text]
  OBVIOUS
<1>2. /\ new \in ChangeAck /\ new.revised = m /\ new.number = n
      /\ new.action = action /\ new.text = text
  BY <1>1 DEF ChangeAck
<1>3. acks' = acks \cup {new}
  BY <1>1
<1>4. acks' \subseteq Ack
  BY <1>2, <1>3 DEF AckInv, Ack
<1>5. OneKeyInv'
  BY DEF AckInv, OneKeyInv, Posted
<1>6. PostingInv'
  <2> SUFFICES ASSUME NEW c \in Clients, Posting(c)'
               PROVE  /\ tx'[c].row.key # NoKey
                      /\ \A k \in Messages : Posted(k) =>
                           ~(/\ message[k].room = tx'[c].row.room
                             /\ message[k].key = tx'[c].row.key)
                      /\ \A d \in Clients \ {c} : Posting(d)' =>
                           ~(/\ tx'[d].row.room = tx'[c].row.room
                             /\ tx'[d].row.key = tx'[c].row.key)
    BY DEF PostingInv, Posted
  <2>1. /\ Posting(c) /\ tx'[c] = tx[c]
        /\ \A d \in Clients : Posting(d)' => Posting(d) /\ tx'[d] = tx[d]
    OBVIOUS
  <2>2. /\ tx[c].row.key # NoKey
        /\ \A k \in Messages : Posted(k) =>
             ~(message[k].room = tx[c].row.room /\ message[k].key = tx[c].row.key)
        /\ \A d \in Clients \ {c} : Posting(d) =>
             ~(tx[d].row.room = tx[c].row.room /\ tx[d].row.key = tx[c].row.key)
    BY <2>1, Zenon DEF AckInv, PostingInv
  <2> QED BY <2>1, <2>2
<1>7. PostAckInv'
  <2>1. new \notin PostAck
    BY <1>2, AckKinds
  <2> QED BY <1>3, <2>1 DEF AckInv, PostAckInv, Posted
<1>8. ChangeAckInv'
  <2> SUFFICES ASSUME NEW x \in acks' \cap ChangeAck
               PROVE  /\ Posted(x.revised) /\ x.number \in 1 .. Number(x.revised)'
                      /\ history'[x.revised][x.number].action = x.action
                      /\ x.action = "edited" =>
                           history'[x.revised][x.number].text = x.text
    BY DEF ChangeAckInv, Posted, Number
  <2>1. CASE x \in acks
    <3>1. /\ x.revised \in Messages /\ Posted(x.revised)
          /\ x.number \in 1 .. Number(x.revised)
          /\ history[x.revised][x.number].action = x.action
          /\ x.action = "edited" => history[x.revised][x.number].text = x.text
      BY <2>1 DEF AckInv, ChangeAckInv, ChangeAck
    <3>2. /\ Number(x.revised) \in Nat /\ Number(x.revised)' \in Nat
          /\ Number(x.revised)' >= Number(x.revised)
          /\ history'[x.revised][x.number] = history[x.revised][x.number]
      BY <3>1
    <3>3. x.number \in 1 .. Number(x.revised)'
      BY <3>1, <3>2, LongerIndices, Zenon
    <3> QED BY <3>1, <3>2, <3>3, Zenon
  <2>2. CASE x = new
    <3>1. Posted(m) /\ n \in 1 .. Number(m)'
      OBVIOUS
    <3>2. /\ history'[m][n].action = action
          /\ action = "edited" => history'[m][n].text = text
      OBVIOUS
    <3> QED BY <1>2, <2>2, <3>1, <3>2
  <2> QED BY <1>3, <2>1, <2>2
<1> QED BY <1>4, <1>5, <1>6, <1>7, <1>8 DEF AckInv

\* Whatever a change does, it keeps every history up to where it was.
LEMMA HistoriesGrow ==
  ASSUME MessageTypes, NEW m \in Messages, NEW r,
         history' = [history EXCEPT ![m] = Append(@, r)], r \in Revision
  PROVE  /\ \A k \in Messages : Number(k) \in Nat /\ Number(k)' \in Nat
             /\ Number(k)' >= Number(k)
             /\ \A i \in 1 .. Number(k) : history'[k][i] = history[k][i]
         /\ Number(m)' = Number(m) + 1
         /\ history'[m][Number(m) + 1] = r
<1>1. ASSUME NEW k \in Messages, k # m
      PROVE  history'[k] = history[k] /\ Len(history[k]) \in Nat
  <2>1. history[k] \in Seq(Revision) /\ history'[k] = history[k]
    BY <1>1, Zenon DEF MessageTypes
  <2> QED BY <2>1
<1>2. history[m] \in Seq(Revision) /\ history'[m] = Append(history[m], r)
  BY DEF MessageTypes
<1>3. Longer(Revision, history[m], r)
  BY <1>2, LongerHistory, Zenon
<1>4. /\ Len(history[m]) \in Nat /\ Len(history'[m]) = Len(history[m]) + 1
      /\ history'[m][Len(history[m]) + 1] = r
      /\ \A i \in 1 .. Len(history[m]) : history'[m][i] = history[m][i]
  BY <1>2, <1>3, Zenon DEF Longer
<1> QED BY <1>1, <1>4 DEF Number

LEMMA MessageAcks ==
  ASSUME TxInv, MessageInv, AckInv, NEW c \in Clients, MessageStep(c)
  PROVE  AckInv'
<1> USE DEF Posting
<1>1. MessageTypes /\ RequestsInv /\ \A m \in Messages : Posted(m) => Tells(m)
  BY TellsAll DEF MessageInv
<1>2. ASSUME NEW row \in Rows, RepeatPost(c, row) PROVE AckInv'
  <2>1. PICK m \in Keyed(row.room, row.key) :
          acks' = acks \cup {[room |-> row.room, key |-> row.key, message |-> m]}
    BY <1>2 DEF RepeatPost
  <2>2. /\ m \in Messages /\ Posted(m) /\ message[m].room = row.room
        /\ message[m].key = row.key /\ row.room \in Rooms /\ row.key \in Keys
    BY <2>1 DEF Keyed, InRoom, Rows
  <2>3. UNCHANGED <<messageVars, tx>>
    BY <1>2 DEF RepeatPost
  <2>4. PICK new : new = [room |-> row.room, key |-> row.key, message |-> m]
    OBVIOUS
  <2>5. /\ new \in PostAck /\ new.room = row.room /\ new.key = row.key
        /\ new.message = m /\ acks' = acks \cup {new}
    BY <2>1, <2>2, <2>4 DEF PostAck
  <2>6. acks' \subseteq Ack
    BY <2>5 DEF AckInv, Ack
  <2>7. OneKeyInv' /\ PostingInv'
    BY <2>3 DEF AckInv, OneKeyInv, PostingInv, Posted, messageVars
  <2>8. PostAckInv'
    BY <2>2, <2>3, <2>5 DEF AckInv, PostAckInv, Posted, messageVars
  <2>9. ChangeAckInv'
    <3>1. new \notin ChangeAck
      BY <2>5, AckKinds
    <3> QED BY <2>3, <2>5, <3>1 DEF AckInv, ChangeAckInv, Posted, Number, messageVars
  <2> QED BY <2>6, <2>7, <2>8, <2>9 DEF AckInv
<1>3. ASSUME NEW row \in Rows, BeginPost(c, row) PROVE AckInv'
  <2>1. PICK q : /\ q = [op |-> "post", row |-> row]
                 /\ tx' = [tx EXCEPT ![c] = q]
    BY <1>3 DEF BeginPost, Start
  <2>2. /\ q.row = row /\ UNCHANGED <<messageVars, acks>>
        /\ row.room \in Rooms /\ row.key \in Keys /\ tx[c] = Idle
    BY <1>3, <2>1 DEF BeginPost, Start, Rows
  <2>3. \A m \in Messages : Posted(m) =>
          ~(message[m].room = row.room /\ message[m].key = row.key)
    BY <1>3 DEF BeginPost, Fresh, Keyed, InRoom
  <2>4. \A d \in Clients : Posting(d) =>
          ~(tx[d].row.room = row.room /\ tx[d].row.key = row.key)
    BY <1>3 DEF BeginPost, KeyFree, InProgress
  <2>5. tx'[c].row = row /\ \A d \in Clients \ {c} : tx'[d] = tx[d]
    BY <2>1, <2>2 DEF TxInv
  <2>6. row.key # NoKey
    BY <2>2, RoomsAssumption
  <2>7. PostingInv'
    BY <2>2, <2>3, <2>4, <2>5, <2>6 DEF AckInv, PostingInv, Posted, messageVars
  <2>8. OneKeyInv' /\ PostAckInv' /\ ChangeAckInv'
    BY <2>2 DEF AckInv, OneKeyInv, PostAckInv, ChangeAckInv, Posted, Number,
                messageVars
  <2> QED BY <2>2, <2>7, <2>8 DEF AckInv
<1>4. ASSUME NEW m \in Messages, CommitPost(c, m) PROVE AckInv'
  <2>1. PICK row : row = tx[c].row
    OBVIOUS
  <2>2. /\ row \in Row /\ ~Posted(m) /\ Insert(m, row) /\ Posting(c)
        /\ tx' = [tx EXCEPT ![c] = [op |-> "route", message |-> m]]
        /\ acks' = acks \cup {[room |-> row.room, key |-> row.key, message |-> m]}
    BY <1>4, <2>1, TxKinds DEF CommitPost, PostRequest
  <2>3. row.key \in Keys
    BY <2>1, <2>2 DEF AckInv, PostingInv, Row
  <2>4. /\ tx'[c].op = "route"
        /\ \A d \in Clients \ {c} : tx'[d] = tx[d]
    BY <2>2 DEF TxInv
  <2>5. \A d \in Clients : Posting(d)' => d # c /\ Posting(d) /\ tx'[d] = tx[d]
    BY <2>4
  <2>6. \A n \in Messages : Posted(n) =>
          ~(message[n].room = row.room /\ message[n].key = row.key)
    BY <2>1, <2>2 DEF AckInv, PostingInv
  <2>7. \A d \in Clients \ {c} : Posting(d) =>
          ~(row.room = tx[d].row.room /\ row.key = tx[d].row.key)
    BY <2>1, <2>2 DEF AckInv, PostingInv
  <2> HIDE DEF Posting
  <2> QED BY <2>2, <2>3, <2>5, <2>6, <2>7, InsertAcks
<1>5. ASSUME UNCHANGED <<messageVars, acks>>,
             \A d \in Clients : tx'[d] # Idle =>
               tx'[d] = tx[d] \/ tx'[d].op \in {"edit", "retract"}
      PROVE  AckInv'
  BY <1>5, QuietAcks
<1>6. CASE Route(c)
  BY <1>5, <1>6 DEF Route, Finish, TxInv
<1>7. ASSUME NEW m \in Messages, NEW p \in Humans, NEW t \in Contents,
             NEW n \in 1 .. MaxRevision, BeginEdit(c, m, p, t, n)
      PROVE  AckInv'
  <2>1. PICK q : q.op = "edit" /\ tx' = [tx EXCEPT ![c] = q]
    BY <1>7 DEF BeginEdit, Start
  <2> QED BY <1>5, <1>7, <2>1 DEF BeginEdit, TxInv
<1>8. ASSUME NEW m \in Messages, NEW p \in Humans, NEW n \in 1 .. MaxRevision,
             BeginRetract(c, m, p, n)
      PROVE  AckInv'
  <2>1. PICK q : q.op = "retract" /\ tx' = [tx EXCEPT ![c] = q]
    BY <1>8 DEF BeginRetract, Start
  <2> QED BY <1>5, <1>8, <2>1 DEF BeginRetract, TxInv
<1>9. ASSUME NEW m \in Messages, Posted(m),
             UNCHANGED messageVars, tx' = [tx EXCEPT ![c] = Idle],
             NEW action \in {"edited", "retracted"}, NEW text \in Contents \cup {""},
             NEW n \in Nat \ {0}, Number(m) = n + 1,
             history[m][n + 1].action = action,
             action = "edited" => history[m][n + 1].text = text,
             acks' = acks \cup {Changed(m, n, action, text)}
      PROVE  AckInv'
  <2>1. \A k \in Messages : /\ Number(k) \in Nat /\ Number(k)' = Number(k)
                             /\ history'[k] = history[k]
    <3> SUFFICES ASSUME NEW k \in Messages
                 PROVE  /\ Number(k) \in Nat /\ Number(k)' = Number(k)
                        /\ history'[k] = history[k]
      OBVIOUS
    <3>1. history' = history /\ history[k] \in Seq(Revision)
      BY <1>1, <1>9, Zenon DEF messageVars, MessageTypes
    <3>2. Len(history[k]) \in Nat
      BY <3>1, LengthIsNat, Zenon
    <3> QED BY <3>1, <3>2, Zenon DEF Number
  <2>2. \A d \in Clients : Posting(d)' => Posting(d) /\ tx'[d] = tx[d]
    BY <1>9 DEF TxInv
  <2>3. \A k \in Messages : Number(k) \in Nat /\ Number(k)' \in Nat
          /\ Number(k)' >= Number(k)
          /\ \A i \in 1 .. Number(k) : history'[k][i] = history[k][i]
    BY <2>1, NotLess, Zenon
  <2>4. PICK last : last = n + 1
    OBVIOUS
  <2>5. /\ last \in Nat /\ last \in 1 .. Number(m)' /\ message' = message
        /\ history'[m][last].action = action
        /\ action = "edited" => history'[m][last].text = text
    <3>1. Number(m)' = last /\ history'[m] = history[m] /\ message' = message
      BY <1>9, <2>1, <2>4 DEF messageVars
    <3>2. last \in Nat /\ last \in 1 .. last
      BY <2>4, LastIndex
    <3> QED BY <1>9, <2>4, <3>1, <3>2
  <2>6. acks' = acks \cup {[revised |-> m, number |-> last, action |-> action,
                           text |-> text]}
    BY <1>9, <2>4 DEF Changed
  <2> HIDE DEF Posting
  <2> QED BY <1>9, <2>2, <2>3, <2>5, <2>6, ChangeAcks
<1>10. ASSUME NEW m \in Messages, Posted(m), NEW p, NEW kept, NEW shown,
              NEW action \in {"edited", "retracted"}, NEW text \in Contents \cup {""},
              Revise(m, action, p, kept, shown), tx' = [tx EXCEPT ![c] = Idle],
              p = message[m].sender, kept \in Contents \cup {""},
              action = "edited" => kept = text,
              acks' = acks \cup {Changed(m, Number(m), action, text)}
      PROVE  AckInv'
  <2>1. PICK r : r = [action |-> action, actor |-> p, text |-> kept]
    OBVIOUS
  <2>2. p \in People
    BY <1>1, <1>10 DEF MessageTypes, Posted, Row
  <2>3. r \in Revision /\ r.action = action /\ r.text = kept
    BY <1>10, <2>1, <2>2 DEF Revision
  <2>4. history' = [history EXCEPT ![m] = Append(@, r)] /\ message' = message
    BY <1>10, <2>1 DEF Revise
  <2>5. /\ \A k \in Messages : Number(k) \in Nat /\ Number(k)' \in Nat
             /\ Number(k)' >= Number(k)
             /\ \A i \in 1 .. Number(k) : history'[k][i] = history[k][i]
        /\ Number(m)' = Number(m) + 1
        /\ history'[m][Number(m) + 1] = r
    BY <1>1, <2>3, <2>4, HistoriesGrow
  <2>6. \A d \in Clients : Posting(d)' => Posting(d) /\ tx'[d] = tx[d]
    BY <1>10 DEF TxInv
  <2>7. PICK n \in Nat : n = Number(m) + 1 /\ n \in 1 .. Number(m)'
    <3>1. Number(m) + 1 \in Nat /\ Number(m) + 1 \in 1 .. (Number(m) + 1)
      BY <2>5, LastIndex, Zenon
    <3> QED BY <2>5, <3>1, Zenon
  <2>8. acks' = acks \cup {[revised |-> m, number |-> n, action |-> action,
                           text |-> text]}
    BY <1>10, <2>7 DEF Changed
  <2>9. history'[m][n].action = action /\ (action = "edited" => history'[m][n].text = text)
    BY <1>10, <2>3, <2>5, <2>7
  <2> HIDE DEF Posting
  <2> QED BY <1>10, <2>4, <2>5, <2>6, <2>7, <2>8, <2>9, ChangeAcks
<1>11. CASE CommitEdit(c)
  <2>1. PICK q : q = tx[c]
    OBVIOUS
  <2>2. /\ q \in EditRequest /\ q.message \in Messages /\ q.text \in Contents
        /\ q.expected \in Nat \ {0} /\ Posted(q.message)
        /\ tx' = [tx EXCEPT ![c] = Idle]
    BY <1>1, <1>11, <2>1, TxKinds DEF CommitEdit, EditRequest, RequestsInv, Finish,
       AboutMessage
  <2>3. CASE /\ EditAgain(q) /\ UNCHANGED messageVars
             /\ acks' = acks \cup {Changed(q.message, q.expected, "edited", q.text)}
    <3>1. /\ Number(q.message) = q.expected + 1 /\ q.message \notin retracted
          /\ content[q.message] = q.text
      BY <2>3 DEF EditAgain
    <3>2. history[q.message] \in Seq(Revision) /\ Tells(q.message)
      BY <1>1, <2>2 DEF MessageTypes
    <3>3. history[q.message][q.expected + 1] \in Revision
      BY <2>2, <3>1, <3>2 DEF Number
    <3>4. /\ history[q.message][q.expected + 1].action = "edited"
          /\ history[q.message][q.expected + 1].text = q.text
      <4>1. /\ q.expected + 1 \in 1 .. (q.expected + 1)
            /\ q.expected + 1 \in 2 .. (q.expected + 1)
        BY <2>2, LastIndex
      <4>2. /\ history[q.message][q.expected + 1].action # "created"
            /\ history[q.message][q.expected + 1].action # "retracted"
            /\ content[q.message] = history[q.message][q.expected + 1].text
        BY <3>1, <3>2, <4>1 DEF Tells
      <4> QED BY <3>1, <3>3, <4>2 DEF Revision
    <3> QED BY <1>9, <2>2, <2>3, <3>1, <3>4
  <2>4. CASE /\ MayChange(q) /\ Revise(q.message, "edited", q.actor, q.text, q.text)
             /\ acks' = acks \cup {Changed(q.message, q.expected, "edited", q.text)}
    <3>1. q.actor = message[q.message].sender /\ Number(q.message) = q.expected
      BY <2>4 DEF MayChange
    <3> QED BY <1>10, <2>2, <2>4, <3>1
  <2>5. CASE UNCHANGED <<messageVars, acks>>
    BY <1>5, <2>2, <2>5 DEF TxInv
  <2> QED BY <1>11, <2>1, <2>3, <2>4, <2>5 DEF CommitEdit
<1>12. CASE CommitRetract(c)
  <2>1. PICK q : q = tx[c]
    OBVIOUS
  <2>2. /\ q.message \in Messages /\ q.expected \in Nat \ {0} /\ Posted(q.message)
        /\ tx' = [tx EXCEPT ![c] = Idle]
    BY <1>1, <1>12, <2>1, TxKinds DEF CommitRetract, RetractRequest, RequestsInv,
       Finish, AboutMessage
  <2>3. CASE /\ RetractAgain(q) /\ UNCHANGED messageVars
             /\ acks' = acks \cup {Changed(q.message, q.expected, "retracted", "")}
    <3>1. Number(q.message) = q.expected + 1 /\ q.message \in retracted
      BY <2>3 DEF RetractAgain
    <3>2. history[q.message][q.expected + 1].action = "retracted"
      BY <1>1, <2>2, <3>1 DEF Tells
    <3> QED BY <1>9, <2>2, <2>3, <3>1, <3>2
  <2>4. CASE /\ MayChange(q)
             /\ Revise(q.message, "retracted", q.actor, content[q.message], "")
             /\ acks' = acks \cup {Changed(q.message, q.expected, "retracted", "")}
    <3>1. /\ q.actor = message[q.message].sender /\ Number(q.message) = q.expected
          /\ content[q.message] \in Contents \cup {""}
      BY <1>1, <2>2, <2>4 DEF MayChange, MessageTypes
    <3> QED BY <1>10, <2>2, <2>4, <3>1
  <2>5. CASE UNCHANGED <<messageVars, acks>>
    BY <1>5, <2>2, <2>5 DEF TxInv
  <2> QED BY <1>12, <2>1, <2>3, <2>4, <2>5 DEF CommitRetract
<1> QED BY <1>2, <1>3, <1>4, <1>6, <1>7, <1>8, <1>11, <1>12 DEF MessageStep

LEMMA OtherAcks ==
  ASSUME TxInv, AckInv, NEW c \in Clients, LifecycleStep(c) \/ MemberStep(c)
  PROVE  AckInv'
<1> USE DEF Posting, TxInv
<1>1. ASSUME NEW q, tx' = [tx EXCEPT ![c] = q], q = Idle \/ q.op # "post",
             UNCHANGED <<messageVars, acks>>
      PROVE  AckInv'
  BY <1>1, QuietAcks
<1>2. CASE \/ \E r \in GroupRooms : CreateRoom(c, r)
           \/ \E r \in DirectRooms : CreateDirect(c, r)
  BY <1>2, QuietAcks DEF CreateRoom, CreateDirect
<1>3. ASSUME NEW r \in Rooms, NEW to \in {"active", "archived"}, BeginStatus(c, r, to)
      PROVE  AckInv'
  BY <1>1, <1>3 DEF BeginStatus, Start
<1>4. CASE CheckStatus(c)
  <2>1. CASE tx' = [tx EXCEPT ![c].op = "update"]
    <3>1. tx' = [tx EXCEPT ![c] = [tx[c] EXCEPT !.op = "update"]]
      BY <2>1
    <3>2. [tx[c] EXCEPT !.op = "update"].op = "update"
      BY <1>4, TxKinds DEF CheckStatus, StatusRequest
    <3> QED BY <1>1, <1>4, <3>1, <3>2 DEF CheckStatus
  <2>2. CASE Finish(c)
    BY <1>1, <1>4, <2>2 DEF CheckStatus, Finish
  <2> QED BY <1>4, <2>1, <2>2 DEF CheckStatus
<1>5. CASE CommitStatus(c) \/ CommitList(c) \/ CommitAdd(c) \/ CommitRemove(c)
  BY <1>1, <1>5 DEF CommitStatus, CommitList, CommitAdd, CommitRemove, Finish
<1>6. ASSUME NEW r \in Rooms, NEW p \in Humans, NEW a \in Lists, BeginList(c, r, p, a)
      PROVE  AckInv'
  BY <1>1, <1>6 DEF BeginList, Start
<1>7. ASSUME NEW r \in Rooms, NEW p \in People, BeginAdd(c, r, p) \/ BeginRemove(c, r, p)
      PROVE  AckInv'
  BY <1>1, <1>7 DEF BeginAdd, BeginRemove, Start
<1> QED BY <1>2, <1>3, <1>4, <1>5, <1>6, <1>7 DEF LifecycleStep, MemberStep

LEMMA AckNext ==
  TxInv /\ MessageInv /\ AckInv /\ [Next]_vars => AckInv'
<1> SUFFICES ASSUME TxInv, MessageInv, AckInv, [Next]_vars PROVE AckInv'
  OBVIOUS
<1>1. CASE UNCHANGED vars
  <2>1. UNCHANGED <<messageVars, acks>> /\ tx' = tx
    BY <1>1 DEF vars, messageVars
  <2> QED BY <2>1, QuietAcks DEF Posting
<1>2. CASE Boot
  BY <1>2, QuietAcks DEF Boot, Posting
<1>3. ASSUME NEW x \in running, EndRun(x) PROVE AckInv'
  <2>1. /\ x[1] \in Messages /\ x[2] \in Agents /\ Posted(x[1])
        /\ tx' = tx /\ acks' = acks
    BY <1>3 DEF EndRun, MessageInv, MessageTypes, RunningInv
  <2>2. \A d \in Clients : Posting(d)' => Posting(d) /\ tx'[d] = tx[d]
    BY <2>1 DEF Posting
  <2>3. ASSUME NEW m \in Messages, NEW t \in Contents, ~Posted(m), NEW row,
               row = [room |-> message[x[1]].room, sender |-> x[2],
                      key |-> NoKey, text |-> t, reply |-> NoMessage,
                      mentions |-> {}],
               Insert(m, row)
        PROVE  AckInv'
    <3>1. message[x[1]].room \in Rooms
      BY <2>1 DEF MessageInv, MessageTypes, Posted, Row
    <3>2. row \in Row /\ row.key = NoKey
      BY <2>1, <2>3, <3>1 DEF Row, People
    <3>3. \A d \in Clients : Posting(d) => tx[d].row.key # NoKey
      BY DEF AckInv, PostingInv
    <3> QED BY <2>1, <2>2, <2>3, <3>2, <3>3, InsertAcks
  <2>4. CASE UNCHANGED messageVars
    BY <2>1, <2>2, <2>4, QuietAcks
  <2> QED BY <1>3, <2>3, <2>4 DEF EndRun
<1> QED BY <1>1, <1>2, <1>3, MessageAcks, OtherAcks DEF Next

-----------------------------------------------------------------------------
(* What was posted is never rewritten.                                     *)

\* What PastStands says of one message.
Stands(m) ==
  /\ message'[m] = message[m]
  /\ Number(m)' >= Number(m)
  /\ \A i \in 1 .. Number(m) : history'[m][i] = history[m][i]
  /\ m \in retracted =>
       m \in retracted' /\ history'[m] = history[m] /\ content'[m] = content[m]

LEMMA QuietStands ==
  ASSUME MessageTypes, NEW m \in Messages, message'[m] = message[m],
         history'[m] = history[m], content'[m] = content[m],
         retracted \subseteq retracted'
  PROVE  Stands(m)
<1>1. Number(m)' = Number(m) /\ Number(m) \in Nat
  <2>1. history[m] \in Seq(Revision)
    BY DEF MessageTypes
  <2> QED BY <2>1 DEF Number
<1> QED BY <1>1, NotLess DEF Stands

\* An insertion touches no message there is.
LEMMA InsertStands ==
  ASSUME MessageTypes, NEW n \in Messages, NEW row, ~Posted(n), Insert(n, row),
         NEW m \in Messages, Posted(m)
  PROVE  Stands(m)
<1>1. /\ message'[m] = message[m] /\ history'[m] = history[m]
      /\ content'[m] = content[m] /\ retracted' = retracted
  <2>1. m # n
    OBVIOUS
  <2> QED BY <2>1, Zenon DEF Insert, MessageTypes
<1> QED BY <1>1, QuietStands

\* A revision is added to a message that is not retracted.
LEMMA ReviseStands ==
  ASSUME MessageTypes, NEW n \in Messages, Posted(n), n \notin retracted,
         NEW action \in {"edited", "retracted"}, NEW kept \in Contents \cup {""},
         NEW shown, Revise(n, action, message[n].sender, kept, shown),
         retracted \subseteq retracted', NEW m \in Messages
  PROVE  Stands(m)
<1>1. PICK r : r = [action |-> action, actor |-> message[n].sender, text |-> kept]
  OBVIOUS
<1>2. message[n].sender \in People
  BY DEF MessageTypes, Posted, Row
<1>3. r \in Revision
  BY <1>1, <1>2 DEF Revision
<1>4. /\ message' = message /\ history' = [history EXCEPT ![n] = Append(@, r)]
      /\ content' = [content EXCEPT ![n] = shown]
  BY <1>1 DEF Revise
<1>5. /\ Number(m)' >= Number(m)
      /\ \A i \in 1 .. Number(m) : history'[m][i] = history[m][i]
  BY <1>3, <1>4, HistoriesGrow
<1>6. m # n => history'[m] = history[m] /\ content'[m] = content[m]
  BY <1>4, Zenon DEF MessageTypes
<1> QED BY <1>4, <1>5, <1>6 DEF Stands

LEMMA PastStep ==
  ASSUME TxInv, MessageInv, [Next]_vars, NEW m \in Messages, Posted(m)
  PROVE  Stands(m)
<1>1. MessageTypes /\ RequestsInv
  BY DEF MessageInv
<1>2. CASE UNCHANGED messageVars
  BY <1>1, <1>2, QuietStands DEF messageVars
<1>3. CASE UNCHANGED vars \/ Boot
  BY <1>2, <1>3 DEF vars, messageVars, Boot
<1>4. ASSUME NEW x \in running, EndRun(x) PROVE Stands(m)
  BY <1>1, <1>2, <1>4, InsertStands DEF EndRun
<1>5. ASSUME NEW c \in Clients, LifecycleStep(c) \/ MemberStep(c) PROVE Stands(m)
  BY <1>2, <1>5 DEF LifecycleStep, MemberStep, CreateRoom, CreateDirect,
     BeginStatus, CheckStatus, CommitStatus, BeginList, CommitList, BeginAdd,
     CommitAdd, BeginRemove, CommitRemove
<1>6. ASSUME NEW c \in Clients, MessageStep(c) PROVE Stands(m)
  <2>1. CASE \E n \in Messages : CommitPost(c, n)
    BY <1>1, <2>1, InsertStands DEF CommitPost
  <2>2. CASE CommitEdit(c)
    <3>1. /\ tx[c] \in EditRequest /\ tx[c].message \in Messages
          /\ Posted(tx[c].message)
      BY <1>1, <2>2, TxKinds DEF CommitEdit, RequestsInv, AboutMessage
    <3>2. CASE /\ MayChange(tx[c])
               /\ Revise(tx[c].message, "edited", tx[c].actor, tx[c].text, tx[c].text)
               /\ UNCHANGED retracted
      <4>1. /\ tx[c].text \in Contents /\ tx[c].message \notin retracted
            /\ tx[c].actor = message[tx[c].message].sender
        BY <3>1, <3>2 DEF EditRequest, MayChange
      <4> QED BY <1>1, <3>1, <3>2, <4>1, ReviseStands
    <3> QED BY <1>2, <2>2, <3>2 DEF CommitEdit
  <2>3. CASE CommitRetract(c)
    <3>1. tx[c].message \in Messages /\ Posted(tx[c].message)
      BY <1>1, <2>3 DEF CommitRetract, RequestsInv, AboutMessage
    <3>2. CASE /\ MayChange(tx[c])
               /\ Revise(tx[c].message, "retracted", tx[c].actor,
                         content[tx[c].message], "")
               /\ retracted' = retracted \cup {tx[c].message}
      <4>1. /\ tx[c].message \notin retracted
            /\ tx[c].actor = message[tx[c].message].sender
            /\ content[tx[c].message] \in Contents \cup {""}
        BY <1>1, <3>1, <3>2 DEF MayChange, MessageTypes
      <4> QED BY <1>1, <3>1, <3>2, <4>1, ReviseStands
    <3> QED BY <1>2, <2>3, <3>2 DEF CommitRetract
  <2>4. CASE \/ \E row \in Rows : RepeatPost(c, row) \/ BeginPost(c, row)
             \/ \E n \in Messages, p \in Humans, t \in Contents,
                   k \in 1 .. MaxRevision : BeginEdit(c, n, p, t, k)
             \/ \E n \in Messages, p \in Humans, k \in 1 .. MaxRevision :
                  BeginRetract(c, n, p, k)
             \/ Route(c)
    BY <1>2, <2>4 DEF RepeatPost, BeginPost, BeginEdit, BeginRetract, Route
  <2> QED BY <1>6, <2>1, <2>2, <2>3, <2>4 DEF MessageStep
<1> QED BY <1>3, <1>4, <1>5, <1>6 DEF Next

-----------------------------------------------------------------------------
(* Rooms, members and lists keep their types.                              *)

RoomTypes ==
  /\ status \in [Rooms -> RoomStatus] /\ order \in Seq(Rooms)
  /\ member \in [Rooms -> SUBSET People] /\ former \in [Rooms -> SUBSET People]
  /\ hidden \in [Rooms -> [Humans -> (SUBSET Messages) \cup {Shown}]]
  /\ requests \in 0 .. MaxRequests /\ boots \in 0 .. MaxBoots

\* What a list or member request in progress is.
LEMMA MemberKinds ==
  ASSUME TxInv, NEW c \in Clients, tx[c] # Idle
  PROVE  /\ tx[c].op = "list" => tx[c] \in ListRequest
         /\ tx[c].op \in {"add", "remove"} => tx[c] \in MemberRequest
<1>1. tx[c] \in Request
  BY DEF TxInv
<1> QED BY <1>1 DEF Request, StatusRequest, ListRequest, MemberRequest,
          PostRequest, RouteRequest, EditRequest, RetractRequest

\* What joining does to the members.
LEMMA JoinTypes ==
  ASSUME RoomTypes, NEW r \in Rooms, NEW ps \in SUBSET People, Join(r, ps)
  PROVE  /\ member' \in [Rooms -> SUBSET People] /\ former' \in [Rooms -> SUBSET People]
         /\ ps \subseteq member'[r] /\ \A s \in Rooms : member[s] \subseteq member'[s]
BY DEF Join, RoomTypes

\* The members a room starts with are people, and so is a direct room's pair.
LEMMA FirstMembers ==
  /\ {Owner} \cup Seeds \in SUBSET People
  /\ \A r \in DirectRooms : PairOf(r) \in SUBSET People
BY RoomsAssumption DEF People, PairOf

\* A request is counted, or not.
LEMMA Counted ==
  ASSUME RoomTypes,
         \/ requests' = requests
         \/ requests < MaxRequests /\ requests' = requests + 1
  PROVE  requests' \in 0 .. MaxRequests
BY RoomsAssumption DEF RoomTypes

LEMMA RoomTypesInit == Init => RoomTypes
<1> SUFFICES ASSUME Init PROVE RoomTypes
  OBVIOUS
<1>1. <<>> \in Seq(Rooms)
  OBVIOUS
<1>2. requests \in 0 .. MaxRequests /\ boots \in 0 .. MaxBoots
  <2>1. requests = 0 /\ boots = 0
    BY DEF Init
  <2>2. MaxRequests \in Nat /\ MaxBoots \in Nat
    BY RoomsAssumption
  <2> QED BY <2>1, <2>2
<1>3. /\ status \in [Rooms -> RoomStatus]
      /\ member \in [Rooms -> SUBSET People] /\ former \in [Rooms -> SUBSET People]
      /\ hidden \in [Rooms -> [Humans -> (SUBSET Messages) \cup {Shown}]]
  BY DEF Init, RoomStatus
<1> QED BY <1>1, <1>2, <1>3 DEF Init, RoomTypes

\* Steps that leave rooms, members and lists alone.
LEMMA QuietRooms ==
  ASSUME RoomTypes, UNCHANGED <<roomVars, hidden, boots>>,
         \/ requests' = requests
         \/ requests < MaxRequests /\ requests' = requests + 1
  PROVE  RoomTypes'
BY Counted DEF RoomTypes, roomVars

LEMMA BootRooms ==
  ASSUME RoomTypes, Boot
  PROVE  RoomTypes' /\ \A r \in Rooms : Exists(r)' =>
           \/ Exists(r) /\ member[r] \subseteq member'[r]
           \/ r = FirstRoom /\ Owner \in member'[r]
<1>1. boots' \in 0 .. MaxBoots /\ UNCHANGED <<hidden, requests>>
  BY RoomsAssumption DEF Boot, RoomTypes
<1>2. ASSUME NEW i \in DOMAIN order, Join(order[i], {Owner} \cup Seeds),
             UNCHANGED <<status, order>>
      PROVE  RoomTypes' /\ \A r \in Rooms : Exists(r)' =>
               Exists(r) /\ member[r] \subseteq member'[r]
  <2>1. order[i] \in Rooms
    BY <1>2 DEF RoomTypes
  <2> QED BY <1>1, <1>2, <2>1, FirstMembers, JoinTypes DEF RoomTypes, Exists
<1>3. ASSUME status' = [status EXCEPT ![FirstRoom] = "active"],
             order' = Append(order, FirstRoom), Join(FirstRoom, {Owner} \cup Seeds)
      PROVE  RoomTypes' /\ \A r \in Rooms : Exists(r)' =>
               \/ Exists(r) /\ member[r] \subseteq member'[r]
               \/ r = FirstRoom /\ Owner \in member'[r]
  <2>1. FirstRoom \in Rooms
    BY RoomsAssumption DEF Rooms
  <2>2. status' \in [Rooms -> RoomStatus] /\ order' \in Seq(Rooms)
    BY <1>3, <2>1 DEF RoomTypes, RoomStatus
  <2> QED BY <1>1, <1>3, <2>1, <2>2, FirstMembers, JoinTypes DEF RoomTypes, Exists
<1> QED BY <1>2, <1>3 DEF Boot

\* The room a request makes has its owner, or its pair, as members.
LEMMA CreateRooms ==
  ASSUME RoomTypes, NEW r \in Rooms, NEW ps \in SUBSET People,
         requests < MaxRequests, requests' = requests + 1, boots' = boots,
         status' = [status EXCEPT ![r] = "active"],
         order' = order \/ order' = Append(order, r),
         hidden' \in [Rooms -> [Humans -> (SUBSET Messages) \cup {Shown}]],
         Join(r, ps)
  PROVE  RoomTypes' /\ \A s \in Rooms : Exists(s)' =>
           \/ Exists(s) /\ member[s] \subseteq member'[s]
           \/ s = r /\ ps \subseteq member'[s]
<1>1. order' \in Seq(Rooms)
  <2>1. order \in Seq(Rooms)
    BY DEF RoomTypes
  <2>2. Append(order, r) \in Seq(Rooms)
    BY <2>1
  <2> QED BY <2>1, <2>2
<1>2. /\ status' \in [Rooms -> RoomStatus]
      /\ \A s \in Rooms : s # r => status'[s] = status[s]
  BY DEF RoomTypes, RoomStatus
<1>3. requests' \in 0 .. MaxRequests
  BY Counted
<1>4. RoomTypes'
  BY <1>1, <1>2, <1>3, JoinTypes DEF RoomTypes
<1> QED BY <1>2, <1>4, JoinTypes DEF Exists

\* A change of status is of a room there is, and a removal of somebody else
\* than the owner, in a room that is not direct.
PairRequests ==
  \A c \in Clients : tx[c] # Idle =>
    /\ tx[c].op \in {"status", "update"} => Exists(tx[c].room)
    /\ tx[c].op = "remove" =>
         tx[c].room \notin DirectRooms /\ tx[c].who # OwnerOf(tx[c].room)

\* What a step does to the members of the rooms there are: it takes away nobody
\* but the one a removal is for, and a new room has its pair, or its owner.
StayIn(r, s) == OwnerOf(r) \in s /\ (r \in DirectRooms => Agent[r] \in s)
Removing(c) == tx[c] # Idle /\ tx[c].op = "remove"
MembersKept ==
  \A r \in Rooms : Exists(r)' =>
    \/ Exists(r) /\ member[r] \subseteq member'[r]
    \/ StayIn(r, member'[r])
    \/ \E c \in Clients : /\ Exists(r) /\ Removing(c) /\ tx[c].room = r
                          /\ member'[r] = member[r] \ {tx[c].who}

LEMMA QuietMembers ==
  ASSUME RoomTypes, UNCHANGED member, \A r \in Rooms : Exists(r)' => Exists(r)
  PROVE  MembersKept
BY DEF MembersKept

LEMMA LifecycleRooms ==
  ASSUME TxInv, RoomTypes, PairRequests, NEW c \in Clients, LifecycleStep(c)
  PROVE  RoomTypes' /\ MembersKept
<1>1. ASSUME NEW r \in GroupRooms, CreateRoom(c, r) PROVE RoomTypes' /\ MembersKept
  <2>1. r \in Rooms /\ r \notin DirectRooms
    BY RoomsAssumption DEF Rooms
  <2>2. /\ requests < MaxRequests /\ requests' = requests + 1 /\ boots' = boots
        /\ status' = [status EXCEPT ![r] = "active"] /\ order' = Append(order, r)
        /\ hidden' = hidden /\ Join(r, {Owner} \cup Seeds)
    BY <1>1 DEF CreateRoom
  <2>3. hidden' \in [Rooms -> [Humans -> (SUBSET Messages) \cup {Shown}]]
    BY <2>2 DEF RoomTypes
  <2>4. RoomTypes' /\ \A s \in Rooms : Exists(s)' =>
          \/ Exists(s) /\ member[s] \subseteq member'[s]
          \/ s = r /\ {Owner} \cup Seeds \subseteq member'[s]
    BY <2>1, <2>2, <2>3, FirstMembers, CreateRooms
  <2> QED BY <2>1, <2>4 DEF MembersKept, StayIn, OwnerOf
<1>2. ASSUME NEW r \in DirectRooms, CreateDirect(c, r) PROVE RoomTypes' /\ MembersKept
  <2>1. r \in Rooms
    BY DEF Rooms
  <2>2. /\ requests < MaxRequests /\ requests' = requests + 1 /\ boots' = boots
        /\ status' = [status EXCEPT ![r] = "active"]
        /\ order' = order \/ order' = Append(order, r)
        /\ hidden' = [hidden EXCEPT ![r][Human[r]] = Shown] /\ Join(r, PairOf(r))
    BY <1>2 DEF CreateDirect
  <2>3. hidden' \in [Rooms -> [Humans -> (SUBSET Messages) \cup {Shown}]]
    BY <2>1, <2>2, RoomsAssumption DEF RoomTypes
  <2>4. RoomTypes' /\ \A s \in Rooms : Exists(s)' =>
          \/ Exists(s) /\ member[s] \subseteq member'[s]
          \/ s = r /\ PairOf(r) \subseteq member'[s]
    BY <2>1, <2>2, <2>3, FirstMembers, CreateRooms
  <2> QED BY <2>4 DEF MembersKept, StayIn, OwnerOf, PairOf
<1>3. CASE \/ \E r \in Rooms, to \in {"active", "archived"} : BeginStatus(c, r, to)
           \/ \E r \in Rooms, p \in Humans, a \in Lists : BeginList(c, r, p, a)
           \/ CheckStatus(c)
  <2>1. /\ UNCHANGED <<roomVars, hidden, boots>>
        /\ \/ requests' = requests
           \/ requests < MaxRequests /\ requests' = requests + 1
    BY <1>3 DEF BeginStatus, BeginList, CheckStatus, Start, Finish
  <2> QED BY <2>1, QuietRooms, QuietMembers DEF roomVars, Exists
<1>4. CASE CommitStatus(c)
  <2>1. /\ status' = [status EXCEPT ![tx[c].room] = tx[c].to]
        /\ UNCHANGED <<order, member, former, hidden, requests, boots>>
    BY <1>4 DEF CommitStatus, Finish
  <2>2. tx[c].room \in Rooms /\ tx[c].to \in {"active", "archived"}
    BY <1>4, TxKinds DEF CommitStatus, StatusRequest
  <2>3. status' \in [Rooms -> RoomStatus]
    BY <2>1, <2>2 DEF RoomTypes, RoomStatus
  <2>4. Exists(tx[c].room)
    BY <1>4 DEF CommitStatus, PairRequests
  <2>5. \A r \in Rooms : Exists(r)' => Exists(r)
    BY <2>1, <2>2, <2>4 DEF RoomTypes, Exists
  <2>6. MembersKept
    BY <2>1, <2>5, QuietMembers
  <2> QED BY <2>1, <2>3, <2>6 DEF RoomTypes
<1>5. CASE CommitList(c)
  <2> DEFINE r == tx[c].room
             p == tx[c].who
             Mine == [Humans -> (SUBSET Messages) \cup {Shown}]
             Hidden == [Rooms -> Mine]
  <2>1. tx[c] \in ListRequest
    BY <1>5, MemberKinds DEF CommitList
  <2>2. r \in Rooms /\ p \in Humans /\ InRoom(r) \in SUBSET Messages
    BY <2>1 DEF ListRequest, InRoom
  <2>3. hidden' \in {[hidden EXCEPT ![r][p] = InRoom(r)],
                     [hidden EXCEPT ![r][p] = Shown], hidden}
    BY <1>5, <2>1 DEF CommitList, ListRequest
  <2>4. hidden \in Hidden /\ hidden[r] \in Mine
    BY <2>2 DEF RoomTypes
  <2>5. ASSUME NEW v \in (SUBSET Messages) \cup {Shown}
        PROVE  [hidden EXCEPT ![r][p] = v] \in Hidden
    <3>1. [hidden[r] EXCEPT ![p] = v] \in Mine
      BY <2>4
    <3>2. [hidden EXCEPT ![r] = [hidden[r] EXCEPT ![p] = v]] \in Hidden
      BY <2>4, <3>1
    <3> QED BY <3>2
  <2>6. hidden' \in Hidden
    <3>1. CASE hidden' = [hidden EXCEPT ![r][p] = InRoom(r)]
      BY <2>2, <2>5, <3>1
    <3>2. CASE hidden' = [hidden EXCEPT ![r][p] = Shown]
      BY <2>5, <3>2
    <3> QED BY <2>3, <2>4, <3>1, <3>2
  <2>7. UNCHANGED <<roomVars, requests, boots>>
    BY <1>5 DEF CommitList, Finish
  <2> QED BY <2>6, <2>7, QuietMembers DEF RoomTypes, roomVars, Exists
<1> QED BY <1>1, <1>2, <1>3, <1>4, <1>5 DEF LifecycleStep

LEMMA MemberRooms ==
  ASSUME TxInv, RoomTypes, NEW c \in Clients, MemberStep(c)
  PROVE  RoomTypes' /\ MembersKept
<1>1. CASE \E r \in Rooms, p \in People : BeginAdd(c, r, p) \/ BeginRemove(c, r, p)
  <2>1. /\ UNCHANGED <<roomVars, hidden, boots>>
        /\ requests < MaxRequests /\ requests' = requests + 1
    BY <1>1 DEF BeginAdd, BeginRemove, Start
  <2> QED BY <2>1, QuietRooms, QuietMembers DEF roomVars, Exists
<1>2. CASE CommitAdd(c)
  <2>1. tx[c].room \in Rooms /\ {tx[c].who} \in SUBSET People
    BY <1>2, MemberKinds DEF CommitAdd, MemberRequest
  <2>2. UNCHANGED <<status, order, hidden, requests, boots>>
    BY <1>2 DEF CommitAdd, Finish
  <2>3. /\ member' \in [Rooms -> SUBSET People] /\ former' \in [Rooms -> SUBSET People]
        /\ \A s \in Rooms : member[s] \subseteq member'[s]
    <3>1. CASE Join(tx[c].room, {tx[c].who})
      BY <2>1, <3>1, JoinTypes
    <3>2. CASE UNCHANGED <<member, former>>
      BY <3>2 DEF RoomTypes
    <3> QED BY <1>2, <3>1, <3>2 DEF CommitAdd
  <2> QED BY <2>2, <2>3 DEF RoomTypes, MembersKept, Exists
<1>3. CASE CommitRemove(c)
  <2>1. tx[c].room \in Rooms /\ tx[c].who \in People
    BY <1>3, MemberKinds DEF CommitRemove, MemberRequest
  <2>2. /\ UNCHANGED <<status, order, hidden, requests, boots>>
        /\ member' = [member EXCEPT ![tx[c].room] = @ \ {tx[c].who}]
        /\ former' = [former EXCEPT ![tx[c].room] = @ \cup {tx[c].who}]
    BY <1>3 DEF CommitRemove, Finish
  <2>3. RoomTypes'
    BY <2>1, <2>2 DEF RoomTypes
  <2>4. /\ Removing(c)
        /\ member'[tx[c].room] = member[tx[c].room] \ {tx[c].who}
        /\ \A r \in Rooms : r # tx[c].room => member'[r] = member[r]
        /\ \A r \in Rooms : Exists(r)' => Exists(r)
    BY <1>3, <2>1, <2>2 DEF RoomTypes, CommitRemove, Removing, Exists
  <2>5. MembersKept
    BY <2>4 DEF MembersKept
  <2> QED BY <2>3, <2>5
<1> QED BY <1>1, <1>2, <1>3 DEF MemberStep

LEMMA MessageRooms ==
  ASSUME RoomTypes, NEW c \in Clients, MessageStep(c)
  PROVE  RoomTypes' /\ MembersKept
<1>1. /\ UNCHANGED <<roomVars, hidden, boots>>
      /\ \/ requests' = requests
         \/ requests < MaxRequests /\ requests' = requests + 1
  BY DEF MessageStep, RepeatPost, BeginPost, CommitPost, Route, BeginEdit,
     CommitEdit, BeginRetract, CommitRetract, Start, Finish
<1> QED BY <1>1, QuietRooms, QuietMembers DEF roomVars, Exists

LEMMA RoomsStep ==
  TxInv /\ RoomTypes /\ PairRequests /\ [Next]_vars => RoomTypes' /\ MembersKept
<1> SUFFICES ASSUME TxInv, RoomTypes, PairRequests, [Next]_vars
             PROVE  RoomTypes' /\ MembersKept
  OBVIOUS
<1>1. CASE Boot
  BY <1>1, BootRooms, RoomsAssumption DEF MembersKept, StayIn, OwnerOf
<1>2. CASE UNCHANGED vars \/ \E x \in running : EndRun(x)
  <2>1. UNCHANGED <<roomVars, hidden, boots, requests>>
    BY <1>2 DEF vars, roomVars, EndRun
  <2> QED BY <2>1, QuietRooms, QuietMembers DEF roomVars, Exists
<1>3. CASE \E c \in Clients : LifecycleStep(c) \/ MemberStep(c) \/ MessageStep(c)
  BY <1>3, LifecycleRooms, MemberRooms, MessageRooms
<1> QED BY <1>1, <1>2, <1>3 DEF Next

-----------------------------------------------------------------------------
(* The owner, and both sides of a direct room, remain members.             *)

\* No step takes a room away.
LEMMA RoomsRemain ==
  ASSUME TxInv, RoomTypes, PairRequests, [Next]_vars, NEW r \in Rooms, Exists(r)
  PROVE  Exists(r)'
<1>1. CASE UNCHANGED status
  BY <1>1 DEF Exists
<1>2. ASSUME NEW s \in Rooms, status' = [status EXCEPT ![s] = "active"]
      PROVE  Exists(r)'
  BY <1>2 DEF RoomTypes, Exists
<1>3. ASSUME NEW c \in Clients, CommitStatus(c) PROVE Exists(r)'
  <2>1. tx[c].room \in Rooms /\ tx[c].to \in {"active", "archived"}
    BY <1>3, TxKinds DEF CommitStatus, StatusRequest
  <2> QED BY <1>3, <2>1 DEF CommitStatus, RoomTypes, Exists
<1>4. CASE Boot
  <2>1. FirstRoom \in Rooms
    BY RoomsAssumption DEF Rooms
  <2> QED BY <1>1, <1>2, <1>4, <2>1 DEF Boot
<1>5. ASSUME NEW c \in Clients, LifecycleStep(c) PROVE Exists(r)'
  <2>1. CASE \/ \E s \in GroupRooms : CreateRoom(c, s)
             \/ \E s \in DirectRooms : CreateDirect(c, s)
    BY <1>2, <2>1 DEF CreateRoom, CreateDirect, Rooms
  <2>2. CASE \/ \E s \in Rooms, to \in {"active", "archived"} : BeginStatus(c, s, to)
             \/ \E s \in Rooms, p \in Humans, a \in Lists : BeginList(c, s, p, a)
             \/ CheckStatus(c) \/ CommitList(c)
    BY <1>1, <2>2 DEF BeginStatus, BeginList, CheckStatus, CommitList, roomVars
  <2> QED BY <1>3, <1>5, <2>1, <2>2 DEF LifecycleStep
<1>6. ASSUME NEW c \in Clients, MemberStep(c) \/ MessageStep(c) PROVE Exists(r)'
  BY <1>1, <1>6 DEF MemberStep, BeginAdd, CommitAdd, BeginRemove, CommitRemove,
     MessageStep, RepeatPost, BeginPost, CommitPost, Route, BeginEdit, CommitEdit,
     BeginRetract, CommitRetract, roomVars
<1>7. CASE UNCHANGED vars \/ \E x \in running : EndRun(x)
  BY <1>1, <1>7 DEF vars, EndRun, roomVars
<1> QED BY <1>4, <1>5, <1>6, <1>7 DEF Next

\* A request that begins, or passes its check, is such a request too.
LEMMA PairRequestsStep ==
  TxInv /\ RoomTypes /\ PairRequests /\ [Next]_vars => PairRequests'
<1> SUFFICES ASSUME TxInv, RoomTypes, PairRequests, [Next]_vars,
                    NEW d \in Clients, tx'[d] # Idle
             PROVE  /\ tx'[d].op \in {"status", "update"} =>
                         status'[tx'[d].room] # "absent"
                    /\ tx'[d].op = "remove" =>
                         tx'[d].room \notin DirectRooms
                           /\ tx'[d].who # OwnerOf(tx'[d].room)
  BY DEF PairRequests, OwnerOf, Exists
<1> DEFINE Fine(q) == /\ q.op \in {"status", "update"} =>
                           q.room \in Rooms /\ Exists(q.room)
                      /\ q.op = "remove" =>
                           q.room \notin DirectRooms /\ q.who # OwnerOf(q.room)
<1>1. \A c \in Clients : tx[c] # Idle => Fine(tx[c])
  BY TxKinds DEF PairRequests, StatusRequest
<1>2. ASSUME NEW c \in Clients, NEW q, tx' = [tx EXCEPT ![c] = q],
             q = Idle \/ Fine(q)
      PROVE  Fine(tx'[d])
  <2>1. tx'[d] = IF d = c THEN q ELSE tx[d]
    BY <1>2 DEF TxInv
  <2> QED BY <1>1, <1>2, <2>1
<1>3. Fine(tx'[d])
  <2>1. CASE UNCHANGED tx
    BY <1>1, <2>1
  <2>2. ASSUME NEW c \in Clients, LifecycleStep(c) PROVE Fine(tx'[d])
    <3>1. CASE \/ \E s \in GroupRooms : CreateRoom(c, s)
               \/ \E s \in DirectRooms : CreateDirect(c, s)
      BY <2>1, <3>1 DEF CreateRoom, CreateDirect
    <3>2. ASSUME NEW s \in Rooms, NEW to \in {"active", "archived"}, BeginStatus(c, s, to)
          PROVE  Fine(tx'[d])
      <4> DEFINE q == [op |-> "status", room |-> s, to |-> to]
      <4>1. Fine(q) /\ tx' = [tx EXCEPT ![c] = q]
        BY <3>2 DEF BeginStatus, Start, Manages
      <4> QED BY <1>2, <4>1
    <3>3. ASSUME NEW s \in Rooms, NEW p \in Humans, NEW a \in Lists, BeginList(c, s, p, a)
          PROVE  Fine(tx'[d])
      <4> DEFINE q == [op |-> "list", room |-> s, who |-> p, action |-> a]
      <4>1. Fine(q) /\ tx' = [tx EXCEPT ![c] = q]
        BY <3>3 DEF BeginList, Start
      <4> QED BY <1>2, <4>1
    <3>4. CASE CommitStatus(c) \/ CommitList(c)
      BY <1>2, <3>4 DEF CommitStatus, CommitList, Finish
    <3>5. CASE CheckStatus(c)
      <4>1. CASE Finish(c)
        BY <1>2, <4>1 DEF Finish
      <4>2. CASE tx' = [tx EXCEPT ![c].op = "update"]
        <5>1. tx[c] \in StatusRequest /\ Fine(tx[c]) /\ tx[c].op = "status"
          BY <1>1, <3>5, TxKinds DEF CheckStatus
        <5>2. [tx[c] EXCEPT !.op = "update"].op = "update"
                /\ [tx[c] EXCEPT !.op = "update"].room = tx[c].room
          BY <5>1 DEF StatusRequest
        <5>3. tx' = [tx EXCEPT ![c] = [tx[c] EXCEPT !.op = "update"]]
          BY <4>2
        <5> QED BY <1>2, <5>1, <5>2, <5>3
      <4> QED BY <3>5, <4>1, <4>2 DEF CheckStatus
    <3> QED BY <2>2, <3>1, <3>2, <3>3, <3>4, <3>5 DEF LifecycleStep
  <2>3. ASSUME NEW c \in Clients, MemberStep(c) PROVE Fine(tx'[d])
    <3>1. ASSUME NEW s \in Rooms, NEW p \in People, BeginAdd(c, s, p)
          PROVE  Fine(tx'[d])
      <4> DEFINE q == [op |-> "add", room |-> s, who |-> p]
      <4>1. Fine(q) /\ tx' = [tx EXCEPT ![c] = q]
        BY <3>1 DEF BeginAdd, Start
      <4> QED BY <1>2, <4>1
    <3>2. ASSUME NEW s \in Rooms, NEW p \in People, BeginRemove(c, s, p)
          PROVE  Fine(tx'[d])
      <4> DEFINE q == [op |-> "remove", room |-> s, who |-> p]
      <4>1. Fine(q) /\ tx' = [tx EXCEPT ![c] = q]
        BY <3>2 DEF BeginRemove, Start, MayManageMembers, Removable
      <4> QED BY <1>2, <4>1
    <3>3. CASE CommitAdd(c) \/ CommitRemove(c)
      BY <1>2, <3>3 DEF CommitAdd, CommitRemove, Finish
    <3> QED BY <2>3, <3>1, <3>2, <3>3 DEF MemberStep
  <2>4. ASSUME NEW c \in Clients, MessageStep(c) PROVE Fine(tx'[d])
    <3>1. CASE \E row \in Rows : RepeatPost(c, row)
      BY <2>1, <3>1 DEF RepeatPost
    <3>2. ASSUME NEW row \in Rows, BeginPost(c, row) PROVE Fine(tx'[d])
      <4> DEFINE q == [op |-> "post", row |-> row]
      <4>1. Fine(q) /\ tx' = [tx EXCEPT ![c] = q]
        BY <3>2 DEF BeginPost, Start
      <4> QED BY <1>2, <4>1
    <3>3. ASSUME NEW m \in Messages, CommitPost(c, m) PROVE Fine(tx'[d])
      <4> DEFINE q == [op |-> "route", message |-> m]
      <4>1. Fine(q) /\ tx' = [tx EXCEPT ![c] = q]
        BY <3>3 DEF CommitPost
      <4> QED BY <1>2, <4>1
    <3>4. ASSUME NEW m \in Messages, NEW p \in Humans, NEW t \in Contents,
                 NEW n \in 1 .. MaxRevision, BeginEdit(c, m, p, t, n)
          PROVE  Fine(tx'[d])
      <4> DEFINE q == [op |-> "edit", message |-> m, actor |-> p, text |-> t,
                       expected |-> n, allowed |-> Allowed(m)]
      <4>1. Fine(q) /\ tx' = [tx EXCEPT ![c] = q]
        BY <3>4 DEF BeginEdit, Start
      <4> QED BY <1>2, <4>1
    <3>5. ASSUME NEW m \in Messages, NEW p \in Humans, NEW n \in 1 .. MaxRevision,
                 BeginRetract(c, m, p, n)
          PROVE  Fine(tx'[d])
      <4> DEFINE q == [op |-> "retract", message |-> m, actor |-> p,
                       expected |-> n, allowed |-> Allowed(m)]
      <4>1. Fine(q) /\ tx' = [tx EXCEPT ![c] = q]
        BY <3>5 DEF BeginRetract, Start
      <4> QED BY <1>2, <4>1
    <3>6. CASE Route(c) \/ CommitEdit(c) \/ CommitRetract(c)
      BY <1>2, <3>6 DEF Route, CommitEdit, CommitRetract, Finish
    <3> QED BY <2>4, <3>1, <3>2, <3>3, <3>6, <3>4, <3>5 DEF MessageStep
  <2>5. CASE Boot
    BY <2>5 DEF Boot
  <2>6. CASE UNCHANGED vars \/ \E x \in running : EndRun(x)
    BY <2>1, <2>6 DEF vars, EndRun
  <2> QED BY <2>2, <2>3, <2>4, <2>5, <2>6 DEF Next
<1>4. tx'[d].op \in {"status", "update"} => status'[tx'[d].room] # "absent"
  <2> SUFFICES ASSUME tx'[d].op \in {"status", "update"}
               PROVE  status'[tx'[d].room] # "absent"
    OBVIOUS
  <2>1. PICK s : s = tx'[d].room
    OBVIOUS
  <2>2. s \in Rooms /\ Exists(s)
    BY <1>3, <2>1
  <2>3. status'[s] # "absent"
    BY <2>2, RoomsRemain DEF Exists
  <2> QED BY <2>1, <2>3
<1> QED BY <1>3, <1>4

LEMMA PairsStep ==
  ASSUME RoomTypes, PairRequests, PairStays, MembersKept
  PROVE  PairStays'
<1> SUFFICES ASSUME NEW r \in Rooms, Exists(r)'
             PROVE  StayIn(r, member'[r])
  BY DEF PairStays, StayIn, OwnerOf
<1>1. CASE Exists(r) /\ member[r] \subseteq member'[r]
  BY <1>1 DEF PairStays, StayIn
<1>2. ASSUME NEW c \in Clients, Exists(r), Removing(c), tx[c].room = r,
             member'[r] = member[r] \ {tx[c].who}
      PROVE  StayIn(r, member'[r])
  <2>1. r \notin DirectRooms /\ tx[c].who # OwnerOf(r)
    BY <1>2 DEF PairRequests, Removing
  <2> QED BY <1>2, <2>1 DEF PairStays, StayIn
<1> QED BY <1>1, <1>2 DEF MembersKept

RoomsInv ==
  TxInv /\ MessageInv /\ AckInv /\ RoomTypes /\ PairRequests /\ PairStays

LEMMA RoomsAlways == Spec => [](TxInv /\ MessageInv /\ AckInv /\ RoomTypes /\ PairStays)
<1>1. Init => RoomsInv
  <2> SUFFICES ASSUME Init PROVE RoomsInv
    OBVIOUS
  <2>1. PairRequests /\ PairStays
    BY DEF Init, PairRequests, PairStays, Exists
  <2> QED BY <2>1, TxInit, MessageInit, AckInit, RoomTypesInit DEF RoomsInv
<1>2. RoomsInv /\ [Next]_vars => RoomsInv'
  <2> SUFFICES ASSUME RoomsInv, [Next]_vars PROVE RoomsInv'
    OBVIOUS
  <2>1. TxInv /\ MessageInv /\ AckInv /\ RoomTypes /\ PairRequests /\ PairStays
    BY DEF RoomsInv
  <2>2. TxInv' /\ MessageInv' /\ AckInv' /\ PairRequests'
    BY <2>1, TxStep, MessageNext, AckNext, PairRequestsStep
  <2>3. RoomTypes' /\ MembersKept
    BY <2>1, RoomsStep
  <2>4. PairStays'
    BY <2>1, <2>3, PairsStep
  <2> QED BY <2>2, <2>3, <2>4 DEF RoomsInv
<1>3. RoomsInv => TxInv /\ MessageInv /\ AckInv /\ RoomTypes /\ PairStays
  BY DEF RoomsInv
<1> QED BY <1>1, <1>2, <1>3, PTL DEF Spec

-----------------------------------------------------------------------------
(* The theorems.                                                           *)

\* A workspace with rooms keeps an active one, however many people archive
\* rooms at the same time (setStatus, under the workspace's lifecycle lock).
THEOREM SomeRoomStaysActive ==
  ASSUME IsFiniteSet(Rooms) PROVE Spec => []SomeRoomActive
<1>1. Init => TxInv /\ LifeInv
  BY TxInit, LifeInit
<1>2. TxInv /\ LifeInv /\ [Next]_vars => (TxInv /\ LifeInv)'
  BY TxStep, LifeStep
<1>3. LifeInv => SomeRoomActive
  BY DEF LifeInv
<1> QED BY <1>1, <1>2, <1>3, PTL DEF Spec

\* What a message shows is what its history ends in, whichever requests post,
\* edit and retract at the same time (createMessage, editMessage,
\* retractMessage).
THEOREM MessagesTellTheirHistory == Spec => []HistoryTellsMessage
<1>1. Init => TxInv /\ MessageInv
  BY TxInit, MessageInit
<1>2. TxInv /\ MessageInv /\ [Next]_vars => (TxInv /\ MessageInv)'
  BY TxStep, MessageNext
<1>3. MessageInv => HistoryTellsMessage
  BY DEF MessageInv
<1> QED BY <1>1, <1>2, <1>3, PTL DEF Spec

\* What the server has answered stands: a key names one message, and a change
\* that was confirmed is in the history under its number (createMessage's
\* idempotency, and the expected revision of editMessage and retractMessage).
THEOREM AnswersAreKept == Spec => []AnswersStand
<1>1. Init => TxInv /\ MessageInv /\ AckInv
  BY TxInit, MessageInit, AckInit
<1>2. TxInv /\ MessageInv /\ AckInv /\ [Next]_vars => (TxInv /\ MessageInv /\ AckInv)'
  BY TxStep, MessageNext, AckNext
<1>3. AckInv => AnswersStand
  BY AckAnswers
<1> QED BY <1>1, <1>2, <1>3, PTL DEF Spec

\* Every variable of the rooms has its type, and what is in progress is a
\* request.
THEOREM RoomsTypeCorrect == Spec => []TypeOK
<1>1. TxInv /\ MessageInv /\ AckInv /\ RoomTypes => TypeOK
  BY DEF TxInv, MessageInv, MessageTypes, AckInv, RoomTypes, TypeOK
<1> QED BY <1>1, RoomsAlways, PTL

\* The owner of a room, and both sides of a direct room, remain its members,
\* whatever is archived, removed and created between a removal's checks and its
\* commit (removeMember, createDirect, bootstrap).
THEOREM PairsStay == Spec => []PairStays
BY RoomsAlways, PTL

\* What was posted is never rewritten, whatever else is posted, edited and
\* retracted (room_message_revisions is only inserted into; a retraction is
\* final).
THEOREM PastIsKept == Spec => PastStands
<1>1. (TxInv /\ MessageInv) /\ [Next]_vars =>
        [\A m \in Messages : Posted(m) =>
           /\ message[m]' = message[m]
           /\ Number(m)' >= Number(m)
           /\ \A i \in 1 .. Number(m) : history[m][i]' = history[m][i]
           /\ m \in retracted =>
                /\ m \in retracted'
                /\ history[m]' = history[m] /\ content[m]' = content[m]]_vars
  BY PastStep DEF Stands
<1>2. Spec => [](TxInv /\ MessageInv)
  BY RoomsAlways, PTL
<1> QED BY <1>1, <1>2, PTL DEF Spec, PastStands
=============================================================================
