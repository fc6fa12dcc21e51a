------------------------------- MODULE Rooms --------------------------------
(***************************************************************************)
(* The rooms of one workspace: their lifecycle, their members, what each   *)
(* person hides from the list, and the messages people post, edit and      *)
(* retract.  Requests of several clients run at the same time, each in a   *)
(* READ COMMITTED transaction: a Begin action is what the transaction      *)
(* reads and checks, the Commit action of the same name what it locks,     *)
(* checks again and writes.  A client may send any request again.          *)
(***************************************************************************)
EXTENDS Integers, Sequences, FiniteSets

CONSTANTS
  GroupRooms,    \* rooms named by the idempotency key that creates them
  DirectRooms,   \* rooms named by the pair they are for
  Humans, Agents,
  Owner,         \* the person who owns the workspace
  Seeds,         \* the in-process Agents every start of the server provides
  Human, Agent,  \* the pair of each direct room
  Policy,        \* listener policy of each Agent where it is a member
  FirstRoom,     \* the room the first start creates
  Clients, Messages, Keys, Contents,
  Senders,       \* principals that post messages
  Lists, Posts,  \* bounds: list actions and mention sets that requests use
  MaxRevision,   \* bound: revisions of a message
  MaxRequests,   \* bound: requests begun
  MaxBoots,      \* bound: starts of the server
  NoMessage, NoKey, Idle, Shown

Rooms == GroupRooms \cup DirectRooms
People == Humans \cup Agents

ASSUME RoomsAssumption ==
  /\ GroupRooms \cap DirectRooms = {} /\ FirstRoom \in GroupRooms
  /\ Humans \cap Agents = {} /\ Owner \in Humans /\ Seeds \subseteq Agents
  /\ Human \in [DirectRooms -> Humans] /\ Agent \in [DirectRooms -> Agents]
  /\ Policy \in [Agents -> {"always", "mention_only", "muted"}]
  /\ Lists \subseteq {"pin", "unpin", "hide", "show"}
  /\ Posts \subseteq SUBSET People /\ Senders \subseteq People
  /\ MaxRevision \in Nat /\ MaxRequests \in Nat /\ MaxBoots \in Nat
  /\ NoMessage \notin Messages /\ NoKey \notin Keys

VARIABLES
  status,        \* rooms.status ("absent": no such row)
  order,         \* rooms in the order of created_at
  member,        \* principals whose room_members.status is active
  former,        \* principals whose room_members.status is removed
  hidden,        \* hidden_at: what the room held when it was hidden, or Shown
  message,       \* the columns of room_messages that never change
  history,       \* room_message_revisions of each message
  content,       \* room_messages.content
  retracted,     \* messages whose retracted_at is set
  running,       \* <<message, agent>>: an active run the message triggered
  tx,            \* what each client's request has checked and not committed
  acks,          \* answers given so far; only properties read it
  requests, boots

roomVars == <<status, order, member, former>>
messageVars == <<message, history, content, retracted>>
vars == <<status, order, member, former, hidden, message, history, content,
          retracted, running, tx, acks, requests, boots>>

-----------------------------------------------------------------------------
(* Rows.                                                                   *)

RoomStatus == {"absent", "active", "archived"}
Row == [room : Rooms, sender : People, key : Keys \cup {NoKey},
        text : Contents, reply : Messages \cup {NoMessage},
        mentions : SUBSET People]
Revision == [action : {"created", "edited", "retracted"}, actor : People,
             text : Contents \cup {""}]

ASSUME NoMessageAssumption == NoMessage \notin Row

Exists(r) == status[r] # "absent"
Posted(m) == message[m] # NoMessage
ActiveRooms == {r \in Rooms : status[r] = "active"}
InRoom(r) == {m \in Messages : Posted(m) /\ message[m].room = r}
Number(m) == Len(history[m])
OwnerOf(r) == IF r \in DirectRooms THEN Human[r] ELSE Owner
PairOf(r) == {Human[r], Agent[r]}

\* selectManageableRoom: an active member whose role is owner.
Manages(p, r) == Exists(r) /\ p \in member[r] /\ p = OwnerOf(r)

\* A person sees a room that is not hidden, or that has been active since.
Visible(p, r) ==
  \/ hidden[r][p] = Shown
  \/ \E m \in InRoom(r) \ retracted : m \notin hidden[r][p]
VisibleRooms(p) == {r \in ActiveRooms : p \in member[r] /\ Visible(p, r)}

-----------------------------------------------------------------------------
(* Requests.                                                               *)

StatusRequest == [op : {"status", "update"}, room : Rooms,
                  to : {"active", "archived"}]
ListRequest == [op : {"list"}, room : Rooms, who : Humans,
                action : {"pin", "unpin", "hide", "show"}]
MemberRequest == [op : {"add", "remove"}, room : Rooms, who : People]
PostRequest == [op : {"post"}, row : Row]
RouteRequest == [op : {"route"}, message : Messages]
EditRequest == [op : {"edit"}, message : Messages, actor : Humans,
                text : Contents, expected : Nat \ {0}, allowed : BOOLEAN]
RetractRequest == [op : {"retract"}, message : Messages, actor : Humans,
                   expected : Nat \ {0}, allowed : BOOLEAN]
Request == StatusRequest \cup ListRequest \cup MemberRequest \cup PostRequest
             \cup RouteRequest \cup EditRequest \cup RetractRequest

Start(c, q) ==
  /\ tx[c] = Idle /\ requests < MaxRequests
  /\ tx' = [tx EXCEPT ![c] = q]
  /\ requests' = requests + 1
  /\ UNCHANGED boots
Finish(c) ==
  /\ tx' = [tx EXCEPT ![c] = Idle]
  /\ UNCHANGED <<requests, boots>>

InProgress(ops) == {c \in Clients : tx[c] # Idle /\ tx[c].op \in ops}

\* Mutant: setStatus without its advisory lock.
NobodyWaits == TRUE

\* Advisory locks, held until the transaction ends.
LifecycleFree == InProgress({"update"}) = {}
ListFree(p) == \A c \in InProgress({"list"}) : tx[c].who # p
MembershipFree(r) == \A c \in InProgress({"add", "remove"}) : tx[c].room # r
KeyFree(r, k) == \A c \in InProgress({"post"}) :
                   ~(tx[c].row.room = r /\ tx[c].row.key = k)

-----------------------------------------------------------------------------
(* Start of the server and creation of rooms.                              *)

Init ==
  /\ status = [r \in Rooms |-> "absent"]
  /\ order = <<>>
  /\ member = [r \in Rooms |-> {}]
  /\ former = [r \in Rooms |-> {}]
  /\ hidden = [r \in Rooms |-> [p \in Humans |-> Shown]]
  /\ message = [m \in Messages |-> NoMessage]
  /\ history = [m \in Messages |-> <<>>]
  /\ content = [m \in Messages |-> ""]
  /\ retracted = {} /\ running = {}
  /\ tx = [c \in Clients |-> Idle]
  /\ acks = {} /\ requests = 0 /\ boots = 0

Join(r, ps) ==
  /\ member' = [member EXCEPT ![r] = @ \cup ps]
  /\ former' = [former EXCEPT ![r] = @ \ ps]

\* The oldest active room, or a new one; what a crash left open is rolled back.
Boot ==
  /\ boots < MaxBoots
  /\ boots' = boots + 1
  /\ tx' = [c \in Clients |-> Idle]
  /\ \/ \E i \in DOMAIN order :
          /\ status[order[i]] = "active"
          /\ \A j \in 1 .. (i - 1) : status[order[j]] # "active"
          /\ Join(order[i], {Owner} \cup Seeds)
          /\ UNCHANGED <<status, order>>
     \/ /\ ActiveRooms = {} /\ ~Exists(FirstRoom)
        /\ status' = [status EXCEPT ![FirstRoom] = "active"]
        /\ order' = Append(order, FirstRoom)
        /\ Join(FirstRoom, {Owner} \cup Seeds)
  /\ UNCHANGED <<hidden, messageVars, running, acks, requests>>

\* createWithWorkspaceAgents: the key's lock covers the whole transaction, and
\* a key that has made its room makes no other.
CreateRoom(c, r) ==
  /\ tx[c] = Idle /\ requests < MaxRequests /\ boots > 0
  /\ ~Exists(r)
  /\ requests' = requests + 1
  /\ status' = [status EXCEPT ![r] = "active"]
  /\ order' = Append(order, r)
  /\ Join(r, {Owner} \cup Seeds)
  /\ UNCHANGED <<hidden, messageVars, running, tx, acks, boots>>

\* createDirect makes the pair's room, or brings it back for both.
CreateDirect(c, r) ==
  /\ tx[c] = Idle /\ requests < MaxRequests /\ boots > 0
  /\ requests' = requests + 1
  /\ status' = [status EXCEPT ![r] = "active"]
  /\ order' = IF Exists(r) THEN order ELSE Append(order, r)
  /\ Join(r, PairOf(r))
  /\ hidden' = [hidden EXCEPT ![r][Human[r]] = Shown]
  /\ UNCHANGED <<messageVars, running, tx, acks, boots>>

-----------------------------------------------------------------------------
(* Archive and restore.                                                    *)

BeginStatus(c, r, to) ==
  /\ Manages(OwnerOf(r), r)
  /\ status[r] # to
  /\ Start(c, [op |-> "status", room |-> r, to |-> to])
  /\ UNCHANGED <<roomVars, hidden, messageVars, running, acks>>

HasActiveRun(r) == \E x \in running : message[x[1]].room = r

\* What setStatus checks once it holds the workspace's lifecycle lock.
MayTurn(r, to) ==
  to = "archived" => ~HasActiveRun(r) /\ Cardinality(ActiveRooms) > 1

CheckStatus(c) ==
  /\ tx[c] # Idle /\ tx[c].op = "status" /\ LifecycleFree
  /\ \/ /\ MayTurn(tx[c].room, tx[c].to)
        /\ tx' = [tx EXCEPT ![c].op = "update"]
        /\ UNCHANGED <<requests, boots>>
     \/ ~MayTurn(tx[c].room, tx[c].to) /\ Finish(c)
  /\ UNCHANGED <<roomVars, hidden, messageVars, running, acks>>

CommitStatus(c) ==
  /\ tx[c] # Idle /\ tx[c].op = "update"
  /\ status' = [status EXCEPT ![tx[c].room] = tx[c].to]
  /\ Finish(c)
  /\ UNCHANGED <<order, member, former, hidden, messageVars, running, acks>>

-----------------------------------------------------------------------------
(* A person's list.                                                        *)

BeginList(c, r, p, action) ==
  /\ Exists(r) /\ p \in member[r] /\ ListFree(p)
  /\ ~(/\ action = "hide" /\ status[r] = "active"
       /\ VisibleRooms(p) = {r})
  /\ Start(c, [op |-> "list", room |-> r, who |-> p, action |-> action])
  /\ UNCHANGED <<roomVars, hidden, messageVars, running, acks>>

CommitList(c) ==
  /\ tx[c] # Idle /\ tx[c].op = "list"
  /\ LET r == tx[c].room
         p == tx[c].who
     IN hidden' = CASE tx[c].action = "hide" ->
                         [hidden EXCEPT ![r][p] = InRoom(r)]
                    [] tx[c].action \in {"pin", "show"} ->
                         [hidden EXCEPT ![r][p] = Shown]
                    [] OTHER -> hidden
  /\ Finish(c)
  /\ UNCHANGED <<roomVars, messageVars, running, acks>>

-----------------------------------------------------------------------------
(* Members.                                                                *)

MayManageMembers(r) ==
  Manages(OwnerOf(r), r) /\ status[r] = "active" /\ r \notin DirectRooms

BeginAdd(c, r, p) ==
  /\ MayManageMembers(r) /\ MembershipFree(r)
  /\ Start(c, [op |-> "add", room |-> r, who |-> p])
  /\ UNCHANGED <<roomVars, hidden, messageVars, running, acks>>

\* The insertion itself asks for an active room.
CommitAdd(c) ==
  /\ tx[c] # Idle /\ tx[c].op = "add"
  /\ IF status[tx[c].room] = "active"
       THEN Join(tx[c].room, {tx[c].who})
       ELSE UNCHANGED <<member, former>>
  /\ Finish(c)
  /\ UNCHANGED <<status, order, hidden, messageVars, running, acks>>

\* Mutant: removal of any member, the owner too.
RemovableAll(r, p) ==
  /\ p \in member[r]
  /\ \A x \in running : ~(message[x[1]].room = r /\ x[2] = p)

Removable(r, p) ==
  /\ p \in member[r] /\ p # OwnerOf(r)
  /\ \A x \in running : ~(message[x[1]].room = r /\ x[2] = p)

BeginRemove(c, r, p) ==
  /\ MayManageMembers(r) /\ MembershipFree(r) /\ Removable(r, p)
  /\ Start(c, [op |-> "remove", room |-> r, who |-> p])
  /\ UNCHANGED <<roomVars, hidden, messageVars, running, acks>>

CommitRemove(c) ==
  /\ tx[c] # Idle /\ tx[c].op = "remove"
  /\ member' = [member EXCEPT ![tx[c].room] = @ \ {tx[c].who}]
  /\ former' = [former EXCEPT ![tx[c].room] = @ \cup {tx[c].who}]
  /\ Finish(c)
  /\ UNCHANGED <<status, order, hidden, messageVars, running, acks>>

-----------------------------------------------------------------------------
(* Messages.                                                               *)

Keyed(r, k) == {m \in InRoom(r) : message[m].key = k}

\* What a repeated request is compared with: the message as it is now.
SameRequest(m, row) ==
  /\ [message[m] EXCEPT !.text = row.text, !.mentions = row.mentions] = row
  /\ content[m] = row.text
  /\ row.mentions = IF m \in retracted THEN {} ELSE message[m].mentions

MaySend(row) == status[row.room] = "active" /\ row.sender \in member[row.room]

\* A key that has made its message: the same message, or a conflict.
RepeatPost(c, row) ==
  /\ tx[c] = Idle /\ requests < MaxRequests
  /\ MaySend(row) /\ KeyFree(row.room, row.key)
  /\ \E m \in Keyed(row.room, row.key) :
       /\ SameRequest(m, row)
       /\ acks' = acks \cup {[room |-> row.room, key |-> row.key, message |-> m]}
  /\ requests' = requests + 1
  /\ UNCHANGED <<roomVars, hidden, messageVars, running, tx, boots>>

\* Mutant: createMessage inserts whatever the key has made before.
FreshOrNot(r, k) == TRUE

Fresh(r, k) == Keyed(r, k) = {}

BeginPost(c, row) ==
  /\ MaySend(row) /\ KeyFree(row.room, row.key)
  /\ Fresh(row.room, row.key)
  /\ row.mentions \subseteq member[row.room]
  /\ row.reply # NoMessage => row.reply \in InRoom(row.room)
  /\ Start(c, [op |-> "post", row |-> row])
  /\ UNCHANGED <<roomVars, hidden, messageVars, running, acks>>

Insert(m, row) ==
  /\ message' = [message EXCEPT ![m] = row]
  /\ content' = [content EXCEPT ![m] = row.text]
  /\ history' = [history EXCEPT ![m] =
       <<[action |-> "created", actor |-> row.sender, text |-> row.text]>>]
  /\ UNCHANGED retracted

CommitPost(c, m) ==
  /\ tx[c] # Idle /\ tx[c].op = "post" /\ ~Posted(m)
  /\ Insert(m, tx[c].row)
  /\ acks' = acks \cup
       {[room |-> tx[c].row.room, key |-> tx[c].row.key, message |-> m]}
  /\ tx' = [tx EXCEPT ![c] = [op |-> "route", message |-> m]]
  /\ UNCHANGED <<roomVars, hidden, running, requests, boots>>

\* resolveAgentTargets: the mentioned Agents, who must all still be there; the
\* Agent whose message this one replies to; those who always listen.
Listening(r, a) == a \in member[r] /\ Policy[a] # "muted"
RepliedTo(row) == IF row.reply = NoMessage THEN {}
                  ELSE {message[row.reply].sender}
Targets(row) ==
  {a \in Agents \ {row.sender} :
     /\ Listening(row.room, a)
     /\ \/ a \in row.mentions \cup RepliedTo(row)
        \/ Policy[a] = "always"}
Resolves(row) ==
  /\ row.mentions \subseteq member[row.room] \cup former[row.room]
  /\ \A a \in row.mentions \cap Agents : Listening(row.room, a)

\* The rest of submitMessage, after the message's own transaction: createForMessage
\* looks again for the message, and makes no runs for one that is retracted.
Route(c) ==
  /\ tx[c] # Idle /\ tx[c].op = "route"
  /\ LET m == tx[c].message
         row == message[m]
     IN running' = IF Resolves(row) /\ m \notin retracted
                     THEN running \cup ({m} \X Targets(row))
                     ELSE running
  /\ Finish(c)
  /\ UNCHANGED <<roomVars, hidden, messageVars, acks>>

\* A run ends, with the Agent's answer or without one.
EndRun(x) ==
  /\ running' = running \ {x}
  /\ \/ \E m \in Messages, t \in Contents :
          /\ ~Posted(m)
          /\ Insert(m, [room |-> message[x[1]].room, sender |-> x[2],
                        key |-> NoKey, text |-> t, reply |-> NoMessage,
                        mentions |-> {}])
     \/ UNCHANGED messageVars
  /\ UNCHANGED <<roomVars, hidden, tx, acks, requests, boots>>

-----------------------------------------------------------------------------
(* Edits and retractions.  The row is locked and read again; the room, the *)
(* actor's membership and the runs are those of the statement's snapshot.  *)

Executing(m) == \E x \in running : x[1] = m

Found(m, p) == Posted(m) /\ p \in member[message[m].room]
Allowed(m) == status[message[m].room] = "active" /\ ~Executing(m)

\* Mutant: a change of a stale revision is let through.
MayChangeStale(q) ==
  /\ q.allowed /\ q.actor = message[q.message].sender
  /\ q.message \notin retracted

\* Mutant: a retracted message can be changed.
MayChangeRetracted(q) ==
  /\ q.allowed /\ q.actor = message[q.message].sender
  /\ Number(q.message) = q.expected

MayChange(q) ==
  /\ q.allowed /\ q.actor = message[q.message].sender
  /\ q.message \notin retracted /\ Number(q.message) = q.expected

BeginEdit(c, m, p, t, n) ==
  /\ Found(m, p)
  /\ Start(c, [op |-> "edit", message |-> m, actor |-> p, text |-> t,
               expected |-> n, allowed |-> Allowed(m)])
  /\ UNCHANGED <<roomVars, hidden, messageVars, running, acks>>

Revise(m, action, p, kept, shown) ==
  /\ history' = [history EXCEPT ![m] =
       Append(@, [action |-> action, actor |-> p, text |-> kept])]
  /\ content' = [content EXCEPT ![m] = shown]
  /\ UNCHANGED message

Changed(m, n, action, t) ==
  [revised |-> m, number |-> n + 1, action |-> action, text |-> t]

EditAgain(q) ==
  /\ message[q.message].sender = q.actor /\ q.message \notin retracted
  /\ Number(q.message) = q.expected + 1 /\ content[q.message] = q.text

CommitEdit(c) ==
  /\ tx[c] # Idle /\ tx[c].op = "edit"
  /\ LET q == tx[c]
         ack == {Changed(q.message, q.expected, "edited", q.text)}
     IN \/ /\ EditAgain(q)
           /\ acks' = acks \cup ack
           /\ UNCHANGED messageVars
        \/ /\ ~EditAgain(q) /\ MayChange(q)
           /\ Revise(q.message, "edited", q.actor, q.text, q.text)
           /\ acks' = acks \cup ack
           /\ UNCHANGED retracted
        \/ /\ ~EditAgain(q) /\ ~MayChange(q)
           /\ UNCHANGED <<messageVars, acks>>
  /\ Finish(c)
  /\ UNCHANGED <<roomVars, hidden, running>>

BeginRetract(c, m, p, n) ==
  /\ Found(m, p)
  /\ Start(c, [op |-> "retract", message |-> m, actor |-> p, expected |-> n,
               allowed |-> Allowed(m)])
  /\ UNCHANGED <<roomVars, hidden, messageVars, running, acks>>

RetractAgain(q) ==
  /\ message[q.message].sender = q.actor /\ q.message \in retracted
  /\ Number(q.message) = q.expected + 1

CommitRetract(c) ==
  /\ tx[c] # Idle /\ tx[c].op = "retract"
  /\ LET q == tx[c]
         ack == {Changed(q.message, q.expected, "retracted", "")}
     IN \/ /\ RetractAgain(q)
           /\ acks' = acks \cup ack
           /\ UNCHANGED messageVars
        \/ /\ ~RetractAgain(q) /\ MayChange(q)
           /\ Revise(q.message, "retracted", q.actor, content[q.message], "")
           /\ retracted' = retracted \cup {q.message}
           /\ acks' = acks \cup ack
        \/ /\ ~RetractAgain(q) /\ ~MayChange(q)
           /\ UNCHANGED <<messageVars, acks>>
  /\ Finish(c)
  /\ UNCHANGED <<roomVars, hidden, running>>

-----------------------------------------------------------------------------

LifecycleStep(c) ==
  \/ \E r \in GroupRooms : CreateRoom(c, r)
  \/ \E r \in DirectRooms : CreateDirect(c, r)
  \/ \E r \in Rooms, to \in {"active", "archived"} : BeginStatus(c, r, to)
  \/ CheckStatus(c)
  \/ CommitStatus(c)
  \/ \E r \in Rooms, p \in Humans, a \in Lists : BeginList(c, r, p, a)
  \/ CommitList(c)

MemberStep(c) ==
  \/ \E r \in Rooms, p \in People : BeginAdd(c, r, p)
  \/ CommitAdd(c)
  \/ \E r \in Rooms, p \in People : BeginRemove(c, r, p)
  \/ CommitRemove(c)

Rows == [room : Rooms, sender : Senders, key : Keys, text : Contents,
         reply : Messages \cup {NoMessage}, mentions : Posts]

MessageStep(c) ==
  \/ \E row \in Rows : RepeatPost(c, row) \/ BeginPost(c, row)
  \/ \E m \in Messages : CommitPost(c, m)
  \/ Route(c)
  \/ \E m \in Messages, p \in Humans, t \in Contents, n \in 1 .. MaxRevision :
       BeginEdit(c, m, p, t, n)
  \/ CommitEdit(c)
  \/ \E m \in Messages, p \in Humans, n \in 1 .. MaxRevision :
       BeginRetract(c, m, p, n)
  \/ CommitRetract(c)

Next ==
  \/ Boot
  \/ \E c \in Clients : LifecycleStep(c) \/ MemberStep(c) \/ MessageStep(c)
  \/ \E x \in running : EndRun(x)

Spec == Init /\ [][Next]_vars

-----------------------------------------------------------------------------
(* Properties.                                                             *)

PostAck == [room : Rooms, key : Keys, message : Messages]
ChangeAck == [revised : Messages, number : Nat, action : {"edited", "retracted"},
              text : Contents \cup {""}]
Ack == PostAck \cup ChangeAck

\* Every variable has its type, and a request in progress is a request.
TypeOK ==
  /\ status \in [Rooms -> RoomStatus]
  /\ order \in Seq(Rooms)
  /\ member \in [Rooms -> SUBSET People]
  /\ former \in [Rooms -> SUBSET People]
  /\ hidden \in [Rooms -> [Humans -> (SUBSET Messages) \cup {Shown}]]
  /\ message \in [Messages -> Row \cup {NoMessage}]
  /\ history \in [Messages -> Seq(Revision)]
  /\ content \in [Messages -> Contents \cup {""}]
  /\ retracted \subseteq Messages
  /\ running \subseteq Messages \X Agents
  /\ tx \in [Clients -> Request \cup {Idle}]
  /\ acks \subseteq Ack
  /\ requests \in 0 .. MaxRequests /\ boots \in 0 .. MaxBoots

\* A workspace that has rooms has an active one, whoever archives what at the
\* same time (setStatus: the final active room cannot be archived).
SomeRoomActive == (\E r \in Rooms : Exists(r)) => ActiveRooms # {}

\* Whoever sends a message with the same key again, at the same time or later,
\* is told of the same message (createMessage's idempotency).
KeyNamesOneMessage ==
  \A x, y \in acks :
    {"key"} \subseteq DOMAIN x \cap DOMAIN y
      /\ x.room = y.room /\ x.key = y.key
    => x.message = y.message

\* A change the server has confirmed stays in the history at the number it was
\* confirmed under: two windows that edit the same revision never both win.
ConfirmedChangesStand ==
  \A x \in acks : "revised" \in DOMAIN x =>
    /\ x.number \in 1 .. Number(x.revised)
    /\ history[x.revised][x.number].action = x.action
    /\ x.action = "edited" => history[x.revised][x.number].text = x.text

\* What the server has answered stands, for creations and for changes.
AnswersStand == KeyNamesOneMessage /\ ConfirmedChangesStand

\* What a message shows is what its history ends in: its text is the last
\* revision's, and a retraction empties it for good, keeping its last text.
HistoryTellsMessage ==
  \A m \in Messages : Posted(m) =>
    LET h == history[m]
    IN /\ Number(m) > 0 /\ h[1].action = "created"
       /\ \A i \in 2 .. Number(m) : h[i].action # "created"
       /\ \A i \in 1 .. Number(m) :
            h[i].actor = message[m].sender
              /\ (h[i].action = "retracted" => i = Number(m))
       /\ m \in retracted <=> h[Number(m)].action = "retracted"
       /\ content[m] = IF m \in retracted THEN "" ELSE h[Number(m)].text
       /\ m \in retracted => h[Number(m)].text = h[Number(m) - 1].text

\* What was posted is never rewritten: a message keeps its place, its sender and
\* its earlier revisions, and one that was retracted changes no more.
PastStands ==
  [][\A m \in Messages : Posted(m) =>
       /\ message[m]' = message[m]
       /\ Number(m)' >= Number(m)
       /\ \A i \in 1 .. Number(m) : history[m][i]' = history[m][i]
       /\ m \in retracted =>
            /\ m \in retracted'
            /\ history[m]' = history[m] /\ content[m]' = content[m]]_vars

\* The owner of a room and both sides of a direct room remain its members.
PairStays ==
  \A r \in Rooms : Exists(r) =>
    OwnerOf(r) \in member[r] /\ (r \in DirectRooms => Agent[r] \in member[r])

\* What the words of removeMember and addMemberByOwner promise of a direct
\* room: nobody but its pair is a member.
DirectRoomIsPrivate ==
  \A r \in DirectRooms : Exists(r) => member[r] = PairOf(r)
=============================================================================
