----------------------------- MODULE Messaging -----------------------------
(***************************************************************************)
(* One conversation of two users: src/modules/messages/message.service.js  *)
(* with its models Conversation and Message.                               *)
(*                                                                         *)
(* The conversation counts the unread messages of each participant, the    *)
(* messages say who has read them.  Sending and reading change both, in    *)
(* several awaited calls and on the conversation read at the start; the    *)
(* message that acceptProposal of proposal.service.js adds is not counted. *)
(* One action is one awaited call, a request whose effect is a single save *)
(* is one action.  The texts and Conversation.lastMessage are left out.    *)
(***************************************************************************)
EXTENDS Integers, Sequences, FiniteSetsExt

CONSTANTS
  Participants, \* the two users of the conversation
  Requests,     \* requests that may be in flight together
  Authors,      \* bound: the participants that write messages
  Readers,      \* bound: the participants that read them
  MaxMessages   \* bound: messages that are sent

ASSUME MessagingAssumption ==
  /\ \E u, v \in Participants : u # v /\ Participants = {u, v}
  /\ Authors \subseteq Participants /\ Readers \subseteq Participants
  /\ MaxMessages \in Nat \ {0}

VARIABLES
  message,      \* the messages, in the order they were saved
  unread,       \* Conversation.unreadCount, NoEntry for a user it has no entry of
  request,      \* request -> what it remembers
  muddled       \* history: users on whose counter requests overlapped or one
                \* broke off, and who have not read the messages alone since

messagingVars == <<message, unread, request, muddled>>

Other(u) == CHOOSE v \in Participants : v # u
MessageIds == DOMAIN message
NoEntry == -1
SendSteps == {"saveMessage", "readOwn", "saveSent"}
ReadSteps == {"findUnread", "markRead", "saveRead"}

\* seen: the counter that was read; todo: the messages still to be saved;
\* alone: no other request for the counter since the start.
NoRequest == [at |-> "idle", user |-> CHOOSE u \in Participants : TRUE,
              seen |-> NoEntry, todo |-> {}, alone |-> TRUE]

MessagingInit ==
  /\ message = << >>
  /\ unread = [u \in Participants |-> NoEntry]
  /\ request = [q \in Requests |-> NoRequest]
  /\ muddled = {}

\* Requests that are to write the counter of u.
Writing(u) ==
  {q \in Requests : \/ request[q].at \in SendSteps /\ request[q].user # u
                    \/ request[q].at \in ReadSteps /\ request[q].user = u}

\* The filter of markAllAsRead and of countUnread.
Unread(u) ==
  {m \in MessageIds : /\ message[m].sender # u
                      /\ u \notin message[m].readBy \cup message[m].deletedBy
                      /\ ~message[m].isDeleted}

GetUnreadCount(count) == Max({count, 0})

-----------------------------------------------------------------------------
Begin(q, u, counted, step) ==
  /\ request[q].at = "idle"
  /\ request' = [p \in Requests |->
       IF p = q THEN [at |-> step, user |-> u, seen |-> unread[counted],
                      todo |-> {}, alone |-> Writing(counted) = {}]
       ELSE IF p \in Writing(counted) THEN [request[p] EXCEPT !.alone = FALSE]
       ELSE request[p]]
  /\ muddled' = IF Writing(counted) = {} THEN muddled ELSE muddled \cup {counted}
  /\ UNCHANGED <<message, unread>>

Coming == {q \in Requests : request[q].at = "saveMessage"}
Room == Len(message) + Cardinality(Coming) < MaxMessages

SendMessage(q, u) ==
  /\ u \in Authors /\ Room
  /\ Begin(q, u, Other(u), "saveMessage")

MarkAsRead(q, u) ==
  /\ u \in Readers
  /\ Begin(q, u, u, "findUnread")

NewMessage(u, type) ==
  [sender |-> u, type |-> type, readBy |-> {}, isDeleted |-> FALSE, deletedBy |-> {}]

\* acceptProposal by the client u, which a proposal goes through once: no
\* counter is incremented for its message.
AcceptProposal(u) ==
  /\ u \in Authors /\ Room
  /\ \A m \in MessageIds : message[m].type # "system"
  /\ message' = Append(message, NewMessage(u, "system"))
  /\ UNCHANGED <<unread, request, muddled>>

SaveMessage(q) ==
  /\ request[q].at = "saveMessage"
  /\ message' = Append(message, NewMessage(request[q].user, "text"))
  /\ request' = [request EXCEPT ![q].at = "readOwn", ![q].todo = {Len(message')}]
  /\ UNCHANGED <<unread, muddled>>

\* Message.markAsRead: a save of the message.
Read(m, u) == message' = [message EXCEPT ![m].readBy = @ \cup {u}]

ReadOwn(q) ==
  /\ request[q].at = "readOwn"
  /\ \E m \in request[q].todo : Read(m, request[q].user)
  /\ request' = [request EXCEPT ![q].at = "saveSent"]
  /\ UNCHANGED <<unread, muddled>>

\* Mutant: the sender's own counter is incremented.
SaveSentToSender(q) ==
  /\ request[q].at = "saveSent"
  /\ unread' = [unread EXCEPT ![request[q].user] = GetUnreadCount(request[q].seen) + 1]
  /\ request' = [request EXCEPT ![q] = NoRequest]
  /\ UNCHANGED <<message, muddled>>

\* The counter is written as it was read, plus one.
SaveSent(q) ==
  /\ request[q].at = "saveSent"
  /\ unread' = [unread EXCEPT ![Other(request[q].user)] = GetUnreadCount(request[q].seen) + 1]
  /\ request' = [request EXCEPT ![q] = NoRequest]
  /\ UNCHANGED <<message, muddled>>

FindUnread(q) ==
  /\ request[q].at = "findUnread"
  /\ request' = [request EXCEPT ![q].at = "markRead", ![q].todo = Unread(request[q].user)]
  /\ UNCHANGED <<message, unread, muddled>>

\* The saves are started together and end in any order.
MarkRead(q) ==
  /\ request[q].at = "markRead"
  /\ \/ /\ request[q].todo = {}
        /\ request' = [request EXCEPT ![q].at = "saveRead"]
        /\ UNCHANGED message
     \/ \E m \in request[q].todo :
          /\ Read(m, request[q].user)
          /\ request' = [request EXCEPT ![q].todo = @ \ {m}]
  /\ UNCHANGED <<unread, muddled>>

\* A counter that was read as 0 is not written.
SaveRead(q) ==
  /\ request[q].at = "saveRead"
  /\ LET u == request[q].user IN
     /\ unread' = IF request[q].seen = 0 THEN unread ELSE [unread EXCEPT ![u] = 0]
     /\ muddled' = IF request[q].alone THEN muddled \ {u} ELSE muddled
  /\ request' = [request EXCEPT ![q] = NoRequest]
  /\ UNCHANGED message

\* A call throws, or the server stops: nothing of the rest is done.
BreakOff(q) ==
  /\ request[q].at # "idle"
  /\ muddled' = muddled \cup {u \in Participants : q \in Writing(u)}
  /\ request' = [request EXCEPT ![q] = NoRequest]
  /\ UNCHANGED <<message, unread>>

\* softDelete: one's own message goes for both, another's for oneself.
DeleteMessage(u, m) ==
  /\ \/ /\ message[m].sender = u /\ ~message[m].isDeleted
        /\ message' = [message EXCEPT ![m].isDeleted = TRUE]
     \/ /\ message[m].sender # u /\ u \notin message[m].deletedBy
        /\ message' = [message EXCEPT ![m].deletedBy = @ \cup {u}]
  /\ UNCHANGED <<unread, request, muddled>>

MessagingStep(q) ==
  \/ SaveMessage(q) \/ ReadOwn(q) \/ SaveSent(q)
  \/ FindUnread(q) \/ MarkRead(q) \/ SaveRead(q) \/ BreakOff(q)

MessagingNext ==
  \/ \E q \in Requests :
       MessagingStep(q) \/ \E u \in Participants : SendMessage(q, u) \/ MarkAsRead(q, u)
  \/ \E u \in Participants :
       AcceptProposal(u) \/ \E m \in MessageIds : DeleteMessage(u, m)

MessagingSpec == MessagingInit /\ [][MessagingNext]_messagingVars

-----------------------------------------------------------------------------
MessagingTypeOK ==
  /\ message \in Seq([sender : Participants, type : {"text", "system"},
                      readBy : SUBSET Participants,
                      isDeleted : BOOLEAN, deletedBy : SUBSET Participants])
  /\ unread \in [Participants -> Nat \cup {NoEntry}]
  /\ request \in [Requests -> [at : {"idle"} \cup SendSteps \cup ReadSteps,
                               user : Participants, seen : Nat \cup {NoEntry},
                               todo : SUBSET MessageIds,
                               alone : BOOLEAN]]
  /\ muddled \subseteq Participants

\* The messages the counter of u is to account for.
Texts(M) == {m \in M : message[m].type = "text"}
Counted(u) == GetUnreadCount(unread[u])

\* The counter on the badge of a conversation never exceeds the messages the
\* user was sent, and does not hide one he has not read, except after requests
\* for it overlapped or one broke off; the next time he reads the messages,
\* with no other request for the counter, it is right again.  The message of
\* an accepted proposal is not counted.
BadgeAgrees ==
  \A u \in Participants :
    /\ Counted(u) <= Cardinality(Texts({m \in MessageIds : message[m].sender # u}))
    /\ u \notin muddled /\ Writing(u) = {} => Counted(u) >= Cardinality(Texts(Unread(u)))

-----------------------------------------------------------------------------
(* A claim of the code that does not hold.                                 *)

\* The counter accounts for every unread message (Conversation.js:120).
UnreadIsCounted ==
  \A u \in Participants : Writing(u) = {} => Counted(u) >= Cardinality(Unread(u))
=============================================================================
