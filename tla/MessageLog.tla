----------------------------- MODULE MessageLog -----------------------------
(***************************************************************************)
(* The kernel's message substrate (crates/kernel/src/store): channels and  *)
(* their immutable memberships, the ordered message log, the delivery      *)
(* snapshot an append takes, the read cursors, and the registered triggers *)
(* that append on their own (crates/execution/src/trigger.rs).             *)
(*                                                                         *)
(* Every operation is one SQLite transaction, hence one action;            *)
(* an operation that returns an error, or finds its work already done,     *)
(* changes no row and is a stuttering step.  Agents exist from the start.  *)
(* Channel and trigger names are not told apart.                           *)
(***************************************************************************)
EXTENDS Integers, Sequences, FiniteSets

CONSTANTS
    Agents,
    Channels,      \* channel identities, taken when a channel is created
    Writers,       \* the agents whose clients append
    Readers,       \* the agents whose clients move their read cursors
    Triggers,      \* trigger identities, taken at registration
    Senders,       \* the agents triggers are registered to speak for
    Occurrences,   \* what a trigger's scheduler names its firings
    Contents,      \* kind, payload, correlation and causation of a message
    ClientKeys,    \* idempotency keys clients choose
    Rosters,       \* initial members of new channels, with their delivery modes
    MaxMessages    \* bound: messages in the log

Modes == {"inbox", "stream_only"}

ASSUME LogAssumption ==
    /\ MaxMessages \in Nat \ {0}
    /\ Writers \cup Readers \cup Senders \subseteq Agents
    /\ \A modes \in Rosters :
          DOMAIN modes \subseteq Agents /\ \A a \in DOMAIN modes : modes[a] \in Modes

VARIABLES
    channel,    \* channels
    member,     \* channel_members
    log,        \* messages; the position of a message is its seq
    delivered,  \* agent_deliveries, as pairs of a seq and an agent
    trigger     \* triggers

logVars == <<channel, member, log, delivered, trigger>>

Seqs == 1..MaxMessages
Everyone == "everyone"
NoAgent == "no agent"
NoChannel == "no channel"
NoOccurrence == "no occurrence"

\* Idempotency keys.  A key is unique for its sender.  The daemon's own keys have
\* prefixes (trigger:, invocation:) that clients leave alone.
NoKey == <<"none">>
ClientKey(k) == <<"client", k>>
TriggerKey(t, o) == <<"trigger", t, o>>

\* The members of a channel, and its latest message.
Members(c) == {a \in Agents : member[c][a].mode # "none"}

MessagesOf(c) == {s \in DOMAIN log : log[s].channel = c}

LatestSeq(c) ==
    IF MessagesOf(c) = {} THEN 0
    ELSE CHOOSE s \in MessagesOf(c) : \A r \in MessagesOf(c) : r <= s

LogInit ==
    /\ channel = [c \in Channels |-> [kind |-> "none", archived |-> FALSE]]
    /\ member = [c \in Channels |-> [a \in Agents |->
           [mode |-> "none", joined |-> 0, read_through |-> 0]]]
    /\ log = <<>>
    /\ delivered = {}
    /\ trigger = [t \in Triggers |->
           [state |-> "none", channel |-> NoChannel, sender |-> NoAgent, kinds |-> {},
            accepted |-> 0, last |-> NoOccurrence]]

-----------------------------------------------------------------------------
\* Channels and memberships.

\* The rows of a new channel's initial members; their cursors default to zero.
InitialMembers(c, modes) ==
    [member EXCEPT ![c] = [a \in Agents |->
        IF a \in DOMAIN modes
        THEN [mode |-> modes[a], joined |-> Len(log), read_through |-> 0]
        ELSE @[a]]]

\* A shared channel with a set of initial members and their modes.
CreateChannel(c, modes) ==
    /\ channel[c].kind = "none"
    /\ channel' = [channel EXCEPT ![c].kind = "shared"]
    /\ member' = InitialMembers(c, modes)
    /\ UNCHANGED <<log, delivered, trigger>>

DirectChannelOf(pair) == {c \in Channels : channel[c].kind = "direct" /\ Members(c) = pair}

\* The direct channel of a pair of agents, unless the pair has one.
OpenDirectPair(c, modes) ==
    /\ Cardinality(DOMAIN modes) = 2
    /\ DirectChannelOf(DOMAIN modes) = {}
    /\ channel[c].kind = "none"
    /\ channel' = [channel EXCEPT ![c].kind = "direct"]
    /\ member' = InitialMembers(c, modes)
    /\ UNCHANGED <<log, delivered, trigger>>

MutableShared(c) == channel[c].kind = "shared" /\ ~channel[c].archived

\* A new member has read everything said before it joined.  A membership is not
\* added twice and never changes its mode.
AddMemberAgain(c, a, mode) ==
    /\ MutableShared(c)
    /\ member' = [member EXCEPT ![c][a].mode = mode]
    /\ UNCHANGED <<channel, log, delivered, trigger>>

AddMember(c, a, mode) ==
    /\ MutableShared(c)
    /\ member[c][a].mode = "none"
    /\ member' = [member EXCEPT ![c][a] =
           [mode |-> mode, joined |-> Len(log), read_through |-> LatestSeq(c)]]
    /\ UNCHANGED <<channel, log, delivered, trigger>>

\* Direct channels are never archived; archiving twice changes nothing.
ArchiveChannel(c) ==
    /\ MutableShared(c)
    /\ channel' = [channel EXCEPT ![c].archived = TRUE]
    /\ UNCHANGED <<member, log, delivered, trigger>>

\* A client names zero or a message of the channel; a stale client moves nothing.
AdvanceReadCursor(c, a, s) ==
    /\ a \in Members(c)
    /\ s \in MessagesOf(c)
    /\ member[c][a].read_through < s
    /\ member' = [member EXCEPT ![c][a].read_through = s]
    /\ UNCHANGED <<channel, log, delivered, trigger>>

-----------------------------------------------------------------------------
\* Appending.

Message(c, sender, recipient, key, content) ==
    [channel |-> c, sender |-> sender, recipient |-> recipient, key |-> key,
     content |-> content]

\* The message the sender's key already names.
Existing(m) ==
    {s \in DOMAIN log : m.key # NoKey /\ log[s].sender = m.sender /\ log[s].key = m.key}

\* insert_message admits it: a live channel, and members at both ends.
Insertable(m) ==
    /\ channel[m.channel].kind # "none"
    /\ ~channel[m.channel].archived
    /\ m.sender \in Members(m.channel)
    /\ m.recipient = Everyone \/ m.recipient \in Members(m.channel)

\* The agents a message is delivered to: those of its readers with an inbox.
DeliverySnapshot(m) ==
    {a \in Members(m.channel) :
        /\ member[m.channel][a].mode = "inbox"
        /\ IF m.recipient = Everyone THEN a # m.sender ELSE a = m.recipient}

\* insert_message: the message and its deliveries commit together.
InsertMessage(m) ==
    /\ Insertable(m)
    /\ Len(log) < MaxMessages
    /\ log' = Append(log, m)
    /\ delivered' = delivered \cup ({Len(log) + 1} \X DeliverySnapshot(m))

\* The seq append_message_in_transaction answers with, zero for an error.  The key
\* is looked up before the channel and its members are.
AnswerIfAdmitted(m) ==
    IF ~Insertable(m) THEN 0
    ELSE IF Existing(m) = {} THEN Len(log) + 1
    ELSE LET s == CHOOSE s \in Existing(m) : TRUE IN IF log[s] = m THEN s ELSE 0

Answer(m) ==
    IF Existing(m) # {}
    THEN LET s == CHOOSE s \in Existing(m) : TRUE IN IF log[s] = m THEN s ELSE 0
    ELSE IF Insertable(m) THEN Len(log) + 1 ELSE 0

Created(m) == Answer(m) = Len(log) + 1

\* A participant appends, with or without a key.
AppendMessage(m) ==
    /\ Created(m)
    /\ InsertMessage(m)
    /\ UNCHANGED <<channel, member, trigger>>

-----------------------------------------------------------------------------
\* Triggers.

\* The registration names an existing channel and agent, and need not make the
\* agent a member.
RegisterTrigger(t, c, a, kinds) ==
    /\ trigger[t].state = "none"
    /\ channel[c].kind # "none"
    /\ kinds # {}
    /\ trigger' = [trigger EXCEPT ![t] =
           [state |-> "active", channel |-> c, sender |-> a, kinds |-> kinds,
            accepted |-> 0, last |-> NoOccurrence]]
    /\ UNCHANGED <<channel, member, log, delivered>>

RetireTrigger(t) ==
    /\ trigger[t].state = "active"
    /\ trigger' = [trigger EXCEPT ![t].state = "retired"]
    /\ UNCHANGED <<channel, member, log, delivered>>

RecordTriggerOccurrence(t, o) ==
    /\ trigger[t].state = "active"
    /\ trigger' = [trigger EXCEPT ![t].accepted = @ + 1, ![t].last = o]

\* Recording every firing the message layer answered.
FireRecordingRepeats(t, o, recipient, content) ==
    LET m == Message(trigger[t].channel, trigger[t].sender, recipient, TriggerKey(t, o), content)
    IN  /\ trigger[t].state = "active"
        /\ content \in trigger[t].kinds
        /\ recipient # trigger[t].sender
        /\ Answer(m) # 0
        /\ \/ InsertMessage(m) /\ Created(m)
           \/ ~Created(m) /\ UNCHANGED <<log, delivered>>
        /\ RecordTriggerOccurrence(t, o)
        /\ UNCHANGED <<channel, member>>

\* fire: the registration is read, the message appended and the firing recorded in
\* one transaction.  A repeated occurrence is answered with the message it created
\* and recorded nowhere.
FireTrigger(t, o, recipient, content) ==
    LET m == Message(trigger[t].channel, trigger[t].sender, recipient, TriggerKey(t, o), content)
    IN  /\ trigger[t].state = "active"
        /\ content \in trigger[t].kinds
        /\ recipient # trigger[t].sender
        /\ Created(m)
        /\ InsertMessage(m)
        /\ RecordTriggerOccurrence(t, o)
        /\ UNCHANGED <<channel, member>>

-----------------------------------------------------------------------------
LogNext ==
    \/ \E c \in Channels, modes \in Rosters :
          CreateChannel(c, modes) \/ OpenDirectPair(c, modes)
    \/ \E c \in Channels, a \in Agents, mode \in Modes : AddMember(c, a, mode)
    \/ \E c \in Channels : ArchiveChannel(c)
    \/ \E c \in Channels, a \in Readers, s \in Seqs : AdvanceReadCursor(c, a, s)
    \/ \E c \in Channels, a \in Writers, r \in Agents \cup {Everyone}, x \in Contents,
          key \in {NoKey} \cup {ClientKey(k) : k \in ClientKeys} :
          AppendMessage(Message(c, a, r, key, x))
    \/ \E t \in Triggers, c \in Channels, a \in Senders, kinds \in SUBSET Contents :
          RegisterTrigger(t, c, a, kinds)
    \/ \E t \in Triggers : RetireTrigger(t)
    \/ \E t \in Triggers, o \in Occurrences, r \in Agents, x \in Contents :
          FireTrigger(t, o, r, x)

LogSpec == LogInit /\ [][LogNext]_logVars

-----------------------------------------------------------------------------
\* Properties.

\* Once an append with a key has committed, repeating it is answered with that very
\* message for ever: whatever was appended since, whoever joined, and although the
\* channel has been archived (append_message_in_transaction looks the key up before
\* insert_message looks at the channel).
CommittedAppendReplays ==
    \A s \in DOMAIN log : log[s].key # NoKey => Answer(log[s]) = s

\* A message is delivered to exactly the agents that held an inbox membership when it
\* was appended and that it addresses: no later joiner, no reader of the stream, no
\* sender of a broadcast (insert_delivery_snapshot, add_member_with_mode).
MembershipExplainsDeliveries ==
    \A s \in DOMAIN log, a \in Agents :
        LET m == log[s]
            row == member[m.channel][a]
        IN  <<s, a>> \in delivered <=>
                /\ row.mode = "inbox"
                /\ row.joined < s
                /\ m.recipient = a \/ (m.recipient = Everyone /\ m.sender # a)

\* A trigger's row counts exactly the messages it created and names the latest of
\* them, and each of them is in the channel and by the sender it was registered with:
\* repeats and refusals of a firing leave no mark (fire, record_trigger_occurrence).
TriggerWorkIsAccountedFor ==
    \A t \in Triggers :
        LET work == {s \in DOMAIN log : \E o \in Occurrences : log[s].key = TriggerKey(t, o)}
        IN  /\ trigger[t].accepted = Cardinality(work)
            /\ \A s \in work :
                  /\ log[s].channel = trigger[t].channel
                  /\ log[s].sender = trigger[t].sender
                  /\ (\A r \in work : r <= s) => log[s].key = TriggerKey(t, trigger[t].last)
=============================================================================
