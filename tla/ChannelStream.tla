---------------------------- MODULE ChannelStream ----------------------------
(***************************************************************************)
(* One channel's live stream, end to end: commits and the lossy wakes that *)
(* follow them (message_commit_hint.rs, http/src/messages.rs), the grant   *)
(* broker and the replay/live task of the daemon (stream_grant_broker.rs,  *)
(* streams.rs, channel_stream.rs), and one TypeScript client that          *)
(* reconnects from the cursor its consumer accepted (channel-stream-       *)
(* core.ts, browser- and native-channel-stream.ts).                        *)
(*                                                                         *)
(* The channel's messages are numbered 1, 2, ...  The client makes one     *)
(* connection per attempt, and leaves one before it starts the next: an    *)
(* abandoned connection is visible only through the request, the grant,    *)
(* the redemption or the slot it still holds in the daemon.                *)
(***************************************************************************)
EXTENDS Integers, Sequences, FiniteSets

CONSTANTS
    MaxMessages,    \* bound: messages of the channel
    PageSize,       \* REPLAY_PAGE_SIZE
    BusCapacity,    \* of the in-process broadcast bus
    MaxUnused,      \* MAX_UNUSED_GRANTS_PER_CREDENTIAL
    MaxActive,      \* MAX_ACTIVE_BROWSER_STREAMS_PER_CREDENTIAL
    MaxPending,     \* maxPendingMessages of the client
    MaxReconnects   \* the number of its reconnect delays

ASSUME StreamAssumption ==
    {MaxMessages, PageSize, BusCapacity, MaxUnused, MaxActive, MaxPending, MaxReconnects}
        \subseteq Nat \ {0}

VARIABLES
    committed,     \* messages 1..committed of the channel are durable
    owing,         \* committed messages whose committer has sent no wake yet
    hints,         \* datagrams on their way to the daemon, by the message behind each
    lost,          \* messages whose wake was dropped, or never sent, since the stream
                   \* subscribed
    requests,      \* attempts whose grant request the daemon has not handled
    unused,        \* BrokerState.unused: the grants, by attempt
    redeeming,     \* attempts whose grant is consumed and being revalidated
    slots,         \* attempts that own an ActiveStreamSlot
    counts,        \* BrokerState's counters for the credential
    stream,        \* the daemon's task for the client's current connection
    wire,          \* frames between that task and the client
    client,        \* the client's adapter
    accepted       \* what its consumer accepted, in order

wakeVars == <<owing, hints, lost>>
brokerVars == <<requests, unused, redeeming, slots, counts>>
vars == <<committed, owing, hints, lost, requests, unused, redeeming, slots, counts,
          stream, wire, client, accepted>>

Seqs == 1..MaxMessages
Attempts == 0..MaxReconnects
Sources == {"daemon", "process"}
Losses == {"dropped", "silent"}

\* A wake that names no message; the first frame of a connection.
External == 0
Ready == 0

\* phase: admitted (slot held, not subscribed), reading, sending, live, ended.
NoStream ==
    [phase |-> "none", cursor |-> 0, page |-> 0, more |-> FALSE, queue |-> <<>>, lagged |-> FALSE]

Subscribed == stream.phase \in {"reading", "sending", "live"}

\* phase: connecting, opening, live, settling, failed, closed.
NewClient(dialect) ==
    [dialect |-> dialect, phase |-> "connecting", attempt |-> 0, cursor |-> 0,
     pending |-> <<>>, accepting |-> 0, stop |-> FALSE]

Terminal == client.phase \in {"failed", "closed"}

Init ==
    /\ committed = 0
    /\ owing = {} /\ hints = {} /\ lost = {}
    /\ unused = {} /\ redeeming = {} /\ slots = {}
    /\ counts = [unused |-> 0, active |-> 0]
    /\ stream = NoStream /\ wire = <<>>
    /\ \E dialect \in {"native", "browser"} :
           /\ client = NewClient(dialect)
           /\ requests = IF dialect = "browser" THEN {0} ELSE {}
    /\ accepted = <<>>

-----------------------------------------------------------------------------
\* Commits and their wakes.

\* As if the daemon subscribed after its first replay.
PublishedWhenLive(wake) ==
    IF stream.phase # "live" THEN stream
    ELSE IF Len(stream.queue) < BusCapacity
         THEN [stream EXCEPT !.queue = Append(@, wake)]
         ELSE [stream EXCEPT !.queue = Append(Tail(@), wake), !.lagged = TRUE]

\* broadcast::Sender::send: a full receiver loses its oldest wake and is told so.
Published(wake) ==
    IF ~Subscribed THEN stream
    ELSE IF Len(stream.queue) < BusCapacity
         THEN [stream EXCEPT !.queue = Append(@, wake)]
         ELSE [stream EXCEPT !.queue = Append(Tail(@), wake), !.lagged = TRUE]

\* An append handler of the daemon, or another local process, commits a message
\* and then has a wake to send.
Commit(source) ==
    /\ committed < MaxMessages
    /\ committed' = committed + 1
    /\ owing' = owing \cup {<<committed + 1, source>>}
    /\ UNCHANGED <<hints, lost, brokerVars, stream, wire, client, accepted>>

\* The daemon's trigger handler commits a message: it puts nothing on the bus, and
\* the daemon's store has no notifier.
CommitFiring ==
    /\ committed < MaxMessages
    /\ committed' = committed + 1
    /\ lost' = lost \cup {<<committed + 1, "silent">>}
    /\ UNCHANGED <<owing, hints, brokerVars, stream, wire, client, accepted>>

\* The handler puts the committed message on the bus.
Announce(n) ==
    /\ <<n, "daemon">> \in owing
    /\ owing' = owing \ {<<n, "daemon">>}
    /\ stream' = Published(n)
    /\ UNCHANGED <<committed, hints, lost, brokerVars, wire, client, accepted>>

\* The other process sends a datagram without content.
Notify(n) ==
    /\ <<n, "process">> \in owing
    /\ owing' = owing \ {<<n, "process">>}
    /\ hints' = hints \cup {n}
    /\ UNCHANGED <<committed, lost, brokerVars, stream, wire, client, accepted>>

\* The daemon's bridge turns a datagram into a wake.
BridgeHint(n) ==
    /\ n \in hints
    /\ hints' = hints \ {n}
    /\ stream' = Published(External)
    /\ UNCHANGED <<committed, owing, lost, brokerVars, wire, client, accepted>>

\* The committer is dropped before its wake, or the datagram is not taken.
LoseWake(n) ==
    /\ n \in hints \/ \E source \in Sources : <<n, source>> \in owing
    /\ owing' = owing \ ({n} \X Sources)
    /\ hints' = hints \ {n}
    /\ lost' = lost \cup {<<n, "dropped">>}
    /\ UNCHANGED <<committed, brokerVars, stream, wire, client, accepted>>

-----------------------------------------------------------------------------
\* Connecting: the grant broker.

Current(c) == c = client.attempt /\ client.phase \in {"connecting", "opening"}

\* The connection of attempt c is closed under the client, if it is still there.
Closed(c) == IF Current(c) THEN [stream EXCEPT !.phase = "ended"] ELSE stream

\* Every grant whose time is up goes, and its credential's count with it.
PruneExpired(expired) ==
    [unused |-> unused \ expired, count |-> counts.unused - Cardinality(expired)]

\* The broker prunes expired grants, then checks its capacity.
Issue(c, expired) ==
    LET left == PruneExpired(expired)
        issued == IF left.count < MaxUnused THEN {c} ELSE {}
    IN  /\ expired \subseteq unused
        /\ unused' = left.unused \cup issued
        /\ counts' = [counts EXCEPT !.unused = left.count + Cardinality(issued)]

\* POST stream-grants: any answer but 201 is terminal for the client that still
\* waits for it.
IssueGrant(c, expired) ==
    /\ c \in requests
    /\ requests' = requests \ {c}
    /\ Issue(c, expired)
    /\ client' = IF ~Current(c) THEN client
                 ELSE [client EXCEPT !.phase = IF c \in unused' THEN "opening" ELSE "failed"]
    /\ UNCHANGED <<committed, wakeVars, redeeming, slots, stream, wire, accepted>>

\* The first frame of a socket consumes the grant, even one that has expired.
RedeemGrant(c) ==
    /\ c \in unused
    /\ unused' = unused \ {c}
    /\ counts' = [counts EXCEPT !.unused = @ - 1]
    /\ \/ redeeming' = redeeming \cup {c} /\ UNCHANGED stream
       \/ stream' = Closed(c) /\ UNCHANGED redeeming
    /\ UNCHANGED <<committed, wakeVars, requests, slots, wire, client, accepted>>

\* As if capacity, checked at the upgrade, were not checked again.
ReserveUnchecked(c) ==
    /\ c \in redeeming
    /\ redeeming' = redeeming \ {c}
    /\ slots' = slots \cup {c}
    /\ counts' = [counts EXCEPT !.active = @ + 1]
    /\ stream' = IF Current(c) THEN [stream EXCEPT !.phase = "admitted"] ELSE stream
    /\ UNCHANGED <<committed, wakeVars, requests, unused, wire, client, accepted>>

\* The credential is revalidated, then a slot is reserved if there is capacity.
ReserveActive(c) ==
    /\ c \in redeeming
    /\ redeeming' = redeeming \ {c}
    /\ \/ /\ counts.active < MaxActive
          /\ slots' = slots \cup {c}
          /\ counts' = [counts EXCEPT !.active = @ + 1]
          /\ stream' = IF Current(c) THEN [stream EXCEPT !.phase = "admitted"] ELSE stream
       \/ stream' = Closed(c) /\ UNCHANGED <<slots, counts>>
    /\ UNCHANGED <<committed, wakeVars, requests, unused, wire, client, accepted>>

-----------------------------------------------------------------------------
\* The daemon's task: run_channel_stream and replay.

\* The bus is subscribed before the first page is read; then the client is told.
Subscribe ==
    /\ stream' = [NoStream EXCEPT !.phase = "reading", !.cursor = client.cursor]
    /\ wire' = <<Ready>>
    /\ lost' = {}

ServeBrowser ==
    /\ stream.phase = "admitted"
    /\ Subscribe
    /\ UNCHANGED <<committed, owing, hints, brokerVars, client, accepted>>

\* GET stream with a bearer: served, or refused, which is terminal.
ServeNative ==
    /\ client.dialect = "native"
    /\ client.phase = "connecting"
    /\ \/ Subscribe /\ client' = [client EXCEPT !.phase = "opening"]
       \/ client' = [client EXCEPT !.phase = "failed"] /\ UNCHANGED <<stream, wire, lost>>
    /\ UNCHANGED <<committed, owing, hints, brokerVars, accepted>>

\* list_messages after the cursor: a page, empty when there is nothing new.
ReadPage ==
    LET rows == IF committed - stream.cursor < PageSize THEN committed - stream.cursor
                ELSE PageSize
    IN  /\ stream.phase = "reading"
        /\ stream' = [stream EXCEPT !.phase = IF rows = 0 THEN "live" ELSE "sending",
                                    !.page = stream.cursor + rows, !.more = rows = PageSize]
        /\ UNCHANGED <<committed, wakeVars, brokerVars, wire, client, accepted>>

\* One message of the page; a full page is followed by another read.
SendMessage ==
    LET sent == stream.cursor + 1
    IN  /\ stream.phase = "sending"
        /\ wire' = Append(wire, sent)
        /\ stream' = [stream EXCEPT
               !.cursor = sent,
               !.phase = CASE sent < stream.page -> "sending"
                           [] sent = stream.page /\ stream.more -> "reading"
                           [] OTHER -> "live"]
        /\ UNCHANGED <<committed, wakeVars, brokerVars, client, accepted>>

\* A wake that names an unsent message or none, or word of lost wakes: replay.
TakeWake ==
    /\ stream.phase = "live"
    /\ \/ /\ stream.lagged
          /\ stream' = [stream EXCEPT !.lagged = FALSE, !.phase = "reading"]
       \/ /\ ~stream.lagged
          /\ stream.queue # <<>>
          /\ stream' = [stream EXCEPT !.queue = Tail(@),
                                      !.phase = IF Head(stream.queue) \in {External}
                                                    \cup (stream.cursor + 1)..MaxMessages
                                                THEN "reading" ELSE "live"]
    /\ UNCHANGED <<committed, wakeVars, brokerVars, wire, client, accepted>>

\* The task ends: an error, a failed revalidation, a deadline, or the client is
\* gone.  Dropping its slot gives the capacity back.
EndStream(c) ==
    /\ c \in slots
    /\ slots' = slots \ {c}
    /\ counts' = [counts EXCEPT !.active = @ - 1]
    /\ stream' = IF c = client.attempt /\ stream.phase # "none"
                 THEN [stream EXCEPT !.phase = "ended"] ELSE stream
    /\ UNCHANGED <<committed, wakeVars, requests, unused, redeeming, wire, client, accepted>>

EndNative ==
    /\ client.dialect = "native"
    /\ Subscribed
    /\ stream' = [stream EXCEPT !.phase = "ended"]
    /\ UNCHANGED <<committed, wakeVars, brokerVars, wire, client, accepted>>

\* The daemon restarts: its bus, its broker and its connections are gone.
DaemonRestart ==
    /\ unused # {} \/ redeeming # {} \/ slots # {} \/ Subscribed
    /\ unused' = {} /\ redeeming' = {} /\ slots' = {}
    /\ counts' = [unused |-> 0, active |-> 0]
    /\ owing' = owing \ (Seqs \X {"daemon"})
    /\ hints' = {}
    /\ lost' = lost \cup {<<n, "dropped">> : n \in {m \in Seqs : m \in hints \/ <<m, "daemon">> \in owing}}
    /\ stream' = IF stream.phase = "none" THEN stream ELSE [stream EXCEPT !.phase = "ended"]
    /\ UNCHANGED <<committed, requests, wire, client, accepted>>

-----------------------------------------------------------------------------
\* The client: its socket attempt and its MessageAcceptanceQueue.

\* The lane takes the next message that is not a duplicate.
Drained(lane) ==
    LET fresh == SelectSeq(lane.pending, LAMBDA n : n > lane.cursor)
    IN  IF lane.accepting # 0 THEN lane
        ELSE IF fresh = <<>> THEN [lane EXCEPT !.pending = <<>>]
        ELSE [lane EXCEPT !.accepting = Head(fresh), !.pending = Tail(fresh)]

\* The client leaves its connection: frames it has not received are dropped,
\* those already in its lane are accepted before it settles.
Leave(left) ==
    /\ client' = [left EXCEPT !.phase = "settling"]
    /\ stream' = NoStream
    /\ wire' = <<>>

\* The ready frame, or the upgrade of a native socket.
BecomeReady ==
    /\ client.phase = "opening"
    /\ wire # <<>>
    /\ client' = [client EXCEPT !.phase = "live"]
    /\ wire' = Tail(wire)
    /\ UNCHANGED <<committed, wakeVars, brokerVars, stream, accepted>>

\* As if a message that finds the lane full replaced what waits in it.
ReceiveReplacing ==
    /\ client.phase = "live"
    /\ wire # <<>>
    /\ wire' = Tail(wire)
    /\ client' = IF Len(client.pending) >= MaxPending
                 THEN [client EXCEPT !.pending = <<Head(wire)>>]
                 ELSE Drained([client EXCEPT !.pending = Append(@, Head(wire))])
    /\ UNCHANGED <<committed, wakeVars, brokerVars, stream, accepted>>

\* A message frame is offered to the lane; a full lane is cleared and the
\* connection left, so that the messages are replayed.
ReceiveMessage ==
    /\ client.phase = "live"
    /\ wire # <<>>
    /\ \/ /\ Len(client.pending) < MaxPending
          /\ client' = Drained([client EXCEPT !.pending = Append(@, Head(wire))])
          /\ wire' = Tail(wire)
          /\ UNCHANGED stream
       \/ /\ Len(client.pending) >= MaxPending
          /\ Leave([client EXCEPT !.pending = <<>>])
    /\ UNCHANGED <<committed, wakeVars, brokerVars, accepted>>

\* As if the lane went on only when the next frame is offered.
FinishWithoutNext ==
    /\ client.accepting # 0
    /\ accepted' = Append(accepted, client.accepting)
    /\ client' = [client EXCEPT !.cursor = client.accepting, !.accepting = 0]
    /\ UNCHANGED <<committed, wakeVars, brokerVars, stream, wire>>

\* The consumer's promise resolves: only now does the cursor advance.
FinishAccept ==
    /\ client.accepting # 0
    /\ accepted' = Append(accepted, client.accepting)
    /\ client' = Drained([client EXCEPT !.cursor = client.accepting, !.accepting = 0])
    /\ UNCHANGED <<committed, wakeVars, brokerVars, stream, wire>>

\* The consumer's promise rejects: the adapter fails.
RejectMessage ==
    /\ client.accepting # 0
    /\ client' = [client EXCEPT !.phase = IF client.stop THEN "closed" ELSE "failed",
                                !.accepting = 0, !.pending = <<>>]
    /\ stream' = NoStream
    /\ wire' = <<>>
    /\ UNCHANGED <<committed, wakeVars, brokerVars, accepted>>

\* The attempt's timer fires before the connection is ready.
ReadyTimeout ==
    /\ client.phase \in {"connecting", "opening"}
    /\ Leave(client)
    /\ UNCHANGED <<committed, wakeVars, brokerVars, accepted>>

\* The close of a connection the daemon has ended arrives behind its frames.
NoticeClose ==
    /\ client.phase = "live"
    /\ stream.phase = "ended"
    /\ wire = <<>>
    /\ Leave(client)
    /\ UNCHANGED <<committed, wakeVars, brokerVars, accepted>>

\* The transport fails under the client.
Disconnect ==
    /\ client.phase = "live"
    /\ Leave(client)
    /\ UNCHANGED <<committed, wakeVars, brokerVars, accepted>>

\* close(): the socket is closed, and its close event clears the lane.
Stop ==
    /\ ~client.stop
    /\ ~Terminal
    /\ Leave([client EXCEPT !.stop = TRUE])
    /\ UNCHANGED <<committed, wakeVars, brokerVars, accepted>>

ClearStopped ==
    /\ client.phase = "settling"
    /\ client.stop
    /\ client.pending # <<>>
    /\ client' = [client EXCEPT !.pending = <<>>]
    /\ UNCHANGED <<committed, wakeVars, brokerVars, stream, wire, accepted>>

\* The attempt settles once its lane is idle and empty.  The next one starts at
\* the accepted cursor, unless the delays are exhausted or the client stopped.
Settle ==
    /\ client.phase = "settling"
    /\ client.accepting = 0
    /\ client.pending = <<>>
    /\ \/ client.stop /\ client' = [client EXCEPT !.phase = "closed"] /\ UNCHANGED requests
       \/ /\ ~client.stop
          /\ client.attempt = MaxReconnects
          /\ client' = [client EXCEPT !.phase = "failed"]
          /\ UNCHANGED requests
       \/ /\ ~client.stop
          /\ client.attempt < MaxReconnects
          /\ client' = [client EXCEPT !.phase = "connecting", !.attempt = @ + 1]
          /\ requests' = IF client.dialect = "browser" THEN requests \cup {client.attempt + 1}
                         ELSE requests
    /\ UNCHANGED <<committed, wakeVars, unused, redeeming, slots, counts, stream, wire, accepted>>

-----------------------------------------------------------------------------
Wakes == \E n \in Seqs : Announce(n) \/ Notify(n) \/ BridgeHint(n)

Serving == ServeBrowser \/ ReadPage \/ SendMessage \/ TakeWake

Broker(c) ==
    \/ \E expired \in SUBSET unused : IssueGrant(c, expired)
    \/ RedeemGrant(c)
    \/ ReserveActive(c)

Next ==
    \/ \E source \in Sources : Commit(source)
    \/ CommitFiring
    \/ Wakes
    \/ \E n \in Seqs : LoseWake(n)
    \/ \E c \in Attempts : Broker(c) \/ EndStream(c)
    \/ ServeNative \/ Serving \/ EndNative \/ DaemonRestart
    \/ BecomeReady \/ ReceiveMessage \/ FinishAccept \/ RejectMessage
    \/ ReadyTimeout \/ NoticeClose \/ Disconnect \/ Stop \/ ClearStopped \/ Settle

\* What the schedulers of the daemon and of the client give: a task that can run
\* runs, a timer fires, the consumer answers.  Nothing makes a connection fail.
Fairness ==
    /\ WF_vars(Wakes)
    /\ WF_vars(Serving)
    /\ WF_vars(BecomeReady \/ ReceiveMessage)
    /\ WF_vars(FinishAccept \/ RejectMessage)
    /\ WF_vars(ReadyTimeout)
    /\ WF_vars(NoticeClose)
    /\ WF_vars(Settle)

Spec == Init /\ [][Next]_vars /\ Fairness

-----------------------------------------------------------------------------
\* Across reconnects, overflows, restarts and lost wakes the consumer of
\* MessageAcceptanceQueue accepts every message once, in order and without a
\* gap, and the replay cursor is exactly the last message it accepted.
AcceptedExactlyInOrder ==
    /\ accepted = [i \in 1..Len(accepted) |-> i]
    /\ client.cursor = Len(accepted)

\* A wake for message n is on its way, or waits in the receiver and will make
\* run_channel_stream replay past the cursor.
Coming(n) ==
    \/ n \in hints
    \/ \E source \in Sources : <<n, source>> \in owing
    \/ stream.lagged
    \/ \E i \in DOMAIN stream.queue :
           stream.queue[i] = External \/ stream.queue[i] > stream.cursor

\* No wake-up is missed: a wake is coming for every message a live stream has not
\* sent, unless its committer dropped it or is a trigger's handler, however commits,
\* wakes and pages interleave (stream and redeem_browser_channel_stream subscribe
\* before the first page; a receiver that was overrun replays).
UnsentIsAnnounced ==
    stream.phase = "live" =>
        \A n \in (stream.cursor + 1)..committed :
            Coming(n) \/ \E loss \in Losses : <<n, loss>> \in lost

\* The broker's counters are its grants and its slots, both within their limits,
\* whatever answers were lost and whatever tasks outlived their client; and a
\* browser stream is served only by a task that owns its slot.
BrokerIsBounded ==
    /\ counts = [unused |-> Cardinality(unused), active |-> Cardinality(slots)]
    /\ counts.unused <= MaxUnused
    /\ counts.active <= MaxActive
    /\ client.dialect = "browser" /\ Subscribed => client.attempt \in slots

\* The consumer catches up again and again, until the client reaches its end: a
\* committed message is accepted, except while the stream that should send it got
\* no wake for it.  A reconnect replays what was lost, and a receiver that was
\* overrun is told to replay (channel_stream.rs run_channel_stream).
ConsumerCatchesUp ==
    []<>(\/ Terminal
         \/ \A n \in 1..committed :
                n <= client.cursor \/ \E loss \in Losses : <<n, loss>> \in lost)
=============================================================================
