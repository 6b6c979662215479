---------------------------- MODULE BrowserFeed ----------------------------
(***************************************************************************)
(* What browsers see of one session: the publishers of its messages        *)
(* (SessionStreamBridge.publish in the coordinator and the job, and        *)
(* _ws_to_redis for what is typed into a browser), the capped history, and *)
(* the websocket of each browser with its two directions and the           *)
(* subscriber count.                                                       *)
(*                                                                         *)
(* One action is one Redis command.  A message published reaches the       *)
(* subscriptions that exist at that moment.                                *)
(***************************************************************************)
EXTENDS Naturals, Sequences, FiniteSets, SequencesExt

CONSTANTS
  Browsers,
  Streamed,    \* messages of bridges, each from a bridge of its own
  Typed,       \* inject_message texts typed while the session runs
  HistoryMax,  \* HISTORY_MAX
  MaxRetries,  \* max_retries of _redis_to_ws
  MaxDrops     \* bound: lost pub/sub connections, keys that expire, failed commands

Messages == Streamed \cup Typed

FeedAssumption ==
  /\ Streamed \cap Typed = {}
  /\ HistoryMax \in Nat /\ MaxRetries \in Nat /\ MaxDrops \in Nat
FeedBounds == IsFiniteSet(Browsers) /\ IsFiniteSet(Messages)

VARIABLES
  log,         \* session:history:{token}
  count,       \* session:subscribers:{token}; 0 when absent
  place,       \* how far the publication of each message has got
  view,        \* each browser: where its websocket handler is
  reader,      \* _redis_to_ws: off, on, backoff or ended
  socket,      \* the websocket is connected
  attempt,     \* attempts of _redis_to_ws so far
  mail,        \* messages of the subscription not yet forwarded
  screen,      \* messages sent to the browser
  excused,     \* history: <<b, m>> published where b could not see it
  forgotten,   \* history: messages cut from the history or expired with it
  drops

feedVars == <<log, count, place, view, reader, socket, attempt, mail, screen,
              excused, forgotten, drops>>

FeedTypeOK ==
  /\ log \in Seq(Messages) /\ Len(log) <= HistoryMax + Cardinality(Messages)
  /\ count \in 0..Cardinality(Browsers)
  /\ place \in [Messages -> {"new", "pushed", "trimmed", "published", "done",
                             "failed"}]
  /\ view \in [Browsers -> {"new", "read", "counted", "left"}]
  /\ reader \in [Browsers -> {"off", "on", "backoff", "ended"}]
  /\ socket \in [Browsers -> BOOLEAN]
  /\ attempt \in [Browsers -> 0..MaxRetries]
  /\ \A b \in Browsers : mail[b] \in Seq(Messages)
  /\ screen \in [Browsers -> SUBSET Messages]
  /\ excused \subseteq Browsers \X Messages /\ forgotten \subseteq Messages
  /\ drops \in 0..MaxDrops

FeedInit ==
  /\ log = <<>> /\ count = 0
  /\ place = [m \in Messages |-> "new"]
  /\ view = [b \in Browsers |-> "new"]
  /\ reader = [b \in Browsers |-> "off"]
  /\ socket = [b \in Browsers |-> TRUE]
  /\ attempt = [b \in Browsers |-> 0]
  /\ mail = [b \in Browsers |-> <<>>]
  /\ screen = [b \in Browsers |-> {}]
  /\ excused = {} /\ forgotten = {} /\ drops = 0

-----------------------------------------------------------------------------
(* Publishers.                                                             *)

Move(m, from, to) == place[m] = from /\ place' = [place EXCEPT ![m] = to]

browser == <<view, reader, socket, attempt, screen>>

\* Redis PUBLISH on session:msg:{token}: who is subscribed gets the message;
\* who has read the history and is not subscribed never will.
Publish(m) ==
  /\ mail' = [b \in Browsers |->
                IF reader[b] = "on" THEN Append(mail[b], m) ELSE mail[b]]
  /\ excused' = excused \cup
       {<<b, m>> : b \in {x \in Browsers : view[x] # "new" /\ reader[x] # "on"}}

\* Mutant: the message goes to the subscribers only.
BridgeNoHistory(m) ==
  /\ m \in Streamed /\ Move(m, "new", "pushed")
  /\ UNCHANGED <<log, count, browser, mail, excused, forgotten, drops>>

\* SessionStreamBridge.publish: RPUSH, LTRIM, EXPIRE, PUBLISH.
BridgePush(m) ==
  /\ m \in Streamed /\ Move(m, "new", "pushed")
  /\ log' = Append(log, m)
  /\ UNCHANGED <<count, browser, mail, excused, forgotten, drops>>

BridgeTrim(m) ==
  /\ m \in Streamed /\ Move(m, "pushed", "trimmed")
  /\ log' = IF Len(log) > HistoryMax
            THEN SubSeq(log, Len(log) - HistoryMax + 1, Len(log)) ELSE log
  /\ forgotten' = forgotten \cup (ToSet(log) \ ToSet(log'))
  /\ UNCHANGED <<count, browser, mail, excused, drops>>

BridgePublish(m) ==
  /\ m \in Streamed /\ Move(m, "trimmed", "done")
  /\ Publish(m)
  /\ UNCHANGED <<log, count, browser, forgotten, drops>>

\* A failed command is logged and the rest of publish is skipped.
PublishFails(m) ==
  /\ place[m] \in {"new", "pushed", "trimmed", "published"}
  /\ place' = [place EXCEPT ![m] = "failed"]
  /\ drops < MaxDrops /\ drops' = drops + 1
  /\ UNCHANGED <<log, count, browser, mail, excused, forgotten>>

\* _ws_to_redis of a connected browser: PUBLISH first, then RPUSH.
TypedPublish(m) ==
  /\ m \in Typed /\ Move(m, "new", "published")
  /\ \E b \in Browsers : view[b] = "counted" /\ socket[b]
  /\ Publish(m)
  /\ UNCHANGED <<log, count, browser, forgotten, drops>>

TypedPush(m) ==
  /\ m \in Typed /\ Move(m, "published", "done")
  /\ log' = Append(log, m)
  /\ UNCHANGED <<count, browser, mail, excused, forgotten, drops>>

HistoryExpires ==
  /\ log # <<>> /\ log' = <<>>
  /\ forgotten' = forgotten \cup ToSet(log)
  /\ drops < MaxDrops /\ drops' = drops + 1
  /\ UNCHANGED <<count, place, browser, mail, excused>>

-----------------------------------------------------------------------------
(* A browser's websocket.                                                  *)

feed == <<log, place, excused, forgotten>>

\* websocket_session up to the session_meta message: transcript and history.
Connect(b) ==
  /\ view[b] = "new" /\ view' = [view EXCEPT ![b] = "read"]
  /\ screen' = [screen EXCEPT ![b] = ToSet(log)]
  /\ UNCHANGED <<feed, count, reader, socket, attempt, mail, drops>>

\* increment_subscribers, and the two directions start.
Increment(b) ==
  /\ view[b] = "read" /\ view' = [view EXCEPT ![b] = "counted"]
  /\ count' = count + 1
  /\ UNCHANGED <<feed, reader, socket, attempt, mail, screen, drops>>

\* _redis_to_ws: an attempt begins with the look at the socket.
Subscribe(b) ==
  /\ view[b] = "counted" /\ reader[b] \in {"off", "backoff"}
  /\ reader' = [reader EXCEPT ![b] = IF socket[b] THEN "on" ELSE "ended"]
  /\ UNCHANGED <<feed, count, view, socket, attempt, mail, screen, drops>>

Forward(b) ==
  /\ reader[b] = "on" /\ mail[b] # <<>>
  /\ mail' = [mail EXCEPT ![b] = Tail(@)]
  /\ screen' = IF socket[b] THEN [screen EXCEPT ![b] = @ \cup {Head(mail[b])}]
               ELSE screen
  /\ UNCHANGED <<feed, count, view, reader, socket, attempt, drops>>

\* The pub/sub connection is lost with what it had not delivered; after
\* max_retries the direction gives up.
DropPubSub(b) ==
  /\ reader[b] = "on" /\ drops < MaxDrops /\ drops' = drops + 1
  /\ IF attempt[b] < MaxRetries
     THEN /\ reader' = [reader EXCEPT ![b] = "backoff"]
          /\ attempt' = [attempt EXCEPT ![b] = @ + 1]
     ELSE reader' = [reader EXCEPT ![b] = "ended"] /\ UNCHANGED attempt
  /\ excused' = excused \cup ({b} \X ToSet(mail[b]))
  /\ mail' = [mail EXCEPT ![b] = <<>>]
  /\ UNCHANGED <<log, count, place, view, socket, screen, forgotten>>

\* The browser goes away: _ws_to_redis returns.
Disconnect(b) ==
  /\ view[b] = "counted" /\ socket[b]
  /\ socket' = [socket EXCEPT ![b] = FALSE]
  /\ UNCHANGED <<feed, count, view, reader, attempt, mail, screen, drops>>

\* gather has both directions' results: decrement_subscribers, which deletes
\* the key at zero and below.
Leave(b) ==
  /\ view[b] = "counted" /\ ~socket[b] /\ reader[b] = "ended"
  /\ view' = [view EXCEPT ![b] = "left"]
  /\ count' = IF count > 0 THEN count - 1 ELSE 0
  /\ UNCHANGED <<feed, reader, socket, attempt, mail, screen, drops>>

\* The counter's TTL runs from its first subscriber; delete_session and
\* _cleanup_streaming delete it.
CounterExpires ==
  /\ count > 0 /\ count' = 0
  /\ drops < MaxDrops /\ drops' = drops + 1
  /\ UNCHANGED <<feed, browser, mail>>

FeedNext ==
  \/ \E m \in Messages : \/ BridgePush(m) \/ BridgeTrim(m) \/ BridgePublish(m)
                         \/ PublishFails(m) \/ TypedPublish(m) \/ TypedPush(m)
  \/ \E b \in Browsers : \/ Connect(b) \/ Increment(b) \/ Subscribe(b) \/ Forward(b)
                         \/ DropPubSub(b) \/ Disconnect(b) \/ Leave(b)
  \/ HistoryExpires \/ CounterExpires

FeedSpec == FeedInit /\ [][FeedNext]_feedVars

-----------------------------------------------------------------------------
(* Properties.                                                             *)

\* SessionStreamBridge.publish writes the history first: a connected browser
\* lacks a published message only if it was published between the browser's
\* reading of the history and its subscription, during a reconnection, or if
\* the history had lost it before the browser read it.
FeedComplete ==
  \A b \in Browsers, m \in Streamed :
    view[b] # "new" /\ socket[b] /\ place[m] = "done" =>
      \/ m \in screen[b] \/ m \in ToSet(mail[b])
      \/ <<b, m>> \in excused \/ m \in forgotten

=============================================================================
