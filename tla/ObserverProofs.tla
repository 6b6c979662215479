--------------------------- MODULE ObserverProofs ---------------------------
(***************************************************************************)
(* Proofs about those who follow a session: the browsers, which read the   *)
(* history and then the channel of a session stream, and the Langfuse hook *)
(* processes, which read a transcript that others append to.               *)
(*                                                                         *)
(* What a bridge has pushed is in the history or was forgotten by it       *)
(* (HistoryHolds), so a browser that reads the history shows all that was  *)
(* published before; what is published later it has in its mailbox, or is  *)
(* excused.  A message is published only after it was pushed               *)
(* (BridgePlaces).                                                         *)
(*                                                                         *)
(* A hook process that waited for the lock has it (Locked).  What others   *)
(* sent lies before the saved offset and under numbers up to the saved one *)
(* (SentSaved); what the process sends lies between that offset and the    *)
(* one it will save, in order (Sending): so no two sent turns are the same *)
(* (SentOnce).  An offset, saved or in a process's memory, never passes a  *)
(* line that no process has parsed (AllParsed).                            *)
(***************************************************************************)
EXTENDS BrowserFeed, TranscriptTrace, SequenceTheorems, FiniteSetTheorems, TLAPS

(* BrowserFeed.                                                            *)

\* The types that the steps rely on.
FeedTypes ==
  /\ log \in Seq(Messages)
  /\ place \in [Messages -> {"new", "pushed", "trimmed", "published", "done", "failed"}]
  /\ view \in [Browsers -> {"new", "read", "counted", "left"}]
  /\ reader \in [Browsers -> {"off", "on", "backoff", "ended"}]
  /\ socket \in [Browsers -> BOOLEAN]
  /\ mail \in [Browsers -> Seq(Messages)]
  /\ screen \in [Browsers -> SUBSET Messages]

\* What a bridge has pushed is in the history, or was forgotten.
HistoryHolds ==
  \A m \in Streamed :
    place[m] \in {"pushed", "trimmed", "done"} => m \in ToSet(log) \/ m \in forgotten

\* A bridge's message is never only published.
BridgePlaces == \A m \in Streamed : place[m] # "published"

FeedInv == FeedTypes /\ HistoryHolds /\ BridgePlaces /\ FeedComplete

\* A browser has been shown m, will be, or has its excuse.
Seen(b, m) ==
  \/ m \in screen[b] \/ m \in ToSet(mail[b])
  \/ <<b, m>> \in excused \/ m \in forgotten

\* The elements of a sequence that is longer by one.
LEMMA SetOfAppend ==
  ASSUME NEW S, NEW s \in Seq(S), NEW x
  PROVE  ToSet(Append(s, x)) = ToSet(s) \cup {x}
<1>1. /\ Len(Append(s, x)) = Len(s) + 1
      /\ \A i \in 1 .. Len(s) : Append(s, x)[i] = s[i]
      /\ Append(s, x)[Len(s) + 1] = x
  OBVIOUS
<1>2. Append(s, x) \in Seq(S \cup {x}) /\ Len(s) \in Nat
  OBVIOUS
<1>3. DOMAIN Append(s, x) = 1 .. Len(s) + 1 /\ DOMAIN s = 1 .. Len(s)
  BY <1>1, <1>2
<1>4. ASSUME NEW y \in ToSet(Append(s, x)) PROVE y \in ToSet(s) \cup {x}
  BY <1>1, <1>2, <1>3 DEF ToSet
<1>5. ASSUME NEW y \in ToSet(s) PROVE y \in ToSet(Append(s, x))
  BY <1>1, <1>2, <1>3 DEF ToSet
<1>6. x \in ToSet(Append(s, x))
  BY <1>1, <1>2, <1>3 DEF ToSet
<1> QED
  BY <1>4, <1>5, <1>6

\* The elements of a sequence and of its tail.
LEMMA SetOfTail ==
  ASSUME NEW S, NEW s \in Seq(S), s # <<>>
  PROVE  Tail(s) \in Seq(S) /\ ToSet(s) = ToSet(Tail(s)) \cup {Head(s)}
<1>1. /\ Tail(s) \in Seq(S) /\ Len(Tail(s)) = Len(s) - 1 /\ Len(s) \in Nat \ {0}
      /\ Head(s) = s[1]
  OBVIOUS
<1>2. \A i \in 1 .. Len(s) - 1 : Tail(s)[i] = s[i + 1]
  OBVIOUS
<1>3. DOMAIN s = 1 .. Len(s) /\ DOMAIN Tail(s) = 1 .. Len(s) - 1
  BY <1>1
<1>4. ASSUME NEW y \in ToSet(s) PROVE y \in ToSet(Tail(s)) \cup {Head(s)}
  <2>1. PICK i \in 1 .. Len(s) : y = s[i]
    BY <1>3 DEF ToSet
  <2>2. CASE i = 1
    BY <1>1, <2>1, <2>2
  <2>3. CASE i # 1
    <3>1. i - 1 \in 1 .. Len(s) - 1 /\ (i - 1) + 1 = i
      BY <1>1, <2>3
    <3>2. Tail(s)[i - 1] = y
      BY <1>2, <2>1, <3>1
    <3> QED
      BY <1>3, <3>1, <3>2 DEF ToSet
  <2> QED
    BY <2>2, <2>3
<1>5. ASSUME NEW y \in ToSet(Tail(s)) PROVE y \in ToSet(s)
  BY <1>1, <1>2, <1>3 DEF ToSet
<1>6. Head(s) \in ToSet(s)
  BY <1>1, <1>3 DEF ToSet
<1> QED
  BY <1>1, <1>4, <1>5, <1>6

\* The publishers keep the types, and a bridge's places.
LEMMA PublisherTyped ==
  ASSUME FeedAssumption, FeedTypes, BridgePlaces, NEW m \in Messages,
         \/ BridgePush(m) \/ BridgeTrim(m) \/ BridgePublish(m)
         \/ PublishFails(m) \/ TypedPublish(m) \/ TypedPush(m)
  PROVE  FeedTypes' /\ BridgePlaces'
<1>1. CASE BridgePush(m) \/ TypedPush(m)
  <2>1. Append(log, m) \in Seq(Messages)
    BY DEF FeedTypes
  <2>2. PICK p \in {"pushed", "done"} : place' = [place EXCEPT ![m] = p]
    BY <1>1 DEF BridgePush, TypedPush, Move
  <2>3. log' = Append(log, m) /\ UNCHANGED <<view, reader, socket, screen, mail>>
    BY <1>1 DEF BridgePush, TypedPush, browser
  <2> QED
    BY <2>1, <2>2, <2>3 DEF FeedTypes, BridgePlaces
<1>2. CASE BridgeTrim(m)
  <2>1. log' \in Seq(Messages)
    BY <1>2, SubSeqProperties DEF FeedAssumption, FeedTypes, BridgeTrim
  <2> QED
    BY <1>2, <2>1 DEF FeedTypes, BridgePlaces, BridgeTrim, Move, browser
<1>3. CASE BridgePublish(m) \/ TypedPublish(m)
  <2>1. \A b \in Browsers : Append(mail[b], m) \in Seq(Messages) /\ mail[b] \in Seq(Messages)
    BY DEF FeedTypes
  <2>2. mail' \in [Browsers -> Seq(Messages)]
    BY <1>3, <2>1 DEF BridgePublish, TypedPublish, Publish
  <2>3. PICK p \in {"published", "done"} :
          place' = [place EXCEPT ![m] = p] /\ (m \in Streamed => p = "done")
    BY <1>3 DEF BridgePublish, TypedPublish, Move, FeedAssumption
  <2>4. UNCHANGED <<log, view, reader, socket, screen>>
    BY <1>3 DEF BridgePublish, TypedPublish, browser
  <2> QED
    BY <2>2, <2>3, <2>4 DEF FeedTypes, BridgePlaces
<1>4. CASE PublishFails(m)
  BY <1>4 DEF FeedTypes, BridgePlaces, PublishFails, browser
<1> QED
  BY <1>1, <1>2, <1>3, <1>4

\* The browsers keep the types.
LEMMA BrowserTyped ==
  ASSUME FeedTypes, NEW b \in Browsers,
         \/ Connect(b) \/ Increment(b) \/ Subscribe(b) \/ Forward(b)
         \/ DropPubSub(b) \/ Disconnect(b) \/ Leave(b)
  PROVE  FeedTypes'
<1>1. CASE Connect(b)
  <2>1. ToSet(log) \subseteq Messages
    BY RangeOfSeq DEF FeedTypes, ToSet, Range
  <2> QED
    BY <1>1, <2>1 DEF FeedTypes, Connect, feed
<1>2. CASE Increment(b) \/ Disconnect(b) \/ Leave(b)
  BY <1>2 DEF FeedTypes, Increment, Disconnect, Leave, feed
<1>3. CASE Subscribe(b)
  BY <1>3 DEF FeedTypes, Subscribe, feed
<1>4. CASE Forward(b)
  <2>1. mail[b] \in Seq(Messages) /\ mail[b] # <<>>
    BY <1>4 DEF FeedTypes, Forward
  <2>2. Tail(mail[b]) \in Seq(Messages) /\ Head(mail[b]) \in Messages
    BY <2>1
  <2> QED
    BY <1>4, <2>2 DEF FeedTypes, Forward, feed
<1>5. CASE DropPubSub(b)
  <2>1. <<>> \in Seq(Messages)
    OBVIOUS
  <2>2. \E p \in {"backoff", "ended"} : reader' = [reader EXCEPT ![b] = p]
    BY <1>5 DEF DropPubSub
  <2> QED
    BY <1>5, <2>1, <2>2 DEF FeedTypes, DropPubSub
<1> QED
  BY <1>1, <1>2, <1>3, <1>4, <1>5

\* The history holds what bridges have pushed, through every step.
LEMMA HistoryStep ==
  ASSUME FeedAssumption, FeedTypes, HistoryHolds, FeedNext PROVE HistoryHolds'
<1>1. ASSUME NEW m \in Messages, BridgePush(m) \/ TypedPush(m) PROVE HistoryHolds'
  <2>1. ToSet(log') = ToSet(log) \cup {m} /\ UNCHANGED forgotten
    BY <1>1, SetOfAppend DEF BridgePush, TypedPush, FeedTypes
  <2>2. \A n \in Streamed \ {m} : place'[n] = place[n]
    BY <1>1 DEF BridgePush, TypedPush, Move, FeedTypes, Messages
  <2> QED
    BY <2>1, <2>2 DEF HistoryHolds
<1>2. ASSUME NEW m \in Messages, BridgeTrim(m) PROVE HistoryHolds'
  BY <1>2 DEF BridgeTrim, Move, HistoryHolds, FeedTypes, Messages
<1>3. ASSUME NEW m \in Messages, BridgePublish(m) \/ PublishFails(m) \/ TypedPublish(m)
      PROVE  HistoryHolds'
  <2>1. /\ UNCHANGED <<log, forgotten>>
        /\ \A n \in Streamed : place'[n] \in {"pushed", "trimmed", "done"} =>
             place[n] \in {"pushed", "trimmed", "done"}
    BY <1>3 DEF BridgePublish, PublishFails, TypedPublish, Move, FeedTypes, Messages
  <2> QED
    BY <2>1 DEF HistoryHolds
<1>4. ASSUME NEW b \in Browsers,
             \/ Connect(b) \/ Increment(b) \/ Subscribe(b) \/ Forward(b)
             \/ DropPubSub(b) \/ Disconnect(b) \/ Leave(b)
      PROVE  HistoryHolds'
  <2>1. UNCHANGED <<log, place, forgotten>>
    BY <1>4
       DEF Connect, Increment, Subscribe, Forward, DropPubSub, Disconnect, Leave, feed
  <2> QED
    BY <2>1 DEF HistoryHolds
<1>5. CASE HistoryExpires
  BY <1>5 DEF HistoryExpires, HistoryHolds
<1>6. CASE CounterExpires
  BY <1>6 DEF CounterExpires, HistoryHolds, feed
<1> QED
  BY <1>1, <1>2, <1>3, <1>4, <1>5, <1>6 DEF FeedNext

\* What a connected browser has, will have or is excused from stays so.
LEMMA SeenKept ==
  ASSUME FeedTypes, FeedNext, NEW b \in Browsers, NEW m \in Streamed,
         Seen(b, m), view[b] # "new", socket'[b]
  PROVE  Seen(b, m)'
<1>1. ASSUME screen' = screen, mail'[b] = mail[b], excused \subseteq excused',
             forgotten \subseteq forgotten'
      PROVE  Seen(b, m)'
  BY <1>1 DEF Seen
<1>2. ASSUME NEW n \in Messages,
             \/ BridgePush(n) \/ BridgeTrim(n) \/ PublishFails(n) \/ TypedPush(n)
      PROVE  Seen(b, m)'
  BY <1>1, <1>2 DEF BridgePush, BridgeTrim, PublishFails, TypedPush, browser
<1>3. ASSUME NEW n \in Messages, BridgePublish(n) \/ TypedPublish(n) PROVE Seen(b, m)'
  <2>1. /\ screen' = screen /\ forgotten' = forgotten /\ excused \subseteq excused'
        /\ mail'[b] = mail[b] \/ mail'[b] = Append(mail[b], n)
    BY <1>3 DEF BridgePublish, TypedPublish, Publish, browser
  <2>2. ToSet(mail[b]) \subseteq ToSet(mail'[b])
    BY <2>1, SetOfAppend DEF FeedTypes
  <2> QED
    BY <2>1, <2>2 DEF Seen
<1>4. ASSUME NEW c \in Browsers,
             Increment(c) \/ Subscribe(c) \/ Disconnect(c) \/ Leave(c)
      PROVE  Seen(b, m)'
  BY <1>1, <1>4 DEF Increment, Subscribe, Disconnect, Leave, feed
<1>5. ASSUME NEW c \in Browsers, Connect(c) PROVE Seen(b, m)'
  BY <1>5 DEF Connect, feed, Seen, FeedTypes
<1>6. ASSUME NEW c \in Browsers, Forward(c) PROVE Seen(b, m)'
  <2>1. CASE c = b
    <3>1. ToSet(mail[b]) = ToSet(Tail(mail[b])) \cup {Head(mail[b])}
      BY <1>6, <2>1, SetOfTail DEF Forward, FeedTypes
    <3>2. /\ mail'[b] = Tail(mail[b]) /\ screen'[b] = screen[b] \cup {Head(mail[b])}
          /\ UNCHANGED <<excused, forgotten>>
      BY <1>6, <2>1 DEF Forward, FeedTypes, feed
    <3> QED
      BY <3>1, <3>2 DEF Seen
  <2>2. CASE c # b
    BY <1>6, <2>2 DEF Forward, FeedTypes, feed, Seen
  <2> QED
    BY <2>1, <2>2
<1>7. ASSUME NEW c \in Browsers, DropPubSub(c) PROVE Seen(b, m)'
  <2>1. /\ screen' = screen /\ forgotten' = forgotten
        /\ excused' = excused \cup ({c} \X ToSet(mail[c]))
        /\ mail' = [mail EXCEPT ![c] = <<>>]
    BY <1>7 DEF DropPubSub
  <2> QED
    BY <2>1 DEF Seen, FeedTypes
<1>8. CASE HistoryExpires \/ CounterExpires
  BY <1>1, <1>8 DEF HistoryExpires, CounterExpires, browser, feed
<1> QED
  BY <1>2, <1>3, <1>4, <1>5, <1>6, <1>7, <1>8 DEF FeedNext

\* A browser that connects has the history; a message that is published reaches
\* who is subscribed, and excuses who is not.
LEMMA CompleteStep ==
  ASSUME FeedAssumption, FeedInv, FeedNext PROVE FeedComplete'
<1>1. FeedTypes /\ HistoryHolds /\ BridgePlaces /\ FeedComplete
  BY DEF FeedInv
<1> SUFFICES ASSUME NEW b \in Browsers, NEW m \in Streamed,
                    view'[b] # "new", socket'[b], place'[m] = "done"
             PROVE  Seen(b, m)'
  BY DEF FeedComplete, Seen
<1>2. ASSUME NEW n \in Messages,
             \/ BridgePush(n) \/ BridgeTrim(n) \/ BridgePublish(n)
             \/ PublishFails(n) \/ TypedPublish(n) \/ TypedPush(n)
      PROVE  view'[b] = view[b] /\ socket'[b] = socket[b]
  BY <1>2
     DEF BridgePush, BridgeTrim, BridgePublish, PublishFails, TypedPublish, TypedPush,
         browser
<1>3. ASSUME NEW c \in Browsers,
             \/ Increment(c) \/ Subscribe(c) \/ Forward(c)
             \/ DropPubSub(c) \/ Disconnect(c) \/ Leave(c)
      PROVE  view[b] # "new" /\ socket[b]
  BY <1>1, <1>3
     DEF Increment, Subscribe, Forward, DropPubSub, Disconnect, Leave, FeedTypes
<1>4. ASSUME place[m] = "done", view[b] # "new", socket[b] PROVE Seen(b, m)'
  <2>1. Seen(b, m)
    BY <1>1, <1>4 DEF FeedComplete, Seen
  <2> QED
    BY <1>1, <1>4, <2>1, SeenKept
<1>5. ASSUME NEW n \in Messages, BridgePublish(n) PROVE Seen(b, m)'
  <2>1. CASE n = m
    <3>1. CASE reader[b] = "on"
      <4>1. mail'[b] = Append(mail[b], m)
        BY <1>5, <2>1, <3>1 DEF BridgePublish, Publish
      <4>2. m \in ToSet(mail'[b])
        BY <1>1, <4>1, SetOfAppend DEF FeedTypes
      <4> QED
        BY <4>2 DEF Seen
    <3>2. CASE reader[b] # "on"
      <4>1. view[b] # "new"
        BY <1>2, <1>5
      <4>2. <<b, m>> \in excused'
        BY <1>5, <2>1, <3>2, <4>1 DEF BridgePublish, Publish
      <4> QED
        BY <4>2 DEF Seen
    <3> QED
      BY <3>1, <3>2
  <2>2. CASE n # m
    <3>1. place[m] = "done"
      BY <1>1, <1>5, <2>2 DEF BridgePublish, Move, FeedTypes, Messages
    <3> QED
      BY <1>2, <1>4, <1>5, <3>1
  <2> QED
    BY <2>1, <2>2
<1>6. ASSUME NEW n \in Messages,
             \/ BridgePush(n) \/ BridgeTrim(n) \/ PublishFails(n)
             \/ TypedPublish(n) \/ TypedPush(n)
      PROVE  Seen(b, m)'
  <2>1. place[m] = "done"
    BY <1>1, <1>6
       DEF BridgePush, BridgeTrim, PublishFails, TypedPublish, TypedPush, Move, FeedTypes,
           Messages, FeedAssumption
  <2> QED
    BY <1>2, <1>4, <1>6, <2>1
<1>7. ASSUME NEW c \in Browsers, Connect(c) PROVE Seen(b, m)'
  <2>1. UNCHANGED <<log, place, forgotten, socket>> /\ screen' = [screen EXCEPT ![c] = ToSet(log)]
        /\ view' = [view EXCEPT ![c] = "read"]
    BY <1>7 DEF Connect, feed
  <2>2. CASE c = b
    <3>1. m \in ToSet(log) \/ m \in forgotten
      BY <1>1, <2>1 DEF HistoryHolds
    <3> QED
      BY <1>1, <2>1, <2>2, <3>1 DEF Seen, FeedTypes
  <2>3. CASE c # b
    <3>1. view[b] # "new" /\ socket[b] /\ place[m] = "done"
      BY <1>1, <2>1, <2>3 DEF FeedTypes
    <3> QED
      BY <1>4, <3>1
  <2> QED
    BY <2>2, <2>3
<1>8. ASSUME NEW c \in Browsers,
             \/ Increment(c) \/ Subscribe(c) \/ Forward(c)
             \/ DropPubSub(c) \/ Disconnect(c) \/ Leave(c)
      PROVE  Seen(b, m)'
  <2>1. place[m] = "done"
    BY <1>8 DEF Increment, Subscribe, Forward, DropPubSub, Disconnect, Leave, feed
  <2> QED
    BY <1>3, <1>4, <1>8, <2>1
<1>9. CASE HistoryExpires \/ CounterExpires
  <2>1. place[m] = "done" /\ view[b] # "new" /\ socket[b]
    BY <1>9 DEF HistoryExpires, CounterExpires, browser, feed
  <2> QED
    BY <1>4, <2>1
<1> QED
  BY <1>5, <1>6, <1>7, <1>8, <1>9 DEF FeedNext

\* Nothing is published, read or sent at first.
LEMMA FeedStarts == FeedInit => FeedInv
<1>1. <<>> \in Seq(Messages)
  OBVIOUS
<1> QED
  BY <1>1
     DEF FeedInit, FeedInv, FeedTypes, HistoryHolds, BridgePlaces, FeedComplete, Messages

\* Every step of a publisher, a browser or the clock keeps the invariant.
LEMMA FeedStep ==
  ASSUME FeedAssumption PROVE FeedInv /\ [FeedNext]_feedVars => FeedInv'
<1> SUFFICES ASSUME FeedInv, [FeedNext]_feedVars PROVE FeedInv'
  OBVIOUS
<1>1. FeedTypes /\ HistoryHolds /\ BridgePlaces
  BY DEF FeedInv
<1>2. CASE FeedNext
  <2>1. ASSUME NEW m \in Messages,
               \/ BridgePush(m) \/ BridgeTrim(m) \/ BridgePublish(m)
               \/ PublishFails(m) \/ TypedPublish(m) \/ TypedPush(m)
        PROVE  FeedTypes' /\ BridgePlaces'
    BY <1>1, <2>1, PublisherTyped
  <2>2. ASSUME NEW b \in Browsers,
               \/ Connect(b) \/ Increment(b) \/ Subscribe(b) \/ Forward(b)
               \/ DropPubSub(b) \/ Disconnect(b) \/ Leave(b)
        PROVE  FeedTypes' /\ BridgePlaces'
    <3>1. place' = place
      BY <2>2
         DEF Connect, Increment, Subscribe, Forward, DropPubSub, Disconnect, Leave, feed
    <3> QED
      BY <1>1, <2>2, <3>1, BrowserTyped DEF BridgePlaces
  <2>3. ASSUME HistoryExpires \/ CounterExpires PROVE FeedTypes' /\ BridgePlaces'
    <3>1. /\ log' = log \/ log' = <<>>
          /\ UNCHANGED <<place, view, reader, socket, mail, screen>>
      BY <2>3 DEF HistoryExpires, CounterExpires, browser, feed
    <3>2. <<>> \in Seq(Messages) /\ log \in Seq(Messages)
      BY <1>1 DEF FeedTypes
    <3>3. log' \in Seq(Messages)
      BY <3>1, <3>2
    <3> QED
      BY <1>1, <3>1, <3>3 DEF FeedTypes, BridgePlaces
  <2>4. FeedTypes' /\ BridgePlaces'
    BY <1>2, <2>1, <2>2, <2>3 DEF FeedNext
  <2> QED
    BY <1>1, <1>2, <2>4, HistoryStep, CompleteStep DEF FeedInv
<1>3. CASE UNCHANGED feedVars
  BY <1>1, <1>3
     DEF feedVars, FeedInv, FeedTypes, HistoryHolds, BridgePlaces, FeedComplete
<1> QED
  BY <1>2, <1>3

\* A connected browser misses a published message of a bridge only for one of
\* its excuses, whatever is published, trimmed, expires or reconnects.
THEOREM FeedsComplete == ASSUME FeedAssumption PROVE FeedSpec => []FeedComplete
<1>1. FeedInv => FeedComplete
  BY DEF FeedInv
<1> QED
  BY <1>1, FeedStarts, FeedStep, PTL DEF FeedSpec

\* What may lie in the history beyond its maximum: messages pushed and not yet
\* trimmed, or whose publication failed in between, and what browsers typed.
Untrimmed ==
  {m \in Messages : place[m] \in {"pushed", "failed"} \/ (m \in Typed /\ place[m] = "done")}
HistoryCapped == Len(log) <= HistoryMax + Cardinality(Untrimmed)

\* The subscriber count is never above the browsers that hold it.
Holders == {b \in Browsers : view[b] = "counted"}
CountHeld == count \in Nat /\ count <= Cardinality(Holders)

\* The types of what no other step relies on.
FeedMarks ==
  /\ attempt \in [Browsers -> 0..MaxRetries] /\ drops \in 0..MaxDrops
  /\ excused \subseteq Browsers \X Messages /\ forgotten \subseteq Messages

FeedTypeInv == FeedInv /\ FeedMarks /\ HistoryCapped /\ CountHeld

\* A set of at most the size of another, to which an element may be new.
LEMMA SetGrows ==
  ASSUME NEW S, IsFiniteSet(S), NEW A \in SUBSET S, NEW B \in SUBSET S, A \subseteq B
  PROVE  /\ Cardinality(A) \in Nat /\ Cardinality(B) \in Nat
         /\ Cardinality(A) <= Cardinality(B) /\ Cardinality(B) <= Cardinality(S)
         /\ Cardinality(S) \in Nat
         /\ A # B => Cardinality(A) + 1 <= Cardinality(B)
<1>1. IsFiniteSet(A) /\ IsFiniteSet(B)
  BY FS_Subset
<1>2. /\ Cardinality(A) \in Nat /\ Cardinality(B) \in Nat /\ Cardinality(S) \in Nat
      /\ Cardinality(A) <= Cardinality(B) /\ Cardinality(B) <= Cardinality(S)
  BY <1>1, FS_Subset, FS_CardinalityType
<1>3. A # B => Cardinality(A) # Cardinality(B)
  BY <1>1, FS_Subset
<1> QED
  BY <1>2, <1>3

\* A publisher's step adds what it pushes to what may lie beyond the maximum;
\* the trim cuts the whole history.
LEMMA CappedStep ==
  ASSUME FeedAssumption, FeedBounds, FeedTypeInv, [FeedNext]_feedVars PROVE HistoryCapped'
<1>0. /\ FeedTypes /\ FeedTypes' /\ HistoryMax \in Nat /\ IsFiniteSet(Messages)
      /\ Len(log) <= HistoryMax + Cardinality(Untrimmed)
      /\ Streamed \cap Typed = {} /\ BridgePlaces
  BY FeedStep DEF FeedTypeInv, FeedInv, FeedAssumption, FeedBounds, HistoryCapped
<1>1. /\ Len(log) \in Nat /\ Len(log') \in Nat
      /\ Untrimmed \subseteq Messages /\ Untrimmed' \subseteq Messages
      /\ Cardinality(Untrimmed) \in Nat /\ Cardinality(Untrimmed') \in Nat
  <2>1. log \in Seq(Messages) /\ log' \in Seq(Messages)
    BY <1>0 DEF FeedTypes
  <2>2. Untrimmed \subseteq Messages /\ Untrimmed' \subseteq Messages
    BY DEF Untrimmed
  <2> QED
    BY <1>0, <2>1, <2>2, LenProperties, FS_Subset, FS_CardinalityType
<1>2. ASSUME Len(log') <= Len(log), Untrimmed \subseteq Untrimmed' PROVE HistoryCapped'
  <2>1. Cardinality(Untrimmed) <= Cardinality(Untrimmed')
    BY <1>0, <1>1, <1>2, SetGrows
  <2> QED
    BY <1>0, <1>1, <1>2, <2>1 DEF HistoryCapped
<1>3. ASSUME NEW m \in Messages, BridgePush(m) \/ TypedPush(m) PROVE HistoryCapped'
  <2>1. /\ log' = Append(log, m) /\ place[m] \in {"new", "published"}
        /\ \/ m \in Streamed /\ place' = [place EXCEPT ![m] = "pushed"]
           \/ m \in Typed /\ place' = [place EXCEPT ![m] = "done"]
    BY <1>3 DEF BridgePush, TypedPush, Move
  <2>2. Untrimmed \subseteq Untrimmed' /\ m \in Untrimmed' /\ m \notin Untrimmed
    BY <1>0, <2>1 DEF Untrimmed, FeedTypes
  <2>3. Cardinality(Untrimmed) + 1 <= Cardinality(Untrimmed')
    BY <1>0, <1>1, <2>2, SetGrows
  <2>4. Len(log') = Len(log) + 1
    BY <1>0, <2>1 DEF FeedTypes
  <2> QED
    BY <1>0, <1>1, <2>3, <2>4 DEF HistoryCapped
<1>4. ASSUME NEW m \in Messages, BridgeTrim(m) PROVE HistoryCapped'
  <2>1. log' = IF Len(log) > HistoryMax
               THEN SubSeq(log, Len(log) - HistoryMax + 1, Len(log)) ELSE log
    BY <1>4 DEF BridgeTrim
  <2>2. Len(log') <= HistoryMax
    <3>1. CASE Len(log) > HistoryMax
      <4>1. log \in Seq(Messages) /\ Len(log) - HistoryMax + 1 \in 1 .. Len(log) + 1
        BY <1>0, <1>1, <3>1 DEF FeedTypes
      <4>2. Len(SubSeq(log, Len(log) - HistoryMax + 1, Len(log))) = HistoryMax
        BY <1>0, <1>1, <3>1, <4>1, SubSeqProperties
      <4> QED
        BY <1>0, <2>1, <3>1, <4>2
    <3>2. CASE ~(Len(log) > HistoryMax)
      BY <1>0, <1>1, <2>1, <3>2
    <3> QED
      BY <3>1, <3>2
  <2> QED
    BY <1>0, <1>1, <2>2 DEF HistoryCapped
<1>5. ASSUME NEW m \in Messages, BridgePublish(m) \/ TypedPublish(m) \/ PublishFails(m)
      PROVE  HistoryCapped'
  <2>1. /\ log' = log /\ place[m] \in {"new", "pushed", "trimmed", "published"}
        /\ \E p \in {"done", "published", "failed"} :
             /\ place' = [place EXCEPT ![m] = p]
             /\ place[m] = "pushed" => p = "failed"
    BY <1>5 DEF BridgePublish, TypedPublish, PublishFails, Move
  <2>2. Untrimmed \subseteq Untrimmed'
    BY <1>0, <2>1 DEF Untrimmed, FeedTypes
  <2> QED
    BY <1>1, <1>2, <2>1, <2>2
<1>6. ASSUME NEW b \in Browsers,
             \/ Connect(b) \/ Increment(b) \/ Subscribe(b) \/ Forward(b)
             \/ DropPubSub(b) \/ Disconnect(b) \/ Leave(b)
      PROVE  HistoryCapped'
  <2>1. UNCHANGED <<log, place>>
    BY <1>6 DEF Connect, Increment, Subscribe, Forward, DropPubSub, Disconnect, Leave, feed
  <2> QED
    BY <1>1, <1>2, <2>1 DEF Untrimmed
<1>7. ASSUME HistoryExpires \/ CounterExpires \/ UNCHANGED feedVars PROVE HistoryCapped'
  <2>1. /\ place' = place /\ (log' = log \/ log' = <<>>)
    BY <1>7 DEF HistoryExpires, CounterExpires, feed, feedVars
  <2>2. Len(log') <= Len(log)
    BY <1>1, <2>1
  <2> QED
    BY <1>2, <2>1, <2>2 DEF Untrimmed
<1> QED
  BY <1>3, <1>4, <1>5, <1>6, <1>7 DEF FeedNext

\* A browser that counts itself holds the count until it leaves.
LEMMA SubscriberStep ==
  ASSUME FeedBounds, FeedTypeInv, [FeedNext]_feedVars PROVE CountHeld'
<1>0. /\ view \in [Browsers -> {"new", "read", "counted", "left"}]
      /\ IsFiniteSet(Browsers) /\ count \in Nat /\ count <= Cardinality(Holders)
  BY DEF FeedTypeInv, FeedInv, FeedTypes, FeedBounds, CountHeld
<1>1. /\ Holders \subseteq Browsers /\ Holders' \subseteq Browsers
      /\ Cardinality(Holders) \in Nat /\ Cardinality(Holders') \in Nat
  <2>1. Holders \subseteq Browsers /\ Holders' \subseteq Browsers
    BY DEF Holders
  <2> QED
    BY <1>0, <2>1, FS_Subset, FS_CardinalityType
<1>2. ASSUME count' \in Nat, count' <= count, Holders \subseteq Holders' PROVE CountHeld'
  <2>1. Cardinality(Holders) <= Cardinality(Holders')
    BY <1>0, <1>1, <1>2, SetGrows
  <2> QED
    BY <1>0, <1>1, <1>2, <2>1 DEF CountHeld
<1>3. ASSUME NEW b \in Browsers, Increment(b) PROVE CountHeld'
  <2>1. view[b] = "read" /\ view' = [view EXCEPT ![b] = "counted"] /\ count' = count + 1
    BY <1>3 DEF Increment
  <2>2. Holders \subseteq Holders' /\ b \in Holders' /\ b \notin Holders
    BY <1>0, <2>1 DEF Holders
  <2>3. Cardinality(Holders) + 1 <= Cardinality(Holders')
    BY <1>0, <1>1, <2>2, SetGrows
  <2> QED
    BY <1>0, <1>1, <2>1, <2>3 DEF CountHeld
<1>4. ASSUME NEW b \in Browsers, Leave(b) PROVE CountHeld'
  <2>1. /\ view[b] = "counted" /\ view' = [view EXCEPT ![b] = "left"]
        /\ count' = IF count > 0 THEN count - 1 ELSE 0
    BY <1>4 DEF Leave
  <2>2. Holders' = Holders \ {b} /\ b \in Holders
    BY <1>0, <2>1 DEF Holders
  <2>3. Cardinality(Holders') = Cardinality(Holders) - 1
    BY <1>0, <1>1, <2>2, FS_Subset, FS_RemoveElement
  <2> QED
    BY <1>0, <1>1, <2>1, <2>3 DEF CountHeld
<1>5. ASSUME NEW b \in Browsers,
             Connect(b) \/ Subscribe(b) \/ Forward(b) \/ DropPubSub(b) \/ Disconnect(b)
      PROVE  CountHeld'
  <2>1. count' = count /\ (view' = view \/ (view[b] = "new" /\ view' = [view EXCEPT ![b] = "read"]))
    BY <1>5 DEF Connect, Subscribe, Forward, DropPubSub, Disconnect
  <2>2. Holders \subseteq Holders'
    BY <1>0, <2>1 DEF Holders
  <2> QED
    BY <1>0, <1>2, <2>1, <2>2
<1>6. ASSUME \/ \E m \in Messages : \/ BridgePush(m) \/ BridgeTrim(m) \/ BridgePublish(m)
                                    \/ PublishFails(m) \/ TypedPublish(m) \/ TypedPush(m)
             \/ HistoryExpires \/ CounterExpires \/ UNCHANGED feedVars
      PROVE  CountHeld'
  <2>1. view' = view /\ (count' = count \/ count' = 0)
    BY <1>6
    DEF BridgePush, BridgeTrim, BridgePublish, PublishFails, TypedPublish, TypedPush,
        HistoryExpires, CounterExpires, browser, feedVars
  <2> QED
    BY <1>0, <1>2, <2>1 DEF Holders
<1> QED
  BY <1>3, <1>4, <1>5, <1>6 DEF FeedNext

\* The attempts, the faults and what is forgotten or excused keep their types.
LEMMA FeedRest ==
  ASSUME FeedAssumption, FeedTypeInv, [FeedNext]_feedVars
  PROVE  FeedMarks'
<1>0. /\ attempt \in [Browsers -> 0..MaxRetries] /\ drops \in 0..MaxDrops
      /\ excused \subseteq Browsers \X Messages /\ forgotten \subseteq Messages
      /\ FeedTypes /\ MaxRetries \in Nat /\ MaxDrops \in Nat
  BY DEF FeedTypeInv, FeedMarks, FeedInv, FeedAssumption
<1>1. ToSet(log) \subseteq Messages /\ \A b \in Browsers : ToSet(mail[b]) \subseteq Messages
  BY <1>0, RangeOfSeq DEF FeedTypes, ToSet, Range
<1>2. drops' = drops \/ (drops < MaxDrops /\ drops' = drops + 1)
  BY DEF FeedNext, feedVars, BridgePush, BridgeTrim, BridgePublish, PublishFails, TypedPublish,
         TypedPush, Connect, Increment, Subscribe, Forward, DropPubSub, Disconnect, Leave,
         HistoryExpires, CounterExpires
<1>3. \/ attempt' = attempt
      \/ \E b \in Browsers : attempt[b] < MaxRetries /\ attempt' = [attempt EXCEPT ![b] = @ + 1]
  BY DEF FeedNext, feedVars, BridgePush, BridgeTrim, BridgePublish, PublishFails, TypedPublish,
         TypedPush, Connect, Increment, Subscribe, Forward, DropPubSub, Disconnect, Leave,
         HistoryExpires, CounterExpires, browser
<1>4. attempt' \in [Browsers -> 0..MaxRetries]
  BY <1>0, <1>3
<1>5. forgotten' \subseteq forgotten \cup ToSet(log)
  BY DEF FeedNext, feedVars, BridgePush, BridgeTrim, BridgePublish, PublishFails, TypedPublish,
         TypedPush, Connect, Increment, Subscribe, Forward, DropPubSub, Disconnect, Leave,
         HistoryExpires, CounterExpires, feed
<1>6. excused' \subseteq Browsers \X Messages
  <2>1. ASSUME NEW m \in Messages, Publish(m) PROVE excused' \subseteq Browsers \X Messages
    BY <1>0, <2>1 DEF Publish
  <2>2. ASSUME NEW b \in Browsers, DropPubSub(b) PROVE excused' \subseteq Browsers \X Messages
    <3>1. excused' = excused \cup ({b} \X ToSet(mail[b]))
      BY <2>2 DEF DropPubSub
    <3> QED
      BY <1>0, <1>1, <3>1
  <2> QED
    BY <1>0, <2>1, <2>2
    DEF FeedNext, feedVars, BridgePush, BridgeTrim, BridgePublish, PublishFails, TypedPublish,
        TypedPush, Connect, Increment, Subscribe, Forward, Disconnect, Leave,
        HistoryExpires, CounterExpires, feed
<1>7. drops' \in 0..MaxDrops /\ forgotten' \subseteq Messages
  BY <1>0, <1>1, <1>2, <1>5
<1> QED
  BY <1>4, <1>6, <1>7 DEF FeedMarks

\* The feed's variables keep their types: the history exceeds HISTORY_MAX by no
\* more than there are messages, the count is never more than the browsers, and
\* a browser's reader gives up after max_retries.
THEOREM FeedTyped ==
  ASSUME FeedAssumption, FeedBounds PROVE FeedSpec => []FeedTypeOK
<1>1. FeedTypeInv => FeedTypeOK
  <2> SUFFICES ASSUME FeedTypeInv PROVE FeedTypeOK
    OBVIOUS
  <2>0. FeedTypes /\ FeedMarks /\ HistoryCapped /\ CountHeld
    BY DEF FeedTypeInv, FeedInv
  <2>1. Len(log) <= HistoryMax + Cardinality(Messages)
    <3>1. Untrimmed \subseteq Messages
      BY DEF Untrimmed
    <3>2. /\ Cardinality(Untrimmed) <= Cardinality(Messages)
          /\ Cardinality(Untrimmed) \in Nat /\ Cardinality(Messages) \in Nat
      BY <3>1, FS_Subset, FS_CardinalityType DEF FeedBounds
    <3>3. Len(log) \in Nat
      BY <2>0, LenProperties DEF FeedTypes
    <3> QED
      BY <2>0, <3>2, <3>3 DEF HistoryCapped, FeedAssumption
  <2>2. count \in 0..Cardinality(Browsers)
    <3>1. Holders \subseteq Browsers
      BY DEF Holders
    <3>2. /\ Cardinality(Holders) <= Cardinality(Browsers)
          /\ Cardinality(Holders) \in Nat /\ Cardinality(Browsers) \in Nat
      BY <3>1, FS_Subset, FS_CardinalityType DEF FeedBounds
    <3> QED
      BY <2>0, <3>2 DEF CountHeld
  <2> QED
    BY <2>0, <2>1, <2>2 DEF FeedTypeOK, FeedTypes, FeedMarks
<1>2. FeedInit => FeedTypeInv
  <2> SUFFICES ASSUME FeedInit PROVE FeedTypeInv
    OBVIOUS
  <2>1. Untrimmed = {} /\ Holders = {} /\ Len(log) = 0 /\ count = 0
    BY DEF FeedInit, Untrimmed, Holders
  <2>2. HistoryCapped /\ CountHeld
    BY <2>1, FS_EmptySet DEF HistoryCapped, CountHeld, FeedAssumption
  <2>3. FeedMarks
    BY DEF FeedInit, FeedAssumption, FeedMarks
  <2> QED
    BY <2>2, <2>3, FeedStarts DEF FeedTypeInv
<1>3. FeedTypeInv /\ [FeedNext]_feedVars => FeedTypeInv'
  BY FeedStep, CappedStep, SubscriberStep, FeedRest DEF FeedTypeInv
<1> QED
  BY <1>1, <1>2, <1>3, PTL DEF FeedSpec

-----------------------------------------------------------------------------
(* TranscriptTrace.                                                        *)

IsSequence(s) == \E S : s \in Seq(S)

\* The types that the steps rely on.
TraceTypes ==
  /\ \A f \in TraceFiles : IsSequence(lines[f])
  /\ lines = [f \in TraceFiles |-> lines[f]] /\ half \in BOOLEAN
  /\ offsets \in OffsetEntries /\ snapshot \in [Stops -> OffsetEntries]
  /\ tracer \in [Stops -> {"new", "lock", "read", "emit", "unlock", "done"}]
  /\ target \in [Stops -> TraceFiles] /\ left \in [Stops -> SUBSET Nat]
  /\ flock \in Stops \cup {Nobody} /\ degraded \in BOOLEAN
  /\ \A t \in traced : /\ t.stop \in Stops /\ t.file \in TraceFiles
                       /\ t.turn \in Nat /\ t.number \in Nat

\* No offset is beyond what its transcript had.
OffsetsReached ==
  \A f \in TraceFiles :
    /\ offsets[f].offset <= Size(f)
    /\ \A h \in Stops : snapshot[h][f].offset <= Size(f)

\* What lies before an offset was parsed.
Parsed(f, o) ==
  \A i \in DOMAIN lines[f] : 2 * i <= o => \E r \in decoded : r.file = f /\ r.line = i
AllParsed ==
  \A f \in TraceFiles :
    /\ Parsed(f, offsets[f].offset)
    /\ \A h \in Stops : Parsed(f, snapshot[h][f].offset)

\* A process in the locked part has the lock, while all waited for it.
Locked ==
  ~degraded => \A h \in Stops : tracer[h] \in {"read", "emit", "unlock"} => flock = h

\* What was sent, by processes that are not at it any more, lies before the saved
\* offset.
SentSaved ==
  ~degraded => \A t \in traced :
    tracer[t.stop] # "emit" =>
      2 * t.turn <= offsets[t.file].offset /\ t.number <= offsets[t.file].turns

\* A process sends what lies between the saved offset and the one it will save,
\* under numbers in between, in order; another transcript's entry it leaves.
Sending ==
  ~degraded => \A h \in Stops :
    /\ tracer[h] \in {"new", "lock", "read"} => \A t \in traced : t.stop # h
    /\ tracer[h] = "emit" =>
         /\ \A g \in TraceFiles \ {target[h]} : snapshot[h][g] = offsets[g]
         /\ offsets[target[h]].offset <= snapshot[h][target[h]].offset
         /\ offsets[target[h]].turns <= snapshot[h][target[h]].turns
         /\ \A i \in left[h] : /\ offsets[target[h]].offset < 2 * i
                               /\ 2 * i <= snapshot[h][target[h]].offset
         /\ \A t \in traced :
              t.stop = h =>
                /\ t.file = target[h]
                /\ offsets[target[h]].offset < 2 * t.turn
                /\ 2 * t.turn <= snapshot[h][target[h]].offset
                /\ offsets[target[h]].turns < t.number
                /\ t.number <= snapshot[h][target[h]].turns
                /\ \A i \in left[h] : t.turn < i

\* A turn is sent once, and under a number of its own.
SentOnce ==
  ~degraded => \A t, u \in traced :
    t # u /\ t.file = u.file => t.turn # u.turn /\ t.number # u.number

TraceInv ==
  /\ TraceTypes /\ OffsetsReached /\ AllParsed
  /\ Locked /\ SentSaved /\ Sending /\ SentOnce

\* A transcript that is appended to.
LEMMA SequenceGrows ==
  ASSUME NEW s, NEW t, IsSequence(s), IsSequence(t)
  PROVE  /\ IsSequence(s \o t) /\ Len(s \o t) = Len(s) + Len(t)
         /\ Len(s) \in Nat /\ Len(t) \in Nat /\ DOMAIN s = 1 .. Len(s)
         /\ DOMAIN (s \o t) = 1 .. Len(s) + Len(t)
<1>1. PICK S : s \in Seq(S)
  BY DEF IsSequence
<1>2. PICK T : t \in Seq(T)
  BY DEF IsSequence
<1>3. s \in Seq(S \cup T) /\ t \in Seq(S \cup T)
  BY <1>1, <1>2, SeqMonotonic
<1> QED
  BY <1>3, ConcatProperties DEF IsSequence

\* A single line.
LEMMA OneLine == ASSUME NEW x PROVE IsSequence(<<x>>) /\ Len(<<x>>) = 1
<1>1. <<x>> \in Seq({x})
  OBVIOUS
<1> QED
  BY <1>1 DEF IsSequence

\* What is picked from the entries is a sequence.
LEMMA PickedType ==
  ASSUME NEW s, NEW ps, IsFiniteSet(ps) PROVE IsSequence(Picked(s, ps))
<1> DEFINE e(k) == s[Nth(ps, k)]
           S == {e(k) : k \in 1 .. Cardinality(ps)}
<1>1. Cardinality(ps) \in Nat
  BY FS_CardinalityType
<1>2. Picked(s, ps) = [k \in 1 .. Cardinality(ps) |-> e(k)]
  BY DEF Picked
<1>3. \A k \in 1 .. Cardinality(ps) : e(k) \in S
  OBVIOUS
<1> HIDE DEF e, S
<1>4. Picked(s, ps) \in [1 .. Cardinality(ps) -> S]
  BY <1>2, <1>3
<1>5. Picked(s, ps) \in Seq(S)
  BY <1>1, <1>4, SeqDef, Zenon
<1> QED
  BY <1>5 DEF IsSequence

\* Lines that are added lie after every offset.
LEMMA FilesGrow ==
  ASSUME TraceInv, UNCHANGED procVars, half' \in BOOLEAN,
         lines' = [f \in TraceFiles |-> lines'[f]], \A f \in TraceFiles : IsSequence(lines'[f]),
         \A f \in TraceFiles : Size(f) \in Int /\ Size(f)' \in Int /\ Size(f) <= Size(f)',
         \A f \in TraceFiles : \A i \in DOMAIN lines'[f] :
           i \in Nat /\ (i \in DOMAIN lines[f] \/ 2 * i > Size(f))
  PROVE  TraceInv'
<1>1. /\ TraceTypes /\ OffsetsReached /\ AllParsed
      /\ Locked /\ SentSaved /\ Sending /\ SentOnce
  BY DEF TraceInv
<1>2. UNCHANGED <<offsets, flock, tracer, target, snapshot, left, decoded, traced, degraded>>
  BY DEF procVars
<1>3. TraceTypes'
  BY <1>1, <1>2 DEF TraceTypes
<1>4. \A f \in TraceFiles : /\ offsets[f].offset \in Nat
                            /\ \A h \in Stops : snapshot[h][f].offset \in Nat
  BY <1>1 DEF TraceTypes, OffsetEntries
<1>5. OffsetsReached'
  <2> SUFFICES ASSUME NEW f \in TraceFiles
               PROVE  /\ offsets'[f].offset <= Size(f)'
                      /\ \A h \in Stops : snapshot'[h][f].offset <= Size(f)'
    BY DEF OffsetsReached
  <2>1. Size(f) \in Int /\ Size(f)' \in Int /\ Size(f) <= Size(f)'
    OBVIOUS
  <2> HIDE DEF Size
  <2> QED
    BY <1>1, <1>2, <1>4, <2>1 DEF OffsetsReached
<1>6. ASSUME NEW f \in TraceFiles, NEW o \in Nat, o <= Size(f), Parsed(f, o) PROVE Parsed(f, o)'
  <2> SUFFICES ASSUME NEW i \in DOMAIN lines'[f], 2 * i <= o
               PROVE  \E r \in decoded : r.file = f /\ r.line = i
    BY <1>2 DEF Parsed
  <2>1. i \in DOMAIN lines[f]
    BY <1>6
  <2> QED
    BY <1>6, <2>1 DEF Parsed
<1>7. AllParsed'
  <2> SUFFICES ASSUME NEW f \in TraceFiles
               PROVE  /\ Parsed(f, offsets[f].offset)'
                      /\ \A h \in Stops : Parsed(f, snapshot[h][f].offset)'
    BY DEF AllParsed
  <2>1. Parsed(f, offsets[f].offset)'
    <3>1. PICK o \in Nat : o = offsets[f].offset
      BY <1>4
    <3>2. o <= Size(f) /\ Parsed(f, o) /\ o = offsets'[f].offset
      BY <1>1, <1>2, <3>1 DEF OffsetsReached, AllParsed
    <3>3. Parsed(f, o)'
      BY <1>6, <3>2
    <3> QED
      BY <3>2, <3>3 DEF Parsed
  <2>2. ASSUME NEW h \in Stops PROVE Parsed(f, snapshot[h][f].offset)'
    <3>1. PICK o \in Nat : o = snapshot[h][f].offset
      BY <1>4
    <3>2. o <= Size(f) /\ Parsed(f, o) /\ o = snapshot'[h][f].offset
      BY <1>1, <1>2, <3>1 DEF OffsetsReached, AllParsed
    <3>3. Parsed(f, o)'
      BY <1>6, <3>2
    <3> QED
      BY <3>2, <3>3 DEF Parsed
  <2> QED
    BY <2>1, <2>2
<1>8. Locked' /\ SentSaved' /\ Sending' /\ SentOnce'
  BY <1>1, <1>2 DEF Locked, SentSaved, Sending, SentOnce
<1> QED
  BY <1>3, <1>5, <1>7, <1>8 DEF TraceInv

\* The main transcript, or the subagent's, gets a sequence of lines.
LEMMA LinesAppended ==
  ASSUME TraceInv, ~half, half' \in BOOLEAN, UNCHANGED procVars,
         NEW f \in TraceFiles, NEW new, IsSequence(new),
         lines' = [lines EXCEPT ![f] = @ \o new],
         half' => f = "main" /\ Len(new) >= 1
  PROVE  TraceInv'
<1>1. TraceTypes
  BY DEF TraceInv
<1>2. lines' = [g \in TraceFiles |-> IF g = f THEN lines[f] \o new ELSE lines[g]]
  BY <1>1 DEF TraceTypes
<1>3. \A g \in TraceFiles : IsSequence(lines'[g])
  BY <1>1, <1>2, SequenceGrows DEF TraceTypes
<1>4. ASSUME NEW g \in TraceFiles
      PROVE  /\ Len(lines[g]) \in Nat /\ DOMAIN lines[g] = 1 .. Len(lines[g])
             /\ DOMAIN lines'[g] = 1 .. Len(lines'[g])
             /\ Len(new) \in Nat
             /\ Len(lines'[g]) = IF g = f THEN Len(lines[g]) + Len(new) ELSE Len(lines[g])
  BY <1>1, <1>2, SequenceGrows DEF TraceTypes
<1>5. ASSUME NEW g \in TraceFiles
      PROVE  /\ Size(g) \in Int /\ Size(g)' \in Int /\ Size(g) <= Size(g)'
             /\ \A i \in DOMAIN lines'[g] :
                  i \in Nat /\ (i \in DOMAIN lines[g] \/ 2 * i > Size(g))
  <2>1. Size(g) = 2 * Len(lines[g])
    BY <1>4 DEF Size
  <2>2. CASE half'
    <3>1. g = f => Size(g)' = 2 * (Len(lines[g]) + Len(new)) - 1
      BY <1>4, <2>2 DEF Size
    <3>2. g # f => Size(g)' = 2 * Len(lines[g])
      BY <1>4, <2>2 DEF Size
    <3> QED
      BY <1>4, <2>1, <2>2, <3>1, <3>2
  <2>3. CASE ~half'
    <3>1. Size(g)' = 2 * Len(lines'[g])
      BY <1>4, <2>3 DEF Size
    <3> QED
      BY <1>4, <2>1, <3>1
  <2> QED
    BY <2>2, <2>3
<1>6. lines' = [g \in TraceFiles |-> lines'[g]]
  BY <1>2
<1> QED
  BY <1>3, <1>5, <1>6, FilesGrow

\* The CLI and the transcript hook keep the invariant.
LEMMA FileStep ==
  ASSUME TraceAssumption, TraceInv,
         (\E f \in TraceFiles : CliWrites(f)) \/ CliEnds \/ WriteEntry \/ SyncSubagent
  PROVE  TraceInv'
<1>1. TraceTypes
  BY DEF TraceInv
<1>2. ASSUME NEW f \in TraceFiles, CliWrites(f) PROVE TraceInv'
  <2>1. PICK line : lines' = [lines EXCEPT ![f] = Append(lines[f], line)]
    BY <1>2 DEF CliWrites
  <2>2. PICK S : lines[f] \in Seq(S)
    BY <1>1 DEF TraceTypes, IsSequence
  <2>3. Append(lines[f], line) = lines[f] \o <<line>>
    BY <2>2, SeqMonotonic, AppendIsConcat
  <2>4. IsSequence(<<line>>) /\ Len(<<line>>) = 1
    BY OneLine
  <2>5. lines' = [lines EXCEPT ![f] = @ \o <<line>>]
    BY <2>1, <2>3
  <2>6. ~half /\ half' = (f = "main") /\ UNCHANGED procVars
    BY <1>2 DEF CliWrites
  <2>7. half' \in BOOLEAN /\ (half' => f = "main")
    BY <2>6
  <2>8. Len(<<line>>) >= 1
    BY <2>4
  <2> QED
    BY <2>4, <2>5, <2>6, <2>7, <2>8, LinesAppended
<1>3. CASE CliEnds
  <2>1. half /\ half' = FALSE /\ lines' = lines /\ UNCHANGED procVars
    BY <1>3 DEF CliEnds
  <2>2. ASSUME NEW f \in TraceFiles
        PROVE  Len(lines[f]) \in Nat /\ DOMAIN lines[f] = 1 .. Len(lines[f])
    BY <1>1, SequenceGrows DEF TraceTypes
  <2>3. ASSUME NEW f \in TraceFiles
        PROVE  /\ Size(f) \in Int /\ Size(f)' \in Int /\ Size(f) <= Size(f)'
               /\ \A i \in DOMAIN lines'[f] : i \in Nat /\ i \in DOMAIN lines[f]
    BY <2>1, <2>2 DEF Size
  <2> QED
    BY <1>1, <2>1, <2>3, FilesGrow DEF TraceTypes
<1>4. ASSUME NEW entries, AppendLines(entries), IsSequence(entries), ~half, UNCHANGED half,
             UNCHANGED procVars
      PROVE  TraceInv'
  <2>1. PICK ok \in SUBSET DOMAIN entries :
          lines' = [lines EXCEPT !["main"] = @ \o Picked(entries, ok)]
    BY <1>4 DEF AppendLines
  <2>2. DOMAIN entries = 1 .. Len(entries) /\ Len(entries) \in Nat
    BY <1>4, SequenceGrows
  <2>3. IsFiniteSet(ok)
    <3>1. IsFiniteSet(1 .. Len(entries))
      BY <2>2, FS_Interval
    <3> QED
      BY <2>1, <2>2, <3>1, FS_Subset
  <2>4. IsSequence(Picked(entries, ok))
    BY <2>3, PickedType
  <2>5. "main" \in TraceFiles /\ half' = FALSE
    BY <1>1, <1>4 DEF TraceFiles, TraceTypes
  <2> QED
    BY <1>4, <2>1, <2>4, <2>5, LinesAppended
<1>5. CASE WriteEntry
  <2>1. IsSequence(<<[by |-> "hook", role |-> "other", id |-> 1]>>)
    BY OneLine
  <2> QED
    BY <1>4, <1>5, <2>1 DEF WriteEntry
<1>6. CASE SyncSubagent
  BY <1>1, <1>4, <1>6 DEF SyncSubagent, TraceTypes, TraceFiles
<1> QED
  BY <1>2, <1>3, <1>5, <1>6

\* A transcript's size, and the lines that are read from it.
LEMMA SizeType ==
  ASSUME TraceTypes, NEW f \in TraceFiles
  PROVE  /\ Size(f) \in Int /\ DOMAIN lines[f] = 1 .. Len(lines[f]) /\ Len(lines[f]) \in Nat
         /\ Size(f) <= 2 * Len(lines[f]) /\ 2 * Len(lines[f]) - 1 <= Size(f)
<1>1. Len(lines[f]) \in Nat /\ DOMAIN lines[f] = 1 .. Len(lines[f])
  BY SequenceGrows DEF TraceTypes
<1>2. CASE half /\ f = "main"
  BY <1>1, <1>2 DEF Size
<1>3. CASE ~(half /\ f = "main")
  <2>1. Size(f) = 2 * Len(lines[f]) - 0
    BY <1>3, Zenon DEF Size
  <2> QED
    BY <1>1, <2>1
<1> QED
  BY <1>2, <1>3

\* A process that starts, enters, leaves or is killed changes no record of what
\* was read and sent.
LEMMA ProcKept ==
  ASSUME TraceInv, NEW h \in Stops, NEW q \in {"lock", "read", "done"},
         UNCHANGED <<lines, half, offsets, decoded, traced>>,
         tracer' = [tracer EXCEPT ![h] = q],
         q \in {"lock", "read"} => tracer[h] \in {"new", "lock"},
         target' \in [Stops -> TraceFiles], left' \in [Stops -> SUBSET Nat],
         \A g \in Stops \ {h} : target'[g] = target[g] /\ left'[g] = left[g],
         snapshot' = snapshot \/ snapshot' = [snapshot EXCEPT ![h] = NoEntries],
         flock' \in Stops \cup {Nobody}, degraded' \in BOOLEAN,
         ~degraded' =>
           ~degraded /\ (tracer[h] = "emit" => \A t \in traced : t.stop # h),
         Locked'
  PROVE  TraceInv'
<1>1. /\ TraceTypes /\ OffsetsReached /\ AllParsed
      /\ Locked /\ SentSaved /\ Sending /\ SentOnce
  BY DEF TraceInv
<1>2. NoEntries \in OffsetEntries /\ \A f \in TraceFiles : NoEntries[f].offset = 0
  BY DEF NoEntries, OffsetEntries
<1>3. snapshot' \in [Stops -> OffsetEntries]
  BY <1>1, <1>2 DEF TraceTypes
<1>4. \A g \in Stops : snapshot'[g] \in {snapshot[g], NoEntries}
  BY <1>1 DEF TraceTypes
<1>5. /\ \A g \in Stops \ {h} : snapshot'[g] = snapshot[g] /\ tracer'[g] = tracer[g]
      /\ tracer'[h] = q /\ q # "emit"
  BY <1>1 DEF TraceTypes
<1>6. TraceTypes'
  BY <1>1, <1>3 DEF TraceTypes
<1>7. OffsetsReached'
  <2>1. ASSUME NEW f \in TraceFiles PROVE Size(f) \in Int /\ Size(f) >= 0 /\ Size(f)' = Size(f)
    <3>1. offsets[f].offset \in Nat /\ offsets[f].offset <= Size(f)
      BY <1>1 DEF OffsetsReached, TraceTypes, OffsetEntries
    <3>2. Size(f) \in Int /\ Size(f)' = Size(f)
      BY <1>1, SizeType DEF Size
    <3> QED
      BY <3>1, <3>2
  <2> QED
    BY <1>1, <1>2, <1>4, <2>1 DEF OffsetsReached
<1>8. AllParsed'
  <2>1. ASSUME NEW f \in TraceFiles, NEW o PROVE Parsed(f, o)' <=> Parsed(f, o)
    BY DEF Parsed
  <2>2. ASSUME NEW f \in TraceFiles PROVE Parsed(f, 0)
    <3>1. \A i \in DOMAIN lines[f] : ~(2 * i <= 0)
      BY <1>1, SizeType
    <3> QED
      BY <3>1 DEF Parsed
  <2>3. ASSUME NEW f \in TraceFiles PROVE Parsed(f, offsets[f].offset)'
    BY <1>1, <2>1 DEF AllParsed, Parsed
  <2>4. ASSUME NEW f \in TraceFiles, NEW g \in Stops PROVE Parsed(f, snapshot[g][f].offset)'
    <3>1. CASE snapshot'[g] = snapshot[g]
      BY <1>1, <3>1 DEF AllParsed, Parsed
    <3>2. CASE snapshot'[g] = NoEntries
      <4>1. snapshot'[g][f].offset = 0
        BY <1>2, <3>2
      <4> QED
        BY <2>2, <4>1 DEF Parsed
    <3> QED
      BY <1>4, <3>1, <3>2
  <2> QED
    BY <2>3, <2>4 DEF AllParsed
<1>9. SentSaved'
  BY <1>1, <1>5 DEF SentSaved, Sending, TraceTypes
<1>10. Sending'
  BY <1>1, <1>5 DEF Sending
<1>11. SentOnce'
  BY <1>1 DEF SentOnce
<1> QED
  BY <1>6, <1>7, <1>8, <1>9, <1>10, <1>11 DEF TraceInv

\* Starting, entering, leaving and being killed keep the invariant.
LEMMA PassStep ==
  ASSUME TraceAssumption, TraceInv, NEW h \in Stops,
         StartHook(h) \/ EnterLock(h) \/ LeaveLock(h) \/ KillHook(h)
  PROVE  TraceInv'
<1>1. TraceTypes /\ Locked /\ Nobody \notin Stops
  BY DEF TraceInv, TraceAssumption, Stops
<1>2. CASE StartHook(h)
  <2>1. /\ UNCHANGED <<lines, half, offsets, flock, snapshot, left, decoded, traced, degraded>>
        /\ tracer[h] = "new" /\ tracer' = [tracer EXCEPT ![h] = "lock"]
        /\ \E f \in TraceFiles : target' = [target EXCEPT ![h] = f]
    BY <1>2 DEF StartHook, At, fileVars
  <2>2. target' \in [Stops -> TraceFiles] /\ \A g \in Stops \ {h} : target'[g] = target[g]
    BY <1>1, <2>1 DEF TraceTypes
  <2>3. Locked'
    BY <1>1, <2>1 DEF Locked, TraceTypes
  <2> QED
    BY <1>1, <2>1, <2>2, <2>3, ProcKept DEF TraceTypes
<1>3. CASE EnterLock(h)
  <2>1. /\ UNCHANGED <<lines, half, offsets, target, snapshot, left, decoded, traced>>
        /\ tracer[h] = "lock" /\ tracer' = [tracer EXCEPT ![h] = "read"]
        /\ \/ flock = Nobody /\ flock' = h /\ degraded' = degraded
           \/ degraded' = TRUE /\ flock' = flock
    BY <1>3 DEF EnterLock, At, fileVars
  <2>2. Locked'
    BY <1>1, <2>1 DEF Locked, TraceTypes
  <2>3. flock' \in Stops \cup {Nobody} /\ degraded' \in BOOLEAN
    BY <1>1, <2>1 DEF TraceTypes
  <2>4. ~degraded' => ~degraded
    BY <2>1
  <2> QED
    BY <1>1, <2>1, <2>2, <2>3, <2>4, ProcKept DEF TraceTypes
<1>4. ASSUME Ends(h), degraded' \in BOOLEAN,
             ~degraded' => ~degraded /\ (tracer[h] = "emit" => ~Emitted(h))
      PROVE  TraceInv'
  <2>1. /\ UNCHANGED <<lines, half, offsets, decoded, traced>>
        /\ tracer' = [tracer EXCEPT ![h] = "done"]
        /\ flock' = IF flock = h THEN Nobody ELSE flock
        /\ target' = [target EXCEPT ![h] = "main"] /\ left' = [left EXCEPT ![h] = {}]
        /\ snapshot' = [snapshot EXCEPT ![h] = NoEntries]
    BY <1>4 DEF Ends, fileVars
  <2>2. Locked'
    BY <1>1, <1>4, <2>1 DEF Locked, TraceTypes
  <2>3. /\ target' \in [Stops -> TraceFiles] /\ left' \in [Stops -> SUBSET Nat]
        /\ \A g \in Stops \ {h} : target'[g] = target[g] /\ left'[g] = left[g]
    BY <1>1, <2>1 DEF TraceTypes, TraceFiles
  <2>4. flock' \in Stops \cup {Nobody}
    BY <1>1, <2>1 DEF TraceTypes
  <2> QED
    BY <1>4, <2>1, <2>2, <2>3, <2>4, ProcKept DEF Emitted
<1>5. CASE LeaveLock(h)
  <2>1. Ends(h) /\ degraded' = degraded /\ tracer[h] = "unlock"
    BY <1>5 DEF LeaveLock
  <2> QED
    BY <1>1, <1>4, <2>1 DEF TraceTypes
<1>6. CASE KillHook(h)
  <2>1. Ends(h) /\ degraded' = (degraded \/ (tracer[h] = "emit" /\ Emitted(h)))
    BY <1>6 DEF KillHook
  <2>2. degraded' \in BOOLEAN
    BY <1>1, <2>1 DEF TraceTypes
  <2>3. ~degraded' => ~degraded /\ (tracer[h] = "emit" => ~Emitted(h))
    BY <2>1
  <2> QED
    BY <1>4, <2>1, <2>2, <2>3
<1> QED
  BY <1>2, <1>3, <1>5, <1>6

\* A process parses what lies between the saved offset and the size, and means
\* to save the size.
LEMMA ReadStep ==
  ASSUME TraceAssumption, TraceInv, NEW h \in Stops, ReadNew(h) PROVE TraceInv'
<1> DEFINE f == target[h]
<1>1. /\ TraceTypes /\ OffsetsReached /\ AllParsed
      /\ Locked /\ SentSaved /\ Sending /\ SentOnce
  BY DEF TraceInv
<1>2. /\ UNCHANGED <<lines, half, offsets, flock, target, traced, degraded>>
      /\ tracer[h] = "read" /\ tracer' = [tracer EXCEPT ![h] = "emit"]
      /\ decoded' = decoded \cup [file : {f}, line : NewLines(f)]
      /\ left' = [left EXCEPT ![h] = BuildTurns(f, NewLines(f))]
      /\ snapshot' = [snapshot EXCEPT ![h] = [offsets EXCEPT ![f].offset = Size(f)]]
  BY DEF ReadNew, At, fileVars
<1>3. f \in TraceFiles /\ offsets \in OffsetEntries
  BY <1>1 DEF TraceTypes
<1>4. /\ Size(f) \in Int /\ DOMAIN lines[f] = 1 .. Len(lines[f]) /\ Len(lines[f]) \in Nat
      /\ offsets[f].offset <= Size(f) /\ offsets[f].offset \in Nat
      /\ offsets[f].turns \in Nat /\ Size(f) \in Nat
  <2>1. Size(f) \in Int /\ DOMAIN lines[f] = 1 .. Len(lines[f]) /\ Len(lines[f]) \in Nat
    BY <1>1, <1>3, SizeType
  <2>2. /\ offsets[f].offset <= Size(f) /\ offsets[f].offset \in Nat
        /\ offsets[f].turns \in Nat
    BY <1>1, <1>3 DEF OffsetsReached, OffsetEntries
  <2> QED
    BY <2>1, <2>2
<1>5. \A i \in BuildTurns(f, NewLines(f)) :
        i \in Nat /\ offsets[f].offset < 2 * i /\ 2 * i <= Size(f)
  BY <1>4 DEF BuildTurns, NewLines
<1>6. PICK e : /\ e = [offsets EXCEPT ![f].offset = Size(f)]
  OBVIOUS
<1>7. /\ e \in OffsetEntries /\ \A g \in TraceFiles \ {f} : e[g] = offsets[g]
      /\ e[f].offset = Size(f) /\ e[f].turns = offsets[f].turns
  BY <1>3, <1>4, <1>6 DEF OffsetEntries
<1>8. /\ snapshot' \in [Stops -> OffsetEntries] /\ snapshot'[h] = e
      /\ \A g \in Stops \ {h} : snapshot'[g] = snapshot[g]
      /\ tracer'[h] = "emit" /\ \A g \in Stops \ {h} : tracer'[g] = tracer[g]
      /\ left'[h] = BuildTurns(f, NewLines(f)) /\ \A g \in Stops \ {h} : left'[g] = left[g]
  BY <1>1, <1>2, <1>6, <1>7 DEF TraceTypes
<1>9. TraceTypes'
  <2>1. left' \in [Stops -> SUBSET Nat]
    BY <1>1, <1>2, <1>5 DEF TraceTypes
  <2>2. tracer' \in [Stops -> {"new", "lock", "read", "emit", "unlock", "done"}]
    BY <1>1, <1>2 DEF TraceTypes
  <2> QED
    BY <1>1, <1>2, <1>8, <2>1, <2>2 DEF TraceTypes
<1>10. OffsetsReached'
  <2>1. ASSUME NEW g \in TraceFiles PROVE Size(g)' = Size(g)
    BY <1>2 DEF Size
  <2>2. ASSUME NEW g \in TraceFiles, NEW k \in Stops PROVE snapshot'[k][g].offset <= Size(g)
    BY <1>1, <1>4, <1>7, <1>8 DEF OffsetsReached
  <2> QED
    BY <1>1, <1>2, <2>1, <2>2 DEF OffsetsReached
<1>11. AllParsed'
  <2>1. ASSUME NEW g \in TraceFiles, NEW o, Parsed(g, o) PROVE Parsed(g, o)'
    BY <1>2, <2>1 DEF Parsed
  <2>2. Parsed(f, Size(f))'
    <3> SUFFICES ASSUME NEW i \in DOMAIN lines[f], 2 * i <= Size(f)
                 PROVE  \E r \in decoded' : r.file = f /\ r.line = i
      <4>1. Size(f)' = Size(f)
        BY <1>2 DEF Size
      <4> QED
        BY <1>2, <4>1 DEF Parsed
    <3>1. CASE 2 * i <= offsets[f].offset
      BY <1>1, <1>2, <1>3, <3>1 DEF AllParsed, Parsed
    <3>2. CASE ~(2 * i <= offsets[f].offset)
      <4>1. i \in NewLines(f)
        BY <1>4, <3>2 DEF NewLines
      <4>2. [file |-> f, line |-> i] \in decoded'
        BY <1>2, <4>1
      <4> QED
        BY <4>2
    <3> QED
      BY <3>1, <3>2
  <2>3. ASSUME NEW g \in TraceFiles PROVE Parsed(g, offsets[g].offset)'
    <3>1. PICK o : o = offsets[g].offset /\ Parsed(g, o)
      BY <1>1 DEF AllParsed
    <3>2. Parsed(g, o)' /\ offsets'[g].offset = o
      BY <1>2, <2>1, <3>1
    <3> QED
      BY <3>2 DEF Parsed
  <2>4. ASSUME NEW g \in TraceFiles, NEW k \in Stops PROVE Parsed(g, snapshot[k][g].offset)'
    <3>1. CASE k = h /\ g = f
      <4>1. PICK o : o = Size(f)
        OBVIOUS
      <4>2. snapshot'[k][g].offset = o /\ Size(f)' = o
        BY <1>2, <1>7, <1>8, <3>1, <4>1 DEF Size
      <4>3. \A i \in DOMAIN lines'[f] : 2 * i <= o => \E r \in decoded' : r.file = f /\ r.line = i
        BY <1>2, <2>2, <4>2 DEF Parsed
      <4> QED
        BY <3>1, <4>2, <4>3 DEF Parsed
    <3>2. CASE ~(k = h /\ g = f)
      <4>1. PICK o : o = snapshot'[k][g].offset /\ Parsed(g, o)
        BY <1>1, <1>7, <1>8, <3>2 DEF AllParsed
      <4>2. Parsed(g, o)'
        BY <2>1, <4>1
      <4> QED
        BY <4>1, <4>2 DEF Parsed
    <3> QED
      BY <3>1, <3>2
  <2> QED
    BY <2>3, <2>4 DEF AllParsed
<1>12. Locked'
  BY <1>1, <1>2, <1>8 DEF Locked
<1>13. SentSaved'
  BY <1>1, <1>2, <1>8 DEF SentSaved, TraceTypes
<1>14. Sending'
  <2> SUFFICES ASSUME ~degraded PROVE Sending'
    BY <1>2 DEF Sending
  <2>1. \A t \in traced : t.stop # h
    BY <1>1, <1>2 DEF Sending
  <2>2. ASSUME NEW k \in Stops \ {h}
        PROVE  /\ tracer'[k] # "emit"
               /\ tracer'[k] \in {"new", "lock", "read"} => \A t \in traced : t.stop # k
    BY <1>1, <1>2, <1>8 DEF Locked, Sending
  <2> HIDE DEF f
  <2>3. f = target[h]
    BY DEF f
  <2>4. /\ \A g \in TraceFiles \ {f} : snapshot'[h][g] = offsets[g]
        /\ offsets[f].offset <= snapshot'[h][f].offset
        /\ offsets[f].turns <= snapshot'[h][f].turns
    BY <1>3, <1>4, <1>7, <1>8
  <2>5. \A i \in left'[h] : offsets[f].offset < 2 * i /\ 2 * i <= snapshot'[h][f].offset
    BY <1>5, <1>7, <1>8
  <2>6. tracer'[h] \notin {"new", "lock", "read"}
    BY <1>8
  <2>7. UNCHANGED <<offsets, target, traced>>
    BY <1>2
  <2> QED
    BY <2>1, <2>2, <2>3, <2>4, <2>5, <2>6, <2>7 DEF Sending
<1>15. SentOnce'
  BY <1>1, <1>2 DEF SentOnce
<1> QED
  BY <1>9, <1>10, <1>11, <1>12, <1>13, <1>14, <1>15 DEF TraceInv

\* A process sends the first turn it has left, under the next number.
LEMMA EmitStep ==
  ASSUME TraceAssumption, TraceInv, NEW h \in Stops, EmitTurn(h) PROVE TraceInv'
<1>1. /\ TraceTypes /\ OffsetsReached /\ AllParsed
      /\ Locked /\ SentSaved /\ Sending /\ SentOnce
  BY DEF TraceInv
<1>2. PICK f \in TraceFiles : f = target[h]
  BY <1>1 DEF TraceTypes
<1>3. PICK n : n = snapshot[h][f].turns + 1
  OBVIOUS
<1>4. /\ UNCHANGED <<lines, half, offsets, flock, tracer, target, decoded, degraded>>
      /\ tracer[h] = "emit" /\ snapshot' = [snapshot EXCEPT ![h][f].turns = n]
  BY <1>2, <1>3 DEF EmitTurn, fileVars
<1>5. PICK i \in left[h] :
        /\ \A j \in left[h] : i <= j
        /\ left' = [left EXCEPT ![h] = @ \ {i}]
        /\ \/ traced' = traced \cup {[stop |-> h, file |-> f, turn |-> i, number |-> n]}
           \/ traced' = traced
  BY <1>2, <1>3 DEF EmitTurn
<1>6. PICK new : new = [stop |-> h, file |-> f, turn |-> i, number |-> n]
  OBVIOUS
<1>7. /\ \A t \in traced' : t \in traced \/ t = new
      /\ new.stop = h /\ new.file = f /\ new.turn = i /\ new.number = n
  BY <1>5, <1>6
<1>8. PICK e : e = [snapshot[h] EXCEPT ![f].turns = n]
  OBVIOUS
<1>9. snapshot[h] \in OffsetEntries /\ snapshot[h][f].turns \in Nat /\ n \in Nat
  <2>1. snapshot[h] \in OffsetEntries
    BY <1>1 DEF TraceTypes
  <2>2. snapshot[h][f].turns \in Nat
    BY <2>1 DEF OffsetEntries
  <2> QED
    BY <1>3, <2>1, <2>2
<1>10. /\ e \in OffsetEntries /\ \A g \in TraceFiles \ {f} : e[g] = snapshot[h][g]
       /\ e[f].offset = snapshot[h][f].offset /\ e[f].turns = n
  BY <1>8, <1>9 DEF OffsetEntries
<1>11. snapshot' = [snapshot EXCEPT ![h] = e]
  BY <1>1, <1>4, <1>8 DEF TraceTypes
<1>12. /\ snapshot' \in [Stops -> OffsetEntries] /\ snapshot'[h] = e
       /\ \A k \in Stops \ {h} : snapshot'[k] = snapshot[k] /\ left'[k] = left[k]
       /\ left'[h] = left[h] \ {i}
       /\ \A k \in Stops : \A g \in TraceFiles : snapshot'[k][g].offset = snapshot[k][g].offset
  BY <1>1, <1>5, <1>10, <1>11 DEF TraceTypes
<1>13. i \in Nat /\ left[h] \subseteq Nat
  BY <1>1, <1>5 DEF TraceTypes
<1>14. TraceTypes'
  <2>1. left' \in [Stops -> SUBSET Nat]
    BY <1>1, <1>5 DEF TraceTypes
  <2>2. \A t \in traced' : /\ t.stop \in Stops /\ t.file \in TraceFiles
                           /\ t.turn \in Nat /\ t.number \in Nat
    BY <1>1, <1>7, <1>9, <1>13 DEF TraceTypes
  <2> QED
    BY <1>1, <1>4, <1>12, <2>1, <2>2 DEF TraceTypes
<1>15. OffsetsReached'
  <2>1. ASSUME NEW g \in TraceFiles PROVE Size(g)' = Size(g)
    BY <1>4 DEF Size
  <2> QED
    BY <1>1, <1>4, <1>12, <2>1 DEF OffsetsReached
<1>16. AllParsed'
  <2>1. ASSUME NEW g \in TraceFiles, NEW k \in Stops PROVE Parsed(g, snapshot[k][g].offset)'
    BY <1>1, <1>4, <1>12 DEF AllParsed, Parsed
  <2>2. ASSUME NEW g \in TraceFiles PROVE Parsed(g, offsets[g].offset)'
    BY <1>1, <1>4 DEF AllParsed, Parsed
  <2> QED
    BY <2>1, <2>2 DEF AllParsed
<1>17. Locked'
  BY <1>1, <1>4 DEF Locked
<1>18. SentSaved'
  BY <1>1, <1>4, <1>7 DEF SentSaved
<1>19. SUFFICES ASSUME ~degraded PROVE Sending' /\ SentOnce'
  BY <1>4, <1>14, <1>15, <1>16, <1>17, <1>18 DEF TraceInv, Sending, SentOnce
<1>20. \A k \in Stops \ {h} : tracer[k] # "emit"
  BY <1>1, <1>4, <1>19 DEF Locked
<1>21. /\ offsets[f].offset \in Nat /\ offsets[f].turns \in Nat
       /\ snapshot[h][f].offset \in Nat
  BY <1>1, <1>9 DEF TraceTypes, OffsetEntries
<1>22. /\ \A g \in TraceFiles \ {f} : snapshot[h][g] = offsets[g]
       /\ offsets[f].offset <= snapshot[h][f].offset /\ offsets[f].turns < n
       /\ \A j \in left[h] : offsets[f].offset < 2 * j /\ 2 * j <= snapshot[h][f].offset
  <2>1. /\ \A g \in TraceFiles \ {f} : snapshot[h][g] = offsets[g]
        /\ offsets[f].offset <= snapshot[h][f].offset
        /\ offsets[f].turns <= snapshot[h][f].turns
        /\ \A j \in left[h] : offsets[f].offset < 2 * j /\ 2 * j <= snapshot[h][f].offset
    BY <1>1, <1>2, <1>4, <1>19 DEF Sending
  <2> QED
    BY <1>3, <1>9, <1>21, <2>1
<1>23. ASSUME NEW t \in traced, t.stop = h
       PROVE  /\ t.file = f /\ offsets[f].offset < 2 * t.turn
              /\ 2 * t.turn <= snapshot[h][f].offset /\ offsets[f].turns < t.number
              /\ t.number < n /\ \A j \in left[h] : t.turn < j
  <2>1. /\ t.file = f /\ offsets[f].offset < 2 * t.turn
        /\ 2 * t.turn <= snapshot[h][f].offset /\ offsets[f].turns < t.number
        /\ t.number <= snapshot[h][f].turns /\ \A j \in left[h] : t.turn < j
    BY <1>1, <1>2, <1>4, <1>19, <1>23 DEF Sending
  <2>2. t.number \in Nat
    BY <1>1 DEF TraceTypes
  <2> QED
    BY <1>3, <1>9, <2>1, <2>2
<1>24. Sending'
  <2>1. ASSUME NEW k \in Stops \ {h}
        PROVE  /\ tracer'[k] # "emit"
               /\ tracer'[k] \in {"new", "lock", "read"} => \A t \in traced' : t.stop # k
    BY <1>1, <1>4, <1>7, <1>19, <1>20 DEF Sending
  <2>2. /\ \A g \in TraceFiles \ {f} : snapshot'[h][g] = offsets[g]
        /\ offsets[f].offset <= snapshot'[h][f].offset
        /\ offsets[f].turns <= snapshot'[h][f].turns
    BY <1>9, <1>10, <1>12, <1>21, <1>22
  <2>3. \A j \in left'[h] : offsets[f].offset < 2 * j /\ 2 * j <= snapshot'[h][f].offset
    BY <1>12, <1>22
  <2>4. ASSUME NEW t \in traced', t.stop = h
        PROVE  /\ t.file = f /\ offsets[f].offset < 2 * t.turn
               /\ 2 * t.turn <= snapshot'[h][f].offset /\ offsets[f].turns < t.number
               /\ t.number <= snapshot'[h][f].turns /\ \A j \in left'[h] : t.turn < j
    <3>1. CASE t \in traced
      <4>1. t.number \in Nat
        BY <1>1, <3>1 DEF TraceTypes
      <4> QED
        BY <1>9, <1>10, <1>12, <1>23, <2>4, <3>1, <4>1
    <3>2. CASE t = new
      <4>1. \A j \in left'[h] : i < j
        BY <1>5, <1>12, <1>13
      <4> QED
        BY <1>5, <1>7, <1>9, <1>10, <1>12, <1>22, <3>2, <4>1
    <3> QED
      BY <1>7, <3>1, <3>2
  <2>5. tracer'[h] \notin {"new", "lock", "read"} /\ f = target'[h] /\ offsets' = offsets
    BY <1>2, <1>4
  <2> QED
    BY <2>1, <2>2, <2>3, <2>4, <2>5 DEF Sending
<1>25. ASSUME NEW u \in traced, u.file = f PROVE u.turn # i /\ u.number # n
  <2>1. u.turn \in Nat /\ u.number \in Nat /\ u.stop \in Stops
    BY <1>1 DEF TraceTypes
  <2>2. CASE u.stop = h
    BY <1>5, <1>9, <1>13, <1>23, <2>1, <2>2
  <2>3. CASE u.stop # h
    <3>1. 2 * u.turn <= offsets[f].offset /\ u.number <= offsets[f].turns
      BY <1>1, <1>19, <1>20, <1>25, <2>1, <2>3 DEF SentSaved
    <3>2. offsets[f].offset < 2 * i /\ offsets[f].turns < n
      BY <1>5, <1>22
    <3> QED
      BY <1>9, <1>13, <1>21, <2>1, <3>1, <3>2
  <2> QED
    BY <2>2, <2>3
<1>26. SentOnce'
  BY <1>1, <1>7, <1>19, <1>25 DEF SentOnce
<1> QED
  BY <1>24, <1>26

\* A process that is through saves the state it loaded, brought forward.
LEMMA SaveStep ==
  ASSUME TraceAssumption, TraceInv, NEW h \in Stops, SaveState(h) PROVE TraceInv'
<1>1. /\ TraceTypes /\ OffsetsReached /\ AllParsed
      /\ Locked /\ SentSaved /\ Sending /\ SentOnce
  BY DEF TraceInv
<1>2. /\ UNCHANGED <<lines, half, flock, target, snapshot, left, decoded, traced>>
      /\ tracer[h] = "emit" /\ tracer' = [tracer EXCEPT ![h] = "unlock"]
      /\ \/ offsets' = snapshot[h] /\ degraded' = degraded
         \/ offsets' = offsets /\ degraded' = (degraded \/ Emitted(h))
  BY DEF SaveState, At, fileVars
<1>3. tracer'[h] = "unlock" /\ \A k \in Stops \ {h} : tracer'[k] = tracer[k]
  BY <1>1, <1>2 DEF TraceTypes
<1>4. TraceTypes'
  <2>1. tracer' \in [Stops -> {"new", "lock", "read", "emit", "unlock", "done"}]
    BY <1>1, <1>2 DEF TraceTypes
  <2>2. offsets' \in OffsetEntries
    BY <1>1, <1>2 DEF TraceTypes
  <2>3. degraded' \in BOOLEAN
    BY <1>1, <1>2, Zenon DEF TraceTypes
  <2> QED
    BY <1>1, <1>2, <2>1, <2>2, <2>3 DEF TraceTypes
<1>5. OffsetsReached'
  <2>1. ASSUME NEW f \in TraceFiles PROVE Size(f)' = Size(f)
    BY <1>2 DEF Size
  <2> QED
    BY <1>1, <1>2, <2>1 DEF OffsetsReached
<1>6. AllParsed'
  BY <1>1, <1>2 DEF AllParsed, Parsed
<1>7. ~degraded' => ~degraded
  BY <1>2, Zenon
<1>8. Locked'
  BY <1>1, <1>2, <1>3, <1>7 DEF Locked
<1>9. SentOnce'
  BY <1>1, <1>2, <1>7 DEF SentOnce
<1>10. SUFFICES ASSUME ~degraded, ~degraded' PROVE SentSaved' /\ Sending'
  BY <1>4, <1>5, <1>6, <1>7, <1>8, <1>9 DEF TraceInv, SentSaved, Sending
<1>11. \A k \in Stops : tracer'[k] # "emit"
  BY <1>1, <1>2, <1>3, <1>10 DEF Locked
<1>12. Sending'
  <2>1. ASSUME NEW k \in Stops, tracer'[k] \in {"new", "lock", "read"}
        PROVE  \A t \in traced' : t.stop # k
    BY <1>1, <1>2, <1>3, <1>10, <2>1 DEF Sending
  <2> QED
    BY <1>11, <2>1 DEF Sending
<1>13. SUFFICES ASSUME NEW t \in traced
                PROVE  /\ 2 * t.turn <= offsets'[t.file].offset
                       /\ t.number <= offsets'[t.file].turns
  BY <1>2, <1>12 DEF SentSaved
<1>14. t.stop \in Stops /\ t.file \in TraceFiles /\ t.turn \in Nat /\ t.number \in Nat
  BY <1>1 DEF TraceTypes
<1>15. t.stop # h => 2 * t.turn <= offsets[t.file].offset /\ t.number <= offsets[t.file].turns
  BY <1>1, <1>3, <1>10, <1>11, <1>14 DEF SentSaved
<1>16. CASE offsets' = snapshot[h]
  <2>1. CASE t.stop = h
    BY <1>1, <1>2, <1>10, <1>16, <2>1 DEF Sending
  <2>2. CASE t.stop # h
    <3>1. /\ offsets[t.file].offset \in Nat /\ offsets[t.file].turns \in Nat
          /\ snapshot[h][t.file].offset \in Nat /\ snapshot[h][t.file].turns \in Nat
      BY <1>1, <1>14 DEF TraceTypes, OffsetEntries
    <3>2. /\ offsets[t.file].offset <= snapshot[h][t.file].offset
          /\ offsets[t.file].turns <= snapshot[h][t.file].turns
      <4>1. CASE t.file = target[h]
        BY <1>1, <1>2, <1>10, <4>1 DEF Sending
      <4>2. CASE t.file # target[h]
        <5>1. snapshot[h][t.file] = offsets[t.file]
          BY <1>1, <1>2, <1>10, <1>14, <4>2 DEF Sending
        <5> QED
          BY <3>1, <5>1
      <4> QED
        BY <4>1, <4>2
    <3> QED
      BY <1>14, <1>15, <1>16, <2>2, <3>1, <3>2
  <2> QED
    BY <2>1, <2>2
<1>17. CASE offsets' = offsets /\ degraded' = (degraded \/ Emitted(h))
  <2>1. ~Emitted(h)
    BY <1>10, <1>17, Zenon
  <2>2. t.stop # h
    BY <2>1 DEF Emitted
  <2> QED
    BY <1>15, <1>17, <2>2
<1> QED
  BY <1>2, <1>16, <1>17

\* The files, the lock and the processes: every step keeps the invariant.
LEMMA TraceStep ==
  ASSUME TraceAssumption, TraceInv, [TraceNext]_traceVars PROVE TraceInv'
<1>1. CASE TraceNext
  <2>1. ASSUME NEW h \in Stops,
               \/ StartHook(h) \/ EnterLock(h) \/ ReadNew(h) \/ EmitTurn(h)
               \/ SaveState(h) \/ LeaveLock(h) \/ KillHook(h)
        PROVE  TraceInv'
    BY <2>1, PassStep, ReadStep, EmitStep, SaveStep
  <2>2. ASSUME (\E f \in TraceFiles : CliWrites(f)) \/ CliEnds \/ WriteEntry \/ SyncSubagent
        PROVE  TraceInv'
    BY <2>2, FileStep
  <2> QED
    BY <1>1, <2>1, <2>2 DEF TraceNext
<1>2. CASE UNCHANGED traceVars
  BY <1>2
     DEF traceVars, TraceInv, TraceTypes, OffsetsReached, AllParsed, Parsed, Locked,
         SentSaved, Sending, SentOnce, Size
<1> QED
  BY <1>1, <1>2

\* Nothing is written, read or sent at first.
LEMMA TraceStarts == ASSUME TraceAssumption, TraceInit PROVE TraceInv
<1>1. IsSequence(<<>>) /\ Len(<<>>) = 0
  <2>1. <<>> \in Seq({})
    OBVIOUS
  <2> QED
    BY <2>1 DEF IsSequence
<1>2. NoEntries \in OffsetEntries
      /\ \A f \in TraceFiles : NoEntries[f].offset = 0 /\ NoEntries[f].turns = 0
  BY DEF NoEntries, OffsetEntries
<1>3. \A f \in TraceFiles : Size(f) = 0
  BY <1>1 DEF TraceInit, Size
<1>4. \A f \in TraceFiles : lines[f] = <<>> /\ DOMAIN lines[f] = {}
  BY DEF TraceInit
<1>5. TraceTypes
  BY <1>1, <1>2, <1>4 DEF TraceInit, TraceTypes, TraceFiles
<1>6. OffsetsReached
  BY <1>2, <1>3 DEF TraceInit, OffsetsReached
<1>7. AllParsed
  BY <1>4 DEF AllParsed, Parsed
<1>8. Locked /\ SentSaved /\ Sending /\ SentOnce
  BY DEF TraceInit, Locked, SentSaved, Sending, SentOnce
<1> QED
  BY <1>5, <1>6, <1>7, <1>8 DEF TraceInv

\* langfuse_hook.py sends a turn once and under a number of its own, and passes
\* no line over, whatever the processes and the CLI do in between.
THEOREM TurnsTracedOnce == ASSUME TraceAssumption PROVE TraceSpec => []TracedOnce
<1>1. TraceInit => TraceInv
  BY TraceStarts
<1>2. TraceInv /\ [TraceNext]_traceVars => TraceInv'
  BY TraceStep
<1>3. TraceInv => TracedOnce
  BY DEF TraceInv, SentOnce, AllParsed, Parsed, TracedOnce
<1> QED
  BY <1>1, <1>2, <1>3, PTL DEF TraceSpec

\* What the transcripts hold, and what the transcript hook has noted.
LinesTyped ==
  /\ \A f \in TraceFiles : \A i \in DOMAIN lines[f] : lines[f][i] \in Lines
  /\ noted \subseteq Lines

\* What was parsed and sent, and what a process has still to send, is in its
\* transcript.
MarksTyped ==
  /\ \A r \in decoded : r.file \in TraceFiles /\ r.line \in DOMAIN lines[r.file]
  /\ \A t \in traced : t.turn \in DOMAIN lines[t.file]
  /\ \A h \in Stops : /\ left[h] \subseteq DOMAIN lines[target[h]]
                      /\ tracer[h] = "new" => left[h] = {}

TraceTypeInv == TraceInv /\ LinesTyped /\ MarksTyped /\ slips \in 0 .. MaxSlips

\* The rank of a position among the positions that are picked.
Rank(ps, i) == Cardinality({j \in ps : j <= i})

\* There is a position of every rank: the ranks differ, and are as many as the
\* positions.
LEMMA RankTaken ==
  ASSUME NEW ps \in SUBSET Nat, IsFiniteSet(ps), NEW k \in 1 .. Cardinality(ps)
  PROVE  \E i \in ps : Rank(ps, i) = k
<1> DEFINE UpTo(i) == {j \in ps : j <= i}
           n == Cardinality(ps)
<1>1. n \in Nat
  BY FS_CardinalityType
<1>2. ASSUME NEW i \in ps PROVE Rank(ps, i) \in 1 .. n
  <2>1. UpTo(i) \subseteq ps /\ i \in UpTo(i)
    OBVIOUS
  <2>2. IsFiniteSet(UpTo(i)) /\ Cardinality(UpTo(i)) <= n /\ Cardinality(UpTo(i)) \in Nat
    BY <2>1, FS_Subset, FS_CardinalityType
  <2>3. Cardinality(UpTo(i)) # 0
    BY <2>1, <2>2, FS_EmptySet
  <2> QED
    BY <1>1, <2>2, <2>3 DEF Rank
<1>3. ASSUME NEW i \in ps, NEW j \in ps, i < j PROVE Rank(ps, i) # Rank(ps, j)
  <2>1. UpTo(i) \cup {j} \subseteq UpTo(j) /\ j \notin UpTo(i)
    <3>1. ASSUME NEW x \in UpTo(i) PROVE x \in UpTo(j)
      BY <1>3
    <3>2. j \in UpTo(j) /\ j \notin UpTo(i)
      BY <1>3
    <3> HIDE DEF UpTo
    <3> QED
      BY <3>1, <3>2
  <2>2. IsFiniteSet(UpTo(i)) /\ IsFiniteSet(UpTo(j))
    BY FS_Subset
  <2> HIDE DEF UpTo
  <2>3. /\ Cardinality(UpTo(i) \cup {j}) = Cardinality(UpTo(i)) + 1
        /\ Cardinality(UpTo(i) \cup {j}) <= Cardinality(UpTo(j))
    BY <2>1, <2>2, FS_AddElement, FS_Subset
  <2>4. Cardinality(UpTo(i)) \in Nat /\ Cardinality(UpTo(j)) \in Nat
    BY <2>2, FS_CardinalityType
  <2> QED
    BY <2>3, <2>4 DEF Rank, UpTo
<1>4. SUFFICES ASSUME \A i \in ps : Rank(ps, i) # k PROVE FALSE
  OBVIOUS
<1> DEFINE others == (1 .. n) \ {k}
           rank == [i \in ps |-> Rank(ps, i)]
<1>5. IsFiniteSet(others) /\ Cardinality(others) < n
  <2>1. IsFiniteSet(1 .. n) /\ Cardinality(1 .. n) = n
    BY <1>1, FS_Interval
  <2>2. IsFiniteSet(others) /\ Cardinality(others) = n - 1
    BY <2>1, FS_RemoveElement
  <2> QED
    BY <1>1, <2>2
<1>6. rank \in [ps -> others]
  BY <1>2, <1>4
<1>7. PICK i \in ps, j \in ps : i # j /\ rank[i] = rank[j]
  <2> HIDE DEF others, rank
  <2> QED
    BY <1>5, <1>6, FS_PigeonHole
<1>8. i < j \/ j < i
  BY <1>7
<1> QED
  BY <1>3, <1>7, <1>8

\* What is picked is among the entries.
LEMMA PickedLines ==
  ASSUME NEW s, NEW ps \in SUBSET Nat, IsFiniteSet(ps),
         NEW S, \A i \in ps : s[i] \in S
  PROVE  /\ IsSequence(Picked(s, ps))
         /\ \A k \in DOMAIN Picked(s, ps) : Picked(s, ps)[k] \in S
<1>1. IsSequence(Picked(s, ps))
  BY PickedType
<1>2. ASSUME NEW k \in 1 .. Cardinality(ps) PROVE Picked(s, ps)[k] \in S
  <2> DEFINE i == CHOOSE i \in ps : Cardinality({j \in ps : j <= i}) = k
  <2>1. i \in ps
    BY RankTaken DEF Rank
  <2>2. Picked(s, ps)[k] = s[i]
    BY DEF Picked, Nth
  <2> QED
    BY <2>1, <2>2
<1>3. DOMAIN Picked(s, ps) = 1 .. Cardinality(ps)
  BY DEF Picked
<1> QED
  BY <1>1, <1>2, <1>3

\* A transcript that is appended to keeps its lines.
LEMMA LinesAdded ==
  ASSUME TraceTypes, LinesTyped, NEW f \in TraceFiles, NEW new, IsSequence(new),
         \A i \in DOMAIN new : new[i] \in Lines,
         lines' = [lines EXCEPT ![f] = @ \o new]
  PROVE  /\ \A g \in TraceFiles : \A i \in DOMAIN lines'[g] : lines'[g][i] \in Lines
         /\ \A g \in TraceFiles : DOMAIN lines[g] \subseteq DOMAIN lines'[g]
<1>1. lines' = [g \in TraceFiles |-> IF g = f THEN lines[f] \o new ELSE lines[g]]
  BY DEF TraceTypes
<1>2. /\ DOMAIN lines[f] = 1 .. Len(lines[f]) /\ Len(lines[f]) \in Nat
      /\ DOMAIN new = 1 .. Len(new) /\ Len(new) \in Nat
      /\ DOMAIN (lines[f] \o new) = 1 .. Len(lines[f]) + Len(new)
  BY SequenceGrows DEF TraceTypes
<1>3. \A i \in 1 .. Len(lines[f]) + Len(new) :
        (lines[f] \o new)[i] = IF i <= Len(lines[f]) THEN lines[f][i] ELSE new[i - Len(lines[f])]
  <2>1. PICK S, T : lines[f] \in Seq(S) /\ new \in Seq(T)
    BY DEF TraceTypes, IsSequence
  <2>2. lines[f] \in Seq(S \cup T) /\ new \in Seq(S \cup T)
    BY <2>1, SeqMonotonic
  <2> QED
    BY <2>2, ConcatProperties
<1>4. \A i \in DOMAIN lines'[f] : lines'[f][i] \in Lines
  <2> SUFFICES ASSUME NEW i \in 1 .. Len(lines[f]) + Len(new)
               PROVE  (lines[f] \o new)[i] \in Lines
    BY <1>1, <1>2
  <2>1. CASE i <= Len(lines[f])
    BY <1>2, <1>3, <2>1 DEF LinesTyped
  <2>2. CASE ~(i <= Len(lines[f]))
    <3>1. i - Len(lines[f]) \in 1 .. Len(new)
      BY <1>2, <2>2
    <3> QED
      BY <1>2, <1>3, <2>2, <3>1
  <2> QED
    BY <2>1, <2>2
<1>5. DOMAIN lines[f] \subseteq DOMAIN lines'[f]
  BY <1>1, <1>2
<1> QED
  BY <1>1, <1>4, <1>5 DEF LinesTyped

\* The CLI and the transcript hook write lines of their own, and no more than
\* they may.
LEMMA FileTyped ==
  ASSUME TraceAssumption, TraceTypeInv,
         (\E f \in TraceFiles : CliWrites(f)) \/ CliEnds \/ WriteEntry \/ SyncSubagent
  PROVE  /\ LinesTyped' /\ UNCHANGED procVars /\ slips' \in 0 .. MaxSlips
         /\ \A f \in TraceFiles : DOMAIN lines[f] \subseteq DOMAIN lines'[f]
<1>1. /\ TraceTypes /\ LinesTyped /\ slips \in 0 .. MaxSlips /\ MaxSlips \in Nat
      /\ MaxLines \in Nat
  BY DEF TraceAssumption, TraceTypeInv, TraceInv
<1>2. ASSUME NEW f \in TraceFiles, CliWrites(f)
      PROVE  /\ LinesTyped' /\ UNCHANGED <<procVars, slips>>
             /\ \A g \in TraceFiles : DOMAIN lines[g] \subseteq DOMAIN lines'[g]
  <2>1. PICK r \in {"user", "assistant"} :
          lines' = [lines EXCEPT ![f] = Append(@, [by |-> f, role |-> r, id |-> Written(f) + 1])]
    BY <1>2 DEF CliWrites
  <2>2. PICK line : line = [by |-> f, role |-> r, id |-> Written(f) + 1]
    OBVIOUS
  <2>3. Written(f) \in Nat
    <3>1. DOMAIN lines[f] = 1 .. Len(lines[f]) /\ Len(lines[f]) \in Nat
      BY <1>1, SequenceGrows DEF TraceTypes
    <3>2. IsFiniteSet(1 .. Len(lines[f]))
      BY <3>1, FS_Interval
    <3>3. {i \in DOMAIN lines[f] : lines[f][i].by = f} \subseteq 1 .. Len(lines[f])
      BY <3>1
    <3> QED
      BY <3>2, <3>3, FS_Subset, FS_CardinalityType DEF Written
  <2>4. line \in Lines
    BY <1>1, <1>2, <2>2, <2>3 DEF CliWrites, Lines, Roles
  <2>5. PICK S : lines[f] \in Seq(S)
    BY <1>1 DEF TraceTypes, IsSequence
  <2>6. Append(lines[f], line) = lines[f] \o <<line>>
    BY <2>5, SeqMonotonic, AppendIsConcat
  <2>7. /\ IsSequence(<<line>>) /\ \A i \in DOMAIN <<line>> : <<line>>[i] \in Lines
        /\ lines' = [lines EXCEPT ![f] = @ \o <<line>>]
    <3>1. lines' = [lines EXCEPT ![f] = Append(lines[f], line)]
      BY <2>1, <2>2
    <3>2. DOMAIN <<line>> = {1} /\ <<line>>[1] = line
      OBVIOUS
    <3> QED
      BY <2>4, <2>6, <3>1, <3>2, OneLine
  <2>8. UNCHANGED <<noted, slips, procVars>>
    BY <1>2 DEF CliWrites
  <2> QED
    BY <1>1, <2>7, <2>8, LinesAdded DEF LinesTyped
<1>3. ASSUME NEW entries, AppendLines(entries), IsSequence(entries),
             \A i \in DOMAIN entries : entries[i] \in Lines
      PROVE  /\ LinesTyped' /\ slips' \in 0 .. MaxSlips
             /\ \A g \in TraceFiles : DOMAIN lines[g] \subseteq DOMAIN lines'[g]
  <2>1. PICK ok \in SUBSET DOMAIN entries :
          /\ lines' = [lines EXCEPT !["main"] = @ \o Picked(entries, ok)]
          /\ slips' = slips \/ Slip
          /\ noted' \subseteq noted \cup {entries[i] : i \in DOMAIN entries}
    BY <1>3 DEF AppendLines
  <2>2. IsFiniteSet(ok) /\ ok \subseteq Nat
    <3>1. DOMAIN entries = 1 .. Len(entries) /\ Len(entries) \in Nat
      BY <1>3, SequenceGrows
    <3>2. IsFiniteSet(1 .. Len(entries)) /\ 1 .. Len(entries) \subseteq Nat
      BY <3>1, FS_Interval
    <3> QED
      BY <2>1, <3>1, <3>2, FS_Subset
  <2>3. /\ IsSequence(Picked(entries, ok))
        /\ \A k \in DOMAIN Picked(entries, ok) : Picked(entries, ok)[k] \in Lines
    BY <1>3, <2>1, <2>2, PickedLines
  <2>4. "main" \in TraceFiles
    BY DEF TraceFiles
  <2>5. slips' \in 0 .. MaxSlips
    BY <1>1, <2>1 DEF Slip
  <2>6. noted' \subseteq Lines
    BY <1>1, <1>3, <2>1 DEF LinesTyped
  <2> QED
    BY <1>1, <2>1, <2>3, <2>4, <2>5, <2>6, LinesAdded DEF LinesTyped
<1>4. CASE CliEnds
  BY <1>1, <1>4 DEF CliEnds, LinesTyped
<1>5. CASE WriteEntry
  <2>1. PICK line : line = [by |-> "hook", role |-> "other", id |-> 1]
    OBVIOUS
  <2>2. line \in Lines
    <3>1. PICK i : i \in DOMAIN lines["main"]
      <4>1. IsSequence(lines["main"]) /\ lines["main"] # <<>>
        BY <1>1, <1>5 DEF WriteEntry, TraceTypes, TraceFiles
      <4>2. PICK S : lines["main"] \in Seq(S)
        BY <4>1 DEF IsSequence
      <4>3. Len(lines["main"]) \in Nat \ {0} /\ DOMAIN lines["main"] = 1 .. Len(lines["main"])
        BY <4>1, <4>2, EmptySeq, SequenceGrows
      <4>4. 1 \in 1 .. Len(lines["main"])
        BY <4>3
      <4> QED
        BY <4>3, <4>4
    <3>2. lines["main"][i].id \in 1 .. MaxLines
      BY <1>1, <3>1 DEF LinesTyped, TraceFiles, Lines
    <3>3. 1 \in 1 .. MaxLines
      BY <1>1, <3>2
    <3> QED
      BY <2>1, <3>3 DEF Lines, Roles
  <2>3. /\ AppendLines(<<line>>) /\ IsSequence(<<line>>) /\ UNCHANGED procVars
        /\ \A i \in DOMAIN <<line>> : <<line>>[i] \in Lines
    BY <1>5, <2>1, <2>2, OneLine DEF WriteEntry
  <2> QED
    BY <1>3, <2>3
<1>6. CASE SyncSubagent
  <2>1. /\ AppendLines(lines["sub"]) /\ IsSequence(lines["sub"]) /\ UNCHANGED procVars
        /\ \A i \in DOMAIN lines["sub"] : lines["sub"][i] \in Lines
    BY <1>1, <1>6 DEF SyncSubagent, LinesTyped, TraceTypes, TraceFiles
  <2> QED
    BY <1>3, <2>1
<1> QED
  BY <1>1, <1>2, <1>4, <1>5, <1>6

\* The marks lie in transcripts that only grow.
LEMMA MarksKept ==
  ASSUME TraceTypes, MarksTyped, UNCHANGED procVars,
         \A f \in TraceFiles : DOMAIN lines[f] \subseteq DOMAIN lines'[f]
  PROVE  MarksTyped'
<1>1. UNCHANGED <<tracer, target, left, decoded, traced>>
  BY DEF procVars
<1>2. /\ \A t \in traced : t.file \in TraceFiles
      /\ \A h \in Stops : target[h] \in TraceFiles
  BY DEF TraceTypes
<1> QED
  BY <1>1, <1>2 DEF MarksTyped

\* A hook process marks only lines of its transcript.
LEMMA ProcTyped ==
  ASSUME TraceAssumption, TraceTypeInv, NEW h \in Stops,
         \/ StartHook(h) \/ EnterLock(h) \/ ReadNew(h) \/ EmitTurn(h)
         \/ SaveState(h) \/ LeaveLock(h) \/ KillHook(h)
  PROVE  MarksTyped' /\ UNCHANGED fileVars /\ slips' \in 0 .. MaxSlips
<1>1. /\ TraceTypes /\ MarksTyped /\ slips \in 0 .. MaxSlips /\ MaxSlips \in Nat
      /\ tracer = [g \in Stops |-> tracer[g]] /\ target = [g \in Stops |-> target[g]]
      /\ left = [g \in Stops |-> left[g]]
  BY DEF TraceTypeInv, TraceInv, TraceAssumption, TraceTypes
<1>2. UNCHANGED <<lines, half, noted>>
  BY DEF StartHook, EnterLock, ReadNew, EmitTurn, SaveState, LeaveLock, KillHook, Ends, fileVars
<1>3. slips' \in 0 .. MaxSlips
  <2>1. slips' = slips \/ Slip
    BY DEF StartHook, EnterLock, ReadNew, EmitTurn, SaveState, LeaveLock, KillHook
  <2> QED
    BY <1>1, <2>1 DEF Slip
<1>4. ASSUME NEW q, q # "new", tracer' = [tracer EXCEPT ![h] = q],
             UNCHANGED <<target, left, decoded, traced>>
      PROVE  MarksTyped'
  BY <1>1, <1>2, <1>4 DEF MarksTyped
<1>5. ASSUME StartHook(h) PROVE MarksTyped'
  <2>1. /\ tracer[h] = "new" /\ tracer' = [tracer EXCEPT ![h] = "lock"]
        /\ UNCHANGED <<left, decoded, traced>>
        /\ \E f \in TraceFiles : target' = [target EXCEPT ![h] = f]
    BY <1>5 DEF StartHook, At
  <2>2. left[h] = {}
    BY <1>1, <2>1 DEF MarksTyped
  <2> QED
    BY <1>1, <1>2, <2>1, <2>2 DEF MarksTyped
<1>6. ASSUME EnterLock(h) PROVE MarksTyped'
  BY <1>4, <1>6 DEF EnterLock, At
<1>7. ASSUME ReadNew(h) PROVE MarksTyped'
  <2>1. PICK f \in TraceFiles : f = target[h]
    BY <1>1 DEF TraceTypes
  <2>2. /\ tracer' = [tracer EXCEPT ![h] = "emit"] /\ UNCHANGED <<target, traced>>
        /\ decoded' = decoded \cup [file : {f}, line : NewLines(f)]
        /\ left' = [left EXCEPT ![h] = BuildTurns(f, NewLines(f))]
    BY <1>7, <2>1 DEF ReadNew, At
  <2>3. NewLines(f) \subseteq DOMAIN lines[f] /\ BuildTurns(f, NewLines(f)) \subseteq NewLines(f)
    BY DEF NewLines, BuildTurns
  <2>4. \A r \in decoded' : r.file \in TraceFiles /\ r.line \in DOMAIN lines[r.file]
    BY <1>1, <2>1, <2>2, <2>3 DEF MarksTyped
  <2>5. /\ \A g \in Stops \ {h} : left'[g] = left[g] /\ tracer'[g] = tracer[g]
        /\ left'[h] \subseteq DOMAIN lines[f] /\ tracer'[h] # "new"
    BY <1>1, <2>2, <2>3
  <2> QED
    BY <1>1, <1>2, <2>1, <2>2, <2>4, <2>5 DEF MarksTyped
<1>8. ASSUME EmitTurn(h) PROVE MarksTyped'
  <2>1. PICK f \in TraceFiles : f = target[h]
    BY <1>1 DEF TraceTypes
  <2>2. PICK n : n = snapshot[h][f].turns + 1
    OBVIOUS
  <2>3. PICK i \in left[h] :
          /\ left' = [left EXCEPT ![h] = @ \ {i}] /\ UNCHANGED <<tracer, target, decoded>>
          /\ tracer[h] = "emit"
          /\ \/ traced' = traced \cup {[stop |-> h, file |-> f, turn |-> i, number |-> n]}
             \/ traced' = traced
    BY <1>8, <2>1, <2>2 DEF EmitTurn
  <2>4. i \in DOMAIN lines[f]
    BY <1>1, <2>1 DEF MarksTyped
  <2>5. \A t \in traced' : t.turn \in DOMAIN lines[t.file]
    BY <1>1, <2>3, <2>4 DEF MarksTyped
  <2>6. \A g \in Stops : left'[g] \subseteq left[g]
    BY <1>1, <2>3
  <2> QED
    BY <1>1, <1>2, <2>3, <2>5, <2>6 DEF MarksTyped
<1>9. ASSUME SaveState(h) PROVE MarksTyped'
  BY <1>4, <1>9 DEF SaveState, At
<1>10. ASSUME LeaveLock(h) \/ KillHook(h) PROVE MarksTyped'
  <2>1. /\ tracer' = [tracer EXCEPT ![h] = "done"] /\ UNCHANGED <<decoded, traced>>
        /\ target' = [target EXCEPT ![h] = "main"] /\ left' = [left EXCEPT ![h] = {}]
    BY <1>10 DEF LeaveLock, KillHook, Ends
  <2> QED
    BY <1>1, <1>2, <2>1 DEF MarksTyped
<1> QED
  BY <1>2, <1>3, <1>5, <1>6, <1>7, <1>8, <1>9, <1>10 DEF fileVars

\* Every step keeps the types.
LEMMA TraceTypeStep ==
  ASSUME TraceAssumption, TraceTypeInv, [TraceNext]_traceVars PROVE TraceTypeInv'
<1>1. /\ TraceInv /\ TraceInv' /\ TraceTypes /\ LinesTyped /\ MarksTyped
      /\ slips \in 0 .. MaxSlips
  BY TraceStep DEF TraceTypeInv, TraceInv
<1>2. ASSUME (\E f \in TraceFiles : CliWrites(f)) \/ CliEnds \/ WriteEntry \/ SyncSubagent
      PROVE  LinesTyped' /\ MarksTyped' /\ slips' \in 0 .. MaxSlips
  BY <1>1, <1>2, FileTyped, MarksKept
<1>3. ASSUME NEW h \in Stops,
             \/ StartHook(h) \/ EnterLock(h) \/ ReadNew(h) \/ EmitTurn(h)
             \/ SaveState(h) \/ LeaveLock(h) \/ KillHook(h)
      PROVE  LinesTyped' /\ MarksTyped' /\ slips' \in 0 .. MaxSlips
  BY <1>1, <1>3, ProcTyped DEF fileVars, LinesTyped
<1>4. CASE UNCHANGED traceVars
  BY <1>1, <1>4 DEF traceVars, TraceTypeInv, LinesTyped, MarksTyped
<1> QED
  BY <1>1, <1>2, <1>3, <1>4 DEF TraceNext, TraceTypeInv

\* While every process waited for the lock, they are in the locked part one at a
\* time.
LEMMA OneLocked ==
  ASSUME Locked, ~degraded
  PROVE  Cardinality({h \in Stops : tracer[h] \in {"read", "emit"}}) <= 1
<1> DEFINE Inside == {h \in Stops : tracer[h] \in {"read", "emit"}}
<1>1. Inside \subseteq {flock}
  BY DEF Locked
<1>2. IsFiniteSet({flock}) /\ Cardinality({flock}) = 1
  BY FS_Singleton
<1> HIDE DEF Inside
<1>3. Cardinality(Inside) <= 1
  BY <1>1, <1>2, FS_Subset
<1> QED
  BY <1>3 DEF Inside

\* The transcripts, the saved state and the processes keep their types: whatever
\* was parsed, sent or is still to be sent is a line of its transcript, and the
\* processes that waited for the lock are in the locked part one at a time.
THEOREM TraceTyped == ASSUME TraceAssumption PROVE TraceSpec => []TraceTypeOK
<1>1. TraceInit => TraceTypeInv
  <2> SUFFICES ASSUME TraceInit PROVE TraceTypeInv
    OBVIOUS
  <2>1. LinesTyped
    BY DEF TraceInit, LinesTyped
  <2>2. MarksTyped
    BY DEF TraceInit, MarksTyped
  <2>3. slips \in 0 .. MaxSlips
    BY DEF TraceInit, TraceAssumption
  <2> QED
    BY <2>1, <2>2, <2>3, TraceStarts DEF TraceTypeInv
<1>2. TraceTypeInv => TraceTypeOK
  <2> SUFFICES ASSUME TraceTypeInv PROVE TraceTypeOK
    OBVIOUS
  <2>1. TraceTypes /\ Locked /\ LinesTyped /\ MarksTyped /\ slips \in 0 .. MaxSlips
    BY DEF TraceTypeInv, TraceInv
  <2>2. ~degraded => Cardinality({h \in Stops : tracer[h] \in {"read", "emit"}}) <= 1
    BY <2>1, OneLocked
  <2> QED
    BY <2>1, <2>2 DEF TraceTypeOK, TraceTypes, LinesTyped, MarksTyped
<1> QED
  BY <1>1, <1>2, TraceTypeStep, PTL DEF TraceSpec
=============================================================================
