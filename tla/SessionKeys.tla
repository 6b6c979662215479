---------------------------- MODULE SessionKeys ----------------------------
(***************************************************************************)
(* The Redis keys of one thread's sessions, as SessionStore creates,       *)
(* renews and deletes them: the persistent record (session:map), and for   *)
(* each token the hash (session:stream) and the inbox, reached through one *)
(* lookup key.                                                             *)
(*                                                                         *)
(* Actors: requests (find_session, then create_session with the token it   *)
(* found or a new one), whoever pushes to an inbox, the job of a session   *)
(* (set_running, set_completed, save_session), the cleanup that closes the *)
(* thread's session, the one that changes its TTL, and time.  One action   *)
(* is one command or one pipeline; the reading at the start of             *)
(* expire_session and close_session is joined to the command before it.    *)
(***************************************************************************)
EXTENDS Naturals, FiniteSets

CONSTANTS
  Requests,    \* executions of the coordinator; a new token has its name
  NoToken,
  MaxTimes     \* bound: expiries and changes of the TTL

KeysAssumption == NoToken \notin Requests /\ MaxTimes \in Nat

VARIABLES
  record,      \* session:map: absent, without a token yet, or its streaming token
  hash,        \* session:stream:{t}: absent, full, or partial (no base fields)
  inbox,       \* session:inbox:{t} exists
  link,        \* the lookup key's token
  lasting,     \* keys without a TTL: "record", <<"hash", t>>, <<"inbox", t>>
  renewed,     \* the hash's TTL was renewed after the lookup key's
  rpc,         \* where each request is
  found,       \* the token it has read from the lookup key
  pushing,     \* push_inbox_message is between its two commands
  jpc,         \* where the job of each request is
  closer,      \* close_session: its next command, and the token it read
  closing,
  changer,     \* expire_session: its next command, and the token it read
  changing,
  unlinked,    \* history: tokens whose lookup key was deleted under them, expired
               \* before their renewed hash, or was taken by another session
  times

keyVars == <<record, hash, inbox, link, lasting, renewed, rpc, found, pushing, jpc,
             closer, closing, changer, changing, unlinked, times>>

Tokens == Requests \cup {NoToken}
TokenKeys(t) == {<<"hash", t>>, <<"inbox", t>>}

KeysTypeOK ==
  /\ record \in Requests \cup {"absent", "bare"}
  /\ hash \in [Requests -> {"absent", "full", "partial"}]
  /\ inbox \in [Requests -> BOOLEAN]
  /\ link \in Tokens
  /\ lasting \subseteq {<<"record", NoToken>>} \cup UNION {TokenKeys(t) : t \in Requests}
  /\ renewed \in [Requests -> BOOLEAN]
  /\ rpc \in [Requests -> {"new", "exists", "unlink", "reuse", "create", "done"}]
  /\ found \in [Requests -> Tokens]
  /\ pushing \in [Requests -> BOOLEAN]
  /\ jpc \in [Requests -> {"none", "run", "save", "token", "expire", "done"}]
  /\ closer \in {"idle", "hash", "inbox", "link", "record", "done"}
  /\ closing \in Tokens
  /\ changer \in {"idle", "hash", "inbox", "link"} /\ changing \in Tokens
  /\ unlinked \subseteq Requests /\ times \in 0..MaxTimes

KeysInit ==
  /\ record = "absent" /\ link = NoToken /\ lasting = {}
  /\ hash = [t \in Requests |-> "absent"]
  /\ inbox = [t \in Requests |-> FALSE]
  /\ renewed = [t \in Requests |-> FALSE]
  /\ rpc = [q \in Requests |-> "new"]
  /\ found = [q \in Requests |-> NoToken]
  /\ pushing = [t \in Requests |-> FALSE]
  /\ jpc = [t \in Requests |-> "none"]
  /\ closer = "idle" /\ closing = NoToken
  /\ changer = "idle" /\ changing = NoToken
  /\ unlinked = {} /\ times = 0

-----------------------------------------------------------------------------
(* The coordinator: find_session, set_running, create_session.             *)

close  == <<closer, closing>>
change == <<changer, changing>>
keys   == <<record, hash, inbox, link, lasting, renewed>>
Linked == {link} \ {NoToken}

Step(q, from, to) == rpc[q] = from /\ rpc' = [rpc EXCEPT ![q] = to]

\* GET of the lookup key.
FindLink(q) ==
  /\ Step(q, "new", IF link = NoToken THEN "create" ELSE "exists")
  /\ found' = [found EXCEPT ![q] = link]
  /\ UNCHANGED <<keys, pushing, jpc, close, change, unlinked, times>>

\* HGETALL: a lookup entry without a hash is stale.
FindHash(q) ==
  /\ rpc[q] = "exists"
  /\ Step(q, "exists", IF hash[found[q]] = "absent" THEN "unlink" ELSE "reuse")
  /\ UNCHANGED <<keys, found, pushing, jpc, close, change, unlinked, times>>

\* The stale entry is deleted, whatever it holds by now.
FindUnlink(q) ==
  /\ Step(q, "unlink", "create")
  /\ unlinked' = unlinked \cup Linked
  /\ link' = NoToken
  /\ found' = [found EXCEPT ![q] = NoToken]
  /\ UNCHANGED <<record, hash, inbox, lasting, renewed, pushing, jpc, close, change,
                 times>>

\* set_running: HSET and EXPIRE, also on a hash that is gone.
SetRunning(t) ==
  /\ hash' = [hash EXCEPT ![t] = IF @ = "absent" THEN "partial" ELSE @]
  /\ lasting' = lasting \ {<<"hash", t>>}
  /\ renewed' = [renewed EXCEPT ![t] = TRUE]

ReuseRunning(q) ==
  /\ Step(q, "reuse", "create")
  /\ SetRunning(found[q])
  /\ UNCHANGED <<record, inbox, link, found, pushing, jpc, close, change, unlinked,
                 times>>

\* The token of a request's session, and of the job it creates.
Token(q) == IF found[q] = NoToken THEN q ELSE found[q]

\* create_session: one pipeline writes all fields and the lookup key.
CreateWith(q, next) ==
  LET t == Token(q)
  IN  /\ Step(q, "create", "done")
      /\ hash' = [hash EXCEPT ![t] = "full"]
      /\ lasting' = lasting \ {<<"hash", t>>}
      /\ renewed' = [renewed EXCEPT ![t] = FALSE]
      /\ link' = next[t]
      /\ jpc' = [jpc EXCEPT ![q] = "run"]
      /\ unlinked' = (unlinked \cup Linked) \ {t}
      /\ UNCHANGED <<record, inbox, found, pushing, close, change, times>>

\* Mutant: a lookup key that exists is left as it is (SET NX).
CreateKeysNX(q) ==
  CreateWith(q, [t \in Requests |-> IF link = NoToken THEN t ELSE link])

CreateKeys(q) == CreateWith(q, [t \in Requests |-> t])

-----------------------------------------------------------------------------
(* push_inbox_message, and the job of a request.                           *)

JobStep(q, from, to) == jpc[q] = from /\ jpc' = [jpc EXCEPT ![q] = to]

PushList(t) ==
  /\ hash[t] = "full" /\ ~pushing[t] /\ pushing' = [pushing EXCEPT ![t] = TRUE]
  /\ inbox' = [inbox EXCEPT ![t] = TRUE]
  /\ lasting' = IF inbox[t] THEN lasting ELSE lasting \cup {<<"inbox", t>>}
  /\ UNCHANGED <<record, hash, link, renewed, rpc, found, jpc, close, change, unlinked,
                 times>>

\* Mutant: the message is pushed and the list never given a TTL.
PushExpireNot(t) ==
  /\ pushing[t] /\ pushing' = [pushing EXCEPT ![t] = FALSE]
  /\ UNCHANGED <<keys, rpc, found, jpc, close, change, unlinked, times>>

PushExpire(t) ==
  /\ pushing[t] /\ pushing' = [pushing EXCEPT ![t] = FALSE]
  /\ lasting' = lasting \ {<<"inbox", t>>}
  /\ UNCHANGED <<record, hash, inbox, link, renewed, rpc, found, jpc, close, change,
                 unlinked, times>>

\* The job drains the inbox: the list is deleted.
PopInbox(q) ==
  /\ jpc[q] = "run" /\ inbox[Token(q)]
  /\ inbox' = [inbox EXCEPT ![Token(q)] = FALSE]
  /\ lasting' = lasting \ {<<"inbox", Token(q)>>}
  /\ UNCHANGED <<record, hash, link, renewed, rpc, found, pushing, jpc, close, change,
                 unlinked, times>>

\* Auto-continue.
JobRunning(q) ==
  /\ jpc[q] = "run" /\ SetRunning(Token(q))
  /\ UNCHANGED <<record, inbox, link, rpc, found, pushing, jpc, close, change, unlinked,
                 times>>

\* set_completed: HSET without EXPIRE.
JobCompleted(q) ==
  /\ JobStep(q, "run", "save")
  /\ hash' = [hash EXCEPT ![Token(q)] = IF @ = "absent" THEN "partial" ELSE @]
  /\ lasting' = IF hash[Token(q)] = "absent" THEN lasting \cup {<<"hash", Token(q)>>}
                ELSE lasting
  /\ UNCHANGED <<record, inbox, link, renewed, rpc, found, pushing, close, change,
                 unlinked, times>>

\* save_session: HSET of the base fields and counters, of a closed session too;
\* HSET of the token; EXPIRE.
SaveBase(q) ==
  /\ JobStep(q, "save", "token")
  /\ record' = IF record = "absent" THEN "bare" ELSE record
  /\ lasting' = IF record = "absent" THEN lasting \cup {<<"record", NoToken>>}
                ELSE lasting
  /\ UNCHANGED <<hash, inbox, link, renewed, rpc, found, pushing, close, change,
                 unlinked, times>>

SaveToken(q) ==
  /\ JobStep(q, "token", "expire")
  /\ record' = Token(q)
  /\ lasting' = IF record = "absent" THEN lasting \cup {<<"record", NoToken>>}
                ELSE lasting
  /\ UNCHANGED <<hash, inbox, link, renewed, rpc, found, pushing, close, change,
                 unlinked, times>>

SaveExpire(q) ==
  /\ JobStep(q, "expire", "done")
  /\ lasting' = lasting \ {<<"record", NoToken>>}
  /\ UNCHANGED <<record, hash, inbox, link, renewed, rpc, found, pushing, close, change,
                 unlinked, times>>

-----------------------------------------------------------------------------
(* close_session and _cleanup_streaming.                                   *)

RecordToken == IF record \in Requests THEN record ELSE NoToken
CloseStep(from, to) == closer = from /\ closer' = to

\* The record tells the token; without one only the record is deleted.
CloseRead ==
  /\ CloseStep("idle", IF RecordToken = NoToken THEN "record" ELSE "hash")
  /\ closing' = RecordToken
  /\ UNCHANGED <<keys, rpc, found, pushing, jpc, change, unlinked, times>>

CloseHash ==
  /\ CloseStep("hash", "inbox")
  /\ hash' = [hash EXCEPT ![closing] = "absent"]
  /\ lasting' = lasting \ {<<"hash", closing>>}
  /\ UNCHANGED <<record, inbox, link, renewed, rpc, found, pushing, jpc, closing, change,
                 unlinked, times>>

CloseInbox ==
  /\ CloseStep("inbox", "link")
  /\ inbox' = [inbox EXCEPT ![closing] = FALSE]
  /\ lasting' = lasting \ {<<"inbox", closing>>}
  /\ UNCHANGED <<record, hash, link, renewed, rpc, found, pushing, jpc, closing, change,
                 unlinked, times>>

\* The lookup key goes, whichever token it holds.
CloseLink ==
  /\ CloseStep("link", "record")
  /\ link' = NoToken /\ unlinked' = unlinked \cup Linked
  /\ UNCHANGED <<record, hash, inbox, lasting, renewed, rpc, found, pushing, jpc,
                 closing, change, times>>

CloseRecord ==
  /\ CloseStep("record", "done")
  /\ record' = "absent" /\ lasting' = lasting \ {<<"record", NoToken>>}
  /\ UNCHANGED <<hash, inbox, link, renewed, rpc, found, pushing, jpc, closing, change,
                 unlinked, times>>

-----------------------------------------------------------------------------
(* expire_session and _propagate_streaming_ttl; time.                      *)

ExpireRecord ==
  /\ changer = "idle" /\ record # "absent" /\ times < MaxTimes /\ times' = times + 1
  /\ changer' = IF RecordToken = NoToken THEN "idle" ELSE "hash"
  /\ changing' = RecordToken
  /\ lasting' = lasting \ {<<"record", NoToken>>}
  /\ UNCHANGED <<record, hash, inbox, link, renewed, rpc, found, pushing, jpc, close,
                 unlinked>>

ExpireKey(from, to) ==
  /\ changer = from /\ changer' = to
  /\ lasting' = lasting \ {<<from, changing>>}
  /\ UNCHANGED <<record, hash, inbox, link, rpc, found, pushing, jpc, close, changing,
                 unlinked, times>>

ExpireHash ==
  /\ ExpireKey("hash", "inbox") /\ renewed' = [renewed EXCEPT ![changing] = TRUE]

ExpireInbox == ExpireKey("inbox", "link") /\ UNCHANGED renewed

ExpireLink ==
  /\ ExpireKey("link", "idle")
  /\ renewed' = IF link = changing THEN [renewed EXCEPT ![changing] = FALSE]
                ELSE renewed

\* The lookup key expires with the hash it was written with, or before it if
\* the hash has been renewed since.
TimeOut ==
  /\ link # NoToken /\ times < MaxTimes /\ times' = times + 1
  /\ link' = NoToken
  /\ IF renewed[link] THEN unlinked' = unlinked \cup {link} /\ UNCHANGED hash
     ELSE /\ hash' = [hash EXCEPT ![link] =
                        IF <<"hash", link>> \in lasting THEN @ ELSE "absent"]
          /\ UNCHANGED unlinked
  /\ UNCHANGED <<record, inbox, lasting, renewed, rpc, found, pushing, jpc, close,
                 change>>

KeysNext ==
  \/ \E q \in Requests :
       \/ FindLink(q) \/ FindHash(q) \/ FindUnlink(q) \/ ReuseRunning(q)
       \/ CreateKeys(q) \/ PushList(q) \/ PushExpire(q) \/ PopInbox(q)
       \/ JobRunning(q) \/ JobCompleted(q)
       \/ SaveBase(q) \/ SaveToken(q) \/ SaveExpire(q)
  \/ CloseRead \/ CloseHash \/ CloseInbox \/ CloseLink \/ CloseRecord
  \/ ExpireRecord \/ ExpireHash \/ ExpireInbox \/ ExpireLink \/ TimeOut

KeysSpec == KeysInit /\ [][KeysNext]_keyVars

-----------------------------------------------------------------------------
(* Properties.                                                             *)

\* find_session must find every session somebody works in, or the next request
\* of the thread opens a second one: the lookup key leads to a complete hash
\* unless another session took the key, a find_session or close_session deleted
\* it, or it expired before a hash that set_running or set_ttl had renewed.
SessionReachable ==
  \A t \in Requests : hash[t] = "full" /\ link # t => t \in unlinked

\* Every key gets a TTL: one without is an inbox or a record whose EXPIRE is
\* still to come, or the partial hash that set_completed writes for a session
\* whose hash was deleted or expired under its job.
NoEternalKey ==
  /\ <<"record", NoToken>> \in lasting => \E t \in Requests : jpc[t] \in {"token", "expire"}
  /\ \A t \in Requests :
       /\ <<"inbox", t>> \in lasting => pushing[t]
       /\ <<"hash", t>> \in lasting => hash[t] = "partial"

=============================================================================
