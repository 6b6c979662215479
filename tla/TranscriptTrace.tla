-------------------------- MODULE TranscriptTrace --------------------------
(* The transcripts of an agent session and the two hooks that follow them: *)
(* IncrementalTranscriptHook, which appends to the main agent's transcript *)
(* from inside the sandbox worker, and hooks/langfuse_hook.py, a process   *)
(* started for every Stop and SubagentStop, which reads what is new in a   *)
(* transcript and sends it to Langfuse turn by turn.                       *)
(*                                                                         *)
(* A transcript is a sequence of lines, the last of which may be half      *)
(* written; positions in it count half lines, so that an odd offset is one *)
(* with a partial line in SessionState.buffer.  A handler of the first     *)
(* hook never gives up the event loop and is one step.                     *)
EXTENDS Naturals, Sequences, FiniteSets, Subsequences

CONSTANTS MaxStops, \* starts of the Langfuse hook, a bound
          Nobody,
          MaxLines, \* lines the CLI writes to one transcript, a bound
          MaxSlips  \* failed writes, emissions and saves, lock timeouts and kills, a bound

TraceAssumption == MaxStops \in Nat /\ MaxLines \in Nat /\ MaxSlips \in Nat /\ Nobody \notin Nat

VARIABLES lines,    \* the transcripts: "main" and "sub", the subagent's
          half,     \* the last line of the main transcript is half written
          noted,    \* _seen_hashes
          offsets,  \* langfuse_state.json: offset and turn_count of a transcript
          flock,    \* who holds langfuse_state.lock
          tracer,   \* a Langfuse hook process's place
          target,   \* the transcript it was given
          snapshot, \* the state it loaded, with its own entry brought forward
          left,     \* turns it has still to emit
          decoded,  \* history: lines parsed
          traced,   \* history: turns emitted, by which process, under which number
          degraded, \* history: a lock was not waited for, or a state not saved
          slips

traceVars == <<lines, half, noted, offsets, flock, tracer, target, snapshot, left,
               decoded, traced, degraded, slips>>

TraceFiles == {"main", "sub"}
Stops == 1 .. MaxStops

\* A line is the CLI's own prompt or answer, or an entry of the transcript
\* hook, which like a tool result neither begins a turn nor answers one.
Roles == {"user", "assistant", "other"}
Lines == [by : TraceFiles \cup {"hook"}, role : Roles, id : 1 .. MaxLines]

OffsetEntries == [TraceFiles -> [offset : Nat, turns : Nat]]
NoEntries == [f \in TraceFiles |-> [offset |-> 0, turns |-> 0]]

TraceTypeOK ==
  /\ \A f \in TraceFiles : \A i \in DOMAIN lines[f] : lines[f][i] \in Lines
  /\ half \in BOOLEAN /\ noted \subseteq Lines
  /\ offsets \in OffsetEntries /\ snapshot \in [Stops -> OffsetEntries]
  /\ flock \in Stops \cup {Nobody}
  /\ tracer \in [Stops -> {"new", "lock", "read", "emit", "unlock", "done"}]
  /\ target \in [Stops -> TraceFiles] /\ left \in [Stops -> SUBSET Nat]
  /\ \A r \in decoded : r.line \in DOMAIN lines[r.file]
  /\ \A t \in traced : t.stop \in Stops /\ t.turn \in DOMAIN lines[t.file]
  /\ degraded \in BOOLEAN /\ slips \in 0 .. MaxSlips
  \* Two processes are in the locked part only if one did not wait.
  /\ ~degraded => Cardinality({h \in Stops : tracer[h] \in {"read", "emit"}}) <= 1

TraceInit ==
  /\ lines = [f \in TraceFiles |-> <<>>] /\ half = FALSE
  /\ noted = {}
  /\ offsets = NoEntries /\ snapshot = [h \in Stops |-> NoEntries]
  /\ flock = Nobody /\ tracer = [h \in Stops |-> "new"] /\ target = [h \in Stops |-> "main"]
  /\ left = [h \in Stops |-> {}] /\ decoded = {} /\ traced = {} /\ degraded = FALSE
  /\ slips = 0

Slip == slips < MaxSlips /\ slips' = slips + 1

fileVars == <<lines, half, noted>>
procVars == <<offsets, flock, tracer, target, snapshot, left, decoded, traced, degraded>>

-----------------------------------------------------------------------------
(* The CLI, external.                                                      *)

Written(f) == Cardinality({i \in DOMAIN lines[f] : lines[f][i].by = f})

\* A line is written; a transcript begins with a prompt.  A reader may meet a
\* line of the main agent half written; the subagent's transcript is read when
\* it has stopped.
CliWrites(f) ==
  /\ ~half /\ Written(f) < MaxLines
  /\ \E r \in {"user", "assistant"} :
       /\ Written(f) = 0 => r = "user"
       /\ lines' = [lines EXCEPT ![f] = Append(@, [by |-> f, role |-> r, id |-> Written(f) + 1])]
  /\ half' = (f = "main")
  /\ UNCHANGED <<noted, slips>> /\ UNCHANGED procVars

CliEnds ==
  /\ half /\ half' = FALSE
  /\ UNCHANGED <<lines, noted, slips>> /\ UNCHANGED procVars

-----------------------------------------------------------------------------
(* IncrementalTranscriptHook.  The CLI calls a hook between two lines of   *)
(* its own.                                                                *)

\* _resolve_path gives the main transcript, whose path is in the payload or
\* predicted from it.  An entry is noted before the write, which may fail, or
\* find no path because the directory could not be made.
AppendLines(entries) ==
  LET new == {i \in DOMAIN entries : entries[i] \notin noted} IN
  /\ noted' = noted \cup {entries[i] : i \in new}
  /\ \E ok \in SUBSET new :
       /\ IF ok = new THEN UNCHANGED slips ELSE Slip
       /\ lines' = [lines EXCEPT !["main"] = @ \o Picked(entries, ok)]

\* on_post_tool_use, on_user_prompt_submit.
WriteEntry ==
  /\ ~half /\ lines["main"] # <<>>
  /\ AppendLines(<<[by |-> "hook", role |-> "other", id |-> 1]>>)
  /\ UNCHANGED half /\ UNCHANGED procVars

\* on_subagent_stop: _sync_transcript copies the subagent's lines.
SyncSubagent ==
  /\ ~half /\ lines["sub"] # <<>>
  /\ AppendLines(lines["sub"])
  /\ UNCHANGED half /\ UNCHANGED procVars

-----------------------------------------------------------------------------
(* hooks/langfuse_hook.py.                                                 *)

At(h, p, q) == tracer[h] = p /\ tracer' = [tracer EXCEPT ![h] = q]

\* langfuse_stop_hook_async starts the process; the payload names the
\* transcript (agent_transcript_path for SubagentStop), which exists.
StartHook(h) ==
  /\ At(h, "new", "lock") /\ \A g \in 1 .. h - 1 : tracer[g] # "new"
  /\ \E f \in TraceFiles : lines[f] # <<>> /\ target' = [target EXCEPT ![h] = f]
  /\ UNCHANGED fileVars
  /\ UNCHANGED <<offsets, flock, snapshot, left, decoded, traced, degraded, slips>>

\* Mutant: the lock file is opened and not locked.
EnterUnlocked(h) ==
  /\ At(h, "lock", "read")
  /\ UNCHANGED fileVars
  /\ UNCHANGED <<flock, offsets, target, snapshot, left, decoded, traced, degraded, slips>>

\* FileLock.__enter__: the lock is taken, or after the timeout, or when
\* locking fails, the process goes on without it.
EnterLock(h) ==
  /\ At(h, "lock", "read")
  /\ \/ flock = Nobody /\ flock' = h /\ UNCHANGED <<degraded, slips>>
     \/ Slip /\ degraded' = TRUE /\ UNCHANGED flock
  /\ UNCHANGED fileVars
  /\ UNCHANGED <<offsets, target, snapshot, left, decoded, traced>>

Size(f) == 2 * Len(lines[f]) - (IF half /\ f = "main" THEN 1 ELSE 0)

\* A prompt with an assistant line after it, before the next prompt.  Lines
\* before the first prompt of the chunk belong to no turn.
BuildTurns(f, chunk) ==
  {i \in chunk :
     /\ lines[f][i].role = "user"
     /\ \E k \in chunk :
          /\ k > i /\ lines[f][k].role = "assistant"
          /\ \A m \in chunk : i < m /\ m < k => lines[f][m].role # "user"}

\* Mutant: the partial line of the last read is not kept.
NewLinesNoBuffer(f) ==
  {i \in DOMAIN lines[f] : offsets[f].offset < 2 * i - 1 /\ 2 * i <= Size(f)}

\* The lines that end after the offset; the first may have begun in buffer.
NewLines(f) == {i \in DOMAIN lines[f] : offsets[f].offset < 2 * i /\ 2 * i <= Size(f)}

\* load_state, read_new_jsonl and build_turns.  Another process's save between
\* the first two is as one after them: it does not touch the transcript.
\* Without a new turn the state is saved as it is with one.
ReadNew(h) ==
  LET f == target[h] IN
  /\ At(h, "read", "emit")
  /\ decoded' = decoded \cup [file : {f}, line : NewLines(f)]
  /\ left' = [left EXCEPT ![h] = BuildTurns(f, NewLines(f))]
  /\ snapshot' = [snapshot EXCEPT ![h] = [offsets EXCEPT ![f].offset = Size(f)]]
  /\ UNCHANGED fileVars /\ UNCHANGED <<offsets, flock, target, traced, degraded, slips>>

\* emit_turn; one that fails is counted and passed over.
EmitTurn(h) ==
  LET f == target[h]
      n == snapshot[h][f].turns + 1
  IN
  /\ tracer[h] = "emit"
  /\ \E i \in left[h] :
       /\ \A j \in left[h] : i <= j
       /\ left' = [left EXCEPT ![h] = @ \ {i}]
       /\ \/ traced' = traced \cup {[stop |-> h, file |-> f, turn |-> i, number |-> n]}
             /\ UNCHANGED slips
          \/ Slip /\ UNCHANGED traced
  /\ snapshot' = [snapshot EXCEPT ![h][f].turns = n]
  /\ UNCHANGED fileVars
  /\ UNCHANGED <<offsets, flock, tracer, target, decoded, degraded>>

Emitted(h) == \E t \in traced : t.stop = h

\* write_session_state and save_state, which replaces the whole file; when it
\* fails the exception is logged.
SaveState(h) ==
  /\ At(h, "emit", "unlock") /\ left[h] = {}
  /\ \/ offsets' = snapshot[h] /\ UNCHANGED <<degraded, slips>>
     \/ Slip /\ UNCHANGED offsets /\ degraded' = (degraded \/ Emitted(h))
  /\ UNCHANGED fileVars
  /\ UNCHANGED <<flock, target, snapshot, left, decoded, traced>>

\* The process's memory goes with it.
Ends(h) ==
  /\ tracer' = [tracer EXCEPT ![h] = "done"]
  /\ flock' = IF flock = h THEN Nobody ELSE flock
  /\ target' = [target EXCEPT ![h] = "main"] /\ left' = [left EXCEPT ![h] = {}]
  /\ snapshot' = [snapshot EXCEPT ![h] = NoEntries]
  /\ UNCHANGED fileVars /\ UNCHANGED <<offsets, decoded, traced>>

\* FileLock.__exit__, and the end of main.
LeaveLock(h) == tracer[h] = "unlock" /\ Ends(h) /\ UNCHANGED <<degraded, slips>>

\* The worker kills the process after LANGFUSE_HOOK_TIMEOUT; the operating
\* system takes the lock back.
KillHook(h) ==
  /\ tracer[h] \notin {"new", "done"} /\ Slip
  /\ Ends(h)
  /\ degraded' = (degraded \/ (tracer[h] = "emit" /\ Emitted(h)))

TraceNext ==
  \/ \E f \in TraceFiles : CliWrites(f)
  \/ CliEnds
  \/ WriteEntry \/ SyncSubagent
  \/ \E h \in Stops :
       StartHook(h) \/ EnterLock(h) \/ ReadNew(h) \/ EmitTurn(h)
         \/ SaveState(h) \/ LeaveLock(h) \/ KillHook(h)

TraceSpec == TraceInit /\ [][TraceNext]_traceVars

-----------------------------------------------------------------------------

\* A turn is sent once and under a number of its own, unless a process went on
\* without the lock or ended without saving what it had sent; and no line is
\* passed over: what lies before the saved offset was parsed by some process.
TracedOnce ==
  /\ ~degraded => \A t, u \in traced :
       t # u /\ t.file = u.file => t.turn # u.turn /\ t.number # u.number
  /\ \A f \in TraceFiles : \A i \in DOMAIN lines[f] :
       2 * i <= offsets[f].offset => \E r \in decoded : r.file = f /\ r.line = i

=============================================================================
