------------------------- MODULE PersistenceActor -------------------------
(***************************************************************************)
(* The persistence actor of the TUI (crates/tui/src/tui/                   *)
(* persistence_actor.rs): the UI queues saves and clears on an unbounded   *)
(* channel; one task absorbs them, keeps the latest of each kind and       *)
(* session, and writes what is pending in cycles of single file            *)
(* operations that may fail or be cut off by a crash.                      *)
(*                                                                         *)
(* The UI is the part of tui/ui that uses the actor: a turn saves          *)
(* checkpoints while it runs; a completed turn, and /clear, send the       *)
(* session's snapshot and then the clear of its checkpoint; a /clear that  *)
(* cannot build the snapshot sends the clear alone, and so does the exit,  *)
(* which then asks for a report, shuts the actor down and waits for it.    *)
(***************************************************************************)
EXTENDS Naturals, Sequences

CONSTANTS
  Sessions,
  None,          \* no request, no session
  MaxFailures,   \* FlushReport::MAX_ACCUMULATED_FAILURES
  MaxVersion,    \* bound: states of the UI that are persisted
  MaxClears,     \* bound: clears of the offline queue, resets without a snapshot
  MaxFaults,     \* bound: file operations that fail
  MaxCrashes     \* bound: crashes of the process

ASSUME BoundAssumption ==
  /\ MaxVersion \in Nat /\ MaxClears \in Nat /\ MaxFaults \in Nat
  /\ MaxFailures \in Nat \ {0} /\ MaxCrashes \in Nat

VARIABLES
  ui,          \* where the UI is: "idle", or on its way out
  clearing,    \* the session whose checkpoint the UI clears next
  version,     \* states of the UI so far
  asked,       \* history: the last request for each file
  discarded,   \* history: the version when the UI last gave up a session's states
  channel,
  actor,       \* "drain", "write", "recv", "done" or "dead"
  after,       \* what the actor does after the write cycle
  checkpoints, checkpoint_clears, sessions, offline_queue,   \* PendingState
  unreported,  \* the failures no report has told yet
  report,      \* what the UI was told
  disk,        \* the files, 0 when absent
  best,        \* history: the newest state of a session that was on disk
  clears, faults, crashes

pending == <<checkpoints, checkpoint_clears, sessions, offline_queue>>
front   == <<ui, clearing, version, asked, discarded, clears>>
vars == <<front, channel, actor, after, pending, unreported, report, disk, best,
          faults, crashes>>

-----------------------------------------------------------------------------
Checkpoint(s) == <<"checkpoint", s>>
Session(s)    == <<"session", s>>
Offline       == <<"offline", None>>
Files == {Checkpoint(s) : s \in Sessions} \cup {Session(s) : s \in Sessions}
           \cup {Offline}

\* None is a value of its own.
ASSUME NoneAssumption ==
  /\ None \notin Sessions /\ None \notin Nat
  /\ None \notin Files /\ None \notin Seq(Files)

\* A request writes a state of the UI to a file, or removes the file (0).
Request == [file : Files, state : 0..MaxVersion]
Flush    == [file |-> None, state |-> 0]
Shutdown == [file |-> None, state |-> 1]

NoSaves == [s \in Sessions |-> 0]

Init ==
  /\ ui = "idle" /\ clearing = None /\ version = 0
  /\ asked = [f \in Files |-> 0] /\ discarded = NoSaves
  /\ channel = <<>> /\ actor = "drain" /\ after = "recv"
  /\ checkpoints = NoSaves /\ checkpoint_clears = {} /\ sessions = NoSaves
  /\ offline_queue = None
  /\ unreported = <<>> /\ report = None
  /\ disk = [f \in Files |-> 0] /\ best = NoSaves
  /\ clears = 0 /\ faults = 0 /\ crashes = 0

-----------------------------------------------------------------------------
(* The UI.                                                                 *)

try_send(r) ==
  /\ channel' = Append(channel, r)
  /\ asked' = IF r.file = None THEN asked ELSE [asked EXCEPT ![r.file] = r.state]

Alive == actor # "dead"
NextVersion == version < MaxVersion /\ version' = version + 1
Rest == <<actor, after, pending, unreported, report, disk, best, faults, crashes>>

SaveCheckpoint(s) ==
  /\ Alive /\ ui = "idle" /\ clearing = None /\ NextVersion
  /\ try_send([file |-> Checkpoint(s), state |-> version'])
  /\ UNCHANGED <<ui, clearing, discarded, clears, Rest>>

\* A completed turn, and /clear: the snapshot, then the clear.  A rename and
\* usage that arrives late send the snapshot only.
SaveSnapshot(s) ==
  /\ Alive /\ ui = "idle" /\ clearing = None /\ NextVersion
  /\ try_send([file |-> Session(s), state |-> version'])
  /\ clearing' \in {s, None}
  /\ UNCHANGED <<ui, discarded, clears, Rest>>

\* Session s is to be cleared, and its states so far are given up.
GiveUp(s) ==
  /\ clearing' = s
  /\ discarded' = [t \in Sessions |-> IF t = s THEN version ELSE discarded[t]]

\* /clear or /new when the replacement snapshot cannot be built: the clear is
\* sent all the same.
ResetUnsaved(s) ==
  /\ Alive /\ ui = "idle" /\ clearing = None
  /\ clears < MaxClears /\ clears' = clears + 1
  /\ GiveUp(s)
  /\ UNCHANGED <<ui, version, asked, channel, Rest>>

ClearCheckpoint ==
  /\ Alive /\ clearing # None
  /\ try_send([file |-> Checkpoint(clearing), state |-> 0])
  /\ clearing' = None
  /\ UNCHANGED <<ui, version, discarded, clears, Rest>>

\* persist_offline_queue_state
PersistOfflineQueue ==
  /\ Alive /\ ui = "idle" /\ clearing = None
  /\ \/ /\ NextVersion /\ UNCHANGED clears
        /\ try_send([file |-> Offline, state |-> version'])
     \/ /\ clears < MaxClears /\ clears' = clears + 1 /\ UNCHANGED version
        /\ try_send([file |-> Offline, state |-> 0])
  /\ UNCHANGED <<ui, clearing, discarded, Rest>>

\* The exit: clear the checkpoint of the current session, if there is one, ask
\* for the report and wait for it, shut down, wait for the task.
Exit(s) ==
  /\ Alive /\ ui = "idle" /\ clearing = None
  /\ ui' = "leaving" /\ GiveUp(s)
  /\ UNCHANGED <<version, asked, channel, clears, Rest>>

SendFlush ==
  /\ Alive /\ ui = "leaving" /\ clearing = None
  /\ try_send(Flush) /\ ui' = "asking"
  /\ UNCHANGED <<clearing, version, discarded, clears, Rest>>

SendShutdown ==
  /\ Alive /\ ui = "asking" /\ report # None
  /\ try_send(Shutdown) /\ ui' = "joining"
  /\ UNCHANGED <<clearing, version, discarded, clears, Rest>>

Joined ==
  /\ ui = "joining" /\ actor = "done"
  /\ ui' = "gone"
  /\ UNCHANGED <<clearing, version, asked, discarded, channel, clears, Rest>>

-----------------------------------------------------------------------------
(* The actor.                                                              *)

\* Mutation: the clear of a checkpoint drops the session's pending snapshot.
MutAbsorbClear(r) ==
  LET s == r.file[2] IN
  CASE r.file = Checkpoint(s) /\ r.state # 0 ->
         /\ checkpoints' = [checkpoints EXCEPT ![s] = r.state]
         /\ checkpoint_clears' = checkpoint_clears \ {s}
         /\ UNCHANGED <<sessions, offline_queue>>
    [] r.file = Checkpoint(s) /\ r.state = 0 ->
         /\ checkpoints' = [checkpoints EXCEPT ![s] = 0]
         /\ checkpoint_clears' = checkpoint_clears \cup {s}
         /\ sessions' = [sessions EXCEPT ![s] = 0] /\ UNCHANGED offline_queue
    [] r.file = Session(s) ->
         /\ sessions' = [sessions EXCEPT ![s] = r.state]
         /\ UNCHANGED <<checkpoints, checkpoint_clears, offline_queue>>
    [] r.file = Offline ->
         /\ offline_queue' = r.state
         /\ UNCHANGED <<checkpoints, checkpoint_clears, sessions>>

\* PendingState::absorb: saves and clears of one checkpoint supersede each
\* other; sessions and the offline queue keep the latest.
absorb(r) ==
  LET s == r.file[2] IN
  CASE r.file = Checkpoint(s) /\ r.state # 0 ->
         /\ checkpoints' = [checkpoints EXCEPT ![s] = r.state]
         /\ checkpoint_clears' = checkpoint_clears \ {s}
         /\ UNCHANGED <<sessions, offline_queue>>
    [] r.file = Checkpoint(s) /\ r.state = 0 ->
         /\ checkpoints' = [checkpoints EXCEPT ![s] = 0]
         /\ checkpoint_clears' = checkpoint_clears \cup {s}
         /\ UNCHANGED <<sessions, offline_queue>>
    [] r.file = Session(s) ->
         /\ sessions' = [sessions EXCEPT ![s] = r.state]
         /\ UNCHANGED <<checkpoints, checkpoint_clears, offline_queue>>
    [] r.file = Offline ->
         /\ offline_queue' = r.state
         /\ UNCHANGED <<checkpoints, checkpoint_clears, sessions>>

\* try_recv in the drain loop, recv when the actor has nothing to do; a
\* request that asks for nothing to be flushed sends it back to the loop.
Receive ==
  /\ actor \in {"drain", "recv"} /\ channel # <<>>
  /\ channel' = Tail(channel)
  /\ CASE Head(channel) = Flush ->
            actor' = "write" /\ after' = "reply" /\ UNCHANGED pending
       [] Head(channel) = Shutdown ->
            actor' = "write" /\ after' = "exit" /\ UNCHANGED pending
       [] OTHER ->
            actor' = "drain" /\ absorb(Head(channel)) /\ UNCHANGED after
  /\ UNCHANGED <<front, unreported, report, disk, best, faults, crashes>>

Drained ==
  /\ actor = "drain" /\ channel = <<>>
  /\ actor' = "write" /\ after' = "recv"
  /\ UNCHANGED <<front, channel, pending, unreported, report, disk, best, faults,
                 crashes>>

Newest(s, d) == IF d[Checkpoint(s)] > d[Session(s)] THEN d[Checkpoint(s)]
                ELSE d[Session(s)]

\* Mutation: the bound is taken for the first size that is too large.
MutMerge(failures, f) ==
  LET all == Append(failures, f) IN
  IF Len(all) >= MaxFailures THEN Tail(all) ELSE all

\* FlushReport::merge: past the bound the oldest failures go.
merge(failures, f) ==
  LET all == Append(failures, f) IN
  IF Len(all) > MaxFailures THEN Tail(all) ELSE all

\* One file operation and its result.  Writes are atomic (temporary file and
\* rename); save_session also fails when the clean-up after its write does.
Write(f, v) ==
  \/ /\ disk' = [disk EXCEPT ![f] = v]
     /\ UNCHANGED <<unreported, faults>>
  \/ /\ faults < MaxFaults /\ faults' = faults + 1
     /\ unreported' = merge(unreported, f)
     /\ \/ UNCHANGED disk
        \/ f[1] = "session" /\ disk' = [disk EXCEPT ![f] = v]

\* flush_inner: the clears, the checkpoints, the sessions, the offline queue.
Writing == actor = "write"
Remember == best' = [s \in Sessions |->
              IF Newest(s, disk') > best[s] THEN Newest(s, disk') ELSE best[s]]
Kept == <<front, channel, actor, after, report, crashes>>

WriteClears ==
  /\ Writing
  /\ \E s \in checkpoint_clears :
       /\ checkpoint_clears' = checkpoint_clears \ {s}
       /\ Write(Checkpoint(s), 0)
  /\ Remember
  /\ UNCHANGED <<Kept, checkpoints, sessions, offline_queue>>

WriteCheckpoints ==
  /\ Writing /\ checkpoint_clears = {}
  /\ \E s \in Sessions :
       /\ checkpoints[s] # 0
       /\ checkpoints' = [checkpoints EXCEPT ![s] = 0]
       /\ Write(Checkpoint(s), checkpoints[s])
  /\ Remember
  /\ UNCHANGED <<Kept, checkpoint_clears, sessions, offline_queue>>

WriteSessions ==
  /\ Writing /\ checkpoint_clears = {} /\ checkpoints = NoSaves
  /\ \E s \in Sessions :
       /\ sessions[s] # 0
       /\ sessions' = [sessions EXCEPT ![s] = 0]
       /\ Write(Session(s), sessions[s])
  /\ Remember
  /\ UNCHANGED <<Kept, checkpoints, checkpoint_clears, offline_queue>>

WriteOfflineQueue ==
  /\ Writing /\ checkpoint_clears = {} /\ checkpoints = NoSaves
  /\ sessions = NoSaves /\ offline_queue # None
  /\ Write(Offline, offline_queue) /\ offline_queue' = None
  /\ Remember
  /\ UNCHANGED <<Kept, checkpoints, checkpoint_clears, sessions>>

NothingPending ==
  /\ checkpoint_clears = {} /\ checkpoints = NoSaves
  /\ sessions = NoSaves /\ offline_queue = None

\* Mutation: the cycle that FlushAndReport asked for never sends its report.
MutStuckCycleEnds ==
  /\ Writing /\ NothingPending /\ after # "reply"
  /\ actor' = IF after = "recv" THEN "recv" ELSE "done"
  /\ UNCHANGED <<front, channel, after, pending, unreported, report, disk, best,
                 faults, crashes>>

CycleEnds ==
  /\ Writing /\ NothingPending
  /\ CASE after = "recv"  -> actor' = "recv" /\ UNCHANGED <<unreported, report>>
       [] after = "exit"  -> actor' = "done" /\ UNCHANGED <<unreported, report>>
       [] after = "reply" -> /\ actor' = "drain"
                             /\ report' = unreported /\ unreported' = <<>>
  /\ UNCHANGED <<front, channel, after, pending, disk, best, faults, crashes>>

\* The process dies; the files stay as they are.
Crash ==
  /\ crashes < MaxCrashes /\ Alive /\ actor # "done"
  /\ crashes' = crashes + 1 /\ actor' = "dead"
  /\ channel' = <<>> /\ unreported' = <<>>
  /\ checkpoints' = NoSaves /\ checkpoint_clears' = {}
  /\ sessions' = NoSaves /\ offline_queue' = None
  /\ UNCHANGED <<front, after, report, disk, best, faults>>

-----------------------------------------------------------------------------
Actor == Receive \/ Drained \/ WriteClears \/ WriteCheckpoints \/ WriteSessions
           \/ WriteOfflineQueue \/ CycleEnds

Leave == ClearCheckpoint \/ SendFlush \/ SendShutdown \/ Joined

Next ==
  \/ Actor \/ Leave \/ Crash \/ PersistOfflineQueue
  \/ \E s \in Sessions : SaveCheckpoint(s) \/ SaveSnapshot(s) \/ ResetUnsaved(s)
  \/ \E s \in Sessions \cup {None} : Exit(s)

Spec == Init /\ [][Next]_vars

\* The runtime polls the actor; the UI goes on once it has decided to leave.
FairSpec == Spec /\ WF_vars(Actor) /\ WF_vars(Leave)

-----------------------------------------------------------------------------
\* Type invariant: every variable has its declared shape.
TypeOK ==
  /\ ui \in {"idle", "leaving", "asking", "joining", "gone"}
  /\ clearing \in Sessions \cup {None} /\ version \in 0..MaxVersion
  /\ asked \in [Files -> 0..MaxVersion] /\ disk \in [Files -> 0..MaxVersion]
  /\ channel \in Seq(Request \cup {Flush, Shutdown})
  /\ actor \in {"drain", "write", "recv", "done", "dead"}
  /\ after \in {"recv", "reply", "exit"}
  /\ checkpoints \in [Sessions -> 0..MaxVersion]
  /\ sessions \in [Sessions -> 0..MaxVersion]
  /\ checkpoint_clears \subseteq Sessions
  /\ offline_queue \in 0..MaxVersion \cup {None}
  /\ unreported \in Seq(Files) /\ Len(unreported) <= MaxFailures
  /\ report \in Seq(Files) \cup {None}
  /\ best \in [Sessions -> 0..MaxVersion] /\ discarded \in [Sessions -> 0..MaxVersion]
  /\ clears \in 0..MaxClears /\ faults \in 0..MaxFaults /\ crashes \in 0..MaxCrashes

ElementsOf(seq) == {seq[i] : i \in DOMAIN seq}

\* The report is complete: when the UI has it, every file is what the UI
\* asked for last, or is named as failed, whatever was coalesced, superseded
\* or written before the report was asked for; only when more operations have
\* failed than the list holds may a name be missing (FlushAndReport,
\* flush_inner, FlushReport::merge).
ReportNamesLosses ==
  (report # None /\ Alive) =>
    \A f \in Files :
      disk[f] = asked[f] \/ f \in ElementsOf(report) \/ faults > MaxFailures

\* A state of a session that was once on disk, in its checkpoint or in its
\* snapshot, stays there or is followed by a newer one, with two exceptions.
\* Inside a write cycle the clears come before the snapshots, and between the
\* two the state is only in the actor's memory (flush_inner).  And a reset
\* whose snapshot could not be built, or the exit, clears the checkpoint with
\* nothing in its place: the states up to that moment are given up, newer
\* ones are not (persist_full_reset_snapshot, the exit of the event loop).
RecoverableOutsideCycle ==
  (Alive /\ faults = 0) =>
    \A s \in Sessions :
      \/ Newest(s, disk) >= best[s] \/ best[s] <= discarded[s]
      \/ Writing /\ sessions[s] > best[s]

\* Leaving ends: the report comes and the actor's task ends.
ExitReturns == ui = "leaving" ~> (ui = "gone" \/ ~Alive)
=============================================================================
