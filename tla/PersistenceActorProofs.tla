----------------------- MODULE PersistenceActorProofs -----------------------
(***************************************************************************)
(* Proofs about the persistence actor, for any number of sessions, saves,  *)
(* failing file operations and any bound on the failures of a report.      *)
(*                                                                         *)
(* ReportNamesLosses is about the last moment only.  AskedShape says where *)
(* the last request for a file is at any time: in the channel, else in the *)
(* pending state, else on disk or among the failures; ReportShape that the *)
(* report is the last thing the UI asks for before the shutdown.           *)
(*                                                                         *)
(* RecoverableOutsideCycle needs the order of versions (VersionShape:      *)
(* what waits in the channel is newer than what the actor has) and, for    *)
(* the clears, one of two things (ClearShape): the snapshot sent before    *)
(* the clear is newer than all that was ever on disk, and is there or      *)
(* pending when the clear is taken; or the clear was sent alone, and then  *)
(* all the actor has of the session when it takes the clear was given up.  *)
(***************************************************************************)
EXTENDS PersistenceActor, SequenceTheorems, TLAPS

\* The value the actor is about to write to a file, or None.
Buffered(f) ==
  IF f = Offline THEN offline_queue
  ELSE LET s == f[2] IN
       IF f = Session(s) THEN (IF sessions[s] # 0 THEN sessions[s] ELSE None)
       ELSE IF checkpoints[s] # 0 THEN checkpoints[s]
       ELSE IF s \in checkpoint_clears THEN 0 ELSE None

Waiting(f) == \E i \in 1..Len(channel) : channel[i].file = f

\* The UI is told, or will be, that f was not written, unless the list ran over.
Named(f) ==
  \/ f \in ElementsOf(unreported)
  \/ report # None /\ f \in ElementsOf(report)
  \/ faults > MaxFailures

\* The channel ends with the last request for f.
LastFor(f, i) ==
  channel[i].file = f /\ \A j \in 1..Len(channel) : j > i => channel[j].file # f

AskedShape ==
  Alive =>
    \A f \in Files :
      /\ \A i \in 1..Len(channel) : LastFor(f, i) => channel[i].state = asked[f]
      /\ ~Waiting(f) /\ Buffered(f) # None => Buffered(f) = asked[f]
      /\ ~Waiting(f) /\ Buffered(f) = None => disk[f] = asked[f] \/ Named(f)

Replying == Writing /\ after = "reply"

ReportShape ==
  /\ ui \in {"asking", "joining", "gone"} => clearing = None
  /\ ui \in {"idle", "leaving"} => report = None /\ ~Replying
                                   /\ \A i \in 1..Len(channel) : channel[i].file # None
  /\ report = None => \A i \in 1..Len(channel) :
                        channel[i].file = None => channel[i] = Flush /\ i = Len(channel)
  /\ Replying => channel = <<>> /\ report = None
  /\ report # None /\ Alive => /\ NothingPending /\ unreported = <<>>
                               /\ \A i \in 1..Len(channel) : channel[i] = Shutdown
  /\ \A s \in checkpoint_clears : checkpoints[s] = 0
  /\ Len(unreported) <= faults

\* n is newer than everything of any session the actor has had.
Newer(n) == \A s \in Sessions : best[s] < n /\ checkpoints[s] < n /\ sessions[s] < n

Save(r) == r.file # None /\ r.state # 0

VersionShape ==
  /\ Newer(version + 1)
  /\ \A i \in 1..Len(channel) : Save(channel[i]) =>
       Newer(channel[i].state) /\ channel[i].state <= version
  /\ \A i, j \in 1..Len(channel) :
       i < j /\ Save(channel[i]) /\ Save(channel[j]) => channel[i].state < channel[j].state
  /\ \A i \in 1..Len(channel) : \A s \in Sessions :
       channel[i].file = Session(s) => channel[i].state # 0
  /\ \A s \in Sessions :
       /\ disk[Checkpoint(s)] <= best[s] /\ disk[Session(s)] <= best[s]
       /\ checkpoints[s] # 0 => checkpoints[s] > best[s]
       /\ sessions[s] # 0 => sessions[s] > disk[Session(s)]
       /\ discarded[s] <= version

Clear(s) == [file |-> Checkpoint(s), state |-> 0]

\* The next request the actor takes, or is sent, is the clear of s.
ClearNext(s) ==
  \/ channel # <<>> /\ Head(channel) = Clear(s)
  \/ channel = <<>> /\ clearing = s

\* All the actor has had of s was given up.
Old(s) == /\ best[s] <= discarded[s] /\ checkpoints[s] <= discarded[s]
          /\ sessions[s] <= discarded[s]

\* The snapshot of s is newer than all that was on disk, and pending or there;
\* or nothing of s is wanted.
Fresh(s) ==
  \/ sessions[s] > best[s] /\ sessions[s] > checkpoints[s]
  \/ disk[Session(s)] >= best[s] /\ sessions[s] = 0 /\ checkpoints[s] = 0
  \/ Old(s)

\* The checkpoint of s may go.
Covered(s) == \/ sessions[s] > best[s] \/ disk[Session(s)] >= best[s]
              \/ best[s] <= discarded[s]

\* Nothing of s before the i-th request is wanted.
OldBefore(s, i) ==
  Old(s) /\ \A j \in 1..i - 1 : Save(channel[j]) => channel[j].state <= discarded[s]

ClearShape ==
  Alive =>
    /\ \A i \in 1..Len(channel) : \A s \in Sessions :
         i > 1 /\ channel[i] = Clear(s) =>
           channel[i - 1].file = Session(s) \/ OldBefore(s, i)
    /\ channel # <<>> /\ clearing # None =>
         channel[Len(channel)].file = Session(clearing) \/ discarded[clearing] = version
    /\ faults = 0 => \A s \in Sessions :
         /\ ClearNext(s) => Fresh(s)
         /\ s \in checkpoint_clears => Covered(s)

IInv == TypeOK /\ ReportShape /\ AskedShape /\ VersionShape /\ ClearShape
          /\ RecoverableOutsideCycle

-----------------------------------------------------------------------------
(* Files, the pending state, the channel and the failures.                 *)

\* A session has two files, and they are not those of another or of the queue.
LEMMA FileFacts ==
  /\ \A s \in Sessions :
       /\ Checkpoint(s) \in Files /\ Session(s) \in Files
       /\ Checkpoint(s)[2] = s /\ Session(s)[2] = s
       /\ Checkpoint(s) # Offline /\ Session(s) # Offline
  /\ \A s, t \in Sessions :
       /\ Checkpoint(s) # Session(t)
       /\ Checkpoint(s) = Checkpoint(t) => s = t
       /\ Session(s) = Session(t) => s = t
  /\ Offline \in Files /\ None \notin Files
  /\ \A f \in Files : f = Offline \/ \E s \in Sessions : f = Checkpoint(s) \/ f = Session(s)
BY NoneAssumption DEF Files, Checkpoint, Session, Offline

\* What is pending for each kind of file, now and after a step.
LEMMA BufferedFacts ==
  ASSUME NEW s \in Sessions
  PROVE  /\ Buffered(Session(s)) = IF sessions[s] # 0 THEN sessions[s] ELSE None
         /\ Buffered(Checkpoint(s)) = IF checkpoints[s] # 0 THEN checkpoints[s]
                                      ELSE IF s \in checkpoint_clears THEN 0 ELSE None
         /\ Buffered(Session(s))' = IF sessions'[s] # 0 THEN sessions'[s] ELSE None
         /\ Buffered(Checkpoint(s))' = IF checkpoints'[s] # 0 THEN checkpoints'[s]
                                       ELSE IF s \in checkpoint_clears' THEN 0 ELSE None
<1>1. /\ Checkpoint(s)[2] = s /\ Session(s)[2] = s
      /\ Checkpoint(s) # Offline /\ Session(s) # Offline /\ Checkpoint(s) # Session(s)
  BY FileFacts
<1> QED BY <1>1 DEF Buffered

\* What is to be written of the offline queue is the pending queue.
LEMMA BufferedOffline ==
  Buffered(Offline) = offline_queue /\ Buffered(Offline)' = offline_queue'
BY DEF Buffered

\* FlushReport::merge keeps what is new, and what is old unless it is full.
LEMMA MergeFacts ==
  ASSUME NEW failures \in Seq(Files), Len(failures) <= MaxFailures, NEW f \in Files
  PROVE  /\ merge(failures, f) \in Seq(Files) /\ Len(merge(failures, f)) <= MaxFailures
         /\ Len(merge(failures, f)) <= Len(failures) + 1
         /\ f \in ElementsOf(merge(failures, f))
         /\ \A g \in ElementsOf(failures) :
              g \in ElementsOf(merge(failures, f)) \/ Len(failures) = MaxFailures
<1> DEFINE all == Append(failures, f)
           n == Len(failures)
<1>1. /\ all \in Seq(Files) /\ Len(all) = n + 1 /\ n \in Nat /\ all[n + 1] = f
      /\ \A i \in 1..n : all[i] = failures[i]
  OBVIOUS
<1>2. MaxFailures \in Nat /\ MaxFailures >= 1 BY BoundAssumption
<1>3. CASE n + 1 > MaxFailures
  <2>1. n = MaxFailures /\ merge(failures, f) = Tail(all) BY <1>1, <1>2, <1>3 DEF merge
  <2>2. /\ Tail(all) \in Seq(Files) /\ Len(Tail(all)) = n /\ Tail(all)[n] = f /\ n >= 1
    BY <1>1, <1>2, <2>1
  <2>3. n \in DOMAIN Tail(all) BY <2>2
  <2> QED BY <1>2, <2>1, <2>2, <2>3 DEF ElementsOf
<1>4. CASE ~(n + 1 > MaxFailures)
  <2>1. merge(failures, f) = all /\ Len(all) <= MaxFailures
    BY <1>1, <1>2, <1>4 DEF merge
  <2>2. DOMAIN all = 1..(n + 1) /\ DOMAIN failures = 1..n BY <1>1
  <2>3. f \in ElementsOf(all) BY <1>1, <2>2 DEF ElementsOf
  <2>4. \A g \in ElementsOf(failures) : g \in ElementsOf(all) BY <1>1, <2>2 DEF ElementsOf
  <2> QED BY <1>1, <2>1, <2>3, <2>4
<1> QED BY <1>3, <1>4

\* The newest state of a session is one of its two files.
LEMMA NewestFacts ==
  ASSUME NEW s \in Sessions, NEW d \in [Files -> 0..MaxVersion]
  PROVE  /\ Newest(s, d) \in 0..MaxVersion
         /\ Newest(s, d) >= d[Checkpoint(s)] /\ Newest(s, d) >= d[Session(s)]
         /\ Newest(s, d) = d[Checkpoint(s)] \/ Newest(s, d) = d[Session(s)]
<1>1. d[Checkpoint(s)] \in 0..MaxVersion /\ d[Session(s)] \in 0..MaxVersion
  BY FileFacts
<1> QED BY <1>1, BoundAssumption DEF Newest

\* Requests by what they ask for.
LEMMA RequestFacts ==
  /\ \A r \in Request : r.file \in Files /\ r.state \in 0..MaxVersion /\ r.file # None
  /\ Flush \notin Request /\ Shutdown \notin Request /\ Flush # Shutdown
  /\ Flush.file = None /\ Shutdown.file = None
  /\ \A s \in Sessions : Clear(s) \in Request /\ Clear(s).file = Checkpoint(s)
                         /\ Clear(s).state = 0
<1>1. None \notin Files BY FileFacts
<1>2. \A r \in Request : r.file \in Files /\ r.state \in 0..MaxVersion BY DEF Request
<1>3. Flush.file = None /\ Shutdown.file = None /\ Flush.state = 0 /\ Shutdown.state = 1
  BY DEF Flush, Shutdown
<1>4. \A s \in Sessions : Clear(s) \in Request /\ Clear(s).file = Checkpoint(s)
                          /\ Clear(s).state = 0
  <2>1. 0 \in 0..MaxVersion BY BoundAssumption
  <2>2. \A s \in Sessions : Checkpoint(s) \in Files BY FileFacts
  <2> QED BY <2>1, <2>2 DEF Clear, Request
<1> QED BY <1>1, <1>2, <1>3, <1>4

\* Everything the actor has had is at most the current version.
LEMMA VersionIsNewest ==
  ASSUME IInv, NEW s \in Sessions
  PROVE  best[s] <= version /\ checkpoints[s] <= version /\ sessions[s] <= version
         /\ (discarded[s] = version => Old(s))
<1>1. /\ best[s] \in Nat /\ checkpoints[s] \in Nat /\ sessions[s] \in Nat /\ version \in Nat
  BY BoundAssumption DEF IInv, TypeOK
<1>2. best[s] < version + 1 /\ checkpoints[s] < version + 1 /\ sessions[s] < version + 1
  BY DEF IInv, VersionShape, Newer
<1> QED BY <1>1, <1>2 DEF Old

\* One request at the end of the channel, or one less at its head.
LEMMA Appended ==
  ASSUME TypeOK, NEW r \in Request \cup {Flush, Shutdown}, channel' = Append(channel, r)
  PROVE  /\ channel' \in Seq(Request \cup {Flush, Shutdown}) /\ channel' # <<>>
         /\ Len(channel') = Len(channel) + 1 /\ Len(channel) \in Nat
         /\ channel'[Len(channel) + 1] = r
         /\ \A i \in 1..Len(channel) : channel'[i] = channel[i]
         /\ Head(channel') = IF channel = <<>> THEN r ELSE Head(channel)
<1>1. channel \in Seq(Request \cup {Flush, Shutdown}) BY DEF TypeOK
<1> QED BY <1>1

\* The actor takes the oldest request.
LEMMA Taken ==
  ASSUME TypeOK, channel # <<>>, channel' = Tail(channel)
  PROVE  /\ channel' \in Seq(Request \cup {Flush, Shutdown})
         /\ Len(channel) \in Nat /\ Len(channel) >= 1 /\ Len(channel') = Len(channel) - 1
         /\ Head(channel) = channel[1] /\ Head(channel) \in Request \cup {Flush, Shutdown}
         /\ \A i \in 1..Len(channel') : channel'[i] = channel[i + 1] /\ i + 1 \in 1..Len(channel)
         /\ \A i \in 2..Len(channel) : channel[i] = channel'[i - 1] /\ i - 1 \in 1..Len(channel')
         /\ channel' # <<>> => Head(channel') = channel[2] /\ 2 \in 1..Len(channel)
<1>1. channel \in Seq(Request \cup {Flush, Shutdown}) BY DEF TypeOK
<1> QED BY <1>1

\* Nothing was asked for, sent or written yet.
LEMMA InitIInv == Init => IInv
<1> SUFFICES ASSUME Init PROVE IInv OBVIOUS
<1>1. 0 \in 0..MaxVersion /\ NoSaves \in [Sessions -> 0..MaxVersion]
      /\ \A s \in Sessions : NoSaves[s] = 0
  BY BoundAssumption DEF NoSaves
<1>2. TypeOK
  <2>1. asked \in [Files -> 0..MaxVersion] /\ disk \in [Files -> 0..MaxVersion]
    BY <1>1 DEF Init
  <2>2. channel \in Seq(Request \cup {Flush, Shutdown}) BY DEF Init
  <2>3. unreported \in Seq(Files) /\ Len(unreported) <= MaxFailures BY BoundAssumption DEF Init
  <2>4. clears \in 0..MaxClears /\ faults \in 0..MaxFaults /\ crashes \in 0..MaxCrashes
    BY BoundAssumption DEF Init
  <2>5. ui \in {"idle", "leaving", "asking", "joining", "gone"}
        /\ actor \in {"drain", "write", "recv", "done", "dead"}
        /\ after \in {"recv", "reply", "exit"}
        /\ clearing = None /\ report = None /\ version \in 0..MaxVersion
        /\ checkpoint_clears = {} /\ offline_queue = None
    BY <1>1 DEF Init
  <2>6. checkpoints \in [Sessions -> 0..MaxVersion] /\ sessions \in [Sessions -> 0..MaxVersion]
        /\ best \in [Sessions -> 0..MaxVersion] /\ discarded \in [Sessions -> 0..MaxVersion]
    BY <1>1 DEF Init
  <2> QED BY <2>1, <2>2, <2>3, <2>4, <2>5, <2>6 DEF TypeOK
<1>3. channel = <<>> /\ Len(channel) = 0 BY DEF Init
<1>4. ReportShape BY <1>3 DEF Init, ReportShape, Replying, Writing
<1>5. AskedShape
  <2>1. \A f \in Files : disk[f] = asked[f] BY DEF Init
  <2>2. ASSUME NEW f \in Files PROVE Buffered(f) = None
    <3>1. CASE f = Offline BY <3>1, BufferedOffline DEF Init
    <3>2. ASSUME NEW s \in Sessions, f = Checkpoint(s) \/ f = Session(s)
          PROVE  Buffered(f) = None
      BY <1>1, <3>2, BufferedFacts DEF Init
    <3> QED BY <3>1, <3>2, FileFacts
  <2> QED BY <1>3, <2>1, <2>2 DEF AskedShape
<1>6. \A s \in Sessions : /\ best[s] = 0 /\ checkpoints[s] = 0 /\ sessions[s] = 0 /\ discarded[s] = 0
                          /\ disk[Checkpoint(s)] = 0 /\ disk[Session(s)] = 0
  BY <1>1, FileFacts DEF Init
<1>7. VersionShape BY <1>3, <1>6 DEF Init, VersionShape, Newer
<1>8. ClearShape BY <1>3, <1>6, NoneAssumption DEF Init, ClearShape, ClearNext
<1>9. RecoverableOutsideCycle
  <2>1. \A s \in Sessions : Newest(s, disk) >= best[s]
    BY <1>2, <1>6, NewestFacts DEF TypeOK
  <2> QED BY <2>1 DEF RecoverableOutsideCycle
<1> QED BY <1>2, <1>4, <1>5, <1>7, <1>8, <1>9 DEF IInv

-----------------------------------------------------------------------------
(* The UI.  A request for a file is now the last one for it.               *)

\* A request that is sent is the last one for its file, and waits in the channel.
LEMMA SendAsked ==
  ASSUME IInv, NEW r \in Request, Alive, try_send(r),
         UNCHANGED <<actor, after, checkpoints, checkpoint_clears, sessions, offline_queue,
                     unreported, report, disk, faults>>
  PROVE  AskedShape' /\ asked' \in [Files -> 0..MaxVersion]
<1>1. channel' = Append(channel, r) /\ asked' = [asked EXCEPT ![r.file] = r.state]
  BY RequestFacts DEF try_send
<1>2. r.file \in Files /\ r.state \in 0..MaxVersion BY RequestFacts
<1>3. TypeOK BY DEF IInv
<1>4. /\ asked' \in [Files -> 0..MaxVersion] /\ asked'[r.file] = r.state
      /\ \A f \in Files \ {r.file} : asked'[f] = asked[f]
  BY <1>1, <1>2, <1>3 DEF TypeOK
<1>5. /\ Len(channel') = Len(channel) + 1 /\ Len(channel) \in Nat
      /\ channel'[Len(channel) + 1] = r
      /\ \A i \in 1..Len(channel) : channel'[i] = channel[i]
  BY <1>1, <1>3, Appended
<1>6. ASSUME NEW f \in Files
      PROVE  /\ \A i \in 1..Len(channel') : LastFor(f, i)' => channel'[i].state = asked'[f]
             /\ ~Waiting(f)' /\ Buffered(f)' # None => Buffered(f)' = asked'[f]
             /\ ~Waiting(f)' /\ Buffered(f)' = None => disk'[f] = asked'[f] \/ Named(f)'
  <2>1. CASE f = r.file
    <3>1. Waiting(f)' BY <1>5, <2>1 DEF Waiting
    <3>2. \A i \in 1..Len(channel') : LastFor(f, i)' => i = Len(channel) + 1
      BY <1>5, <2>1 DEF LastFor
    <3> QED BY <1>4, <1>5, <2>1, <3>1, <3>2
  <2>2. CASE f # r.file
    <3>1. ~Waiting(f)' => ~Waiting(f) BY <1>5 DEF Waiting
    <3>2. \A i \in 1..Len(channel') : LastFor(f, i)' => i \in 1..Len(channel) /\ LastFor(f, i)
      BY <1>5, <2>2 DEF LastFor
    <3>3. Buffered(f)' = Buffered(f) /\ (Named(f)' <=> Named(f))
      BY DEF Buffered, Named
    <3> QED BY <1>4, <1>5, <2>2, <3>1, <3>2, <3>3 DEF IInv, AskedShape
  <2> QED BY <2>1, <2>2
<1> QED BY <1>4, <1>6 DEF AskedShape

\* A save has a new version.
LEMMA SendVersions ==
  ASSUME IInv, NEW r \in Request, channel' = Append(channel, r),
         \/ r.state = 0 /\ version' = version
         \/ version' = version + 1 /\ r.state = version',
         \A s \in Sessions : r.file = Session(s) => r.state # 0,
         UNCHANGED <<checkpoints, sessions, disk, best, discarded>>
  PROVE  VersionShape'
<1>1. TypeOK BY DEF IInv
<1>2. /\ Len(channel') = Len(channel) + 1 /\ Len(channel) \in Nat
      /\ channel'[Len(channel) + 1] = r
      /\ \A i \in 1..Len(channel) : channel'[i] = channel[i]
  BY <1>1, Appended
<1>3. /\ version \in Nat /\ version' \in Nat /\ version <= version'
      /\ \A s \in Sessions : best[s] \in Nat /\ checkpoints[s] \in Nat /\ sessions[s] \in Nat
  BY <1>1, BoundAssumption DEF TypeOK
<1>4. \A n \in Nat : Newer(n) => Newer(n)' BY DEF Newer
<1>5. Newer(version + 1) BY DEF IInv, VersionShape
<1>6. Newer(version + 1)' BY <1>3, <1>5 DEF Newer
<1>7. Save(r) => r.state = version + 1 /\ r.state = version' /\ Newer(r.state)'
  BY <1>3, <1>4, <1>5 DEF Save
<1>8. \A i \in 1..Len(channel) : channel[i].state \in Nat
  <2>1. \A i \in 1..Len(channel) : channel[i] \in Request \cup {Flush, Shutdown}
    BY <1>1 DEF TypeOK
  <2> QED BY <2>1, RequestFacts DEF Flush, Shutdown
<1>9. \A i \in 1..Len(channel') : Save(channel'[i]) =>
        Newer(channel[i].state)' /\ channel'[i].state <= version'
  <2> SUFFICES ASSUME NEW i \in 1..Len(channel'), Save(channel'[i])
               PROVE  Newer(channel[i].state)' /\ channel'[i].state <= version'
    OBVIOUS
  <2>1. CASE i = Len(channel) + 1 BY <1>2, <1>3, <1>7, <2>1
  <2>2. CASE i \in 1..Len(channel)
    <3>1. Newer(channel[i].state) /\ channel[i].state <= version
      BY <1>2, <2>2 DEF IInv, VersionShape
    <3> QED BY <1>2, <1>3, <1>4, <1>8, <2>2, <3>1
  <2> QED BY <1>2, <2>1, <2>2
<1>10. \A i, j \in 1..Len(channel') :
         i < j /\ Save(channel'[i]) /\ Save(channel'[j]) => channel'[i].state < channel'[j].state
  <2> SUFFICES ASSUME NEW i \in 1..Len(channel'), NEW j \in 1..Len(channel'), i < j,
                      Save(channel'[i]), Save(channel'[j])
               PROVE  channel'[i].state < channel'[j].state
    OBVIOUS
  <2>1. i \in 1..Len(channel) /\ channel'[i] = channel[i] BY <1>2
  <2>2. CASE j \in 1..Len(channel)
    BY <1>2, <2>1, <2>2 DEF IInv, VersionShape
  <2>3. CASE j = Len(channel) + 1
    <3>1. channel[i].state <= version BY <2>1 DEF IInv, VersionShape
    <3>2. channel'[j].state = version + 1 BY <1>2, <1>7, <2>3
    <3> QED BY <1>3, <1>8, <2>1, <3>1, <3>2
  <2> QED BY <1>2, <2>2, <2>3
<1>11. \A i \in 1..Len(channel') : \A s \in Sessions :
         channel'[i].file = Session(s) => channel'[i].state # 0
  BY <1>2 DEF IInv, VersionShape
<1>12. \A s \in Sessions :
         /\ disk'[Checkpoint(s)] <= best'[s] /\ disk'[Session(s)] <= best'[s]
         /\ checkpoints'[s] # 0 => checkpoints'[s] > best'[s]
         /\ sessions'[s] # 0 => sessions'[s] > disk'[Session(s)]
         /\ discarded'[s] <= version'
  <2>1. \A s \in Sessions : discarded[s] \in Nat /\ discarded[s] <= version
    BY <1>1, BoundAssumption DEF IInv, TypeOK, VersionShape
  <2> QED BY <1>3, <2>1 DEF IInv, VersionShape
<1> QED BY <1>6, <1>9, <1>10, <1>11, <1>12 DEF VersionShape

\* What every request for a file leaves alone.
LEMMA SendStep ==
  ASSUME IInv, NEW r \in Request, Alive, try_send(r), ui \in {"idle", "leaving"},
         \/ r.state = 0 /\ version' = version
         \/ version < MaxVersion /\ version' = version + 1 /\ r.state = version',
         \A s \in Sessions : r.file = Session(s) => r.state # 0,
         clearing' \in Sessions \cup {None}, clears' \in 0..MaxClears,
         UNCHANGED <<ui, discarded, actor, after, checkpoints, checkpoint_clears, sessions,
                     offline_queue, unreported, report, disk, best, faults, crashes>>,
         ClearShape'
  PROVE  IInv'
<1>1. TypeOK /\ channel' = Append(channel, r) BY DEF IInv, try_send
<1>2. AskedShape' /\ asked' \in [Files -> 0..MaxVersion] BY SendAsked
<1>3. VersionShape' BY <1>1, SendVersions
<1>4. /\ channel' \in Seq(Request \cup {Flush, Shutdown})
      /\ Len(channel') = Len(channel) + 1 /\ Len(channel) \in Nat
      /\ channel'[Len(channel) + 1] = r
      /\ \A i \in 1..Len(channel) : channel'[i] = channel[i]
  BY <1>1, Appended
<1>5. version' \in 0..MaxVersion BY <1>1, BoundAssumption DEF TypeOK
<1>6. TypeOK' BY <1>1, <1>2, <1>4, <1>5 DEF TypeOK
<1>7. ReportShape'
  <2>1. \A i \in 1..Len(channel') : channel'[i].file # None
    <3>1. \A i \in 1..Len(channel) : channel[i].file # None BY DEF IInv, ReportShape
    <3> QED BY <1>4, <3>1, RequestFacts
  <2>2. report = None /\ ~Replying BY DEF IInv, ReportShape
  <2>3. (\A s \in checkpoint_clears : checkpoints[s] = 0) /\ Len(unreported) <= faults
    BY DEF IInv, ReportShape
  <2> QED BY <2>1, <2>2, <2>3 DEF ReportShape, Replying, Writing
<1>8. RecoverableOutsideCycle' BY DEF IInv, RecoverableOutsideCycle, Alive, Writing
<1> QED BY <1>2, <1>3, <1>6, <1>7, <1>8 DEF IInv

\* What is known of the requests in the channel does not depend on later ones.
LEMMA AppendedOld ==
  ASSUME TypeOK, NEW r \in Request \cup {Flush, Shutdown}, channel' = Append(channel, r),
         UNCHANGED <<checkpoints, sessions, best, discarded>>,
         NEW s \in Sessions, NEW i \in 1..Len(channel) + 1,
         Old(s), \A j \in 1..i - 1 : Save(channel[j]) => channel[j].state <= discarded[s]
  PROVE  OldBefore(s, i)'
<1>1. /\ Len(channel) \in Nat /\ \A j \in 1..Len(channel) : channel'[j] = channel[j]
  BY Appended
<1>2. \A j \in 1..i - 1 : channel'[j] = channel[j] BY <1>1
<1> QED BY <1>2 DEF OldBefore, Old

\* A request that is no clear of a checkpoint.
LEMMA SaveKeepsClears ==
  ASSUME IInv, NEW r \in Request \cup {Flush, Shutdown}, channel' = Append(channel, r),
         clearing = None, \A s \in Sessions : r # Clear(s),
         clearing' # None => r.file = Session(clearing'),
         UNCHANGED <<actor, checkpoints, checkpoint_clears, sessions, disk, best, discarded,
                     faults>>
  PROVE  ClearShape'
<1> SUFFICES ASSUME Alive PROVE ClearShape'
  BY DEF ClearShape, Alive
<1>1. TypeOK BY DEF IInv
<1>2. /\ Len(channel') = Len(channel) + 1 /\ Len(channel) \in Nat /\ channel' # <<>>
      /\ channel'[Len(channel) + 1] = r
      /\ \A i \in 1..Len(channel) : channel'[i] = channel[i]
      /\ Head(channel') = IF channel = <<>> THEN r ELSE Head(channel)
  BY <1>1, Appended
<1>3. \A i \in 1..Len(channel') : \A s \in Sessions :
        i > 1 /\ channel'[i] = Clear(s) =>
          channel'[i - 1].file = Session(s) \/ OldBefore(s, i)'
  <2> SUFFICES ASSUME NEW i \in 1..Len(channel'), NEW s \in Sessions, i > 1,
                      channel'[i] = Clear(s)
               PROVE  channel'[i - 1].file = Session(s) \/ OldBefore(s, i)'
    OBVIOUS
  <2>1. i \in 1..Len(channel) /\ i - 1 \in 1..Len(channel) BY <1>2
  <2>2. channel[i - 1].file = Session(s) \/ OldBefore(s, i)
    BY <1>2, <2>1 DEF IInv, ClearShape
  <2>3. OldBefore(s, i) => OldBefore(s, i)'
    BY <1>1, <1>2, <2>1, AppendedOld DEF OldBefore
  <2> QED BY <1>2, <2>1, <2>2, <2>3
<1>4. clearing' # None => channel'[Len(channel')].file = Session(clearing')
  BY <1>2
<1>5. \A s \in Sessions : ClearNext(s)' => ClearNext(s)
  BY <1>2 DEF ClearNext, Clear
<1>6. \A s \in Sessions : (Fresh(s)' <=> Fresh(s)) /\ (Covered(s)' <=> Covered(s))
  BY DEF Fresh, Old, Covered
<1> QED BY <1>3, <1>4, <1>5, <1>6 DEF IInv, ClearShape, Clear

\* Saves of checkpoints, snapshots and the offline queue.
LEMMA SaveSteps ==
  ASSUME IInv, \/ \E s \in Sessions : SaveCheckpoint(s) \/ SaveSnapshot(s)
               \/ PersistOfflineQueue
  PROVE  IInv'
<1>1. version \in Nat /\ (version < MaxVersion => version + 1 \in 0..MaxVersion)
      /\ clears \in 0..MaxClears /\ clearing \in Sessions \cup {None}
  BY BoundAssumption DEF IInv, TypeOK
<1>2. ASSUME NEW r \in Request, try_send(r), Alive, ui = "idle", clearing = None,
             \A s \in Sessions : r # Clear(s),
             \/ r.state = 0 /\ version' = version
             \/ version < MaxVersion /\ version' = version + 1 /\ r.state = version',
             \A s \in Sessions : r.file = Session(s) => r.state # 0,
             clearing' # None => r.file = Session(clearing'),
             clearing' \in Sessions \cup {None}, clears' \in 0..MaxClears,
             UNCHANGED <<ui, discarded, Rest>>
      PROVE  IInv'
  <2>1. UNCHANGED <<ui, discarded, actor, after, checkpoints, checkpoint_clears, sessions,
                    offline_queue, unreported, report, disk, best, faults, crashes>>
    BY <1>2 DEF Rest, pending
  <2>2. ClearShape' BY <1>2, <2>1, SaveKeepsClears DEF try_send
  <2> QED BY <1>2, <2>1, <2>2, SendStep
<1>3. ASSUME NEW f \in Files, version < MaxVersion
      PROVE  /\ [file |-> f, state |-> version + 1] \in Request
             /\ \A s \in Sessions : [file |-> f, state |-> version + 1] # Clear(s)
  BY <1>1, <1>3 DEF Request, Clear
<1>4. ASSUME NEW s \in Sessions, SaveCheckpoint(s) PROVE IInv'
  <2> DEFINE r == [file |-> Checkpoint(s), state |-> version + 1]
  <2>1. /\ Alive /\ ui = "idle" /\ clearing = None /\ version < MaxVersion
        /\ version' = version + 1 /\ try_send(r)
        /\ UNCHANGED <<ui, clearing, discarded, clears, Rest>>
    BY <1>4 DEF SaveCheckpoint, NextVersion
  <2>2. r \in Request /\ (\A t \in Sessions : r # Clear(t)) BY <1>3, <2>1, FileFacts
  <2>3. r.state = version' /\ r.file = Checkpoint(s) /\ r.state # 0 BY <1>1, <2>1
  <2> HIDE DEF r
  <2> QED BY <1>1, <1>2, <2>1, <2>2, <2>3
<1>5. ASSUME NEW s \in Sessions, SaveSnapshot(s) PROVE IInv'
  <2> DEFINE r == [file |-> Session(s), state |-> version + 1]
  <2>1. /\ Alive /\ ui = "idle" /\ clearing = None /\ version < MaxVersion
        /\ version' = version + 1 /\ try_send(r) /\ clearing' \in {s, None}
        /\ UNCHANGED <<ui, discarded, clears, Rest>>
    BY <1>5 DEF SaveSnapshot, NextVersion
  <2>2. r \in Request /\ (\A t \in Sessions : r # Clear(t)) BY <1>3, <2>1, FileFacts
  <2>3. r.state = version' /\ r.file = Session(s) /\ r.state # 0 BY <1>1, <2>1
  <2> HIDE DEF r
  <2> QED BY <1>1, <1>2, <2>1, <2>2, <2>3
<1>6. CASE PersistOfflineQueue
  <2>1. Offline \in Files /\ \A s \in Sessions : Offline # Session(s) /\ Offline # Checkpoint(s)
    BY FileFacts
  <2>2. Alive /\ ui = "idle" /\ clearing = None /\ UNCHANGED <<ui, clearing, discarded, Rest>>
    BY <1>6 DEF PersistOfflineQueue
  <2>3. CASE /\ NextVersion /\ UNCHANGED clears
             /\ try_send([file |-> Offline, state |-> version'])
    <3> DEFINE r == [file |-> Offline, state |-> version + 1]
    <3>1. version < MaxVersion /\ version' = version + 1 /\ try_send(r) /\ UNCHANGED clears
      BY <2>3 DEF NextVersion
    <3>2. r \in Request /\ (\A t \in Sessions : r # Clear(t)) BY <1>3, <2>1, <3>1
    <3>3. r.state = version' /\ r.file = Offline /\ r.state # 0 BY <1>1, <3>1
    <3> HIDE DEF r
    <3> QED BY <1>1, <1>2, <2>2, <3>1, <3>2, <3>3
  <2>4. CASE /\ clears < MaxClears /\ clears' = clears + 1 /\ UNCHANGED version
             /\ try_send([file |-> Offline, state |-> 0])
    <3> DEFINE r == [file |-> Offline, state |-> 0]
    <3>1. r \in Request /\ r.state = 0 /\ r.file = Offline
      BY <2>1, BoundAssumption DEF Request
    <3>2. \A t \in Sessions : r # Clear(t) BY <2>1, <3>1, RequestFacts
    <3>3. clears' \in 0..MaxClears BY <1>1, <2>4, BoundAssumption
    <3>4. try_send(r) /\ version' = version BY <2>4
    <3>5. \A t \in Sessions : r.file # Session(t) BY <2>1, <3>1
    <3> HIDE DEF r
    <3> QED BY <1>1, <1>2, <2>2, <3>1, <3>2, <3>3, <3>4, <3>5
  <2> QED BY <1>6, <2>3, <2>4 DEF PersistOfflineQueue
<1> QED BY <1>4, <1>5, <1>6

\* The clear follows the snapshot that was sent before it, or what is before
\* it was given up.
LEMMA ClearStep ==
  ASSUME IInv, ClearCheckpoint
  PROVE  IInv'
<1>1. /\ Alive /\ clearing # None /\ clearing' = None
      /\ try_send([file |-> Checkpoint(clearing), state |-> 0])
      /\ UNCHANGED <<ui, version, discarded, clears, Rest>>
  BY DEF ClearCheckpoint
<1>2. UNCHANGED <<ui, discarded, actor, after, checkpoints, checkpoint_clears, sessions,
                  offline_queue, unreported, report, disk, best, faults, crashes>>
  BY <1>1 DEF Rest, pending
<1>3. TypeOK BY DEF IInv
<1>4. clearing \in Sessions /\ clears \in 0..MaxClears BY <1>1, <1>3 DEF TypeOK
<1> DEFINE r == Clear(clearing)
<1>5. /\ r \in Request /\ r.file = Checkpoint(clearing) /\ r.state = 0 /\ r.file # None
      /\ try_send(r)
  BY <1>1, <1>4, RequestFacts DEF Clear
<1>6. ui \in {"idle", "leaving"} BY <1>1, <1>3 DEF IInv, ReportShape, TypeOK
<1>7. \A s \in Sessions : r = Clear(s) => s = clearing
  BY <1>4, <1>5, RequestFacts, FileFacts
<1>8. \A s \in Sessions : r.file # Session(s) BY <1>4, <1>5, FileFacts
<1> HIDE DEF r
<1>9. ClearShape'
  <2>1. /\ Len(channel') = Len(channel) + 1 /\ Len(channel) \in Nat /\ channel' # <<>>
        /\ channel'[Len(channel) + 1] = r /\ channel' = Append(channel, r)
        /\ \A i \in 1..Len(channel) : channel'[i] = channel[i]
        /\ Head(channel') = IF channel = <<>> THEN r ELSE Head(channel)
    BY <1>3, <1>5, Appended DEF try_send
  <2>2. channel # <<>> =>
          channel[Len(channel)].file = Session(clearing) \/ discarded[clearing] = version
    BY <1>1 DEF IInv, ClearShape
  <2>3. \A i \in 1..Len(channel') : \A s \in Sessions :
          i > 1 /\ channel'[i] = Clear(s) =>
            channel'[i - 1].file = Session(s) \/ OldBefore(s, i)'
    <3> SUFFICES ASSUME NEW i \in 1..Len(channel'), NEW s \in Sessions, i > 1,
                        channel'[i] = Clear(s)
                 PROVE  channel'[i - 1].file = Session(s) \/ OldBefore(s, i)'
      OBVIOUS
    <3>1. i - 1 \in 1..Len(channel) /\ channel'[i - 1] = channel[i - 1]
          /\ i \in 1..Len(channel) + 1
      BY <2>1
    <3>2. CASE i \in 1..Len(channel)
      <4>1. channel[i - 1].file = Session(s) \/ OldBefore(s, i)
        BY <1>1, <2>1, <3>2 DEF IInv, ClearShape
      <4>2. OldBefore(s, i) => OldBefore(s, i)'
        BY <1>2, <1>3, <1>5, <2>1, <3>1, AppendedOld DEF OldBefore
      <4> QED BY <3>1, <4>1, <4>2
    <3>3. CASE i = Len(channel) + 1
      <4>1. s = clearing BY <1>7, <2>1, <3>3
      <4>2. channel # <<>> /\ i - 1 = Len(channel) BY <2>1, <3>1, <3>3
      <4>3. CASE channel[Len(channel)].file = Session(clearing) BY <3>1, <4>1, <4>2, <4>3
      <4>4. CASE discarded[clearing] = version
        <5>1. Old(s) BY <1>3, <4>1, <4>4, VersionIsNewest
        <5>2. \A j \in 1..i - 1 : Save(channel[j]) => channel[j].state <= discarded[s]
          BY <4>1, <4>2, <4>4 DEF IInv, VersionShape
        <5> QED BY <1>2, <1>3, <1>5, <2>1, <3>1, <5>1, <5>2, AppendedOld
      <4> QED BY <2>2, <4>2, <4>3, <4>4
    <3> QED BY <2>1, <3>2, <3>3
  <2>4. \A s \in Sessions : ClearNext(s)' => ClearNext(s)
    BY <1>7, <2>1 DEF ClearNext, Clear
  <2>5. \A s \in Sessions : (Fresh(s)' <=> Fresh(s)) /\ (Covered(s)' <=> Covered(s))
    BY <1>2 DEF Fresh, Old, Covered
  <2> QED BY <1>1, <1>2, <2>3, <2>4, <2>5 DEF IInv, ClearShape, Clear, Alive
<1>10. version' = version /\ clearing' \in Sessions \cup {None} /\ clears' \in 0..MaxClears
  BY <1>1, <1>4
<1> QED BY <1>1, <1>2, <1>5, <1>6, <1>8, <1>9, <1>10, SendStep

\* The UI gives up a session: all there is of it is old.
LEMMA GiveUpStep ==
  ASSUME IInv, Alive, clearing = None, NEW s \in Sessions \cup {None}, GiveUp(s),
         ui \in {"idle", "leaving"}, ui' \in {"idle", "leaving"}, clears' \in 0..MaxClears,
         UNCHANGED <<version, asked, channel, Rest>>
  PROVE  IInv'
<1>1. TypeOK BY DEF IInv
<1>2. UNCHANGED <<actor, after, checkpoints, checkpoint_clears, sessions, offline_queue,
                  unreported, report, disk, best, faults, crashes>>
  BY DEF Rest, pending
<1>3. clearing' = s /\ clearing' \in Sessions \cup {None} BY DEF GiveUp
<1>4. /\ discarded \in [Sessions -> 0..MaxVersion] /\ version \in 0..MaxVersion
      /\ MaxVersion \in Nat /\ \A t \in Sessions : best[t] \in Nat
      /\ \A t \in Sessions : discarded[t] <= version
  BY <1>1, BoundAssumption DEF IInv, TypeOK, VersionShape
<1>5. /\ discarded' \in [Sessions -> 0..MaxVersion]
      /\ \A t \in Sessions : discarded'[t] = IF t = s THEN version ELSE discarded[t]
  BY <1>4 DEF GiveUp
<1>6. \A t \in Sessions : discarded'[t] \in Nat /\ discarded[t] \in Nat
                          /\ discarded[t] <= discarded'[t] /\ discarded'[t] <= version'
  BY <1>4, <1>5
<1>7. TypeOK' BY <1>1, <1>2, <1>3, <1>5 DEF TypeOK
<1>8. ReportShape'
  BY <1>2 DEF IInv, ReportShape, Replying, Writing, NothingPending, Alive
<1>9. AskedShape'
  BY <1>2 DEF IInv, AskedShape, Alive, LastFor, Waiting, Buffered, Named
<1>10. VersionShape' BY <1>2, <1>6 DEF IInv, VersionShape, Newer
<1>11. RecoverableOutsideCycle'
  <2>1. \A t \in Sessions : best[t] <= discarded[t] => best[t] <= discarded'[t] BY <1>4, <1>6
  <2> QED BY <1>2, <2>1 DEF IInv, RecoverableOutsideCycle, Alive, Writing
<1>12. ASSUME NEW t \in Sessions
       PROVE  /\ Old(t) => Old(t)'
              /\ Fresh(t) => Fresh(t)'
              /\ Covered(t) => Covered(t)'
  <2>1. best[t] \in Nat /\ checkpoints[t] \in Nat /\ sessions[t] \in Nat
    BY <1>1, <1>4 DEF TypeOK
  <2>2. Old(t) => Old(t)' BY <1>2, <1>6, <2>1 DEF Old
  <2>3. Covered(t) => Covered(t)' BY <1>2, <1>6, <2>1 DEF Covered
  <2> QED BY <1>2, <2>2, <2>3 DEF Fresh
<1>13. ASSUME s \in Sessions PROVE Old(s)'
  BY <1>1, <1>2, <1>5, <1>13, VersionIsNewest DEF Old
<1>14. ClearShape'
  <2>1. ASSUME NEW i \in 1..Len(channel'), NEW t \in Sessions, i > 1, channel'[i] = Clear(t)
        PROVE  channel'[i - 1].file = Session(t) \/ OldBefore(t, i)'
    <3>1. channel[i - 1].file = Session(t) \/ OldBefore(t, i)
      BY <2>1 DEF IInv, ClearShape
    <3>2. \A j \in 1..i - 1 : channel[j].state \in Nat
      <4>1. \A j \in 1..Len(channel) : channel[j] \in Request \cup {Flush, Shutdown}
        BY <1>1 DEF TypeOK
      <4>2. \A j \in 1..Len(channel) : channel[j].state \in Nat
        BY <4>1, RequestFacts, <1>4 DEF Flush, Shutdown
      <4>3. Len(channel) \in Nat BY <1>1 DEF TypeOK
      <4> QED BY <2>1, <4>2, <4>3
    <3>3. OldBefore(t, i) => OldBefore(t, i)' BY <1>6, <1>12, <3>2 DEF OldBefore
    <3> QED BY <3>1, <3>3
  <2>2. clearing' # None => clearing' \in Sessions /\ discarded'[clearing'] = version'
    BY <1>3, <1>5
  <2>3. \A t \in Sessions : ClearNext(t)' => ClearNext(t) \/ Fresh(t)'
    BY <1>3, <1>13 DEF ClearNext, Fresh
  <2> QED BY <1>2, <1>12, <2>1, <2>2, <2>3 DEF IInv, ClearShape, Clear, Alive
<1> QED BY <1>7, <1>8, <1>9, <1>10, <1>11, <1>14 DEF IInv

\* A reset whose snapshot cannot be built.
LEMMA ResetStep ==
  ASSUME IInv, NEW s \in Sessions, ResetUnsaved(s)
  PROVE  IInv'
<1>1. clears' \in 0..MaxClears BY BoundAssumption DEF IInv, TypeOK, ResetUnsaved
<1> QED BY <1>1, GiveUpStep DEF ResetUnsaved

-----------------------------------------------------------------------------
(* The exit.                                                               *)

\* A control message is a request for no file.
LEMMA ControlKeeps ==
  ASSUME IInv, NEW r \in {Flush, Shutdown}, channel' = Append(channel, r),
         clearing = None, clearing' = None, UNCHANGED <<version, asked, discarded, Rest>>
  PROVE  AskedShape' /\ VersionShape' /\ ClearShape' /\ RecoverableOutsideCycle'
<1>1. TypeOK BY DEF IInv
<1>2. UNCHANGED <<actor, after, checkpoints, checkpoint_clears, sessions, offline_queue,
                  unreported, report, disk, best, faults, crashes>>
  BY DEF Rest, pending
<1>3. /\ Len(channel') = Len(channel) + 1 /\ Len(channel) \in Nat
      /\ channel'[Len(channel) + 1] = r
      /\ \A i \in 1..Len(channel) : channel'[i] = channel[i]
  BY <1>1, Appended
<1>4. r.file = None /\ ~Save(r) BY RequestFacts DEF Save
<1>5. AskedShape'
  <2> SUFFICES ASSUME Alive, NEW f \in Files
               PROVE  /\ \A i \in 1..Len(channel') : LastFor(f, i)' => channel'[i].state = asked'[f]
                      /\ ~Waiting(f)' /\ Buffered(f)' # None => Buffered(f)' = asked'[f]
                      /\ ~Waiting(f)' /\ Buffered(f)' = None => disk'[f] = asked'[f] \/ Named(f)'
    BY <1>2 DEF AskedShape, Alive
  <2>1. f # None BY FileFacts
  <2>2. ~Waiting(f)' => ~Waiting(f) BY <1>3 DEF Waiting
  <2>3. \A i \in 1..Len(channel') : LastFor(f, i)' => i \in 1..Len(channel) /\ LastFor(f, i)
    BY <1>3, <1>4, <2>1 DEF LastFor
  <2>4. Buffered(f)' = Buffered(f) /\ (Named(f)' <=> Named(f)) BY <1>2 DEF Buffered, Named
  <2> QED BY <1>2, <1>3, <2>2, <2>3, <2>4 DEF IInv, AskedShape
<1>6. VersionShape'
  <2>1. \A n : Newer(n)' <=> Newer(n) BY <1>2 DEF Newer
  <2>2. \A i \in 1..Len(channel') : Save(channel'[i]) => i \in 1..Len(channel)
    BY <1>3, <1>4
  <2>3. \A i \in 1..Len(channel') : \A s \in Sessions :
          channel'[i].file = Session(s) => i \in 1..Len(channel)
    <3>1. \A s \in Sessions : Session(s) # None BY FileFacts
    <3> QED BY <1>3, <1>4, <3>1
  <2>4. Newer(version + 1)' BY <1>2 DEF IInv, VersionShape, Newer
  <2>5. \A i \in 1..Len(channel') : Save(channel'[i]) =>
          Newer(channel[i].state)' /\ channel'[i].state <= version'
    <3> SUFFICES ASSUME NEW i \in 1..Len(channel'), Save(channel'[i])
                 PROVE  Newer(channel[i].state)' /\ channel'[i].state <= version'
      OBVIOUS
    <3>1. i \in 1..Len(channel) /\ channel'[i] = channel[i] BY <1>3, <2>2
    <3>2. Newer(channel[i].state) /\ channel[i].state <= version
      BY <3>1 DEF IInv, VersionShape
    <3> QED BY <1>2, <3>1, <3>2 DEF Newer
  <2>6. \A i, j \in 1..Len(channel') :
          i < j /\ Save(channel'[i]) /\ Save(channel'[j]) => channel'[i].state < channel'[j].state
    BY <1>3, <2>2 DEF IInv, VersionShape
  <2>7. \A i \in 1..Len(channel') : \A s \in Sessions :
          channel'[i].file = Session(s) => channel'[i].state # 0
    BY <1>3, <2>3 DEF IInv, VersionShape
  <2> QED BY <1>2, <2>4, <2>5, <2>6, <2>7 DEF IInv, VersionShape
<1>7. RecoverableOutsideCycle' BY <1>2 DEF IInv, RecoverableOutsideCycle, Alive, Writing
<1>8. ClearShape'
  <2>1. \A s \in Sessions : r # Clear(s) BY <1>4, RequestFacts
  <2> QED BY <1>2, <2>1, SaveKeepsClears
<1> QED BY <1>5, <1>6, <1>7, <1>8

\* The exit gives up the checkpoint; then come the control messages.
LEMMA ExitSteps ==
  ASSUME IInv, \/ SendFlush \/ SendShutdown \/ Joined
               \/ \E s \in Sessions \cup {None} : Exit(s)
  PROVE  IInv'
<1>1. TypeOK BY DEF IInv
<1>2. UNCHANGED <<version, clears, Rest>>
  BY DEF SendFlush, SendShutdown, Joined, Exit
<1>3. UNCHANGED <<actor, after, checkpoints, checkpoint_clears, sessions, offline_queue,
                  unreported, report, disk, best, faults, crashes>>
  BY <1>2 DEF Rest, pending
<1>6. CASE \E s \in Sessions \cup {None} : Exit(s)
  <2>1. PICK s \in Sessions \cup {None} : Exit(s) BY <1>6
  <2>2. clears' \in 0..MaxClears BY <1>1, <1>2 DEF TypeOK
  <2> QED BY <2>1, <2>2, GiveUpStep DEF Exit
<1>7. CASE Joined
  <2>1. /\ ui = "joining" /\ ui' = "gone"
        /\ UNCHANGED <<channel, asked, clearing, discarded, version>>
    BY <1>7 DEF Joined
  <2>2. TypeOK' BY <1>1, <1>2, <1>3, <2>1 DEF TypeOK
  <2>3. ReportShape'
    BY <1>3, <2>1 DEF IInv, ReportShape, Replying, Writing, NothingPending, Alive
  <2>4. AskedShape'
    BY <1>3, <2>1 DEF IInv, AskedShape, Alive, LastFor, Waiting, Buffered, Named
  <2>5. VersionShape' BY <1>3, <2>1 DEF IInv, VersionShape, Newer
  <2>6. RecoverableOutsideCycle'
    BY <1>3, <2>1 DEF IInv, RecoverableOutsideCycle, Alive, Writing
  <2>7. ClearShape'
    BY <1>3, <2>1 DEF IInv, ClearShape, ClearNext, Fresh, Old, OldBefore, Covered, Alive
  <2> QED BY <2>2, <2>3, <2>4, <2>5, <2>6, <2>7 DEF IInv
<1>8. ASSUME NEW r \in {Flush, Shutdown}, try_send(r), clearing = None, clearing' = None,
             UNCHANGED discarded, ui' \in {"asking", "joining"}
      PROVE  /\ channel' = Append(channel, r) /\ UNCHANGED asked
             /\ TypeOK' /\ AskedShape' /\ VersionShape' /\ ClearShape'
             /\ RecoverableOutsideCycle'
  <2>1. channel' = Append(channel, r) /\ UNCHANGED asked
    BY <1>8, RequestFacts DEF try_send
  <2>2. channel' \in Seq(Request \cup {Flush, Shutdown}) BY <1>1, <2>1, Appended
  <2>3. TypeOK' BY <1>1, <1>2, <1>3, <1>8, <2>1, <2>2 DEF TypeOK
  <2> QED BY <1>2, <1>8, <2>1, <2>3, ControlKeeps
<1>9. CASE SendFlush
  <2>1. /\ ui = "leaving" /\ ui' = "asking" /\ clearing = None /\ clearing' = None
        /\ try_send(Flush) /\ UNCHANGED discarded
    BY <1>9 DEF SendFlush
  <2>2. /\ channel' = Append(channel, Flush)
        /\ TypeOK' /\ AskedShape' /\ VersionShape' /\ ClearShape'
        /\ RecoverableOutsideCycle'
    BY <1>8, <2>1
  <2>3. /\ Len(channel') = Len(channel) + 1 /\ Len(channel) \in Nat
        /\ channel'[Len(channel) + 1] = Flush
        /\ \A i \in 1..Len(channel) : channel'[i] = channel[i]
    BY <1>1, <2>2, Appended
  <2>4. /\ report = None /\ ~Replying /\ \A i \in 1..Len(channel) : channel[i].file # None
    BY <2>1 DEF IInv, ReportShape
  <2>5. \A i \in 1..Len(channel') :
          channel'[i].file = None => channel'[i] = Flush /\ i = Len(channel')
    BY <2>3, <2>4
  <2>6. (\A s \in checkpoint_clears : checkpoints[s] = 0) /\ Len(unreported) <= faults
    BY DEF IInv, ReportShape
  <2>7. ReportShape' BY <1>3, <2>1, <2>4, <2>5, <2>6 DEF ReportShape, Replying, Writing
  <2> QED BY <2>2, <2>7 DEF IInv
<1>10. CASE SendShutdown
  <2>1. /\ ui = "asking" /\ ui' = "joining" /\ clearing' = clearing /\ report # None
        /\ try_send(Shutdown) /\ Alive /\ UNCHANGED discarded /\ clearing = None
    BY <1>10 DEF SendShutdown, IInv, ReportShape
  <2>2. /\ channel' = Append(channel, Shutdown)
        /\ TypeOK' /\ AskedShape' /\ VersionShape' /\ ClearShape'
        /\ RecoverableOutsideCycle'
    BY <1>8, <2>1
  <2>3. /\ Len(channel') = Len(channel) + 1 /\ Len(channel) \in Nat
        /\ channel'[Len(channel) + 1] = Shutdown
        /\ \A i \in 1..Len(channel) : channel'[i] = channel[i]
    BY <1>1, <2>2, Appended
  <2>4. /\ NothingPending /\ unreported = <<>> /\ clearing = None /\ ~Replying
        /\ \A i \in 1..Len(channel) : channel[i] = Shutdown
    BY <2>1 DEF IInv, ReportShape
  <2>5. \A i \in 1..Len(channel') : channel'[i] = Shutdown BY <2>3, <2>4
  <2>6. (\A s \in checkpoint_clears : checkpoints[s] = 0) /\ Len(unreported) <= faults
    BY DEF IInv, ReportShape
  <2>7. ReportShape'
    BY <1>3, <2>1, <2>4, <2>5, <2>6 DEF ReportShape, Replying, Writing, NothingPending
  <2> QED BY <2>2, <2>7 DEF IInv
<1> QED BY <1>6, <1>7, <1>9, <1>10

-----------------------------------------------------------------------------
(* The actor takes a request.                                              *)

\* What PendingState::absorb does with each kind of request.
LEMMA AbsorbCases ==
  ASSUME NEW r \in Request, absorb(r)
  PROVE  \/ \E s \in Sessions :
              /\ r.file = Checkpoint(s) /\ r.state # 0
              /\ checkpoints' = [checkpoints EXCEPT ![s] = r.state]
              /\ checkpoint_clears' = checkpoint_clears \ {s}
              /\ UNCHANGED <<sessions, offline_queue>>
         \/ \E s \in Sessions :
              /\ r.file = Checkpoint(s) /\ r.state = 0
              /\ checkpoints' = [checkpoints EXCEPT ![s] = 0]
              /\ checkpoint_clears' = checkpoint_clears \cup {s}
              /\ UNCHANGED <<sessions, offline_queue>>
         \/ \E s \in Sessions :
              /\ r.file = Session(s)
              /\ sessions' = [sessions EXCEPT ![s] = r.state]
              /\ UNCHANGED <<checkpoints, checkpoint_clears, offline_queue>>
         \/ /\ r.file = Offline /\ offline_queue' = r.state
            /\ UNCHANGED <<checkpoints, checkpoint_clears, sessions>>
<1>1. r.file \in Files BY RequestFacts
<1>2. ASSUME NEW s \in Sessions, r.file = Checkpoint(s), r.state # 0
      PROVE  /\ checkpoints' = [checkpoints EXCEPT ![s] = r.state]
             /\ checkpoint_clears' = checkpoint_clears \ {s}
             /\ UNCHANGED <<sessions, offline_queue>>
  BY <1>2 DEF absorb, Checkpoint, Session, Offline
<1>3. ASSUME NEW s \in Sessions, r.file = Checkpoint(s), r.state = 0
      PROVE  /\ checkpoints' = [checkpoints EXCEPT ![s] = 0]
             /\ checkpoint_clears' = checkpoint_clears \cup {s}
             /\ UNCHANGED <<sessions, offline_queue>>
  BY <1>3 DEF absorb, Checkpoint, Session, Offline
<1>4. ASSUME NEW s \in Sessions, r.file = Session(s)
      PROVE  /\ sessions' = [sessions EXCEPT ![s] = r.state]
             /\ UNCHANGED <<checkpoints, checkpoint_clears, offline_queue>>
  BY <1>4 DEF absorb, Checkpoint, Session, Offline
<1>5. CASE r.file = Offline
  BY <1>5 DEF absorb, Checkpoint, Session, Offline
<1> QED BY <1>1, <1>2, <1>3, <1>4, <1>5, FileFacts

\* The request is what is pending for its file; other files keep theirs.
LEMMA AbsorbFacts ==
  ASSUME TypeOK, NEW r \in Request, absorb(r),
         \A s \in Sessions : r.file = Session(s) => r.state # 0
  PROVE  /\ checkpoints' \in [Sessions -> 0..MaxVersion]
         /\ sessions' \in [Sessions -> 0..MaxVersion]
         /\ checkpoint_clears' \subseteq Sessions
         /\ offline_queue' \in 0..MaxVersion \cup {None}
         /\ Buffered(r.file)' = r.state
         /\ \A f \in Files \ {r.file} : Buffered(f)' = Buffered(f)
         /\ \A s \in Sessions :
              /\ \/ checkpoints'[s] = checkpoints[s] \/ checkpoints'[s] = 0
                 \/ Save(r) /\ checkpoints'[s] = r.state
              /\ \/ sessions'[s] = sessions[s]
                 \/ Save(r) /\ sessions'[s] = r.state
              /\ r.file = Session(s) => sessions'[s] = r.state /\ checkpoints'[s] = checkpoints[s]
              /\ s \in checkpoint_clears' => \/ s \in checkpoint_clears
                                             \/ r = Clear(s) /\ sessions'[s] = sessions[s]
              /\ (s \in checkpoint_clears => checkpoints[s] = 0)
                   => (s \in checkpoint_clears' => checkpoints'[s] = 0)
<1>1. r.file \in Files /\ r.state \in 0..MaxVersion /\ r.file # None BY RequestFacts
<1>2. /\ checkpoints \in [Sessions -> 0..MaxVersion]
      /\ sessions \in [Sessions -> 0..MaxVersion]
      /\ checkpoint_clears \subseteq Sessions
      /\ offline_queue \in 0..MaxVersion \cup {None}
      /\ MaxVersion \in Nat
  BY BoundAssumption DEF TypeOK
<1>3. ASSUME /\ \A s \in Sessions : Buffered(Session(s))' = Buffered(Session(s))
                                      \/ r.file = Session(s)
             /\ \A s \in Sessions : Buffered(Checkpoint(s))' = Buffered(Checkpoint(s))
                                      \/ r.file = Checkpoint(s)
             /\ Buffered(Offline)' = Buffered(Offline) \/ r.file = Offline
      PROVE  \A f \in Files \ {r.file} : Buffered(f)' = Buffered(f)
  <2> SUFFICES ASSUME NEW f \in Files, f # r.file PROVE Buffered(f)' = Buffered(f)
    OBVIOUS
  <2>1. CASE f = Offline BY <1>3, <2>1 DEF Buffered
  <2>2. ASSUME NEW s \in Sessions, f = Checkpoint(s) PROVE Buffered(f)' = Buffered(f)
    BY <1>3, <2>2
  <2>3. ASSUME NEW s \in Sessions, f = Session(s) PROVE Buffered(f)' = Buffered(f)
    BY <1>3, <2>3
  <2> QED BY <2>1, <2>2, <2>3, FileFacts
<1>4. ASSUME NEW s \in Sessions, r.file = Checkpoint(s), r.state # 0,
             checkpoints' = [checkpoints EXCEPT ![s] = r.state],
             checkpoint_clears' = checkpoint_clears \ {s},
             UNCHANGED <<sessions, offline_queue>>
      PROVE  /\ Buffered(r.file)' = r.state
             /\ \A f \in Files \ {r.file} : Buffered(f)' = Buffered(f)
             /\ \A t \in Sessions : checkpoints'[t] = IF t = s THEN r.state ELSE checkpoints[t]
  <2>1. \A t \in Sessions : checkpoints'[t] = IF t = s THEN r.state ELSE checkpoints[t]
    BY <1>2, <1>4
  <2>2. Buffered(Checkpoint(s))' = r.state BY <1>4, <2>1, BufferedFacts
  <2>3. \A t \in Sessions : Buffered(Session(t))' = Buffered(Session(t))
    BY <1>4, BufferedFacts
  <2>4. \A t \in Sessions \ {s} : Buffered(Checkpoint(t))' = Buffered(Checkpoint(t))
    BY <1>4, <2>1, BufferedFacts
  <2>5. Buffered(Offline)' = Buffered(Offline) BY <1>4, BufferedOffline
  <2> QED BY <1>3, <1>4, <2>1, <2>2, <2>3, <2>4, <2>5
<1>5. ASSUME NEW s \in Sessions, r.file = Checkpoint(s), r.state = 0,
             checkpoints' = [checkpoints EXCEPT ![s] = 0],
             checkpoint_clears' = checkpoint_clears \cup {s},
             UNCHANGED <<sessions, offline_queue>>
      PROVE  /\ Buffered(r.file)' = r.state
             /\ \A f \in Files \ {r.file} : Buffered(f)' = Buffered(f)
             /\ \A t \in Sessions : checkpoints'[t] = IF t = s THEN 0 ELSE checkpoints[t]
             /\ r = Clear(s)
  <2>1. \A t \in Sessions : checkpoints'[t] = IF t = s THEN 0 ELSE checkpoints[t]
    BY <1>2, <1>4, <1>5
  <2>2. Buffered(Checkpoint(s))' = r.state BY <1>5, <2>1, BufferedFacts
  <2>3. \A t \in Sessions : Buffered(Session(t))' = Buffered(Session(t))
    BY <1>5, BufferedFacts
  <2>4. \A t \in Sessions \ {s} : Buffered(Checkpoint(t))' = Buffered(Checkpoint(t))
    BY <1>5, <2>1, BufferedFacts
  <2>5. Buffered(Offline)' = Buffered(Offline) BY <1>5, BufferedOffline
  <2>6. r = Clear(s) BY <1>5 DEF Request, Clear
  <2> QED BY <1>3, <1>5, <2>1, <2>2, <2>3, <2>4, <2>5, <2>6
<1>6. ASSUME NEW s \in Sessions, r.file = Session(s),
             sessions' = [sessions EXCEPT ![s] = r.state],
             UNCHANGED <<checkpoints, checkpoint_clears, offline_queue>>
      PROVE  /\ Buffered(r.file)' = r.state
             /\ \A f \in Files \ {r.file} : Buffered(f)' = Buffered(f)
             /\ \A t \in Sessions : sessions'[t] = IF t = s THEN r.state ELSE sessions[t]
  <2>1. \A t \in Sessions : sessions'[t] = IF t = s THEN r.state ELSE sessions[t]
    BY <1>2, <1>6
  <2>2. Buffered(Session(s))' = r.state BY <1>6, <2>1, BufferedFacts
  <2>3. \A t \in Sessions : Buffered(Checkpoint(t))' = Buffered(Checkpoint(t))
    BY <1>6, BufferedFacts
  <2>4. \A t \in Sessions \ {s} : Buffered(Session(t))' = Buffered(Session(t))
    BY <1>6, <2>1, BufferedFacts
  <2>5. Buffered(Offline)' = Buffered(Offline) BY <1>6, BufferedOffline
  <2> QED BY <1>3, <1>6, <2>1, <2>2, <2>3, <2>4, <2>5
<1>7. ASSUME r.file = Offline, offline_queue' = r.state,
             UNCHANGED <<checkpoints, checkpoint_clears, sessions>>
      PROVE  /\ Buffered(r.file)' = r.state
             /\ \A f \in Files \ {r.file} : Buffered(f)' = Buffered(f)
  <2>1. Buffered(Offline)' = r.state BY <1>7, BufferedOffline
  <2>2. \A t \in Sessions : /\ Buffered(Checkpoint(t))' = Buffered(Checkpoint(t))
                            /\ Buffered(Session(t))' = Buffered(Session(t))
    BY <1>7, BufferedFacts
  <2> QED BY <1>3, <1>7, <2>1, <2>2
<1>8. /\ \A s, t \in Sessions : Checkpoint(s) # Session(t)
      /\ \A s, t \in Sessions : Session(s) = Session(t) => s = t
      /\ \A s \in Sessions : Session(s) # Offline
  BY FileFacts
<1> QED
  <2>1. CASE \E s \in Sessions :
               /\ r.file = Checkpoint(s) /\ r.state # 0
               /\ checkpoints' = [checkpoints EXCEPT ![s] = r.state]
               /\ checkpoint_clears' = checkpoint_clears \ {s}
               /\ UNCHANGED <<sessions, offline_queue>>
    BY <1>1, <1>2, <1>4, <1>8, <2>1 DEF Save
  <2>2. CASE \E s \in Sessions :
               /\ r.file = Checkpoint(s) /\ r.state = 0
               /\ checkpoints' = [checkpoints EXCEPT ![s] = 0]
               /\ checkpoint_clears' = checkpoint_clears \cup {s}
               /\ UNCHANGED <<sessions, offline_queue>>
    BY <1>1, <1>2, <1>5, <1>8, <2>2 DEF Save
  <2>3. CASE \E s \in Sessions :
               /\ r.file = Session(s)
               /\ sessions' = [sessions EXCEPT ![s] = r.state]
               /\ UNCHANGED <<checkpoints, checkpoint_clears, offline_queue>>
    BY <1>1, <1>2, <1>6, <1>8, <2>3 DEF Save
  <2>4. CASE /\ r.file = Offline /\ offline_queue' = r.state
             /\ UNCHANGED <<checkpoints, checkpoint_clears, sessions>>
    BY <1>1, <1>2, <1>7, <1>8, <2>4 DEF Save
  <2> QED BY <2>1, <2>2, <2>3, <2>4, AbsorbCases

\* The head of the channel is gone: the others are still in their order.
LEMMA TakenShapes ==
  ASSUME IInv, channel # <<>>, channel' = Tail(channel),
         UNCHANGED <<version, disk, best, asked, unreported, report>>
  PROVE  /\ \A f \in Files : f # Head(channel).file => (Waiting(f)' <=> Waiting(f))
         /\ \A f \in Files : \A i \in 1..Len(channel') :
              LastFor(f, i)' => channel'[i].state = asked'[f] \/ ~Alive
         /\ \A f \in Files : f = Head(channel).file /\ ~Waiting(f)' /\ Alive
                               => Head(channel).state = asked[f]
         /\ \A i, j \in 1..Len(channel') :
              i < j /\ Save(channel'[i]) /\ Save(channel'[j])
                => channel'[i].state < channel'[j].state
         /\ \A i \in 1..Len(channel') : Save(channel'[i]) =>
              /\ Newer(channel'[i].state) /\ channel'[i].state <= version
              /\ Save(Head(channel)) => Head(channel).state < channel'[i].state
         /\ \A i \in 1..Len(channel') : \A s \in Sessions :
              channel'[i].file = Session(s) => channel'[i].state # 0
<1>1. TypeOK BY DEF IInv
<1>2. /\ Len(channel) \in Nat /\ Len(channel) >= 1 /\ Len(channel') = Len(channel) - 1
      /\ Head(channel) = channel[1]
      /\ \A i \in 1..Len(channel') : channel'[i] = channel[i + 1] /\ i + 1 \in 1..Len(channel)
      /\ \A i \in 2..Len(channel) : channel[i] = channel'[i - 1] /\ i - 1 \in 1..Len(channel')
  BY <1>1, Taken
<1>3. \A f \in Files : f # Head(channel).file => (Waiting(f)' <=> Waiting(f))
  <2> SUFFICES ASSUME NEW f \in Files, f # Head(channel).file
               PROVE  Waiting(f)' <=> Waiting(f)
    OBVIOUS
  <2>1. Waiting(f)' => Waiting(f) BY <1>2 DEF Waiting
  <2>2. ASSUME Waiting(f) PROVE Waiting(f)'
    <3>1. PICK i \in 1..Len(channel) : channel[i].file = f BY <2>2 DEF Waiting
    <3>2. i \in 2..Len(channel) BY <1>2, <3>1
    <3> QED BY <1>2, <3>1, <3>2 DEF Waiting
  <2> QED BY <2>1, <2>2
<1>4. ASSUME NEW f \in Files, NEW i \in 1..Len(channel'), LastFor(f, i)', Alive
      PROVE  channel'[i].state = asked'[f]
  <2>1. channel[i + 1].file = f BY <1>2, <1>4 DEF LastFor
  <2>2. ASSUME NEW j \in 1..Len(channel), j > i + 1 PROVE channel[j].file # f
    <3>1. j \in 2..Len(channel) /\ j - 1 > i BY <1>2, <2>2
    <3> QED BY <1>2, <1>4, <3>1 DEF LastFor
  <2>3. LastFor(f, i + 1) BY <2>1, <2>2 DEF LastFor
  <2> QED BY <1>2, <1>4, <2>3 DEF IInv, AskedShape
<1>5. ASSUME NEW f \in Files, f = Head(channel).file, ~Waiting(f)', Alive
      PROVE  Head(channel).state = asked[f]
  <2>1. ASSUME NEW j \in 1..Len(channel), j > 1 PROVE channel[j].file # f
    <3>1. j \in 2..Len(channel) BY <1>2, <2>1
    <3> QED BY <1>2, <1>5, <3>1 DEF Waiting
  <2>2. LastFor(f, 1) BY <1>2, <1>5, <2>1 DEF LastFor
  <2> QED BY <1>2, <1>5, <2>2 DEF IInv, AskedShape
<1>6. \A i, j \in 1..Len(channel') :
        i < j /\ Save(channel'[i]) /\ Save(channel'[j]) => channel'[i].state < channel'[j].state
  BY <1>2 DEF IInv, VersionShape
<1>7. ASSUME NEW i \in 1..Len(channel'), Save(channel'[i])
      PROVE  /\ Newer(channel'[i].state) /\ channel'[i].state <= version
             /\ Save(Head(channel)) => Head(channel).state < channel'[i].state
  <2>1. channel'[i] = channel[i + 1] /\ i + 1 \in 1..Len(channel) /\ 1 < i + 1
        /\ 1 \in 1..Len(channel)
    BY <1>2
  <2> QED BY <1>2, <1>7, <2>1 DEF IInv, VersionShape
<1>8. \A i \in 1..Len(channel') : \A s \in Sessions :
        channel'[i].file = Session(s) => channel'[i].state # 0
  BY <1>2 DEF IInv, VersionShape
<1> QED BY <1>3, <1>4, <1>5, <1>6, <1>7, <1>8

\* FlushAndReport and Shutdown start the last write cycles.
LEMMA ReceiveControl ==
  ASSUME IInv, Receive, Head(channel) = Flush \/ Head(channel) = Shutdown
  PROVE  IInv'
<1>1. TypeOK BY DEF IInv
<1>2. /\ actor \in {"drain", "recv"} /\ channel # <<>> /\ channel' = Tail(channel)
      /\ actor' = "write"
      /\ after' = IF Head(channel) = Flush THEN "reply" ELSE "exit"
      /\ UNCHANGED <<ui, clearing, version, asked, discarded, clears, checkpoints,
                     checkpoint_clears, sessions, offline_queue, unreported, report, disk, best,
                     faults, crashes>>
  BY RequestFacts DEF Receive, front, pending
<1>3. Alive /\ Alive' /\ ~Writing /\ ~Replying BY <1>2 DEF Alive, Writing, Replying
<1>4. Head(channel).file = None /\ ~Save(Head(channel)) BY RequestFacts DEF Save
<1>5. /\ channel' \in Seq(Request \cup {Flush, Shutdown})
      /\ Len(channel) \in Nat /\ Len(channel) >= 1 /\ Len(channel') = Len(channel) - 1
      /\ Head(channel) = channel[1]
      /\ \A i \in 1..Len(channel') : channel'[i] = channel[i + 1] /\ i + 1 \in 1..Len(channel)
  BY <1>1, <1>2, Taken
<1>6. ui \in {"asking", "joining", "gone"}
  BY <1>1, <1>4, <1>5 DEF IInv, ReportShape, TypeOK
<1>7. ClearShape'
  <2>1. \A i \in 1..Len(channel') : channel'[i].file = None
    <3>1. CASE report = None
      <4>1. Len(channel) = 1 BY <1>4, <1>5, <3>1 DEF IInv, ReportShape
      <4> QED BY <1>5, <4>1
    <3>2. CASE report # None
      <4>1. \A i \in 1..Len(channel) : channel[i] = Shutdown
        BY <1>3, <3>2 DEF IInv, ReportShape
      <4> QED BY <1>5, <4>1, RequestFacts
    <3> QED BY <3>1, <3>2
  <2>2. \A s \in Sessions : Clear(s).file # None BY RequestFacts, FileFacts
  <2>3. clearing' = None BY <1>2, <1>6 DEF IInv, ReportShape
  <2>4. channel' # <<>> => Head(channel') = channel'[1] /\ 1 \in 1..Len(channel')
    BY <1>5
  <2>5. \A s \in Sessions : ~ClearNext(s)'
    BY <2>1, <2>2, <2>3, <2>4, NoneAssumption DEF ClearNext, Clear
  <2>6. \A s \in Sessions : Covered(s)' <=> Covered(s) BY <1>2 DEF Covered
  <2>7. \A i \in 1..Len(channel') : \A s \in Sessions : channel'[i] # Clear(s)
    BY <2>1, <2>2
  <2> QED BY <1>2, <1>3, <2>3, <2>5, <2>6, <2>7 DEF IInv, ClearShape, Clear
<1>8. RecoverableOutsideCycle'
  BY <1>2, <1>3 DEF IInv, RecoverableOutsideCycle, Writing
<1>9. TypeOK' BY <1>1, <1>2, <1>5 DEF TypeOK
<1>10. AskedShape'
  <2> SUFFICES ASSUME NEW f \in Files
               PROVE  /\ \A i \in 1..Len(channel') : LastFor(f, i)' => channel'[i].state = asked'[f]
                      /\ ~Waiting(f)' /\ Buffered(f)' # None => Buffered(f)' = asked'[f]
                      /\ ~Waiting(f)' /\ Buffered(f)' = None => disk'[f] = asked'[f] \/ Named(f)'
    BY DEF AskedShape
  <2>1. f # Head(channel).file BY <1>4, FileFacts
  <2>2. Buffered(f)' = Buffered(f) /\ (Named(f)' <=> Named(f)) BY <1>2 DEF Buffered, Named
  <2>3. \A i \in 1..Len(channel') : LastFor(f, i)' => channel'[i].state = asked'[f]
    BY <1>2, <1>3, TakenShapes
  <2>4. Waiting(f)' <=> Waiting(f) BY <1>2, <2>1, TakenShapes
  <2> QED BY <1>2, <1>3, <2>2, <2>3, <2>4 DEF IInv, AskedShape
<1>11. VersionShape'
  <2>1. \A n : Newer(n)' <=> Newer(n) BY <1>2 DEF Newer
  <2>2. Newer(version + 1)' BY <1>2 DEF IInv, VersionShape, Newer
  <2>3. ASSUME NEW i \in 1..Len(channel'), Save(channel'[i])
        PROVE  Newer(channel[i].state)' /\ channel'[i].state <= version'
    <3>1. Newer(channel'[i].state) /\ channel'[i].state <= version
      BY <1>2, <2>3, TakenShapes
    <3> QED BY <1>2, <3>1 DEF Newer
  <2>4. /\ \A i, j \in 1..Len(channel') :
             i < j /\ Save(channel'[i]) /\ Save(channel'[j])
               => channel'[i].state < channel'[j].state
        /\ \A i \in 1..Len(channel') : \A s \in Sessions :
             channel'[i].file = Session(s) => channel'[i].state # 0
    BY <1>2, TakenShapes
  <2> QED BY <1>2, <2>2, <2>3, <2>4 DEF IInv, VersionShape
<1>12. ReportShape'
  <2>1. CASE Head(channel) = Flush
    <3>1. report = None
      <4>1. report # None => channel[1] = Shutdown BY <1>3, <1>5 DEF IInv, ReportShape
      <4> QED BY <1>5, <2>1, <4>1, RequestFacts
    <3>2. Len(channel) = 1 BY <1>4, <1>5, <3>1 DEF IInv, ReportShape
    <3>3. channel' = <<>> BY <1>5, <3>2
    <3> QED BY <1>2, <1>5, <1>6, <3>1, <3>2, <3>3
        DEF IInv, ReportShape
  <2>2. CASE Head(channel) = Shutdown
    <3>1. report # None
      <4>1. report = None => channel[1] = Flush BY <1>4, <1>5 DEF IInv, ReportShape
      <4> QED BY <1>5, <2>2, <4>1, RequestFacts
    <3>2. ~Replying' BY <1>2, <2>2, RequestFacts DEF Replying
    <3>3. NothingPending /\ unreported = <<>> /\ \A i \in 1..Len(channel) : channel[i] = Shutdown
      BY <1>3, <3>1 DEF IInv, ReportShape
    <3>4. NothingPending' BY <1>2, <3>3 DEF NothingPending
    <3> QED BY <1>2, <1>5, <1>6, <3>1, <3>2, <3>3, <3>4 DEF IInv, ReportShape
  <2> QED BY <2>1, <2>2
<1> QED BY <1>7, <1>8, <1>9, <1>10, <1>11, <1>12 DEF IInv

\* A save or a clear is absorbed: it is newer than what was pending.
LEMMA ReceiveRequest ==
  ASSUME IInv, Receive, Head(channel) # Flush, Head(channel) # Shutdown
  PROVE  IInv'
<1>0. PICK r : r = Head(channel) OBVIOUS
<1>1. TypeOK BY DEF IInv
<1>2. /\ actor \in {"drain", "recv"} /\ channel # <<>> /\ channel' = Tail(channel)
      /\ actor' = "drain" /\ absorb(r) /\ UNCHANGED after
      /\ UNCHANGED <<ui, clearing, version, asked, discarded, clears, unreported, report,
                     disk, best, faults, crashes>>
  BY <1>0 DEF Receive, front
<1>3. Alive /\ Alive' /\ ~Writing /\ ~Replying' BY <1>2 DEF Alive, Writing, Replying
<1>4. /\ channel' \in Seq(Request \cup {Flush, Shutdown})
      /\ Len(channel) \in Nat /\ Len(channel) >= 1 /\ Len(channel') = Len(channel) - 1
      /\ r = channel[1] /\ r \in Request \cup {Flush, Shutdown}
      /\ \A i \in 1..Len(channel') : channel'[i] = channel[i + 1] /\ i + 1 \in 1..Len(channel)
      /\ channel' # <<>> => Head(channel') = channel[2] /\ 2 \in 1..Len(channel)
  BY <1>0, <1>1, <1>2, Taken
<1>5. r \in Request /\ r.file \in Files /\ r.state \in 0..MaxVersion
  BY <1>0, <1>4, RequestFacts
<1>6. /\ \A s \in Sessions : r.file = Session(s) => r.state # 0
      /\ Save(r) => Newer(r.state) /\ r.state <= version
  BY <1>4 DEF IInv, VersionShape
<1>7. /\ checkpoints' \in [Sessions -> 0..MaxVersion]
      /\ sessions' \in [Sessions -> 0..MaxVersion]
      /\ checkpoint_clears' \subseteq Sessions
      /\ offline_queue' \in 0..MaxVersion \cup {None}
      /\ Buffered(r.file)' = r.state
      /\ \A f \in Files \ {r.file} : Buffered(f)' = Buffered(f)
      /\ \A s \in Sessions :
           /\ \/ checkpoints'[s] = checkpoints[s] \/ checkpoints'[s] = 0
              \/ Save(r) /\ checkpoints'[s] = r.state
           /\ \/ sessions'[s] = sessions[s]
              \/ Save(r) /\ sessions'[s] = r.state
           /\ r.file = Session(s) => sessions'[s] = r.state /\ checkpoints'[s] = checkpoints[s]
           /\ s \in checkpoint_clears' => \/ s \in checkpoint_clears
                                          \/ r = Clear(s) /\ sessions'[s] = sessions[s]
           /\ (s \in checkpoint_clears => checkpoints[s] = 0)
                => (s \in checkpoint_clears' => checkpoints'[s] = 0)
  BY <1>1, <1>2, <1>5, <1>6, AbsorbFacts
<1>8. TypeOK' BY <1>1, <1>2, <1>4, <1>7 DEF TypeOK
<1>9. RecoverableOutsideCycle'
  BY <1>2, <1>3 DEF IInv, RecoverableOutsideCycle
<1>10. /\ \A s \in Sessions : /\ best[s] \in Nat /\ disk[Session(s)] \in Nat
                              /\ checkpoints[s] \in Nat /\ sessions[s] \in Nat
                              /\ discarded[s] \in Nat
       /\ version \in Nat /\ r.state \in Nat
  <2>1. \A s \in Sessions : Session(s) \in Files BY FileFacts
  <2>2. MaxVersion \in Nat BY BoundAssumption
  <2> QED BY <1>1, <1>5, <2>1, <2>2 DEF TypeOK
<1>11. AskedShape'
  <2> SUFFICES ASSUME NEW f \in Files
               PROVE  /\ \A i \in 1..Len(channel') : LastFor(f, i)' => channel'[i].state = asked'[f]
                      /\ ~Waiting(f)' /\ Buffered(f)' # None => Buffered(f)' = asked'[f]
                      /\ ~Waiting(f)' /\ Buffered(f)' = None => disk'[f] = asked'[f] \/ Named(f)'
    BY DEF AskedShape
  <2>1. \A i \in 1..Len(channel') : LastFor(f, i)' => channel'[i].state = asked'[f]
    BY <1>2, <1>3, TakenShapes
  <2>2. CASE f = r.file
    <3>1. Buffered(f)' = r.state /\ r.state # None
      BY <1>7, <1>10, <2>2, NoneAssumption
    <3>2. ~Waiting(f)' => r.state = asked[f] BY <1>2, <1>3, <2>2, <1>0, TakenShapes
    <3> QED BY <1>2, <2>1, <3>1, <3>2
  <2>3. CASE f # r.file
    <3>1. Buffered(f)' = Buffered(f) BY <1>7, <2>3
    <3>2. Waiting(f)' <=> Waiting(f) BY <1>2, <2>3, <1>0, TakenShapes
    <3>3. Named(f)' <=> Named(f) BY <1>2 DEF Named
    <3> QED BY <1>2, <1>3, <2>1, <3>1, <3>2, <3>3 DEF IInv, AskedShape
  <2> QED BY <2>2, <2>3
<1>12. VersionShape'
  <2>1. Newer(version + 1)'
    BY <1>2, <1>6, <1>7, <1>10 DEF IInv, VersionShape, Newer
  <2>2. ASSUME NEW i \in 1..Len(channel'), Save(channel'[i])
        PROVE  Newer(channel[i].state)' /\ channel'[i].state <= version'
    <3>1. /\ Newer(channel'[i].state) /\ channel'[i].state <= version
          /\ Save(r) => r.state < channel'[i].state
      BY <1>2, <2>2, <1>0, TakenShapes
    <3>2. channel'[i].state \in Nat /\ channel'[i].state # 0
      <4>1. channel'[i] \in Request
        BY <1>4, <2>2, RequestFacts DEF Save
      <4> QED BY <2>2, <4>1, RequestFacts, BoundAssumption DEF Save
    <3> QED BY <1>2, <1>7, <1>10, <3>1, <3>2 DEF Newer
  <2>3. /\ \A i, j \in 1..Len(channel') :
             i < j /\ Save(channel'[i]) /\ Save(channel'[j])
               => channel'[i].state < channel'[j].state
        /\ \A i \in 1..Len(channel') : \A s \in Sessions :
             channel'[i].file = Session(s) => channel'[i].state # 0
    BY <1>2, TakenShapes
  <2>4. ASSUME NEW s \in Sessions
        PROVE  /\ disk'[Checkpoint(s)] <= best'[s] /\ disk'[Session(s)] <= best'[s]
               /\ checkpoints'[s] # 0 => checkpoints'[s] > best'[s]
               /\ sessions'[s] # 0 => sessions'[s] > disk'[Session(s)]
               /\ discarded'[s] <= version'
    <3>1. /\ disk[Checkpoint(s)] <= best[s] /\ disk[Session(s)] <= best[s]
          /\ checkpoints[s] # 0 => checkpoints[s] > best[s]
          /\ sessions[s] # 0 => sessions[s] > disk[Session(s)]
          /\ discarded[s] <= version
      BY DEF IInv, VersionShape
    <3>2. Save(r) => best[s] < r.state BY <1>6 DEF Newer
    <3> QED BY <1>2, <1>7, <1>10, <3>1, <3>2
  <2> QED BY <1>2, <2>1, <2>2, <2>3, <2>4 DEF VersionShape
<1>13. ClearShape'
  <2>1. ASSUME NEW s \in Sessions, Old(s), Save(r) => r.state <= discarded[s]
        PROVE  Old(s)'
    <3>1. /\ best[s] <= discarded[s] /\ checkpoints[s] <= discarded[s]
          /\ sessions[s] <= discarded[s] /\ best'[s] = best[s] /\ discarded'[s] = discarded[s]
      BY <1>2, <2>1 DEF Old
    <3>2. /\ checkpoints'[s] \in {checkpoints[s], 0} \/ (Save(r) /\ checkpoints'[s] = r.state)
          /\ sessions'[s] = sessions[s] \/ (Save(r) /\ sessions'[s] = r.state)
      BY <1>7
    <3>3. checkpoints'[s] <= discarded[s] /\ sessions'[s] <= discarded[s]
      BY <1>10, <2>1, <3>1, <3>2
    <3> QED BY <3>1, <3>3 DEF Old
  <2>2. ASSUME NEW i \in 1..Len(channel'), NEW s \in Sessions, i > 1, channel'[i] = Clear(s)
        PROVE  channel'[i - 1].file = Session(s) \/ OldBefore(s, i)'
    <3>1. /\ channel[i + 1] = Clear(s) /\ i + 1 \in 1..Len(channel) /\ i + 1 > 1
          /\ channel'[i - 1] = channel[i] /\ (i + 1) - 1 = i
      BY <1>4, <2>2
    <3>2. channel[i].file = Session(s) \/ OldBefore(s, i + 1)
      BY <1>3, <3>1 DEF IInv, ClearShape
    <3>3. ASSUME OldBefore(s, i + 1) PROVE OldBefore(s, i)'
      <4>1. Save(r) => r.state <= discarded[s]
        BY <1>4, <3>1, <3>3, <2>2 DEF OldBefore
      <4>2. ASSUME NEW j \in 1..i - 1, Save(channel'[j])
            PROVE  channel'[j].state <= discarded'[s]
        <5>1. j + 1 \in 1..(i + 1) - 1 /\ channel'[j] = channel[j + 1] BY <1>4, <2>2
        <5> QED BY <1>2, <3>3, <4>2, <5>1 DEF OldBefore
      <4>3. Old(s)' BY <2>1, <3>3, <4>1 DEF OldBefore
      <4> QED BY <4>2, <4>3 DEF OldBefore
    <3> QED BY <3>1, <3>2, <3>3
  <2>3. channel' # <<>> /\ clearing' # None =>
          channel'[Len(channel')].file = Session(clearing') \/ discarded'[clearing'] = version'
    <3>1. channel' # <<>> => Len(channel') \in 1..Len(channel') BY <1>4
    <3> QED BY <1>2, <1>3, <1>4, <3>1 DEF IInv, ClearShape
  <2>4. ASSUME NEW s \in Sessions, ClearNext(s)' PROVE Fresh(s)'
    <3>1. r.file = Session(s) \/ Old(s)'
      <4>1. CASE channel' # <<>> /\ Head(channel') = Clear(s)
        <5>1. channel[2] = Clear(s) /\ 2 \in 1..Len(channel) BY <1>4, <4>1
        <5>2. r.file = Session(s) \/ OldBefore(s, 2)
          BY <1>3, <1>4, <5>1 DEF IInv, ClearShape
        <5>3. OldBefore(s, 2) => Old(s)' BY <1>4, <2>1 DEF OldBefore
        <5> QED BY <5>2, <5>3
      <4>2. CASE channel' = <<>> /\ clearing' = s
        <5>0. Len(channel') = 0 BY <4>2
        <5>1. Len(channel) = 1 BY <1>4, <5>0
        <5>2. clearing = s /\ clearing # None BY <1>2, <4>2, NoneAssumption
        <5>3. r.file = Session(s) \/ discarded[s] = version
          BY <1>2, <1>3, <1>4, <5>1, <5>2 DEF IInv, ClearShape
        <5>4. discarded[s] = version => Old(s)'
          BY <1>6, <1>10, <2>1, VersionIsNewest
        <5> QED BY <5>3, <5>4
      <4>3. ClearNext(s)' = (\/ channel' # <<>> /\ Head(channel') = Clear(s)
                             \/ channel' = <<>> /\ clearing' = s)
        BY DEF ClearNext, Clear
      <4> QED BY <2>4, <4>1, <4>2, <4>3
    <3>2. CASE r.file = Session(s)
      <4>1. Save(r) BY <1>6, <3>2, <1>5, RequestFacts DEF Save
      <4>2. sessions'[s] = r.state /\ checkpoints'[s] = checkpoints[s] BY <1>7, <3>2
      <4> QED BY <1>2, <1>6, <4>1, <4>2 DEF Fresh, Newer
    <3>3. CASE Old(s)' BY <3>3 DEF Fresh
    <3> QED BY <3>1, <3>2, <3>3
  <2>5. ASSUME faults = 0, NEW s \in Sessions, s \in checkpoint_clears'
        PROVE  Covered(s)'
    <3>1. CASE s \in checkpoint_clears
      <4>1. Covered(s) BY <1>3, <2>5, <3>1 DEF IInv, ClearShape
      <4> QED BY <1>2, <1>6, <1>7, <4>1 DEF Newer, Covered
    <3>2. CASE r = Clear(s) /\ sessions'[s] = sessions[s]
      <4>1. ClearNext(s) BY <1>0, <1>2, <3>2 DEF ClearNext
      <4>2. Fresh(s) BY <1>3, <2>5, <4>1 DEF IInv, ClearShape
      <4> QED BY <1>2, <3>2, <4>2 DEF Fresh, Old, Covered
    <3> QED BY <1>7, <2>5, <3>1, <3>2
  <2> QED BY <1>2, <2>2, <2>3, <2>4, <2>5 DEF ClearShape, Clear
<1>14. ReportShape'
  <2>1. report = None
    <3>1. report # None => r = Shutdown BY <1>3, <1>4 DEF IInv, ReportShape
    <3> QED BY <1>5, <3>1, RequestFacts
  <2>2. /\ ui' \in {"asking", "joining", "gone"} => clearing' = None
        /\ ui' \in {"idle", "leaving"} => \A i \in 1..Len(channel') : channel'[i].file # None
    BY <1>2, <1>4 DEF IInv, ReportShape
  <2>3. \A i \in 1..Len(channel') :
          channel'[i].file = None => channel'[i] = Flush /\ i = Len(channel')
    BY <1>4, <2>1 DEF IInv, ReportShape
  <2>4. \A s \in checkpoint_clears' : checkpoints'[s] = 0
    BY <1>7 DEF IInv, ReportShape
  <2>5. Len(unreported) <= faults BY DEF IInv, ReportShape
  <2> QED BY <1>2, <1>3, <2>1, <2>2, <2>3, <2>4, <2>5 DEF ReportShape
<1> QED BY <1>8, <1>9, <1>11, <1>12, <1>13, <1>14 DEF IInv

-----------------------------------------------------------------------------
(* The write cycle.                                                        *)

\* Only where the actor is changes.
LEMMA DrainedStep ==
  ASSUME IInv, Drained
  PROVE  IInv'
<1>1. /\ actor = "drain" /\ channel = <<>> /\ actor' = "write" /\ after' = "recv"
      /\ UNCHANGED <<ui, clearing, version, asked, discarded, clears, channel, checkpoints,
                     checkpoint_clears, sessions, offline_queue, unreported, report, disk,
                     best, faults, crashes>>
  BY DEF Drained, front, pending
<1>2. Alive /\ Alive' /\ ~Writing /\ ~Replying' BY <1>1 DEF Alive, Writing, Replying
<1>3. TypeOK' BY <1>1 DEF IInv, TypeOK
<1>4. ReportShape' BY <1>1, <1>2 DEF IInv, ReportShape, NothingPending
<1>5. AskedShape'
  BY <1>1, <1>2 DEF IInv, AskedShape, LastFor, Waiting, Buffered, Named
<1>6. VersionShape' BY <1>1 DEF IInv, VersionShape, Newer
<1>7. ClearShape'
  BY <1>1, <1>2 DEF IInv, ClearShape, ClearNext, Fresh, Old, OldBefore, Covered
<1>8. RecoverableOutsideCycle' BY <1>1, <1>2 DEF IInv, RecoverableOutsideCycle
<1> QED BY <1>3, <1>4, <1>5, <1>6, <1>7, <1>8 DEF IInv

\* After the cycle nothing is pending; what failed is told when it was asked for.
LEMMA CycleEndsStep ==
  ASSUME IInv, CycleEnds
  PROVE  IInv'
<1>1. /\ Writing /\ NothingPending
      /\ UNCHANGED <<ui, clearing, version, asked, discarded, clears, channel, after,
                     checkpoints, checkpoint_clears, sessions, offline_queue, disk, best, faults,
                     crashes>>
  BY DEF CycleEnds, front, pending
<1>2. TypeOK BY DEF IInv
<1>3. actor' \in {"recv", "done", "drain"}
      /\ \/ after # "reply" /\ UNCHANGED <<unreported, report>>
         \/ after = "reply" /\ report' = unreported /\ unreported' = <<>>
  BY <1>2 DEF CycleEnds, TypeOK
<1>4. Alive /\ Alive' /\ ~Writing' /\ ~Replying'
  BY <1>1, <1>3 DEF Alive, Writing, Replying
<1>5. VersionShape' BY <1>1 DEF IInv, VersionShape, Newer
<1>6. ClearShape'
  BY <1>1, <1>4 DEF IInv, ClearShape, ClearNext, Fresh, Old, OldBefore, Covered
<1>7. RecoverableOutsideCycle'
  <2>1. \A s \in Sessions : sessions[s] = 0 BY <1>1 DEF NothingPending, NoSaves
  <2>2. \A s \in Sessions : ~(sessions[s] > best[s])
    <3>1. \A s \in Sessions : best[s] \in 0..MaxVersion BY <1>2 DEF TypeOK
    <3>2. MaxVersion \in Nat BY BoundAssumption
    <3> SUFFICES ASSUME NEW s \in Sessions PROVE ~(sessions[s] > best[s]) OBVIOUS
    <3> QED BY <2>1, <3>1, <3>2
  <2> QED BY <1>1, <1>4, <2>2 DEF IInv, RecoverableOutsideCycle
<1>8. \A f \in Files : Named(f) => Named(f)'
  <2>1. CASE after # "reply" BY <1>1, <1>3, <2>1 DEF Named
  <2>2. CASE after = "reply"
    <3>1. report = None BY <1>1, <2>2 DEF IInv, ReportShape, Replying
    <3>2. report' = unreported /\ report' # None
      BY <1>2, <1>3, <2>2, NoneAssumption DEF TypeOK
    <3> QED BY <1>1, <3>1, <3>2 DEF Named
  <2> QED BY <2>1, <2>2
<1>9. AskedShape'
  BY <1>1, <1>4, <1>8 DEF IInv, AskedShape, LastFor, Waiting, Buffered
<1>10. CASE after # "reply"
  <2>1. UNCHANGED <<unreported, report>> BY <1>3, <1>10
  <2>2. TypeOK' BY <1>1, <1>2, <1>3, <2>1 DEF TypeOK
  <2>3. ReportShape' BY <1>1, <1>4, <2>1 DEF IInv, ReportShape, NothingPending
  <2> QED BY <1>5, <1>6, <1>7, <1>9, <2>2, <2>3 DEF IInv
<1>11. CASE after = "reply"
  <2>1. report' = unreported /\ unreported' = <<>> BY <1>3, <1>11
  <2>2. channel = <<>> /\ report = None /\ Replying
    BY <1>1, <1>11 DEF IInv, ReportShape, Replying
  <2>3. unreported \in Seq(Files) /\ <<>> \in Seq(Files) /\ Len(<<>>) = 0
        /\ 0 <= MaxFailures
    BY <1>2, BoundAssumption DEF TypeOK
  <2>4. TypeOK' BY <1>1, <1>2, <1>3, <2>1, <2>3 DEF TypeOK
  <2>5. report' # None BY <2>1, <2>3, NoneAssumption
  <2>6. ui \notin {"idle", "leaving"} /\ NothingPending'
    BY <1>1, <2>2 DEF IInv, ReportShape, NothingPending
  <2>7. Len(channel') = 0 BY <1>1, <2>2
  <2>8. Len(unreported') <= faults'
    BY <1>1, <1>2, <2>1, <2>3, BoundAssumption DEF TypeOK
  <2>9. ReportShape' BY <1>1, <1>4, <2>1, <2>5, <2>6, <2>7, <2>8 DEF IInv, ReportShape
  <2> QED BY <1>5, <1>6, <1>7, <1>9, <2>4, <2>9 DEF IInv
<1> QED BY <1>10, <1>11

\* One file operation: done, or failed and noted.
LEMMA WriteFacts ==
  ASSUME TypeOK, Len(unreported) <= faults, NEW f \in Files, NEW v \in 0..MaxVersion,
         Write(f, v)
  PROVE  /\ disk' \in [Files -> 0..MaxVersion]
         /\ unreported' \in Seq(Files) /\ Len(unreported') <= MaxFailures
         /\ faults' \in 0..MaxFaults
         /\ \A g \in Files \ {f} : disk'[g] = disk[g]
         /\ disk'[f] = v \/ disk'[f] = disk[f]
         /\ disk'[f] = v \/ f \in ElementsOf(unreported')
         /\ \A g \in ElementsOf(unreported) :
              g \in ElementsOf(unreported') \/ faults' > MaxFailures
         /\ Len(unreported') <= faults' /\ (faults > MaxFailures => faults' > MaxFailures)
         /\ faults' = 0 => faults = 0 /\ disk'[f] = v
<1>1. /\ disk \in [Files -> 0..MaxVersion] /\ unreported \in Seq(Files)
      /\ Len(unreported) <= MaxFailures /\ faults \in 0..MaxFaults
      /\ MaxFaults \in Nat /\ MaxFailures \in Nat /\ Len(unreported) \in Nat
  BY BoundAssumption DEF TypeOK
<1>2. CASE disk' = [disk EXCEPT ![f] = v] /\ UNCHANGED <<unreported, faults>>
  BY <1>1, <1>2
<1>3. CASE /\ faults < MaxFaults /\ faults' = faults + 1
           /\ unreported' = merge(unreported, f)
           /\ disk' = disk \/ disk' = [disk EXCEPT ![f] = v]
  <2>1. faults' \in 0..MaxFaults /\ faults' # 0 BY <1>1, <1>3
  <2>2. /\ disk' \in [Files -> 0..MaxVersion] /\ \A g \in Files \ {f} : disk'[g] = disk[g]
        /\ disk'[f] = v \/ disk'[f] = disk[f]
    BY <1>1, <1>3
  <2>3. /\ unreported' \in Seq(Files) /\ Len(unreported') <= MaxFailures
        /\ Len(unreported') <= Len(unreported) + 1 /\ Len(unreported') \in Nat
        /\ f \in ElementsOf(unreported')
        /\ \A g \in ElementsOf(unreported) :
             g \in ElementsOf(unreported') \/ Len(unreported) = MaxFailures
    BY <1>1, <1>3, MergeFacts
  <2>4. Len(unreported') <= faults' /\ faults' > faults
        /\ (Len(unreported) = MaxFailures => faults' > MaxFailures)
        /\ (faults > MaxFailures => faults' > MaxFailures)
    BY <1>1, <1>3, <2>3
  <2> QED BY <2>1, <2>2, <2>3, <2>4
<1> QED BY <1>2, <1>3 DEF Write

\* What Remember does to the history of a session.
LEMMA BestFacts ==
  ASSUME TypeOK, disk' \in [Files -> 0..MaxVersion], Remember, NEW s \in Sessions
  PROVE  /\ best' \in [Sessions -> 0..MaxVersion]
         /\ best'[s] >= disk'[Checkpoint(s)] /\ best'[s] >= disk'[Session(s)]
         /\ \/ best'[s] = Newest(s, disk')
            \/ best'[s] = best[s] /\ Newest(s, disk') <= best[s]
         /\ best'[s] >= best[s]
         /\ \/ best'[s] = best[s] \/ best'[s] = disk'[Checkpoint(s)]
            \/ best'[s] = disk'[Session(s)]
<1>1. /\ best \in [Sessions -> 0..MaxVersion] /\ MaxVersion \in Nat
      /\ \A t \in Sessions : best[t] \in 0..MaxVersion
  BY BoundAssumption DEF TypeOK
<1>2. ASSUME NEW t \in Sessions
      PROVE  /\ Newest(t, disk') \in 0..MaxVersion
             /\ Newest(t, disk') >= disk'[Checkpoint(t)] /\ Newest(t, disk') >= disk'[Session(t)]
             /\ Newest(t, disk') = disk'[Checkpoint(t)] \/ Newest(t, disk') = disk'[Session(t)]
  BY NewestFacts
<1>3. disk'[Checkpoint(s)] \in 0..MaxVersion /\ disk'[Session(s)] \in 0..MaxVersion
  BY FileFacts
<1>4. best' = [t \in Sessions |-> IF Newest(t, disk') > best[t]
                                  THEN Newest(t, disk') ELSE best[t]]
  BY DEF Remember
<1>5. best' \in [Sessions -> 0..MaxVersion] BY <1>1, <1>2, <1>4
<1>6. best'[s] = IF Newest(s, disk') > best[s] THEN Newest(s, disk') ELSE best[s]
  BY <1>4
<1> HIDE DEF Newest
<1> QED BY <1>1, <1>2, <1>3, <1>5, <1>6

\* Writing what is pending for a file settles the last request for it.
LEMMA WriteKeeps ==
  ASSUME IInv, Writing, NEW f \in Files, NEW v \in 0..MaxVersion, Write(f, v), Remember,
         UNCHANGED Kept, Buffered(f) = v, Buffered(f)' = None,
         \A g \in Files \ {f} : Buffered(g)' = Buffered(g),
         checkpoints' \in [Sessions -> 0..MaxVersion],
         sessions' \in [Sessions -> 0..MaxVersion],
         checkpoint_clears' \subseteq checkpoint_clears,
         offline_queue' \in 0..MaxVersion \cup {None},
         \A s \in Sessions :
           /\ checkpoints'[s] \in {checkpoints[s], 0} /\ sessions'[s] \in {sessions[s], 0}
           /\ f \in {Checkpoint(s), Session(s)} =>
                /\ v \in {0, checkpoints[s], sessions[s]}
                /\ v = 0 \/ checkpoints'[s] = 0
           /\ f = Session(s) => sessions'[s] = 0
  PROVE  /\ TypeOK' /\ ReportShape' /\ AskedShape' /\ VersionShape'
         /\ \A s \in Sessions : Old(s) => Old(s)'
<1>1. TypeOK /\ Len(unreported) <= faults BY DEF IInv, ReportShape
<1>2. UNCHANGED <<ui, clearing, version, asked, discarded, clears, channel, actor, after, report,
                  crashes>>
  BY DEF Kept, front
<1>3. Alive /\ Alive' /\ Writing' BY <1>2 DEF Writing, Alive
<1>4. /\ disk' \in [Files -> 0..MaxVersion]
      /\ unreported' \in Seq(Files) /\ Len(unreported') <= MaxFailures
      /\ faults' \in 0..MaxFaults
      /\ \A g \in Files \ {f} : disk'[g] = disk[g]
      /\ disk'[f] = v \/ disk'[f] = disk[f]
      /\ disk'[f] = v \/ f \in ElementsOf(unreported')
      /\ \A g \in ElementsOf(unreported) :
           g \in ElementsOf(unreported') \/ faults' > MaxFailures
      /\ Len(unreported') <= faults' /\ (faults > MaxFailures => faults' > MaxFailures)
  BY <1>1, WriteFacts
<1>5. \A s \in Sessions :
        /\ best'[s] >= disk'[Checkpoint(s)] /\ best'[s] >= disk'[Session(s)]
        /\ \/ best'[s] = best[s] \/ best'[s] = disk'[Checkpoint(s)]
           \/ best'[s] = disk'[Session(s)]
  BY <1>1, <1>4, BestFacts
<1>6. best' \in [Sessions -> 0..MaxVersion]
  <2>1. Sessions # {} => best' \in [Sessions -> 0..MaxVersion] BY <1>1, <1>4, BestFacts
  <2>2. Sessions = {} => best' \in [Sessions -> 0..MaxVersion] BY DEF Remember
  <2> QED BY <2>1, <2>2
<1>7. TypeOK' BY <1>1, <1>2, <1>4, <1>6 DEF TypeOK
<1>8. v \in Nat /\ v # None BY BoundAssumption, NoneAssumption
<1>9. report = None
  <2> SUFFICES ASSUME NothingPending PROVE FALSE BY <1>3 DEF IInv, ReportShape
  <2>1. \A s \in Sessions : checkpoints[s] = 0 /\ sessions[s] = 0 /\ s \notin checkpoint_clears
    BY DEF NothingPending, NoSaves
  <2>2. \A s \in Sessions : Buffered(Checkpoint(s)) = None /\ Buffered(Session(s)) = None
    BY <2>1, BufferedFacts
  <2>3. Buffered(Offline) = None BY BufferedOffline DEF NothingPending
  <2> QED BY <1>8, <2>2, <2>3, FileFacts
<1>10. ReportShape'
  <2>1. \A s \in checkpoint_clears' : checkpoints'[s] = 0
    BY <1>1 DEF IInv, ReportShape, TypeOK
  <2>2. Replying' <=> Replying BY <1>2 DEF Replying, Writing
  <2> QED BY <1>2, <1>4, <1>9, <2>1, <2>2 DEF IInv, ReportShape
<1>11. AskedShape'
  <2> SUFFICES ASSUME NEW g \in Files
               PROVE  /\ \A i \in 1..Len(channel') : LastFor(g, i)' => channel'[i].state = asked'[g]
                      /\ ~Waiting(g)' /\ Buffered(g)' # None => Buffered(g)' = asked'[g]
                      /\ ~Waiting(g)' /\ Buffered(g)' = None => disk'[g] = asked'[g] \/ Named(g)'
    BY DEF AskedShape
  <2>1. /\ \A i \in 1..Len(channel') : LastFor(g, i)' => channel'[i].state = asked'[g]
        /\ Waiting(g)' <=> Waiting(g)
    BY <1>2, <1>3 DEF IInv, AskedShape, LastFor, Waiting
  <2>2. CASE g = f
    <3>1. ~Waiting(g) => v = asked[g] BY <1>3, <1>8, <2>2 DEF IInv, AskedShape
    <3>2. disk'[g] = v \/ Named(g)' BY <1>4, <2>2 DEF Named
    <3> QED BY <1>2, <2>1, <2>2, <3>1, <3>2
  <2>3. CASE g # f
    <3>1. Named(g) => Named(g)' BY <1>4, <1>9 DEF Named
    <3>2. Buffered(g)' = Buffered(g) /\ disk'[g] = disk[g] BY <1>4, <2>3
    <3> QED BY <1>2, <1>3, <2>1, <3>1, <3>2 DEF IInv, AskedShape
  <2> QED BY <2>2, <2>3
<1>12. ASSUME NEW s \in Sessions
      PROVE  /\ best[s] \in Nat /\ checkpoints[s] \in Nat /\ sessions[s] \in Nat
             /\ disk[Checkpoint(s)] \in Nat /\ disk[Session(s)] \in Nat
             /\ best'[s] \in Nat /\ disk'[Checkpoint(s)] \in Nat /\ disk'[Session(s)] \in Nat
  <2>1. MaxVersion \in Nat /\ Checkpoint(s) \in Files /\ Session(s) \in Files
    BY BoundAssumption, FileFacts
  <2> QED BY <1>1, <1>4, <1>6, <2>1 DEF TypeOK
<1>13. ASSUME NEW s \in Sessions
      PROVE  /\ best'[s] <= best[s] \/ (f \in {Checkpoint(s), Session(s)} /\ best'[s] = v)
  <2>1. disk[Checkpoint(s)] <= best[s] /\ disk[Session(s)] <= best[s]
    BY DEF IInv, VersionShape
  <2>2. Checkpoint(s) \in Files /\ Session(s) \in Files BY FileFacts
  <2>3. CASE best'[s] = best[s] BY <1>12, <2>3
  <2>4. CASE best'[s] = disk'[Checkpoint(s)] BY <1>4, <1>12, <2>1, <2>2, <2>4
  <2>5. CASE best'[s] = disk'[Session(s)] BY <1>4, <1>12, <2>1, <2>2, <2>5
  <2> QED BY <1>5, <2>3, <2>4, <2>5
<1>14. VersionShape'
  <2>3. ASSUME NEW n \in Nat, n # 0, Newer(n) PROVE Newer(n)'
    <3> SUFFICES ASSUME NEW s \in Sessions
                 PROVE  best'[s] < n /\ checkpoints'[s] < n /\ sessions'[s] < n
      BY DEF Newer
    <3>1. best[s] < n /\ checkpoints[s] < n /\ sessions[s] < n BY <2>3 DEF Newer
    <3>2. checkpoints'[s] < n /\ sessions'[s] < n BY <2>3, <3>1
    <3>3. best'[s] < n BY <1>12, <1>13, <2>3, <3>1
    <3> QED BY <3>2, <3>3
  <2>4. Newer(version + 1)'
    <3>1. version + 1 \in Nat /\ version + 1 # 0 BY <1>1, BoundAssumption DEF TypeOK
    <3>2. Newer(version + 1) BY DEF IInv, VersionShape
    <3>3. PICK n : n = version + 1 OBVIOUS
    <3>4. Newer(n)' BY <2>3, <3>1, <3>2, <3>3
    <3> QED BY <1>2, <3>3, <3>4 DEF Newer
  <2>5. ASSUME NEW i \in 1..Len(channel'), Save(channel'[i])
        PROVE  Newer(channel[i].state)' /\ channel'[i].state <= version'
    <3>1. i \in 1..Len(channel) /\ channel'[i] = channel[i] /\ Save(channel[i])
      BY <1>2, <2>5
    <3>2. Newer(channel[i].state) /\ channel[i].state <= version
      BY <3>1 DEF IInv, VersionShape
    <3>3. channel[i].state \in Nat /\ channel[i].state # 0
      <4>1. channel[i] \in Request \cup {Flush, Shutdown} BY <1>1, <3>1 DEF TypeOK
      <4>2. channel[i] \in Request BY <3>1, <4>1, RequestFacts DEF Save
      <4> QED BY <3>1, <4>2, RequestFacts, BoundAssumption DEF Save
    <3>4. PICK n : n = channel[i].state OBVIOUS
    <3>5. Newer(n)' BY <2>3, <3>2, <3>3, <3>4
    <3> QED BY <1>2, <3>2, <3>4, <3>5 DEF Newer
  <2>6. ASSUME NEW s \in Sessions
        PROVE  /\ disk'[Checkpoint(s)] <= best'[s] /\ disk'[Session(s)] <= best'[s]
               /\ checkpoints'[s] # 0 => checkpoints'[s] > best'[s]
               /\ sessions'[s] # 0 => sessions'[s] > disk'[Session(s)]
               /\ discarded'[s] <= version'
    <3>1. disk'[Checkpoint(s)] <= best'[s] /\ disk'[Session(s)] <= best'[s]
      BY <1>5, <1>12
    <3>2. ASSUME checkpoints'[s] # 0 PROVE checkpoints'[s] > best'[s]
      <4>1. checkpoints'[s] = checkpoints[s] /\ checkpoints[s] > best[s]
        BY <3>2 DEF IInv, VersionShape
      <4>2. f \in {Checkpoint(s), Session(s)} => v = 0 BY <3>2
      <4> QED BY <1>12, <1>13, <4>1, <4>2
    <3>3. ASSUME sessions'[s] # 0 PROVE sessions'[s] > disk'[Session(s)]
      <4>1. sessions'[s] = sessions[s] /\ sessions[s] > disk[Session(s)]
        BY <3>3 DEF IInv, VersionShape
      <4>2. disk'[Session(s)] = disk[Session(s)] BY <1>4, <3>3, FileFacts
      <4> QED BY <4>1, <4>2
    <3>4. discarded'[s] <= version' BY <1>2 DEF IInv, VersionShape
    <3> QED BY <3>1, <3>2, <3>3, <3>4
  <2> QED BY <1>2, <2>4, <2>5, <2>6 DEF IInv, VersionShape
<1>15. ASSUME NEW s \in Sessions, Old(s) PROVE Old(s)'
  <2>1. /\ best[s] <= discarded[s] /\ checkpoints[s] <= discarded[s]
        /\ sessions[s] <= discarded[s] /\ discarded[s] \in Nat /\ discarded' = discarded
    BY <1>1, <1>2, <1>15, BoundAssumption DEF Old, TypeOK
  <2>2. checkpoints'[s] <= discarded[s] /\ sessions'[s] <= discarded[s] BY <2>1
  <2>3. best'[s] <= discarded[s] BY <1>12, <1>13, <2>1
  <2> QED BY <2>1, <2>2, <2>3 DEF Old
<1> QED BY <1>7, <1>10, <1>11, <1>14, <1>15

\* A write can only matter for the session the file belongs to.
LEMMA WriteEnds ==
  ASSUME IInv, Writing, NEW f \in Files, NEW v \in 0..MaxVersion, Write(f, v), Remember,
         UNCHANGED Kept, TypeOK', ReportShape', AskedShape', VersionShape',
         \A s \in Sessions : Old(s) => Old(s)',
         checkpoint_clears' \subseteq checkpoint_clears,
         \A s \in Sessions : f \notin {Checkpoint(s), Session(s)} =>
           checkpoints'[s] = checkpoints[s] /\ sessions'[s] = sessions[s],
         \A s \in Sessions :
           f \in {Checkpoint(s), Session(s)} /\ faults = 0 /\ disk'[f] = v =>
             /\ Fresh(s) => Fresh(s)'
             /\ s \in checkpoint_clears' => Covered(s)'
             /\ \/ Newest(s, disk') >= best'[s] \/ best'[s] <= discarded'[s]
                \/ sessions'[s] > best'[s]
  PROVE  IInv'
<1>1. TypeOK /\ Len(unreported) <= faults BY DEF IInv, ReportShape
<1>2. UNCHANGED <<ui, clearing, version, asked, discarded, clears, channel, actor, after, report,
                  crashes>>
  BY DEF Kept, front
<1>3. Alive /\ Alive' /\ Writing' BY <1>2 DEF Writing, Alive
<1>4. /\ disk' \in [Files -> 0..MaxVersion] /\ \A g \in Files \ {f} : disk'[g] = disk[g]
      /\ faults' = 0 => faults = 0 /\ disk'[f] = v
  BY <1>1, WriteFacts
<1>5. \A s \in Sessions : \/ best'[s] = Newest(s, disk')
                          \/ best'[s] = best[s] /\ Newest(s, disk') <= best[s]
  BY <1>1, <1>4, BestFacts
<1>6. \A s \in Sessions : best'[s] \in Nat /\ best[s] \in Nat
  <2>1. MaxVersion \in Nat BY BoundAssumption
  <2> QED BY <1>1, <2>1 DEF TypeOK
<1>7. ASSUME NEW s \in Sessions, f \notin {Checkpoint(s), Session(s)}
      PROVE  /\ disk'[Session(s)] = disk[Session(s)] /\ best'[s] = best[s]
             /\ Newest(s, disk') = Newest(s, disk)
             /\ checkpoints'[s] = checkpoints[s] /\ sessions'[s] = sessions[s]
  <2>1. /\ disk'[Session(s)] = disk[Session(s)]
        /\ disk'[Checkpoint(s)] = disk[Checkpoint(s)]
    BY <1>4, <1>7, FileFacts
  <2>2. Newest(s, disk') = Newest(s, disk) BY <2>1 DEF Newest
  <2>3. Newest(s, disk) \in Nat /\ Newest(s, disk) <= best[s]
    <3>1. MaxVersion \in Nat /\ disk \in [Files -> 0..MaxVersion]
      BY <1>1, BoundAssumption DEF TypeOK
    <3>2. disk[Checkpoint(s)] <= best[s] /\ disk[Session(s)] <= best[s]
      BY DEF IInv, VersionShape
    <3>3. Newest(s, disk) \in 0..MaxVersion
          /\ (Newest(s, disk) = disk[Checkpoint(s)] \/ Newest(s, disk) = disk[Session(s)])
      BY <3>1, NewestFacts
    <3> QED BY <3>1, <3>2, <3>3
  <2>4. best'[s] >= best[s] BY <1>1, <1>4, BestFacts
  <2>5. best'[s] = best[s] BY <1>5, <1>6, <2>2, <2>3, <2>4
  <2> QED BY <1>7, <2>1, <2>2, <2>5
<1>8. ClearShape'
  <2>1. \A s \in Sessions : ClearNext(s)' <=> ClearNext(s) BY <1>2 DEF ClearNext
  <2>2. ASSUME faults' = 0, NEW s \in Sessions
        PROVE  /\ Fresh(s) => Fresh(s)'
               /\ s \in checkpoint_clears' => Covered(s)'
    <3>1. CASE f \in {Checkpoint(s), Session(s)} BY <1>4, <2>2, <3>1
    <3>2. CASE f \notin {Checkpoint(s), Session(s)}
      <4>1. Fresh(s) => Fresh(s)' BY <1>2, <1>7, <3>2 DEF Fresh, Old
      <4>2. s \in checkpoint_clears => Covered(s)
        BY <1>3, <1>4, <2>2 DEF IInv, ClearShape
      <4> QED BY <1>2, <1>7, <3>2, <4>1, <4>2 DEF Covered
    <3> QED BY <3>1, <3>2
  <2>3. \A i : \A s \in Sessions : OldBefore(s, i) => OldBefore(s, i)'
    BY <1>2 DEF OldBefore
  <2> QED BY <1>2, <1>3, <1>4, <2>1, <2>2, <2>3 DEF IInv, ClearShape
<1>9. RecoverableOutsideCycle'
  <2> SUFFICES ASSUME faults' = 0, NEW s \in Sessions
               PROVE  \/ Newest(s, disk') >= best'[s] \/ best'[s] <= discarded'[s]
                      \/ sessions'[s] > best'[s]
    BY <1>3 DEF RecoverableOutsideCycle, Newest
  <2>1. CASE f \in {Checkpoint(s), Session(s)} BY <1>4, <2>1
  <2>2. CASE f \notin {Checkpoint(s), Session(s)}
    <3>1. Newest(s, disk) >= best[s] \/ best[s] <= discarded[s] \/ sessions[s] > best[s]
      BY <1>3, <1>4 DEF IInv, RecoverableOutsideCycle
    <3> QED BY <1>2, <1>7, <2>2, <3>1
  <2> QED BY <2>1, <2>2
<1> QED BY <1>8, <1>9 DEF IInv

\* The clears: the snapshot that makes the checkpoint dispensable is there or pending.
LEMMA WriteClearsStep ==
  ASSUME IInv, WriteClears
  PROVE  IInv'
<1>1. TypeOK /\ Len(unreported) <= faults BY DEF IInv, ReportShape
<1>2. PICK t \in checkpoint_clears : /\ checkpoint_clears' = checkpoint_clears \ {t}
                                     /\ Write(Checkpoint(t), 0)
  BY DEF WriteClears
<1>3. Writing /\ Remember /\ UNCHANGED Kept /\ UNCHANGED <<checkpoints, sessions, offline_queue>>
  BY DEF WriteClears
<1>4. /\ t \in Sessions /\ checkpoints[t] = 0 /\ 0 \in 0..MaxVersion
  BY <1>1, <1>2, BoundAssumption DEF IInv, ReportShape, TypeOK
<1> DEFINE f == Checkpoint(t)
<1>5. f \in Files /\ (\A s \in Sessions : f # Session(s) /\ (f = Checkpoint(s) => s = t))
      /\ f # Offline
  BY <1>4, FileFacts
<1>6. Buffered(f) = 0 /\ Buffered(f)' = None BY <1>2, <1>3, <1>4, BufferedFacts
<1>7. \A g \in Files \ {f} : Buffered(g)' = Buffered(g)
  <2>1. \A s \in Sessions : Buffered(Session(s))' = Buffered(Session(s))
    BY <1>3, BufferedFacts
  <2>2. \A s \in Sessions \ {t} : Buffered(Checkpoint(s))' = Buffered(Checkpoint(s))
    BY <1>2, <1>3, BufferedFacts
  <2>3. Buffered(Offline)' = Buffered(Offline) BY <1>3, BufferedOffline
  <2> QED BY <2>1, <2>2, <2>3, FileFacts
<1> HIDE DEF f
<1>8. Write(f, 0) BY <1>2 DEF f
<1>9. /\ TypeOK' /\ ReportShape' /\ AskedShape' /\ VersionShape'
      /\ \A s \in Sessions : Old(s) => Old(s)'
  BY <1>1, <1>2, <1>3, <1>4, <1>5, <1>6, <1>7, <1>8, WriteKeeps DEF TypeOK
<1>10. ASSUME NEW s \in Sessions, f = Checkpoint(s), faults = 0, disk'[f] = 0
       PROVE  /\ Fresh(s) => Fresh(s)'
              /\ s \notin checkpoint_clears'
              /\ \/ Newest(s, disk') >= best'[s] \/ best'[s] <= discarded'[s]
                 \/ sessions'[s] > best'[s]
  <2>1. s = t /\ Session(s) # f /\ Session(s) \in Files BY <1>5, <1>10, FileFacts
  <2>2. disk'[Session(s)] = disk[Session(s)] /\ disk' \in [Files -> 0..MaxVersion]
    BY <1>1, <1>4, <1>5, <1>8, <2>1, WriteFacts
  <2>3. MaxVersion \in Nat /\ disk \in [Files -> 0..MaxVersion] /\ best[s] \in Nat
    BY <1>1, BoundAssumption DEF TypeOK
  <2>4. disk[Session(s)] <= best[s] /\ disk[Session(s)] \in Nat
    BY <2>1, <2>3 DEF IInv, VersionShape
  <2>5. Newest(s, disk') = disk[Session(s)]
    BY <1>10, <2>2, <2>4 DEF Newest
  <2>6. best'[s] = best[s]
    BY <1>1, <1>3, <1>10, <2>2, <2>3, <2>4, <2>5, BestFacts
  <2>7. Covered(s)
    BY <1>2, <1>3, <1>10, <2>1 DEF IInv, ClearShape, Writing, Alive
  <2>8. discarded' = discarded BY <1>3 DEF Kept, front
  <2>9. Fresh(s) => Fresh(s)' BY <1>3, <2>2, <2>6, <2>8 DEF Fresh, Old
  <2> QED BY <1>2, <1>3, <2>1, <2>5, <2>6, <2>7, <2>8, <2>9 DEF Covered
<1> QED BY <1>2, <1>3, <1>4, <1>5, <1>8, <1>9, <1>10, WriteEnds

\* A checkpoint that is written is newer than all that was on disk.
LEMMA WriteCheckpointsStep ==
  ASSUME IInv, WriteCheckpoints
  PROVE  IInv'
<1>1. TypeOK /\ Len(unreported) <= faults BY DEF IInv, ReportShape
<1>2. PICK t \in Sessions : /\ checkpoints[t] # 0
                            /\ checkpoints' = [checkpoints EXCEPT ![t] = 0]
                            /\ Write(Checkpoint(t), checkpoints[t])
  BY DEF WriteCheckpoints
<1>3. /\ Writing /\ Remember /\ UNCHANGED Kept /\ checkpoint_clears = {}
      /\ UNCHANGED <<checkpoint_clears, sessions, offline_queue>>
  BY DEF WriteCheckpoints
<1>4. PICK v : v = checkpoints[t] OBVIOUS
<1>5. /\ v \in 0..MaxVersion /\ v # 0 /\ 0 \in 0..MaxVersion
      /\ checkpoints \in [Sessions -> 0..MaxVersion]
  BY <1>1, <1>2, <1>4, BoundAssumption DEF TypeOK
<1>6. /\ checkpoints' \in [Sessions -> 0..MaxVersion]
      /\ \A s \in Sessions : checkpoints'[s] = IF s = t THEN 0 ELSE checkpoints[s]
  BY <1>2, <1>5
<1> DEFINE f == Checkpoint(t)
<1>7. f \in Files /\ (\A s \in Sessions : f # Session(s) /\ (f = Checkpoint(s) => s = t))
      /\ f # Offline
  BY FileFacts
<1>8. Buffered(f) = v /\ Buffered(f)' = None BY <1>3, <1>4, <1>5, <1>6, BufferedFacts
<1>9. \A g \in Files \ {f} : Buffered(g)' = Buffered(g)
  <2>1. \A s \in Sessions : Buffered(Session(s))' = Buffered(Session(s))
    BY <1>3, BufferedFacts
  <2>2. \A s \in Sessions \ {t} : Buffered(Checkpoint(s))' = Buffered(Checkpoint(s))
    BY <1>3, <1>6, BufferedFacts
  <2>3. Buffered(Offline)' = Buffered(Offline) BY <1>3, BufferedOffline
  <2> QED BY <2>1, <2>2, <2>3, FileFacts
<1> HIDE DEF f
<1>10. Write(f, v) BY <1>2, <1>4 DEF f
<1>11. /\ TypeOK' /\ ReportShape' /\ AskedShape' /\ VersionShape'
       /\ \A s \in Sessions : Old(s) => Old(s)'
  BY <1>1, <1>3, <1>4, <1>5, <1>6, <1>7, <1>8, <1>9, <1>10, WriteKeeps DEF TypeOK
<1>12. ASSUME NEW s \in Sessions, f = Checkpoint(s), faults = 0, disk'[f] = v
       PROVE  /\ Fresh(s) => Fresh(s)'
              /\ s \notin checkpoint_clears'
              /\ Newest(s, disk') >= best'[s] \/ sessions'[s] > best'[s]
  <2>1. s = t /\ Session(s) # f /\ Session(s) \in Files BY <1>7, <1>12, FileFacts
  <2>2. disk'[Session(s)] = disk[Session(s)] /\ disk' \in [Files -> 0..MaxVersion]
    BY <1>1, <1>5, <1>7, <1>10, <2>1, WriteFacts
  <2>3. /\ MaxVersion \in Nat /\ disk \in [Files -> 0..MaxVersion] /\ best[s] \in Nat
        /\ sessions[s] \in Nat
    BY <1>1, BoundAssumption DEF TypeOK
  <2>4. disk[Session(s)] <= best[s] /\ disk[Session(s)] \in Nat /\ v > best[s] /\ v \in Nat
    BY <1>4, <1>5, <2>1, <2>3 DEF IInv, VersionShape
  <2>5. Newest(s, disk') = v BY <1>12, <2>2, <2>3, <2>4 DEF Newest
  <2>6. best'[s] = v
    BY <1>1, <1>3, <2>2, <2>3, <2>4, <2>5, BestFacts
  <2>7. Fresh(s) => Fresh(s)'
    <3> SUFFICES ASSUME Fresh(s) PROVE Fresh(s)' OBVIOUS
    <3>1. sessions[s] > checkpoints[s] \/ Old(s) BY <1>4, <1>5, <2>1 DEF Fresh
    <3>2. Old(s) => Old(s)' BY <1>11
    <3> QED BY <1>3, <1>4, <1>6, <2>1, <2>3, <2>4, <2>6, <3>1, <3>2 DEF Fresh
  <2> QED BY <1>3, <2>4, <2>5, <2>6, <2>7
<1>13. \A s \in Sessions : f \notin {Checkpoint(s), Session(s)} =>
         checkpoints'[s] = checkpoints[s] /\ sessions'[s] = sessions[s]
  BY <1>3, <1>6 DEF f
<1>14. \A s \in Sessions :
         f \in {Checkpoint(s), Session(s)} /\ faults = 0 /\ disk'[f] = v =>
           /\ Fresh(s) => Fresh(s)'
           /\ s \in checkpoint_clears' => Covered(s)'
           /\ \/ Newest(s, disk') >= best'[s] \/ best'[s] <= discarded'[s]
              \/ sessions'[s] > best'[s]
  BY <1>7, <1>12
<1> QED BY <1>3, <1>5, <1>7, <1>10, <1>11, <1>13, <1>14, WriteEnds

\* A snapshot replaces an older one, once the checkpoints are written.
LEMMA WriteSessionsStep ==
  ASSUME IInv, WriteSessions
  PROVE  IInv'
<1>1. TypeOK /\ Len(unreported) <= faults BY DEF IInv, ReportShape
<1>2. PICK t \in Sessions : /\ sessions[t] # 0
                            /\ sessions' = [sessions EXCEPT ![t] = 0]
                            /\ Write(Session(t), sessions[t])
  BY DEF WriteSessions
<1>3. /\ Writing /\ Remember /\ UNCHANGED Kept /\ checkpoint_clears = {}
      /\ \A s \in Sessions : checkpoints[s] = 0
      /\ UNCHANGED <<checkpoints, checkpoint_clears, offline_queue>>
  BY DEF WriteSessions, NoSaves
<1>4. PICK v : v = sessions[t] OBVIOUS
<1>5. /\ v \in 0..MaxVersion /\ v # 0 /\ 0 \in 0..MaxVersion
      /\ sessions \in [Sessions -> 0..MaxVersion]
  BY <1>1, <1>2, <1>4, BoundAssumption DEF TypeOK
<1>6. /\ sessions' \in [Sessions -> 0..MaxVersion]
      /\ \A s \in Sessions : sessions'[s] = IF s = t THEN 0 ELSE sessions[s]
  BY <1>2, <1>5
<1> DEFINE f == Session(t)
<1>7. f \in Files /\ (\A s \in Sessions : f # Checkpoint(s) /\ (f = Session(s) => s = t))
      /\ f # Offline
  BY FileFacts
<1>8. Buffered(f) = v /\ Buffered(f)' = None BY <1>4, <1>5, <1>6, BufferedFacts
<1>9. \A g \in Files \ {f} : Buffered(g)' = Buffered(g)
  <2>1. \A s \in Sessions : Buffered(Checkpoint(s))' = Buffered(Checkpoint(s))
    BY <1>3, BufferedFacts
  <2>2. \A s \in Sessions \ {t} : Buffered(Session(s))' = Buffered(Session(s))
    BY <1>6, BufferedFacts
  <2>3. Buffered(Offline)' = Buffered(Offline) BY <1>3, BufferedOffline
  <2> QED BY <2>1, <2>2, <2>3, FileFacts
<1> HIDE DEF f
<1>10. Write(f, v) BY <1>2, <1>4 DEF f
<1>11. /\ TypeOK' /\ ReportShape' /\ AskedShape' /\ VersionShape'
       /\ \A s \in Sessions : Old(s) => Old(s)'
  BY <1>1, <1>3, <1>4, <1>5, <1>6, <1>7, <1>8, <1>9, <1>10, WriteKeeps DEF TypeOK
<1>12. ASSUME NEW s \in Sessions, f = Session(s), faults = 0, disk'[f] = v
       PROVE  /\ Fresh(s) => Fresh(s)'
              /\ Newest(s, disk') >= best'[s] \/ best'[s] <= discarded'[s]
  <2>1. s = t /\ Checkpoint(s) # f /\ Checkpoint(s) \in Files /\ Session(s) \in Files
    BY <1>7, <1>12, FileFacts
  <2>2. /\ disk'[Checkpoint(s)] = disk[Checkpoint(s)] /\ disk' \in [Files -> 0..MaxVersion]
        /\ disk'[Session(s)] = v
    BY <1>1, <1>5, <1>7, <1>10, <1>12, <2>1, WriteFacts
  <2>3. /\ MaxVersion \in Nat /\ disk \in [Files -> 0..MaxVersion] /\ best[s] \in Nat
    BY <1>1, BoundAssumption DEF TypeOK
  <2>4. /\ disk[Session(s)] \in Nat /\ disk[Checkpoint(s)] \in Nat /\ v \in Nat
        /\ disk[Checkpoint(s)] <= best[s] /\ v > disk[Session(s)]
    BY <1>4, <1>5, <2>1, <2>3 DEF IInv, VersionShape
  <2>5. Newest(s, disk) >= best[s] \/ v > best[s] \/ best[s] <= discarded[s]
    BY <1>3, <1>4, <1>12, <2>1 DEF IInv, RecoverableOutsideCycle, Writing, Alive
  <2>6. /\ Newest(s, disk') >= best[s] \/ best[s] <= discarded[s]
        /\ Newest(s, disk') \in Nat /\ discarded' = discarded
        /\ v > best[s] => Newest(s, disk') = v
    BY <1>3, <2>2, <2>3, <2>4, <2>5 DEF Newest, Kept, front
  <2>7. /\ \/ best'[s] = Newest(s, disk')
           \/ best'[s] = best[s] /\ Newest(s, disk') <= best[s]
        /\ best'[s] >= best[s]
    BY <1>1, <1>3, <2>2, BestFacts
  <2>8. Fresh(s) => Fresh(s)'
    <3> SUFFICES ASSUME Fresh(s) PROVE Fresh(s)' OBVIOUS
    <3>1. v > best[s] \/ Old(s) BY <1>4, <1>5, <2>1 DEF Fresh
    <3>2. CASE v > best[s]
      <4>1. best'[s] = v BY <2>3, <2>4, <2>6, <2>7, <3>2
      <4>2. sessions'[s] = 0 /\ checkpoints'[s] = 0 BY <1>3, <1>6, <2>1
      <4> QED BY <2>2, <2>4, <4>1, <4>2 DEF Fresh
    <3>3. CASE Old(s) BY <1>11, <3>3 DEF Fresh
    <3> QED BY <3>1, <3>2, <3>3
  <2> QED BY <2>3, <2>6, <2>7, <2>8
<1>13. \A s \in Sessions : f \notin {Checkpoint(s), Session(s)} =>
         checkpoints'[s] = checkpoints[s] /\ sessions'[s] = sessions[s]
  BY <1>3, <1>6 DEF f
<1>14. \A s \in Sessions :
         f \in {Checkpoint(s), Session(s)} /\ faults = 0 /\ disk'[f] = v =>
           /\ Fresh(s) => Fresh(s)'
           /\ s \in checkpoint_clears' => Covered(s)'
           /\ \/ Newest(s, disk') >= best'[s] \/ best'[s] <= discarded'[s]
              \/ sessions'[s] > best'[s]
  BY <1>3, <1>7, <1>12
<1> QED BY <1>3, <1>5, <1>7, <1>10, <1>11, <1>13, <1>14, WriteEnds

\* The offline queue belongs to no session.
LEMMA WriteOfflineQueueStep ==
  ASSUME IInv, WriteOfflineQueue
  PROVE  IInv'
<1>1. TypeOK /\ Len(unreported) <= faults BY DEF IInv, ReportShape
<1>2. /\ Writing /\ Remember /\ UNCHANGED Kept /\ offline_queue # None /\ offline_queue' = None
      /\ Write(Offline, offline_queue)
      /\ UNCHANGED <<checkpoints, checkpoint_clears, sessions>>
  BY DEF WriteOfflineQueue
<1>3. PICK v : v = offline_queue OBVIOUS
<1>4. v \in 0..MaxVersion /\ Write(Offline, v) BY <1>1, <1>2, <1>3 DEF TypeOK
<1>5. Offline \in Files /\ \A s \in Sessions : Offline \notin {Checkpoint(s), Session(s)}
  BY FileFacts
<1>6. Buffered(Offline) = v /\ Buffered(Offline)' = None BY <1>2, <1>3, BufferedOffline
<1>7. \A g \in Files \ {Offline} : Buffered(g)' = Buffered(g)
  <2>1. \A s \in Sessions : /\ Buffered(Checkpoint(s))' = Buffered(Checkpoint(s))
                            /\ Buffered(Session(s))' = Buffered(Session(s))
    BY <1>2, BufferedFacts
  <2> QED BY <2>1, FileFacts
<1>8. PICK f : f = Offline OBVIOUS
<1>9. /\ TypeOK' /\ ReportShape' /\ AskedShape' /\ VersionShape'
      /\ \A s \in Sessions : Old(s) => Old(s)'
  <2>1. /\ f \in Files /\ Write(f, v) /\ (\A s \in Sessions : f \notin {Checkpoint(s), Session(s)})
        /\ \A g \in Files \ {f} : Buffered(g)' = Buffered(g)
    BY <1>4, <1>5, <1>7, <1>8
  <2>2. Buffered(f) = v /\ Buffered(f)' = None BY <1>6, <1>8 DEF Buffered, Offline
  <2>3. /\ checkpoints' \in [Sessions -> 0..MaxVersion]
        /\ sessions' \in [Sessions -> 0..MaxVersion]
        /\ checkpoint_clears' \subseteq checkpoint_clears
        /\ offline_queue' \in 0..MaxVersion \cup {None}
    BY <1>1, <1>2 DEF TypeOK
  <2> QED BY <1>2, <1>4, <2>1, <2>2, <2>3, WriteKeeps
<1> QED BY <1>2, <1>4, <1>5, <1>9, WriteEnds

\* A crash leaves the files, and nothing else that is looked at.
LEMMA CrashStep ==
  ASSUME IInv, Crash
  PROVE  IInv'
<1>1. TypeOK BY DEF IInv
<1>2. /\ crashes < MaxCrashes /\ crashes' = crashes + 1 /\ actor' = "dead"
      /\ channel' = <<>> /\ unreported' = <<>>
      /\ checkpoints' = NoSaves /\ checkpoint_clears' = {}
      /\ sessions' = NoSaves /\ offline_queue' = None
      /\ UNCHANGED <<ui, clearing, version, asked, discarded, clears, after, report, disk, best,
                     faults>>
  BY DEF Crash, front
<1>3. ~Alive' /\ ~Replying' BY <1>2 DEF Alive, Replying, Writing
<1>4. /\ NoSaves \in [Sessions -> 0..MaxVersion] /\ (\A s \in Sessions : NoSaves[s] = 0)
      /\ crashes' \in 0..MaxCrashes
  BY <1>1, <1>2, BoundAssumption DEF NoSaves, TypeOK
<1>5. /\ Len(channel') = 0 /\ channel' \in Seq(Request \cup {Flush, Shutdown})
      /\ unreported' \in Seq(Files) /\ Len(unreported') <= MaxFailures
      /\ Len(unreported') <= faults'
  BY <1>1, <1>2, BoundAssumption DEF TypeOK
<1>6. TypeOK' BY <1>1, <1>2, <1>4, <1>5 DEF TypeOK
<1>7. ReportShape' BY <1>2, <1>3, <1>5 DEF IInv, ReportShape
<1>8. AskedShape' /\ ClearShape' /\ RecoverableOutsideCycle'
  BY <1>3 DEF AskedShape, ClearShape, RecoverableOutsideCycle
<1>9. VersionShape'
  <2>1. \A s \in Sessions : best[s] < version + 1 /\ disk[Checkpoint(s)] <= best[s]
                            /\ disk[Session(s)] <= best[s] /\ discarded[s] <= version
    BY DEF IInv, VersionShape, Newer
  <2>2. version \in Nat BY <1>1, BoundAssumption DEF TypeOK
  <2>3. Newer(version + 1)' BY <1>2, <1>4, <2>1, <2>2 DEF Newer
  <2> QED BY <1>2, <1>4, <1>5, <2>1, <2>3 DEF VersionShape
<1> QED BY <1>6, <1>7, <1>8, <1>9 DEF IInv

-----------------------------------------------------------------------------
(* The theorems.                                                           *)

\* Every step of the UI, of the actor and a crash keep the invariant.
LEMMA NextIInv == IInv /\ [Next]_vars => IInv'
<1> SUFFICES ASSUME IInv, [Next]_vars PROVE IInv' OBVIOUS
<1>1. CASE Actor
  <2>1. CASE Receive BY <2>1, ReceiveControl, ReceiveRequest
  <2>2. CASE Drained BY <2>2, DrainedStep
  <2>3. CASE WriteClears BY <2>3, WriteClearsStep
  <2>4. CASE WriteCheckpoints BY <2>4, WriteCheckpointsStep
  <2>5. CASE WriteSessions BY <2>5, WriteSessionsStep
  <2>6. CASE WriteOfflineQueue BY <2>6, WriteOfflineQueueStep
  <2>7. CASE CycleEnds BY <2>7, CycleEndsStep
  <2> QED BY <1>1, <2>1, <2>2, <2>3, <2>4, <2>5, <2>6, <2>7 DEF Actor
<1>2. CASE Leave BY <1>2, ClearStep, ExitSteps DEF Leave
<1>3. CASE Crash BY <1>3, CrashStep
<1>4. CASE PersistOfflineQueue BY <1>4, SaveSteps
<1>5. CASE \E s \in Sessions : SaveCheckpoint(s) \/ SaveSnapshot(s) \/ ResetUnsaved(s)
  BY <1>5, SaveSteps, ResetStep
<1>6. CASE \E s \in Sessions \cup {None} : Exit(s) BY <1>6, ExitSteps
<1>7. CASE UNCHANGED vars
  <2>1. UNCHANGED <<ui, clearing, version, asked, discarded, clears, channel, actor, after,
                    checkpoints, checkpoint_clears, sessions, offline_queue, unreported, report, disk, best,
                    faults, crashes>>
    BY <1>7 DEF vars, front, pending
  <2>2. TypeOK' BY <2>1 DEF IInv, TypeOK
  <2>3. ReportShape'
    BY <2>1 DEF IInv, ReportShape, Replying, Writing, NothingPending, Alive
  <2>4. AskedShape' BY <2>1 DEF IInv, AskedShape, Alive, LastFor, Waiting, Buffered, Named
  <2>5. VersionShape' BY <2>1 DEF IInv, VersionShape, Newer
  <2>6. ClearShape'
    BY <2>1 DEF IInv, ClearShape, ClearNext, Fresh, Old, OldBefore, Covered, Alive
  <2>7. RecoverableOutsideCycle' BY <2>1 DEF IInv, RecoverableOutsideCycle, Alive, Writing
  <2> QED BY <2>2, <2>3, <2>4, <2>5, <2>6, <2>7 DEF IInv
<1> QED BY <1>1, <1>2, <1>3, <1>4, <1>5, <1>6, <1>7 DEF Next

\* The inductive invariant holds throughout.
THEOREM Invariance == Spec => []IInv
BY InitIInv, NextIInv, PTL DEF Spec

\* When the UI has its report nothing waits, nothing is pending and no
\* failure is untold: what is not on disk as asked is in the report.
LEMMA ReportComplete == IInv => ReportNamesLosses
<1> SUFFICES ASSUME IInv, report # None, Alive, NEW f \in Files
             PROVE  disk[f] = asked[f] \/ f \in ElementsOf(report) \/ faults > MaxFailures
  BY DEF ReportNamesLosses
<1>1. TypeOK BY DEF IInv
<1>2. /\ NothingPending /\ unreported = <<>>
      /\ \A i \in 1..Len(channel) : channel[i] = Shutdown
  BY DEF IInv, ReportShape
<1>3. ~Waiting(f) BY <1>2, RequestFacts, FileFacts DEF Waiting
<1>4. Buffered(f) = None
  <2>1. \A s \in Sessions : checkpoints[s] = 0 /\ sessions[s] = 0 /\ s \notin checkpoint_clears
    BY <1>2 DEF NothingPending, NoSaves
  <2>2. \A s \in Sessions : Buffered(Checkpoint(s)) = None /\ Buffered(Session(s)) = None
    BY <2>1, BufferedFacts
  <2>3. Buffered(Offline) = None BY <1>2, BufferedOffline DEF NothingPending
  <2> QED BY <2>2, <2>3, FileFacts
<1>5. f \notin ElementsOf(unreported) BY <1>2 DEF ElementsOf
<1> QED BY <1>3, <1>4, <1>5 DEF IInv, AskedShape, Named

\* The final report is complete (FlushAndReport, FlushReport::merge): every
\* file holds what the UI asked for last, or is named as failed, or more
\* operations failed than the list holds, for any number of sessions, saves
\* and failing writes.
THEOREM ReportsAreComplete == Spec => []ReportNamesLosses
BY Invariance, ReportComplete, PTL

\* Without failing writes a session's newest state on disk never gets older,
\* except inside a write cycle, where the newer snapshot is pending
\* (flush_inner writes the clears before the snapshots), and for the states
\* the UI gave up by clearing without a snapshot: a reset that could not build
\* one (persist_full_reset_snapshot) and the exit.  What is saved after such a
\* clear was sent is not lost by it, wherever the clear is by then.
THEOREM StatesRecoverable == Spec => []RecoverableOutsideCycle
<1>1. IInv => RecoverableOutsideCycle BY DEF IInv
<1> QED BY Invariance, <1>1, PTL
=============================================================================
