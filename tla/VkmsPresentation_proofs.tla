------------------------ MODULE VkmsPresentation_proofs ------------------------
(***************************************************************************)
(* One output of the Linux driver, for any number of commits, vblanks,     *)
(* capture clients and threads that close the device: presentations carry  *)
(* the frame and the time of their own flip, the counters on the side are  *)
(* exact, and a closed device has let go of every frame for good.          *)
(*                                                                         *)
(* It rests on the order of the commits.  Only the last one can hold the   *)
(* locks; a tail that has begun has no other before it; so the frame on    *)
(* offer is that of the commit before the first tail, and each tail        *)
(* follows the one before it.                                              *)
(***************************************************************************)
EXTENDS VkmsPresentation, FiniteSetTheorems, SequenceTheorems, TLAPS

Frames == Framebuffers \cup {NoFramebuffer}
Scanout == [on : BOOLEAN, fb : Frames]

\* A CRTC is on with a framebuffer on its plane, and off without.
Consistent(s) == s.on <=> s.fb # NoFramebuffer

Early == {"locked", "counted", "queued"}
Late == {"flushed", "stamped", "published"}

CommitRecord ==
    [phase : Early \cup Late, by : Closers \cup {Client}, kind : {"flip", "property", "off"},
     fb : Frames, content : BOOLEAN, nonblock : BOOLEAN, kms : Scanout, scanoutChanged : BOOLEAN,
     armed : BOOLEAN, flipDone : BOOLEAN, flippedAt : Nat, timing : BOOLEAN, timestamp : Nat]

IsCommit(c) ==
    /\ c \in CommitRecord
    /\ Consistent(c.kms)
    /\ c.kind = "flip" <=> c.fb # NoFramebuffer

Types ==
    /\ kms \in Scanout /\ Consistent(kms)
    /\ commits \in Seq(CommitRecord \cup {Done})
    /\ \A k \in DOMAIN commits : commits[k] = Done \/ IsCommit(commits[k])
    /\ clock \in Nat \ {0} /\ vblankOn \in BOOLEAN /\ inHandler \in BOOLEAN /\ slot \in Nat
    /\ sequence \in Nat /\ timestamp \in 0..clock /\ presentFb \in Frames
    /\ published \in Seq([fb : Frames, timestamp : Nat])
    /\ trace \in [0..HistorySize-1 -> [sequence : Nat, timestamp : Nat]]

-----------------------------------------------------------------------------
(* The commits.                                                            *)

\* A commit whose thread has the modeset lock.
Holds(c) == c.phase \in {"locked", "counted"} \/ (c.phase # "done" /\ ~c.nonblock)

\* Only the last commit can have the locks.
Locks ==
    /\ \A k \in DOMAIN commits : Holds(commits[k]) => k = Len(commits) /\ modesetLock = commits[k].by
    /\ modesetLock # NoThread => Len(commits) > 0 /\ Holds(commits[Len(commits)])
    /\ commitLock # NoThread <=>
           /\ Len(commits) > 0
           /\ Holds(commits[Len(commits)]) /\ commits[Len(commits)].phase # "locked"

\* A tail begins when the earlier ones are over.
Order ==
    \A k \in DOMAIN commits :
        commits[k].phase \in Late => \A j \in 1..k-1 : commits[j] = Done

\* How far the flip of a commit is, and what it has for a timestamp.
Flip(k) ==
    LET c == commits[k] IN
    /\ c.phase \in Early =>
           c.flippedAt = 0 /\ c.timestamp = 0 /\ ~c.armed /\ ~c.flipDone
    /\ c.phase = "flushed" =>
           \/ c.armed /\ ~c.flipDone /\ c.flippedAt = 0 /\ c.timestamp = 0 /\ slot = k
           \/ /\ ~c.armed /\ c.flipDone /\ c.timestamp = 0 /\ c.flippedAt = clock
              /\ inHandler /\ slot = k
           \/ ~c.armed /\ c.timestamp # 0 /\ c.timestamp = c.flippedAt
    /\ c.phase \in {"stamped", "published"} =>
           c.timestamp # 0 /\ (c.flippedAt # 0 => c.timestamp = c.flippedAt)
    /\ c.timestamp # 0 => timestamp <= c.timestamp /\ c.timestamp <= clock

Flips ==
    /\ \A k \in DOMAIN commits : commits[k] # Done => Flip(k)
    /\ slot # 0 => At(slot, "flushed") /\ commits[slot].timestamp = 0

\* The tail of the commit has still to publish.
InTail(k) == commits[k].phase \in {"queued", "flushed", "stamped"}

\* The framebuffer on the plane before commit k.
Before(k, fb) ==
    \/ fb = presentFb /\ \A j \in 1..k-1 : ~InTail(j)
    \/ \E j \in 1..k-1 :
           /\ InTail(j) /\ fb = commits[j].kms.fb
           /\ \A i \in j+1..k-1 : ~InTail(i)

\* What a commit shows, where the plane had fb.
Follows(c, fb) ==
    /\ c.kind # "property" => c.kms.fb = c.fb
    /\ c.kind = "property" \/ ~c.scanoutChanged => c.kms.fb = fb

Chain ==
    /\ \A k \in DOMAIN commits : InTail(k) => \A fb \in Frames : Before(k, fb) => Follows(commits[k], fb)
    /\ Before(Len(commits) + 1, kms.fb)

\* The history of the presentations.
History ==
    /\ sequence = Len(published)
    /\ \A i \in 1..Len(published)-1 : published[i].timestamp <= published[i+1].timestamp
    /\ sequence > 0 => timestamp = published[sequence].timestamp /\ presentFb = published[sequence].fb
    /\ sequence = 0 => presentFb = NoFramebuffer

Traced ==
    \A s \in 1..sequence : s + HistorySize > sequence =>
        trace[TraceSlot(s)] = [sequence |-> s, timestamp |-> published[s].timestamp]

-----------------------------------------------------------------------------
(* The threads that close the device.                                      *)

Sites == {"idle", "quiescing", "deciding", "stopping", "turningOff", "released", "unplugging",
          "unplug", "leaving", "ended"}

\* The thread that stops the commits, and the device that has stopped them.
Stops(t) == closers[t] \in {"stopping", "turningOff", "released"}
Over == ~accepting /\ owner = NoThread

\* No commit is left that could show a frame.
Quiet ==
    /\ ~kms.on
    /\ \A k \in DOMAIN commits :
           commits[k] = Done \/ (commits[k].phase = "locked" /\ commits[k].by = Client)

Owners ==
    /\ closers \in [Closers -> Sites]
    /\ accepting \in BOOLEAN /\ unplugged \in BOOLEAN /\ unplugs \in {0, 1}
    /\ \A t \in Closers : Stops(t) \/ closers[t] \in {"deciding", "unplug"} => shutdownLock = t
    /\ \A t \in Closers : Stops(t) => owner = t /\ ~accepting
    /\ owner # NoThread => owner \in Closers /\ Stops(owner)
    /\ \A t \in Closers : closers[t] \in {"unplugging", "unplug", "leaving", "ended"} => Over
    /\ \A t \in Closers : closers[t] = "unplug" => unplugs = 0
    /\ unplugged => Over
    /\ unplugs = 1 \/ (\E t \in Closers : closers[t] = "unplug") => unplugged

\* A commit of such a thread is the last one, and turns the outputs off.
Closes(k) ==
    /\ closers[commits[k].by] = "turningOff"
    /\ commits[k].kind = "off" /\ ~commits[k].nonblock
    /\ commits[k].phase \notin {"locked", "counted"} => ~kms.on

\* When no frame may be on offer any more, and when no commit may be left.
Shut == Over \/ \E t \in Closers : closers[t] = "released"
Hushed == Shut \/ \E t \in Closers : closers[t] = "turningOff" /\ modesetLock # t

Closing ==
    /\ \A k \in DOMAIN commits : commits[k] # Done /\ commits[k].by # Client => Closes(k)
    /\ Hushed => Quiet
    /\ Shut => presentFb = NoFramebuffer

-----------------------------------------------------------------------------
(* Counters.                                                               *)

Counting == {k \in DOMAIN commits : commits[k].phase \in {"counted", "queued", "flushed", "stamped"}}
Waiting == {w \in Waiters : waiters[w].at # "idle"}
Reading(fb) == {r \in Readers : readers[r] = fb}

Clients ==
    /\ waiters \in [Waiters -> [at : {"idle", "awake", "asleep", "leaving"}, knows : Nat]]
    /\ readers \in [Readers -> Frames]
    /\ references \in [Framebuffers -> Int] /\ pending \in Int /\ waiterCount \in Int

CommitInv == Types /\ Locks /\ Order /\ Flips
ShowInv == Chain /\ History /\ Traced
CloseInv == Owners /\ Closing
CountInv == Clients /\ CountersExact /\ NoSleeperLeftBehind

Inv == CommitInv /\ ShowInv /\ CloseInv /\ CountInv

-----------------------------------------------------------------------------
(* What a commit becomes.                                                  *)

LEMMA DoneRecord ==
  Done.phase = "done" /\ ~Done.nonblock /\ ~Holds(Done)
BY DEF Done, Holds

LEMMA CommitNotDone ==
  ASSUME NEW c, IsCommit(c)
  PROVE  c # Done /\ c.phase \in Early \cup Late
<1>1. c.phase \in Early \cup Late
  BY DEF IsCommit, CommitRecord
<1> QED
  BY <1>1, DoneRecord DEF Early, Late

\* The commit keeps who makes it and what it changes.
SameChange(c, d) ==
    /\ d.by = c.by /\ d.kind = c.kind /\ d.fb = c.fb /\ d.content = c.content
    /\ d.nonblock = c.nonblock

\* ... and what its tail shows, and when.
SameScanout(c, d) == d.kms = c.kms /\ d.scanoutChanged = c.scanoutChanged
SameFlip(c, d) ==
    /\ d.armed = c.armed /\ d.flipDone = c.flipDone
    /\ d.flippedAt = c.flippedAt /\ d.timestamp = c.timestamp

LEMMA AtPhase ==
  ASSUME NEW c, IsCommit(c), NEW phase \in Early \cup Late
  PROVE  LET d == [c EXCEPT !.phase = phase]
         IN  IsCommit(d) /\ d.phase = phase /\ SameChange(c, d) /\ SameScanout(c, d) /\ SameFlip(c, d)
BY DEF IsCommit, CommitRecord, SameChange, SameScanout, SameFlip, Consistent

\* What a step of a commit makes of its record.
Swapped(c, s, b) ==
    [c EXCEPT !.phase = "queued", !.kms = s, !.scanoutChanged = b]
Immediate(c, n) ==
    [c EXCEPT !.phase = "flushed", !.flipDone = TRUE, !.flippedAt = n, !.timestamp = n]
ArmedFlush(c) ==
    [c EXCEPT !.phase = "flushed", !.armed = TRUE, !.timing = TRUE]
FlippedBy(c, n) ==
    [c EXCEPT !.armed = FALSE, !.flipDone = TRUE, !.flippedAt = n]
StampedAt(c, n) ==
    [c EXCEPT !.timing = FALSE, !.timestamp = n]
Taken(c, n) ==
    [c EXCEPT !.phase = "stamped", !.timing = FALSE, !.timestamp = n]

LEMMA SwappedRecord ==
  ASSUME NEW c, IsCommit(c), NEW s \in Scanout, Consistent(s), NEW b \in BOOLEAN
  PROVE  LET d == Swapped(c, s, b)
         IN  /\ IsCommit(d) /\ d.phase = "queued" /\ d.kms = s /\ d.scanoutChanged = b
             /\ SameChange(c, d) /\ SameFlip(c, d)
<1> DEFINE u == [c EXCEPT !.phase = "queued"]
           v == [u EXCEPT !.kms = s]
           d == [v EXCEPT !.scanoutChanged = b]
<1>1. IsCommit(u) /\ u.phase = "queued" /\ SameChange(c, u) /\ SameFlip(c, u)
  BY AtPhase DEF Early
<1> HIDE DEF u
<1>2. IsCommit(v) /\ v.phase = "queued" /\ v.kms = s /\ SameChange(c, v) /\ SameFlip(c, v)
  BY <1>1 DEF IsCommit, CommitRecord, SameChange, SameFlip
<1> HIDE DEF v
<1>3. /\ IsCommit(d) /\ d.phase = "queued" /\ d.kms = s /\ d.scanoutChanged = b
      /\ SameChange(c, d) /\ SameFlip(c, d)
  BY <1>2 DEF IsCommit, CommitRecord, SameChange, SameFlip
<1>4. d = Swapped(c, s, b)
  BY DEF Swapped, u, v
<1> HIDE DEF d
<1> QED
  BY <1>3, <1>4

\* One field of the flip.
Keeps(c, d) == SameChange(c, d) /\ SameScanout(c, d)

LEMMA Armed ==
  ASSUME NEW c, IsCommit(c), NEW b \in BOOLEAN
  PROVE  LET d == [c EXCEPT !.armed = b]
         IN  /\ IsCommit(d) /\ Keeps(c, d) /\ d.phase = c.phase /\ d.armed = b
             /\ d.flipDone = c.flipDone /\ d.flippedAt = c.flippedAt /\ d.timestamp = c.timestamp
BY DEF IsCommit, CommitRecord, Keeps, SameChange, SameScanout, Consistent

LEMMA Flipped ==
  ASSUME NEW c, IsCommit(c), NEW b \in BOOLEAN
  PROVE  LET d == [c EXCEPT !.flipDone = b]
         IN  /\ IsCommit(d) /\ Keeps(c, d) /\ d.phase = c.phase /\ d.flipDone = b
             /\ d.armed = c.armed /\ d.flippedAt = c.flippedAt /\ d.timestamp = c.timestamp
BY DEF IsCommit, CommitRecord, Keeps, SameChange, SameScanout, Consistent

LEMMA FlippedAt ==
  ASSUME NEW c, IsCommit(c), NEW n \in Nat
  PROVE  LET d == [c EXCEPT !.flippedAt = n]
         IN  /\ IsCommit(d) /\ Keeps(c, d) /\ d.phase = c.phase /\ d.flippedAt = n
             /\ d.armed = c.armed /\ d.flipDone = c.flipDone /\ d.timestamp = c.timestamp
BY DEF IsCommit, CommitRecord, Keeps, SameChange, SameScanout, Consistent

LEMMA Timing ==
  ASSUME NEW c, IsCommit(c), NEW b \in BOOLEAN
  PROVE  LET d == [c EXCEPT !.timing = b]
         IN  IsCommit(d) /\ Keeps(c, d) /\ d.phase = c.phase /\ SameFlip(c, d)
BY DEF IsCommit, CommitRecord, Keeps, SameChange, SameScanout, SameFlip, Consistent

LEMMA Timestamp ==
  ASSUME NEW c, IsCommit(c), NEW n \in Nat
  PROVE  LET d == [c EXCEPT !.timestamp = n]
         IN  /\ IsCommit(d) /\ Keeps(c, d) /\ d.phase = c.phase /\ d.timestamp = n
             /\ d.armed = c.armed /\ d.flipDone = c.flipDone /\ d.flippedAt = c.flippedAt
BY DEF IsCommit, CommitRecord, Keeps, SameChange, SameScanout, Consistent

LEMMA ImmediateRecord ==
  ASSUME NEW c, IsCommit(c), NEW n \in Nat
  PROVE  LET d == Immediate(c, n)
         IN  /\ IsCommit(d) /\ Keeps(c, d) /\ d.phase = "flushed"
             /\ d.armed = c.armed /\ d.flipDone /\ d.flippedAt = n /\ d.timestamp = n
<1> DEFINE u == [c EXCEPT !.phase = "flushed"]
           v == [u EXCEPT !.flipDone = TRUE]
           w == [v EXCEPT !.flippedAt = n]
           d == [w EXCEPT !.timestamp = n]
<1>1. IsCommit(u) /\ Keeps(c, u) /\ u.phase = "flushed" /\ SameFlip(c, u)
  BY AtPhase DEF Late, Keeps
<1> HIDE DEF u
<1>2. IsCommit(v) /\ Keeps(u, v) /\ v.phase = "flushed" /\ v.armed = c.armed /\ v.flipDone
  BY <1>1, Flipped DEF SameFlip
<1> HIDE DEF v
<1>3. /\ IsCommit(w) /\ Keeps(v, w) /\ w.phase = "flushed" /\ w.armed = c.armed /\ w.flipDone
      /\ w.flippedAt = n
  BY <1>2, FlippedAt
<1> HIDE DEF w
<1>4. /\ IsCommit(d) /\ Keeps(w, d) /\ d.phase = "flushed" /\ d.armed = c.armed /\ d.flipDone
      /\ d.flippedAt = n /\ d.timestamp = n
  BY <1>3, Timestamp
<1>5. d = Immediate(c, n)
  BY DEF Immediate, u, v, w
<1> HIDE DEF d
<1>6. Keeps(c, d)
  BY <1>1, <1>2, <1>3, <1>4 DEF Keeps, SameChange, SameScanout
<1> QED
  BY <1>4, <1>5, <1>6

LEMMA ArmedRecord ==
  ASSUME NEW c, IsCommit(c)
  PROVE  LET d == ArmedFlush(c)
         IN  /\ IsCommit(d) /\ Keeps(c, d) /\ d.phase = "flushed"
             /\ d.armed /\ d.flipDone = c.flipDone
             /\ d.flippedAt = c.flippedAt /\ d.timestamp = c.timestamp
<1> DEFINE u == [c EXCEPT !.phase = "flushed"]
           v == [u EXCEPT !.armed = TRUE]
           d == [v EXCEPT !.timing = TRUE]
<1>1. IsCommit(u) /\ Keeps(c, u) /\ u.phase = "flushed" /\ SameFlip(c, u)
  BY AtPhase DEF Late, Keeps
<1> HIDE DEF u
<1>2. /\ IsCommit(v) /\ Keeps(u, v) /\ v.phase = "flushed" /\ v.armed /\ v.flipDone = c.flipDone
      /\ v.flippedAt = c.flippedAt /\ v.timestamp = c.timestamp
  BY <1>1, Armed DEF SameFlip
<1> HIDE DEF v
<1>3. IsCommit(d) /\ Keeps(v, d) /\ d.phase = "flushed" /\ SameFlip(v, d)
  BY <1>2, Timing
<1>4. d = ArmedFlush(c)
  BY DEF ArmedFlush, u, v
<1> HIDE DEF d
<1>5. Keeps(c, d)
  BY <1>1, <1>2, <1>3 DEF Keeps, SameChange, SameScanout
<1> QED
  BY <1>2, <1>3, <1>4, <1>5 DEF SameFlip

LEMMA FlippedRecord ==
  ASSUME NEW c, IsCommit(c), NEW n \in Nat
  PROVE  LET d == FlippedBy(c, n)
         IN  /\ IsCommit(d) /\ Keeps(c, d) /\ d.phase = c.phase
             /\ ~d.armed /\ d.flipDone /\ d.flippedAt = n /\ d.timestamp = c.timestamp
<1> DEFINE u == [c EXCEPT !.armed = FALSE]
           v == [u EXCEPT !.flipDone = TRUE]
           d == [v EXCEPT !.flippedAt = n]
<1>1. /\ IsCommit(u) /\ Keeps(c, u) /\ u.phase = c.phase /\ ~u.armed /\ u.timestamp = c.timestamp
  BY Armed
<1> HIDE DEF u
<1>2. /\ IsCommit(v) /\ Keeps(u, v) /\ v.phase = c.phase /\ ~v.armed /\ v.flipDone
      /\ v.timestamp = c.timestamp
  BY <1>1, Flipped
<1> HIDE DEF v
<1>3. /\ IsCommit(d) /\ Keeps(v, d) /\ d.phase = c.phase /\ ~d.armed /\ d.flipDone
      /\ d.flippedAt = n /\ d.timestamp = c.timestamp
  BY <1>2, FlippedAt
<1>4. d = FlippedBy(c, n)
  BY DEF FlippedBy, u, v
<1> HIDE DEF d
<1>5. Keeps(c, d)
  BY <1>1, <1>2, <1>3 DEF Keeps, SameChange, SameScanout
<1> QED
  BY <1>3, <1>4, <1>5

LEMMA StampedRecord ==
  ASSUME NEW c, IsCommit(c), NEW n \in Nat
  PROVE  LET d == StampedAt(c, n)
         IN  /\ IsCommit(d) /\ Keeps(c, d) /\ d.phase = c.phase
             /\ d.armed = c.armed /\ d.flipDone = c.flipDone /\ d.flippedAt = c.flippedAt
             /\ d.timestamp = n
<1> DEFINE u == [c EXCEPT !.timing = FALSE]
           d == [u EXCEPT !.timestamp = n]
<1>1. IsCommit(u) /\ Keeps(c, u) /\ u.phase = c.phase /\ SameFlip(c, u)
  BY Timing
<1> HIDE DEF u
<1>2. /\ IsCommit(d) /\ Keeps(u, d) /\ d.phase = c.phase /\ d.armed = c.armed
      /\ d.flipDone = c.flipDone /\ d.flippedAt = c.flippedAt /\ d.timestamp = n
  BY <1>1, Timestamp DEF SameFlip
<1>3. d = StampedAt(c, n)
  BY DEF StampedAt, u
<1> HIDE DEF d
<1>4. Keeps(c, d)
  BY <1>1, <1>2 DEF Keeps, SameChange, SameScanout
<1> QED
  BY <1>2, <1>3, <1>4

LEMMA TakenRecord ==
  ASSUME NEW c, IsCommit(c), NEW n \in Nat
  PROVE  LET d == Taken(c, n)
         IN  /\ IsCommit(d) /\ Keeps(c, d) /\ d.phase = "stamped"
             /\ d.flippedAt = c.flippedAt /\ d.timestamp = n
<1> DEFINE u == [c EXCEPT !.phase = "stamped"]
           d == StampedAt(u, n)
<1>1. IsCommit(u) /\ Keeps(c, u) /\ u.phase = "stamped" /\ SameFlip(c, u)
  BY AtPhase DEF Late, Keeps
<1> HIDE DEF u
<1>2. IsCommit(d) /\ Keeps(u, d) /\ d.phase = "stamped" /\ d.flippedAt = c.flippedAt /\ d.timestamp = n
  BY <1>1, StampedRecord DEF SameFlip
<1>3. d = Taken(c, n)
  BY DEF Taken, StampedAt, u
<1> HIDE DEF d
<1>4. Keeps(c, d)
  BY <1>1, <1>2 DEF Keeps, SameChange, SameScanout
<1> QED
  BY <1>2, <1>3, <1>4

-----------------------------------------------------------------------------
(* Steps of one commit.                                                    *)

Moves(k) ==
    /\ k \in DOMAIN commits
    /\ commits' \in Seq(CommitRecord \cup {Done})
    /\ DOMAIN commits' = DOMAIN commits /\ Len(commits') = Len(commits)
    /\ commits'[k] = Done \/ IsCommit(commits'[k])
    /\ \A j \in DOMAIN commits : j # k => commits'[j] = commits[j]

LEMMA Domain ==
  ASSUME Types
  PROVE  DOMAIN commits = 1..Len(commits) /\ Len(commits) \in Nat
BY DEF Types

LEMMA CommitTyped ==
  ASSUME Types, NEW k \in DOMAIN commits, commits[k] # Done
  PROVE  IsCommit(commits[k])
BY DEF Types

LEMMA PhaseTyped ==
  ASSUME Types, NEW k, NEW phase \in Early \cup Late, At(k, phase)
  PROVE  k \in DOMAIN commits /\ commits[k].phase = phase /\ IsCommit(commits[k]) /\ commits[k] # Done
<1>1. k \in DOMAIN commits /\ commits[k].phase = phase
  BY DEF At
<1>2. commits[k] # Done
  BY <1>1, DoneRecord DEF Early, Late
<1> QED
  BY <1>1, <1>2, CommitTyped

LEMMA Updated ==
  ASSUME Types, NEW k \in DOMAIN commits, NEW c, c = Done \/ IsCommit(c),
         commits' = [commits EXCEPT ![k] = c]
  PROVE  Moves(k) /\ commits'[k] = c
<1> DEFINE S == CommitRecord \cup {Done}
<1>1. c \in S
  BY DEF IsCommit
<1>2. commits \in Seq(S) /\ k \in 1..Len(commits) /\ DOMAIN commits = 1..Len(commits)
  BY Domain DEF Types
<1> HIDE DEF S
<1>3. /\ commits' \in Seq(S) /\ Len(commits') = Len(commits)
      /\ \A j \in 1..Len(commits) : commits'[j] = IF j = k THEN c ELSE commits[j]
  BY <1>1, <1>2, ExceptSeq
<1>4. DOMAIN commits' = 1..Len(commits)
  BY <1>3
<1> QED
  BY <1>2, <1>3, <1>4 DEF Moves, S

LEMMA MovesTyped ==
  ASSUME Types, NEW k, Moves(k)
  PROVE  \A j \in DOMAIN commits' : commits'[j] = Done \/ IsCommit(commits'[j])
BY DEF Types, Moves

\* The last commit holds what it held, or gives it up.
LEMMA LocksKept ==
  ASSUME Types, Locks, NEW k, Moves(k), UNCHANGED locks,
         Holds(commits'[k]) <=> Holds(commits[k]),
         Holds(commits[k]) => /\ commits'[k].by = commits[k].by
                              /\ commits'[k].phase = "locked" <=> commits[k].phase = "locked"
  PROVE  Locks'
<1>1. DOMAIN commits = 1..Len(commits) /\ Len(commits) \in Nat
  BY Domain
<1>2. \A j \in DOMAIN commits :
         /\ Holds(commits'[j]) <=> Holds(commits[j])
         /\ Holds(commits[j]) => /\ commits'[j].by = commits[j].by
                                 /\ commits'[j].phase = "locked" <=> commits[j].phase = "locked"
  BY DEF Moves
<1>3. Len(commits) > 0 => Len(commits) \in DOMAIN commits
  BY <1>1
<1> QED
  BY <1>1, <1>2, <1>3 DEF Locks, locks, Moves

LEMMA LocksLeft ==
  ASSUME Types, Locks, NEW k, Moves(k), Holds(commits[k]), ~Holds(commits'[k]),
         modesetLock' = NoThread, commitLock' = NoThread
  PROVE  Locks'
<1>1. DOMAIN commits = 1..Len(commits) /\ Len(commits) \in Nat
  BY Domain
<1>2. k = Len(commits)
  BY DEF Locks, Moves
<1>3. \A j \in DOMAIN commits : ~Holds(commits'[j])
  BY <1>1, <1>2 DEF Locks, Moves
<1>4. Len(commits) > 0 => Len(commits) \in DOMAIN commits
  BY <1>1
<1> QED
  BY <1>1, <1>3, <1>4 DEF Locks, Moves

LEMMA OrderKept ==
  ASSUME Types, Order, NEW k, Moves(k), commits[k] # Done,
         commits'[k].phase \in Late =>
             commits[k].phase \in Late \/ \A j \in 1..k-1 : commits[j] = Done
  PROVE  Order'
<1>1. DOMAIN commits = 1..Len(commits) /\ Len(commits) \in Nat
  BY Domain
<1> SUFFICES ASSUME NEW i \in DOMAIN commits, commits'[i].phase \in Late, NEW j \in 1..i-1
             PROVE  commits'[j] = Done
  BY DEF Order, Moves
<1>2. \A h \in 1..i-1 : commits[h] = Done
  BY DEF Order, Moves
<1>3. j \in DOMAIN commits /\ j # k
  BY <1>1, <1>2
<1> QED
  BY <1>2, <1>3 DEF Moves

\* While a tail is under way, or one may begin, the others are early or over.
LEMMA OthersEarly ==
  ASSUME Types, Order, NEW k \in DOMAIN commits, commits[k] # Done,
         commits[k].phase \in Late \/ \A j \in 1..k-1 : commits[j] = Done
  PROVE  \A j \in DOMAIN commits : j # k => commits[j] = Done \/ commits[j].phase \in Early
<1>1. DOMAIN commits = 1..Len(commits) /\ Len(commits) \in Nat
  BY Domain
<1> SUFFICES ASSUME NEW j \in DOMAIN commits, j # k, commits[j] # Done, commits[j].phase \notin Early
             PROVE  FALSE
  OBVIOUS
<1>2. commits[j].phase \in Late
  BY CommitTyped, CommitNotDone
<1>3. \A h \in 1..j-1 : commits[h] = Done
  BY <1>2 DEF Order
<1>4. \A h \in 1..k-1 : commits[h] = Done
  BY DEF Order
<1> QED
  BY <1>1, <1>3, <1>4

LEMMA FlipsStep ==
  ASSUME Types, Flips, NEW k, Moves(k), commits'[k] # Done => Flip(k)',
         slot' # 0 => At(slot, "flushed")' /\ commits'[slot'].timestamp = 0,
         \/ UNCHANGED <<clock, inHandler, slot, timestamp>>
         \/ \A j \in DOMAIN commits : j # k => commits[j] = Done \/ commits[j].phase \in Early
  PROVE  Flips'
<1>1. ASSUME NEW j \in DOMAIN commits, j # k, commits'[j] # Done PROVE Flip(j)'
  <2>1. commits'[j] = commits[j] /\ commits[j] # Done /\ Flip(j)
    BY <1>1 DEF Flips, Moves
  <2>2. CASE commits[j].phase \in Early
    BY <2>1, <2>2 DEF Flip, Early
  <2>3. CASE UNCHANGED <<clock, inHandler, slot, timestamp>>
    BY <2>1, <2>3 DEF Flip
  <2> QED
    BY <1>1, <2>1, <2>2, <2>3
<1> QED
  BY <1>1 DEF Flips, Moves

-----------------------------------------------------------------------------
(* What the tails show, one after the other.                               *)

LEMMA BeforeUnique ==
  ASSUME Types, NEW k \in 1..Len(commits)+1, NEW fb, NEW gb, Before(k, fb), Before(k, gb)
  PROVE  fb = gb
<1>1. CASE \A j \in 1..k-1 : ~InTail(j)
  BY <1>1 DEF Before
<1>2. CASE \E j \in 1..k-1 : InTail(j)
  <2>1. PICK j \in 1..k-1 : /\ InTail(j) /\ fb = commits[j].kms.fb
                            /\ \A i \in j+1..k-1 : ~InTail(i)
    BY <1>2 DEF Before
  <2>2. PICK h \in 1..k-1 : /\ InTail(h) /\ gb = commits[h].kms.fb
                            /\ \A i \in h+1..k-1 : ~InTail(i)
    BY <1>2 DEF Before
  <2>3. j = h
    BY <2>1, <2>2, Domain
  <2> QED
    BY <2>1, <2>2, <2>3
<1> QED
  BY <1>1, <1>2

\* The same tails, with the same scanout, on the same frame.
SameTails ==
    /\ \A j \in DOMAIN commits : InTail(j)' <=> InTail(j)
    /\ \A j \in DOMAIN commits : InTail(j) => commits'[j].kms = commits[j].kms
    /\ presentFb' = presentFb

LEMMA BeforeKept ==
  ASSUME Types, SameTails, NEW k \in 1..Len(commits)+1, NEW fb
  PROVE  Before(k, fb)' <=> Before(k, fb)
<1>1. 1..k-1 \subseteq DOMAIN commits
  BY Domain
<1>2. \A j \in 1..k-1 : (InTail(j)' <=> InTail(j)) /\ (InTail(j) => commits'[j].kms.fb = commits[j].kms.fb)
  BY <1>1 DEF SameTails
<1>3. \A j \in 1..k-1 : \A i \in j+1..k-1 : i \in 1..k-1
  BY Domain
<1> QED
  BY <1>2, <1>3 DEF Before, SameTails

LEMMA ChainKept ==
  ASSUME Types, Chain, NEW k, Moves(k), UNCHANGED <<kms, presentFb>>,
         InTail(k)' <=> InTail(k),
         InTail(k) => Keeps(commits[k], commits'[k])
  PROVE  Chain'
<1>1. SameTails
  BY DEF SameTails, Moves, InTail, Keeps, SameScanout
<1>2. \A j \in 1..Len(commits)+1 : \A fb : Before(j, fb)' <=> Before(j, fb)
  BY <1>1, BeforeKept
<1>3. Before(Len(commits) + 1, kms.fb)'
  <2> DEFINE n == Len(commits) + 1
             fb == kms.fb
  <2>1. n \in 1..Len(commits)+1
    BY Domain
  <2>2. Before(n, fb)
    BY DEF Chain
  <2>3. n' = n /\ fb' = fb
    BY DEF Moves
  <2> HIDE DEF n, fb
  <2>4. PICK m, gb : m = n /\ gb = fb
    OBVIOUS
  <2>5. Before(m, gb)'
    BY <1>2, <2>1, <2>2, <2>4
  <2>6. Before(n, fb)'
    BY <2>3, <2>4, <2>5 DEF Before
  <2> QED
    BY <2>6 DEF n, fb
<1>4. ASSUME NEW j \in DOMAIN commits, InTail(j)', NEW fb \in Frames, Before(j, fb)'
      PROVE  Follows(commits'[j], fb)
  <2>1. j \in 1..Len(commits)+1
    BY Domain
  <2>2. InTail(j) /\ Before(j, fb)
    BY <1>1, <1>2, <1>4, <2>1 DEF SameTails
  <2>3. Follows(commits[j], fb)
    BY <2>2 DEF Chain
  <2>4. commits'[j] = commits[j] \/ Keeps(commits[j], commits'[j])
    BY <2>2 DEF Moves
  <2> QED
    BY <2>3, <2>4 DEF Follows, Keeps, SameChange, SameScanout
<1> QED
  BY <1>3, <1>4 DEF Chain, Moves

\* With no tail left the frame on offer is that on the plane.
LEMMA NoTails ==
  ASSUME Types, Chain, \A j \in DOMAIN commits : ~InTail(j)
  PROVE  presentFb = kms.fb
<1>1. Before(Len(commits) + 1, kms.fb)
  BY DEF Chain
<1>2. \A j \in 1..Len(commits)+1-1 : ~InTail(j)
  BY Domain
<1> QED
  BY <1>1, <1>2 DEF Before

\* The last commit joins the tails, and puts its frame on the plane.
LEMMA ChainSwap ==
  ASSUME Types, Chain, NEW k, Moves(k), k = Len(commits), ~InTail(k), InTail(k)',
         kms'.fb = commits'[k].kms.fb, Follows(commits'[k], kms.fb), presentFb' = presentFb
  PROVE  Chain'
<1>1. DOMAIN commits = 1..Len(commits) /\ Len(commits) \in Nat /\ k \in DOMAIN commits
  BY Domain DEF Moves
<1>2. \A j \in 1..k-1 : commits'[j] = commits[j] /\ (InTail(j)' <=> InTail(j))
  BY <1>1 DEF Moves, InTail
<1>3. ASSUME NEW j \in 1..k, NEW fb, Before(j, fb)' PROVE Before(j, fb)
  <2>1. \A i \in 1..j-1 : i \in 1..k-1
    BY <1>1
  <2>2. \A h \in 1..j-1 : \A i \in h+1..j-1 : i \in 1..k-1
    BY <1>1
  <2> QED
    BY <1>2, <1>3, <2>1, <2>2 DEF Before
<1>4. Before(k, kms.fb)
  <2>1. Before(k + 1, kms.fb)
    BY DEF Chain
  <2>2. k + 1 - 1 = k
    BY <1>1
  <2>3. CASE \A j \in 1..k+1-1 : ~InTail(j)
    <3>1. \A j \in 1..k-1 : ~InTail(j) /\ j \in 1..k+1-1
      BY <1>1, <2>3
    <3>2. kms.fb = presentFb
      BY <2>1, <2>3 DEF Before
    <3> QED
      BY <3>1, <3>2 DEF Before
  <2>4. CASE \E j \in 1..k+1-1 : /\ InTail(j) /\ kms.fb = commits[j].kms.fb
                                 /\ \A i \in j+1..k+1-1 : ~InTail(i)
    <3>1. PICK j \in 1..k : /\ InTail(j) /\ kms.fb = commits[j].kms.fb
                            /\ \A i \in j+1..k : ~InTail(i)
      BY <2>2, <2>4
    <3>2. j \in 1..k-1 /\ \A i \in j+1..k-1 : ~InTail(i)
      BY <1>1, <3>1
    <3> QED
      BY <3>1, <3>2 DEF Before
  <2> QED
    BY <2>1, <2>3, <2>4 DEF Before
<1>5. ASSUME NEW j \in DOMAIN commits, InTail(j)', NEW fb \in Frames, Before(j, fb)'
      PROVE  Follows(commits'[j], fb)
  <2>1. j \in 1..k
    BY <1>1
  <2>2. Before(j, fb)
    BY <1>3, <1>5, <2>1
  <2>3. CASE j = k
    BY <1>1, <1>4, <2>2, <2>3, BeforeUnique
  <2>4. CASE j # k
    <3>1. InTail(j) /\ commits'[j] = commits[j]
      BY <1>1, <1>2, <1>5, <2>4
    <3> QED
      BY <2>2, <3>1 DEF Chain
  <2> QED
    BY <2>3, <2>4
<1>6. Before(Len(commits) + 1, kms.fb)'
  <2>1. Len(commits') = k /\ k \in 1..k+1-1 /\ \A i \in k+1..k+1-1 : FALSE
    BY <1>1 DEF Moves
  <2>2. PICK fb : fb = kms'.fb
    OBVIOUS
  <2>3. Before(k + 1, fb)'
    BY <2>1, <2>2 DEF Before
  <2> QED
    BY <2>1, <2>2, <2>3 DEF Before
<1> QED
  BY <1>5, <1>6 DEF Chain, Moves

\* The first tail publishes: its frame is on offer for the next one.
LEMMA ChainPublish ==
  ASSUME Types, Chain, NEW k, Moves(k), InTail(k), ~InTail(k)', \A j \in 1..k-1 : ~InTail(j),
         kms' = kms, presentFb' = commits[k].kms.fb
  PROVE  Chain'
<1>1. DOMAIN commits = 1..Len(commits) /\ Len(commits) \in Nat /\ k \in DOMAIN commits
  BY Domain DEF Moves
<1>2. \A j \in DOMAIN commits : j # k => commits'[j] = commits[j] /\ (InTail(j)' <=> InTail(j))
  BY DEF Moves, InTail
<1>3. ASSUME NEW i \in k+1..Len(commits)+1, NEW fb PROVE Before(i, fb)' <=> Before(i, fb)
  <2>1. /\ k \in 1..i-1
        /\ \A j \in 1..i-1 : j \in DOMAIN commits
        /\ \A j \in 1..i-1 : \A h \in j+1..i-1 : h \in DOMAIN commits
    BY <1>1
  <2>2. ASSUME Before(i, fb)' PROVE Before(i, fb)
    <3>1. CASE fb = presentFb' /\ \A j \in 1..i-1 : ~InTail(j)'
      <4>1. \A j \in k+1..i-1 : ~InTail(j)
        BY <1>1, <1>2, <2>1, <3>1
      <4> QED
        BY <2>1, <3>1, <4>1 DEF Before
    <3>2. CASE \E j \in 1..i-1 : /\ InTail(j)' /\ fb = commits'[j].kms.fb
                                 /\ \A h \in j+1..i-1 : ~InTail(h)'
      <4>1. PICK j \in 1..i-1 : /\ InTail(j)' /\ fb = commits'[j].kms.fb
                                /\ \A h \in j+1..i-1 : ~InTail(h)'
        BY <3>2
      <4>2. InTail(j) /\ commits'[j] = commits[j] /\ j # k
        BY <1>2, <2>1, <4>1
      <4>3. j > k
        BY <1>1, <2>1, <4>2
      <4>4. \A h \in j+1..i-1 : ~InTail(h)
        BY <1>1, <1>2, <2>1, <4>1, <4>3
      <4> QED
        BY <4>1, <4>2, <4>4 DEF Before
    <3> QED
      BY <2>2, <3>1, <3>2 DEF Before
  <2>3. ASSUME Before(i, fb) PROVE Before(i, fb)'
    <3>1. PICK j \in 1..i-1 : /\ InTail(j) /\ fb = commits[j].kms.fb
                              /\ \A h \in j+1..i-1 : ~InTail(h)
      BY <2>1, <2>3 DEF Before
    <3>2. CASE j = k
      <4>1. \A h \in 1..i-1 : ~InTail(h)'
        BY <1>1, <1>2, <2>1, <3>1, <3>2
      <4> QED
        BY <3>1, <3>2, <4>1 DEF Before
    <3>3. CASE j # k
      <4>1. InTail(j)' /\ commits'[j] = commits[j] /\ j > k
        BY <1>1, <1>2, <2>1, <3>1, <3>3
      <4>2. \A h \in j+1..i-1 : ~InTail(h)'
        BY <1>1, <1>2, <2>1, <3>1, <4>1
      <4> QED
        BY <3>1, <4>1, <4>2 DEF Before
    <3> QED
      BY <3>2, <3>3
  <2> QED
    BY <2>2, <2>3
<1>4. ASSUME NEW j \in DOMAIN commits, InTail(j)', NEW fb \in Frames, Before(j, fb)'
      PROVE  Follows(commits'[j], fb)
  <2>1. InTail(j) /\ commits'[j] = commits[j] /\ j # k
    BY <1>2, <1>4
  <2>2. j \in k+1..Len(commits)+1
    BY <1>1, <2>1
  <2>3. Before(j, fb)
    BY <1>3, <1>4, <2>2
  <2> QED
    BY <2>1, <2>3 DEF Chain
<1>5. Before(Len(commits) + 1, kms.fb)'
  <2>1. PICK n \in k+1..Len(commits)+1 : n = Len(commits) + 1
    BY <1>1
  <2>2. Before(n, kms.fb)
    BY <2>1 DEF Chain
  <2>3. PICK fb : fb = kms.fb
    OBVIOUS
  <2>4. Before(n, fb)'
    BY <1>3, <2>2, <2>3
  <2>5. n = Len(commits') + 1 /\ fb = kms'.fb
    BY <2>1, <2>3 DEF Moves
  <2> QED
    BY <2>4, <2>5 DEF Before
<1> QED
  BY <1>4, <1>5 DEF Chain, Moves

-----------------------------------------------------------------------------
(* A commit begins.                                                        *)

LEMMA FinitelyManyThreads == Client # NoThread /\ NoThread \notin Closers /\ Client \notin Closers
BY ThreadsAssumption

LEMMA NewRecord ==
  ASSUME Types, NEW thread \in Closers \cup {Client}, NEW change \in Changes, NEW nonblock \in BOOLEAN
  PROVE  LET c == [phase |-> "locked", by |-> thread, kind |-> change.kind, fb |-> change.fb,
                   content |-> change.content, nonblock |-> nonblock, kms |-> kms,
                   scanoutChanged |-> FALSE, armed |-> FALSE, flipDone |-> FALSE, flippedAt |-> 0,
                   timing |-> FALSE, timestamp |-> 0]
         IN  /\ IsCommit(c) /\ c.phase = "locked" /\ c.by = thread /\ c.kind = change.kind
             /\ c.nonblock = nonblock
             /\ c.flippedAt = 0 /\ c.timestamp = 0 /\ ~c.armed /\ ~c.flipDone
<1>1. /\ change.kind \in {"flip", "property", "off"} /\ change.fb \in Frames
      /\ change.content \in BOOLEAN
      /\ change.kind = "flip" <=> change.fb # NoFramebuffer
  BY FramebufferAssumption DEF Changes, Frames
<1> QED
  BY <1>1 DEF Types, IsCommit, CommitRecord, Early, Consistent

Appends(c) ==
    /\ IsCommit(c) /\ c.phase = "locked"
    /\ c.flippedAt = 0 /\ c.timestamp = 0 /\ ~c.armed /\ ~c.flipDone
    /\ commits' \in Seq(CommitRecord \cup {Done})
    /\ Len(commits') = Len(commits) + 1 /\ DOMAIN commits' = 1..Len(commits)+1
    /\ commits'[Len(commits)+1] = c
    /\ \A j \in DOMAIN commits : commits'[j] = commits[j]

LEMMA BeginAppends ==
  ASSUME Types, NEW thread \in Closers \cup {Client}, NEW change \in Changes, NEW nonblock \in BOOLEAN,
         Begin(thread, change, nonblock)
  PROVE  \E c : Appends(c) /\ c.by = thread /\ c.kind = change.kind /\ c.nonblock = nonblock
<1> DEFINE c == [phase |-> "locked", by |-> thread, kind |-> change.kind, fb |-> change.fb,
                 content |-> change.content, nonblock |-> nonblock, kms |-> kms,
                 scanoutChanged |-> FALSE, armed |-> FALSE, flipDone |-> FALSE, flippedAt |-> 0,
                 timing |-> FALSE, timestamp |-> 0]
           S == CommitRecord \cup {Done}
<1>1. commits' = Append(commits, c)
  BY DEF Begin
<1>2. /\ IsCommit(c) /\ c.phase = "locked" /\ c.by = thread /\ c.kind = change.kind
      /\ c.nonblock = nonblock
      /\ c.flippedAt = 0 /\ c.timestamp = 0 /\ ~c.armed /\ ~c.flipDone
  BY NewRecord
<1>3. commits \in Seq(S) /\ c \in S
  BY <1>2 DEF Types, IsCommit
<1> HIDE DEF c, S
<1>4. /\ commits' \in Seq(S) /\ Len(commits') = Len(commits) + 1
      /\ \A j \in 1..Len(commits) : commits'[j] = commits[j]
      /\ commits'[Len(commits)+1] = c
  BY <1>1, <1>3, AppendProperties
<1>5. DOMAIN commits' = 1..Len(commits)+1 /\ DOMAIN commits = 1..Len(commits)
  BY <1>4, Domain
<1> QED
  BY <1>2, <1>4, <1>5 DEF Appends, S

LEMMA ChainAppended ==
  ASSUME Types, Chain, NEW c, Appends(c), UNCHANGED <<kms, presentFb>>
  PROVE  Chain'
<1>1. DOMAIN commits = 1..Len(commits) /\ Len(commits) \in Nat
  BY Domain
<1> PICK n \in Nat : n = Len(commits) + 1
  BY <1>1
<1>2. ~(c.phase \in {"queued", "flushed", "stamped"})
  BY DEF Appends
<1>3. ~InTail(n)'
  BY <1>2 DEF Appends, InTail
<1>4. \A j \in DOMAIN commits : commits'[j] = commits[j] /\ (InTail(j)' <=> InTail(j))
  BY DEF Appends, InTail
<1>5. SameTails
  BY <1>4 DEF SameTails
<1>6. \A j \in 1..Len(commits)+1 : \A fb : Before(j, fb)' <=> Before(j, fb)
  BY <1>5, BeforeKept
<1>7. ASSUME NEW j \in DOMAIN commits', InTail(j)', NEW fb \in Frames, Before(j, fb)'
      PROVE  Follows(commits'[j], fb)
  <2>1. j \in DOMAIN commits /\ j \in 1..Len(commits)+1
    BY <1>1, <1>3, <1>7 DEF Appends
  <2> QED
    BY <1>4, <1>6, <1>7, <2>1 DEF Chain
<1>8. Before(Len(commits) + 1, kms.fb)'
  <2>1. PICK fb : fb = kms.fb
    OBVIOUS
  <2>2. Before(n, fb)'
    <3>1. Before(n, fb) /\ n \in 1..Len(commits)+1
      BY <1>1, <2>1 DEF Chain
    <3> QED
      BY <1>6, <3>1
  <2>3. \A j \in 1..n : j \in 1..n-1 \/ j = n
    BY <1>1, <2>1
  <2>4. ~InTail(n)' /\ n + 1 - 1 = n
    BY <1>1, <1>3, <2>1
  <2>5. Before(n + 1, fb)'
    <3>1. CASE fb = presentFb' /\ \A j \in 1..n-1 : ~InTail(j)'
      <4>1. \A j \in 1..n : ~InTail(j)'
        BY <2>3, <2>4, <3>1
      <4> QED
        BY <2>4, <3>1, <4>1 DEF Before
    <3>2. CASE \E j \in 1..n-1 : /\ InTail(j)' /\ fb = commits'[j].kms.fb
                                 /\ \A i \in j+1..n-1 : ~InTail(i)'
      <4>1. PICK j \in 1..n-1 : /\ InTail(j)' /\ fb = commits'[j].kms.fb
                                /\ \A i \in j+1..n-1 : ~InTail(i)'
        BY <3>2
      <4>2. j \in 1..n /\ \A i \in j+1..n : ~InTail(i)'
        BY <1>1, <2>1, <2>4, <4>1
      <4> QED
        BY <2>4, <4>1, <4>2 DEF Before
    <3> QED
      BY <2>2, <3>1, <3>2 DEF Before
  <2>6. n + 1 = Len(commits') + 1 /\ fb = kms'.fb
    BY <2>1 DEF Appends
  <2> QED
    BY <2>5, <2>6 DEF Before
<1> QED
  BY <1>7, <1>8 DEF Chain

LEMMA FreeLocks ==
  ASSUME Types, Locks, modesetLock = NoThread, \A k \in DOMAIN commits : commits[k] # Done => commits[k].by # NoThread
  PROVE  /\ \A k \in DOMAIN commits : ~Holds(commits[k])
         /\ commitLock = NoThread
<1>1. \A k \in DOMAIN commits : ~Holds(commits[k])
  BY DoneRecord DEF Locks
<1>2. Len(commits) > 0 => Len(commits) \in DOMAIN commits
  BY Domain
<1> QED
  BY <1>1, <1>2 DEF Locks

LEMMA ByThread ==
  ASSUME Types, NEW k \in DOMAIN commits, commits[k] # Done
  PROVE  commits[k].by \in Closers \cup {Client} /\ commits[k].by # NoThread
BY CommitTyped, FinitelyManyThreads DEF IsCommit, CommitRecord

LEMMA BeginKeeps ==
  ASSUME CommitInv, ShowInv, NEW thread \in Closers \cup {Client}, NEW change \in Changes,
         NEW nonblock \in BOOLEAN, Begin(thread, change, nonblock)
  PROVE  CommitInv' /\ ShowInv'
<1>1. PICK c : Appends(c) /\ c.by = thread
  BY BeginAppends DEF CommitInv
<1>2. DOMAIN commits = 1..Len(commits) /\ Len(commits) \in Nat
  BY Domain DEF CommitInv
<1>3. /\ modesetLock = NoThread /\ modesetLock' = thread /\ commitLock' = commitLock
      /\ UNCHANGED <<kms, flips, presentation>>
  BY DEF Begin
<1> PICK n \in Nat : n = Len(commits) + 1
  BY <1>2
<1>4. /\ commits'[n] = c /\ c # Done /\ Len(commits') = n /\ DOMAIN commits' = 1..n /\ n > 0
      /\ \A j \in 1..n : j = n \/ j \in DOMAIN commits
      /\ \A j \in DOMAIN commits : commits'[j] = commits[j] /\ j < n
  BY <1>1, <1>2, CommitNotDone DEF Appends
<1>5. Types'
  BY <1>1, <1>3, <1>4 DEF CommitInv, Types, Appends, flips, presentation
<1>6. Locks'
  <2>1. /\ \A k \in DOMAIN commits : ~Holds(commits[k])
        /\ commitLock = NoThread
    BY <1>3, FreeLocks, ByThread DEF CommitInv
  <2>2. c.phase = "locked"
    BY <1>1 DEF Appends
  <2> QED
    BY <1>1, <1>3, <1>4, <2>1, <2>2 DEF Locks, Holds
<1>7. Order'
  <2>1. c.phase \notin Late
    BY <1>1 DEF Appends, Late
  <2>2. ASSUME NEW i \in DOMAIN commits, commits[i].phase \in Late, NEW j \in 1..i-1
        PROVE  commits'[j] = Done
    BY <1>2, <1>4, <2>2 DEF CommitInv, Order
  <2> QED
    BY <1>4, <2>1, <2>2 DEF Order
<1>8. Flips'
  <2>1. Flip(n)'
    BY <1>1, <1>4 DEF Appends, Flip, Early
  <2>2. ASSUME NEW j \in DOMAIN commits, commits[j] # Done PROVE Flip(j)'
    BY <1>3, <1>4, <2>2 DEF CommitInv, Flips, Flip, flips, presentation
  <2>3. slot' # 0 => At(slot, "flushed")' /\ commits'[slot'].timestamp = 0
    BY <1>3, <1>4 DEF CommitInv, Flips, At, flips
  <2> QED
    BY <1>4, <2>1, <2>2, <2>3 DEF Flips
<1>9. Chain'
  BY <1>1, <1>3, ChainAppended DEF CommitInv, ShowInv, presentation
<1>10. History' /\ Traced'
  BY <1>3 DEF ShowInv, History, Traced, TraceSlot, presentation
<1> QED
  BY <1>5, <1>6, <1>7, <1>8, <1>9, <1>10 DEF CommitInv, ShowInv

-----------------------------------------------------------------------------
(* A commit ends.                                                          *)

LEMMA HistoryKept ==
  ASSUME History, Traced, UNCHANGED presentation
  PROVE  History' /\ Traced'
BY DEF History, Traced, TraceSlot, presentation

LEMMA EndKeeps ==
  ASSUME CommitInv, ShowInv, NEW k \in DOMAIN commits, commits[k] # Done, ~InTail(k),
         commits' = [commits EXCEPT ![k] = Done],
         \/ Holds(commits[k]) /\ modesetLock' = NoThread /\ commitLock' = NoThread
         \/ ~Holds(commits[k]) /\ UNCHANGED locks,
         UNCHANGED <<kms, flips, presentation>>
  PROVE  CommitInv' /\ ShowInv' /\ Moves(k) /\ commits'[k] = Done
<1>1. Moves(k) /\ commits'[k] = Done
  BY Updated DEF CommitInv
<1>2. Types'
  BY <1>1, MovesTyped DEF CommitInv, Types, Moves, flips, presentation
<1>3. Locks'
  BY <1>1, LocksKept, LocksLeft, DoneRecord DEF CommitInv
<1>4. Order'
  <2>1. commits'[k].phase \notin Late
    BY <1>1, DoneRecord DEF Late
  <2> QED
    BY <1>1, <2>1, OrderKept DEF CommitInv
<1>5. Flips'
  <2>1. slot' # 0 => At(slot, "flushed")' /\ commits'[slot'].timestamp = 0
    BY <1>1 DEF CommitInv, Flips, At, Moves, InTail, flips
  <2>2. UNCHANGED <<clock, inHandler, slot, timestamp>>
    BY DEF flips, presentation
  <2> QED
    BY <1>1, <2>1, <2>2, FlipsStep DEF CommitInv
<1>6. Chain'
  <2>1. ~InTail(k)'
    BY <1>1, DoneRecord DEF InTail
  <2> QED
    BY <1>1, <2>1, ChainKept DEF CommitInv, ShowInv, presentation
<1>7. History' /\ Traced'
  BY HistoryKept DEF ShowInv
<1> QED
  BY <1>1, <1>2, <1>3, <1>4, <1>5, <1>6, <1>7 DEF CommitInv, ShowInv

\* A commit that is refused, fails or finishes is over, and shows nothing more.
Ends(k) ==
    /\ Moves(k) /\ commits[k] # Done /\ ~InTail(k) /\ commits'[k] = Done
    /\ UNCHANGED <<kms, flips, presentation>>

LEMMA RefuseKeeps ==
  ASSUME CommitInv, ShowInv, NEW k, Refuse(k)
  PROVE  CommitInv' /\ ShowInv' /\ Ends(k)
<1>1. k \in DOMAIN commits /\ commits[k].phase = "locked" /\ commits[k] # Done
  BY PhaseTyped DEF Refuse, CommitInv, Early
<1>2. Holds(commits[k]) /\ ~InTail(k)
  BY <1>1 DEF Holds, InTail
<1> QED
  BY <1>1, <1>2, EndKeeps DEF Refuse, Leave, Ends

LEMMA FailKeeps ==
  ASSUME CommitInv, ShowInv, NEW k, Fail(k)
  PROVE  CommitInv' /\ ShowInv' /\ Ends(k)
<1>1. k \in DOMAIN commits /\ commits[k].phase = "counted" /\ commits[k] # Done
  BY PhaseTyped DEF Fail, CommitInv, Early
<1>2. Holds(commits[k]) /\ ~InTail(k)
  BY <1>1 DEF Holds, InTail
<1> QED
  BY <1>1, <1>2, EndKeeps DEF Fail, Leave, Ends

LEMMA FinishKeeps ==
  ASSUME CommitInv, ShowInv, NEW k, Finish(k)
  PROVE  CommitInv' /\ ShowInv' /\ Ends(k)
<1>1. k \in DOMAIN commits /\ commits[k].phase = "published" /\ commits[k] # Done /\ IsCommit(commits[k])
  BY PhaseTyped DEF Finish, CommitInv, Late
<1>2. (Holds(commits[k]) <=> ~commits[k].nonblock) /\ ~InTail(k)
  BY <1>1 DEF Holds, InTail
<1> QED
  BY <1>1, <1>2, EndKeeps DEF Finish, Leave, Ends

-----------------------------------------------------------------------------
(* A commit goes on.                                                       *)

\* What a step of one commit keeps, if it leaves the presentation alone.
LEMMA StepKeeps ==
  ASSUME CommitInv, ShowInv, NEW k, Moves(k), commits[k] # Done, IsCommit(commits'[k]),
         Keeps(commits[k], commits'[k]), InTail(k)' <=> InTail(k),
         Holds(commits'[k]) <=> Holds(commits[k]),
         Holds(commits[k]) => (commits'[k].phase = "locked" <=> commits[k].phase = "locked"),
         UNCHANGED <<kms, locks, presentation>>,
         commits'[k].phase \in Late => commits[k].phase \in Late \/ \A j \in 1..k-1 : commits[j] = Done,
         clock' \in Nat \ {0}, clock <= clock', vblankOn' \in BOOLEAN, inHandler' \in BOOLEAN, slot' \in Nat,
         Flip(k)', slot' # 0 => At(slot, "flushed")' /\ commits'[slot'].timestamp = 0,
         \/ UNCHANGED <<clock, inHandler, slot>>
         \/ \A j \in DOMAIN commits : j # k => commits[j] = Done \/ commits[j].phase \in Early
  PROVE  CommitInv' /\ ShowInv'
<1>1. Types'
  <2>1. \A j \in DOMAIN commits' : commits'[j] = Done \/ IsCommit(commits'[j])
    BY MovesTyped DEF CommitInv
  <2>2. timestamp' \in 0..clock'
    BY DEF CommitInv, Types, presentation
  <2> QED
    BY <2>1, <2>2 DEF CommitInv, Types, Moves, presentation
<1>2. Locks'
  BY LocksKept DEF CommitInv, Keeps, SameChange
<1>3. Order'
  BY OrderKept DEF CommitInv
<1>4. Flips'
  BY FlipsStep DEF CommitInv, presentation
<1>5. Chain'
  BY ChainKept DEF CommitInv, ShowInv, presentation
<1>6. History' /\ Traced'
  BY HistoryKept DEF ShowInv
<1> QED
  BY <1>1, <1>2, <1>3, <1>4, <1>5, <1>6 DEF CommitInv, ShowInv

\* Nobody but the commits and the handler writes what the tails rely on.
LEMMA QuietKeeps ==
  ASSUME CommitInv, ShowInv, UNCHANGED <<kms, commits, locks, flips, presentation>>
  PROVE  CommitInv' /\ ShowInv'
<1>1. Types'
  BY DEF CommitInv, Types, flips, presentation
<1>2. Locks' /\ Order'
  BY DEF CommitInv, Locks, Order, locks
<1>3. Flips'
  BY DEF CommitInv, Flips, Flip, At, flips, presentation
<1>4. Chain'
  BY DEF ShowInv, Chain, Before, InTail, presentation
<1>5. History' /\ Traced'
  BY HistoryKept DEF ShowInv
<1> QED
  BY <1>1, <1>2, <1>3, <1>4, <1>5 DEF CommitInv, ShowInv

LEMMA CountMoves ==
  ASSUME Types, NEW k, Count(k)
  PROVE  /\ Moves(k) /\ IsCommit(commits[k]) /\ commits[k] # Done /\ commits[k].phase = "locked"
         /\ IsCommit(commits'[k]) /\ commits'[k].phase = "counted"
         /\ Keeps(commits[k], commits'[k]) /\ SameFlip(commits[k], commits'[k])
<1>1. k \in DOMAIN commits /\ commits[k].phase = "locked" /\ commits[k] # Done /\ IsCommit(commits[k])
  BY PhaseTyped DEF Count, Early
<1> DEFINE d == [commits[k] EXCEPT !.phase = "counted"]
<1>2. commits' = [commits EXCEPT ![k] = d]
  BY DEF Count
<1>3. IsCommit(d) /\ d.phase = "counted" /\ Keeps(commits[k], d) /\ SameFlip(commits[k], d)
  BY <1>1, AtPhase DEF Early, Keeps
<1> HIDE DEF d
<1>4. Moves(k) /\ commits'[k] = d
  BY <1>1, <1>2, <1>3, Updated
<1> QED
  BY <1>1, <1>3, <1>4

LEMMA CountKeeps ==
  ASSUME CommitInv, ShowInv, NEW k, Count(k)
  PROVE  CommitInv' /\ ShowInv'
<1>1. /\ Moves(k) /\ IsCommit(commits[k]) /\ commits[k] # Done /\ commits[k].phase = "locked"
      /\ IsCommit(commits'[k]) /\ commits'[k].phase = "counted"
      /\ Keeps(commits[k], commits'[k]) /\ SameFlip(commits[k], commits'[k])
  BY CountMoves DEF CommitInv
<1>2. /\ UNCHANGED <<kms, flips, presentation, modesetLock>> /\ commitLock' = commits[k].by
  BY DEF Count
<1>3. commits[k].by # NoThread
  BY <1>1, ByThread DEF CommitInv, Moves
<1>4. Holds(commits[k]) /\ Holds(commits'[k])
  BY <1>1 DEF Holds
<1>5. Types'
  BY <1>1, <1>2, MovesTyped DEF CommitInv, Types, Moves, flips, presentation
<1>6. Locks'
  <2>1. k = Len(commits) /\ Len(commits') = Len(commits) /\ Len(commits) > 0 /\ DOMAIN commits' = DOMAIN commits
    BY <1>1, <1>4, Domain DEF CommitInv, Locks, Moves
  <2>2. commits'[k].by = commits[k].by
    BY <1>1 DEF Keeps, SameChange
  <2>3. \A j \in DOMAIN commits : Holds(commits'[j]) => j = k
    BY <1>1, <2>1 DEF CommitInv, Locks, Moves
  <2>4. modesetLock = commits[k].by
    BY <1>1, <1>4 DEF CommitInv, Locks, Moves
  <2> QED
    BY <1>1, <1>2, <1>3, <1>4, <2>1, <2>2, <2>3, <2>4 DEF Locks
<1>7. Order'
  BY <1>1, OrderKept DEF CommitInv, Late
<1>8. Flips'
  <2>1. Flip(k)'
    BY <1>1 DEF CommitInv, Flips, Flip, Early, SameFlip, Moves
  <2>2. slot' # 0 => At(slot, "flushed")' /\ commits'[slot'].timestamp = 0
    BY <1>1, <1>2 DEF CommitInv, Flips, At, Moves, flips
  <2>3. UNCHANGED <<clock, inHandler, slot, timestamp>>
    BY <1>2 DEF flips, presentation
  <2> QED
    BY <1>1, <2>1, <2>2, <2>3, FlipsStep DEF CommitInv
<1>9. Chain'
  <2>1. InTail(k)' <=> InTail(k)
    BY <1>1 DEF InTail
  <2> QED
    BY <1>1, <1>2, <2>1, ChainKept DEF CommitInv, ShowInv, presentation
<1>10. History' /\ Traced'
  BY <1>2, HistoryKept DEF ShowInv
<1> QED
  BY <1>5, <1>6, <1>7, <1>8, <1>9, <1>10 DEF CommitInv, ShowInv

LEMMA AppliedTyped ==
  ASSUME Types, NEW c, IsCommit(c)
  PROVE  /\ Applied(c) \in Scanout /\ Consistent(Applied(c))
         /\ ChangesScanout(c) \in BOOLEAN
         /\ c.kind # "property" => Applied(c).fb = c.fb
         /\ c.kind = "property" \/ ~ChangesScanout(c) => Applied(c).fb = kms.fb
<1>1. c.kind \in {"flip", "property", "off"} /\ c.fb \in Frames /\ c.content \in BOOLEAN
  BY DEF IsCommit, CommitRecord
<1>2. c.kind = "flip" <=> c.fb # NoFramebuffer
  BY DEF IsCommit
<1>3. CASE c.kind = "flip"
  <2>1. Applied(c) = [on |-> TRUE, fb |-> c.fb]
    BY <1>3 DEF Applied
  <2>2. ChangesScanout(c) = (~kms.on \/ c.fb # kms.fb \/ c.content)
    BY <1>3 DEF ChangesScanout
  <2>3. ChangesScanout(c) \in BOOLEAN
    BY <2>2, Zenon
  <2>4. ~ChangesScanout(c) => c.fb = kms.fb
    BY <2>2, Zenon
  <2>5. Applied(c).on = TRUE /\ Applied(c).fb = c.fb /\ Applied(c) \in Scanout
    BY <1>1, <2>1 DEF Scanout
  <2> QED
    BY <1>2, <1>3, <2>3, <2>4, <2>5 DEF Consistent
<1>4. CASE c.kind = "property"
  <2>1. Applied(c) = kms /\ ChangesScanout(c) = TRUE
    BY <1>4 DEF Applied, ChangesScanout
  <2> QED
    BY <1>4, <2>1 DEF Types
<1>5. CASE c.kind = "off"
  <2>1. Applied(c) = [on |-> FALSE, fb |-> NoFramebuffer] /\ ChangesScanout(c) = kms.on
    BY <1>5 DEF Applied, ChangesScanout
  <2> QED
    BY <1>1, <1>2, <1>5, <2>1 DEF Types, Scanout, Consistent, Frames
<1> QED
  BY <1>1, <1>3, <1>4, <1>5

LEMMA SwapMoves ==
  ASSUME Types, NEW k, Swap(k)
  PROVE  /\ Moves(k) /\ IsCommit(commits[k]) /\ commits[k] # Done /\ commits[k].phase = "counted"
         /\ IsCommit(commits'[k]) /\ commits'[k].phase = "queued"
         /\ SameChange(commits[k], commits'[k]) /\ SameFlip(commits[k], commits'[k])
         /\ kms' = commits'[k].kms /\ kms' \in Scanout /\ Consistent(kms')
         /\ Follows(commits'[k], kms.fb)
         /\ commits[k].kind = "off" => ~kms'.on
<1>1. PICK c : c = commits[k]
  OBVIOUS
<1>2. k \in DOMAIN commits /\ c.phase = "counted" /\ c # Done /\ IsCommit(c)
  BY <1>1, PhaseTyped DEF Swap, Early
<1>3. PICK a \in Scanout, b \in BOOLEAN : a = Applied(c) /\ b = ChangesScanout(c)
  BY <1>2, AppliedTyped
<1>4. /\ Consistent(a)
      /\ c.kind # "property" => a.fb = c.fb
      /\ c.kind = "property" \/ ~b => a.fb = kms.fb
  BY <1>2, <1>3, AppliedTyped
<1> DEFINE d == Swapped(c, a, b)
<1>5. commits' = [commits EXCEPT ![k] = d] /\ kms' = a
  BY <1>1, <1>3 DEF Swap, Swapped
<1>6. /\ IsCommit(d) /\ d.phase = "queued" /\ d.kms = a /\ d.scanoutChanged = b
      /\ SameChange(c, d) /\ SameFlip(c, d)
  BY <1>2, <1>4, SwappedRecord
<1> HIDE DEF d
<1>7. Moves(k) /\ commits'[k] = d
  BY <1>2, <1>5, <1>6, Updated
<1>8. Follows(d, kms.fb)
  BY <1>4, <1>6 DEF Follows, SameChange
<1>9. c.kind = "off" => ~a.on
  BY <1>2, <1>4 DEF IsCommit, Consistent
<1> QED
  BY <1>1, <1>2, <1>4, <1>5, <1>6, <1>7, <1>8, <1>9

LEMMA SwapKeeps ==
  ASSUME CommitInv, ShowInv, NEW k, Swap(k)
  PROVE  CommitInv' /\ ShowInv'
<1>1. /\ Moves(k) /\ IsCommit(commits[k]) /\ commits[k] # Done /\ commits[k].phase = "counted"
      /\ IsCommit(commits'[k]) /\ commits'[k].phase = "queued"
      /\ SameChange(commits[k], commits'[k]) /\ SameFlip(commits[k], commits'[k])
      /\ kms' = commits'[k].kms /\ kms' \in Scanout /\ Consistent(kms')
      /\ Follows(commits'[k], kms.fb)
  BY SwapMoves DEF CommitInv
<1>2. /\ UNCHANGED <<flips, presentation>>
      /\ modesetLock' = IF commits[k].nonblock THEN NoThread ELSE modesetLock
      /\ commitLock' = IF commits[k].nonblock THEN NoThread ELSE commitLock
  BY DEF Swap
<1>3. Holds(commits[k]) /\ commits'[k].nonblock = commits[k].nonblock
  BY <1>1 DEF Holds, SameChange
<1>4. k = Len(commits)
  BY <1>1, <1>3 DEF CommitInv, Locks, Moves
<1>5. Types'
  BY <1>1, <1>2, MovesTyped DEF CommitInv, Types, Moves, flips, presentation
<1>6. Locks'
  <2>1. CASE commits[k].nonblock
    <3>1. ~Holds(commits'[k])
      BY <1>1, <1>3, <2>1 DEF Holds
    <3> QED
      BY <1>1, <1>2, <1>3, <2>1, <3>1, LocksLeft DEF CommitInv
  <2>2. CASE ~commits[k].nonblock
    <3>1. Holds(commits'[k])
      BY <1>1, <1>3, <2>2 DEF Holds
    <3>2. UNCHANGED locks
      BY <1>2, <2>2 DEF locks
    <3>3. commits'[k].phase # "locked" /\ commits'[k].by = commits[k].by
      BY <1>1 DEF SameChange
    <3> QED
      BY <1>1, <1>3, <3>1, <3>2, <3>3, LocksKept DEF CommitInv
  <2> QED
    BY <2>1, <2>2
<1>7. Order'
  BY <1>1, OrderKept DEF CommitInv, Late
<1>8. Flips'
  <2>1. Flip(k)'
    BY <1>1 DEF CommitInv, Flips, Flip, Early, SameFlip, Moves
  <2>2. slot' # 0 => At(slot, "flushed")' /\ commits'[slot'].timestamp = 0
    BY <1>1, <1>2 DEF CommitInv, Flips, At, Moves, flips
  <2>3. UNCHANGED <<clock, inHandler, slot, timestamp>>
    BY <1>2 DEF flips, presentation
  <2> QED
    BY <1>1, <2>1, <2>2, <2>3, FlipsStep DEF CommitInv
<1>9. Chain'
  <2>1. ~InTail(k) /\ InTail(k)'
    BY <1>1 DEF InTail
  <2> QED
    BY <1>1, <1>2, <1>4, <2>1, ChainSwap DEF CommitInv, ShowInv, presentation
<1>10. History' /\ Traced'
  BY <1>2, HistoryKept DEF ShowInv
<1> QED
  BY <1>5, <1>6, <1>7, <1>8, <1>9, <1>10 DEF CommitInv, ShowInv

-----------------------------------------------------------------------------
(* A flip and its timestamp.                                               *)

LEMMA FlushMoves ==
  ASSUME CommitInv, NEW k, Flush(k)
  PROVE  /\ Moves(k) /\ IsCommit(commits[k]) /\ commits[k] # Done /\ commits[k].phase = "queued"
         /\ IsCommit(commits'[k]) /\ commits'[k].phase = "flushed"
         /\ Keeps(commits[k], commits'[k])
         /\ ~inHandler /\ \A j \in 1..k-1 : commits[j] = Done
         /\ \/ /\ ~commits'[k].armed /\ commits'[k].flippedAt = clock /\ commits'[k].timestamp = clock
               /\ slot' = slot
            \/ /\ commits'[k].armed /\ ~commits'[k].flipDone
               /\ commits'[k].flippedAt = 0 /\ commits'[k].timestamp = 0 /\ slot' = k
         /\ vblankOn' \in BOOLEAN
<1>1. PICK c : c = commits[k]
  OBVIOUS
<1>2. k \in DOMAIN commits /\ c.phase = "queued" /\ c # Done /\ IsCommit(c)
  BY <1>1, PhaseTyped DEF Flush, CommitInv, Early
<1>3. c.flippedAt = 0 /\ c.timestamp = 0 /\ ~c.armed /\ ~c.flipDone
  BY <1>1, <1>2 DEF CommitInv, Flips, Flip, Early
<1>4. ~inHandler /\ \A j \in 1..k-1 : commits[j] = Done
  BY DEF Flush, OutputLocked
<1>5. CASE FlushImmediate(k)
  <2> DEFINE d == Immediate(c, clock)
  <2>1. commits' = [commits EXCEPT ![k] = d] /\ vblankOn' = c.kms.on /\ slot' = slot
    BY <1>1, <1>5 DEF FlushImmediate, Immediate
  <2>2. PICK n \in Nat : n = clock
    BY DEF CommitInv, Types
  <2>3. /\ IsCommit(d) /\ Keeps(c, d) /\ d.phase = "flushed"
        /\ d.armed = c.armed /\ d.flipDone /\ d.flippedAt = clock /\ d.timestamp = clock
    BY <1>2, <2>2, ImmediateRecord
  <2> HIDE DEF d
  <2>4. Moves(k) /\ commits'[k] = d
    BY <1>2, <2>1, <2>3, Updated DEF CommitInv
  <2>5. vblankOn' \in BOOLEAN
    BY <1>2, <2>1 DEF IsCommit, CommitRecord, Scanout
  <2> QED
    BY <1>1, <1>2, <1>3, <1>4, <2>1, <2>3, <2>4, <2>5
<1>6. CASE FlushArmed(k)
  <2> DEFINE d == ArmedFlush(c)
  <2>1. commits' = [commits EXCEPT ![k] = d] /\ vblankOn' = vblankOn /\ slot' = k
    BY <1>1, <1>6 DEF FlushArmed, ArmedFlush
  <2>2. /\ IsCommit(d) /\ Keeps(c, d) /\ d.phase = "flushed"
        /\ d.armed /\ d.flipDone = c.flipDone
        /\ d.flippedAt = c.flippedAt /\ d.timestamp = c.timestamp
    BY <1>2, ArmedRecord
  <2> HIDE DEF d
  <2>3. Moves(k) /\ commits'[k] = d
    BY <1>2, <2>1, <2>2, Updated DEF CommitInv
  <2>4. vblankOn' \in BOOLEAN
    BY <2>1 DEF CommitInv, Types
  <2> QED
    BY <1>1, <1>2, <1>3, <1>4, <2>1, <2>2, <2>3, <2>4
<1> QED
  BY <1>5, <1>6 DEF Flush

LEMMA FlushKeeps ==
  ASSUME CommitInv, ShowInv, NEW k, Flush(k)
  PROVE  CommitInv' /\ ShowInv'
<1>1. /\ Moves(k) /\ IsCommit(commits[k]) /\ commits[k] # Done /\ commits[k].phase = "queued"
      /\ IsCommit(commits'[k]) /\ commits'[k].phase = "flushed"
      /\ Keeps(commits[k], commits'[k])
      /\ ~inHandler /\ \A j \in 1..k-1 : commits[j] = Done
      /\ \/ /\ ~commits'[k].armed /\ commits'[k].flippedAt = clock /\ commits'[k].timestamp = clock
            /\ slot' = slot
         \/ /\ commits'[k].armed /\ ~commits'[k].flipDone
            /\ commits'[k].flippedAt = 0 /\ commits'[k].timestamp = 0 /\ slot' = k
      /\ vblankOn' \in BOOLEAN
  BY FlushMoves
<1>2. UNCHANGED <<kms, locks, clock, inHandler, presentation>>
  BY DEF Flush
<1>3. \A j \in DOMAIN commits : j # k => commits[j] = Done \/ commits[j].phase \in Early
  BY <1>1, OthersEarly DEF CommitInv, Moves
<1>4. slot = 0
  BY <1>1, <1>3, DoneRecord DEF CommitInv, Flips, At, Early
<1>5. clock \in Nat \ {0} /\ timestamp <= clock /\ k \in Nat /\ inHandler \in BOOLEAN
  BY <1>1, Domain DEF CommitInv, Types, Moves
<1>6. Flip(k)'
  BY <1>1, <1>2, <1>5 DEF Flip, Early, presentation
<1>7. slot' # 0 => At(slot, "flushed")' /\ commits'[slot'].timestamp = 0
  BY <1>1, <1>4 DEF At, Moves
<1>8. (InTail(k)' <=> InTail(k)) /\ (Holds(commits'[k]) <=> Holds(commits[k]))
  BY <1>1 DEF InTail, Holds, Keeps, SameChange
<1>9. slot' \in Nat /\ clock' \in Nat \ {0} /\ clock <= clock' /\ inHandler' \in BOOLEAN
  BY <1>1, <1>2, <1>4, <1>5
<1> QED
  BY <1>1, <1>2, <1>3, <1>6, <1>7, <1>8, <1>9, StepKeeps

LEMMA TakeTimestampMoves ==
  ASSUME CommitInv, NEW k, TakeTimestamp(k)
  PROVE  /\ Moves(k) /\ IsCommit(commits[k]) /\ commits[k] # Done /\ commits[k].phase = "flushed"
         /\ IsCommit(commits'[k]) /\ commits'[k].phase = "stamped"
         /\ Keeps(commits[k], commits'[k]) /\ commits'[k].flippedAt = commits[k].flippedAt
         /\ ~inHandler
         /\ commits'[k].timestamp = IF commits[k].timestamp # 0 THEN commits[k].timestamp ELSE clock
         /\ slot' = IF slot = k THEN 0 ELSE slot
<1>1. PICK c : c = commits[k]
  OBVIOUS
<1>2. k \in DOMAIN commits /\ c.phase = "flushed" /\ c # Done /\ IsCommit(c)
  BY <1>1, PhaseTyped DEF TakeTimestamp, CommitInv, Late
<1>3. PICK n \in Nat : n = IF c.timestamp # 0 THEN c.timestamp ELSE clock
  BY <1>2 DEF CommitInv, Types, IsCommit, CommitRecord
<1> DEFINE d == Taken(c, n)
<1>4. /\ commits' = [commits EXCEPT ![k] = d]
      /\ ~inHandler /\ slot' = IF slot = k THEN 0 ELSE slot
  BY <1>1, <1>3 DEF TakeTimestamp, Taken, OutputLocked
<1>5. IsCommit(d) /\ Keeps(c, d) /\ d.phase = "stamped" /\ d.flippedAt = c.flippedAt /\ d.timestamp = n
  BY <1>2, TakenRecord
<1> HIDE DEF d
<1>6. Moves(k) /\ commits'[k] = d
  BY <1>2, <1>4, <1>5, Updated DEF CommitInv
<1> QED
  BY <1>1, <1>2, <1>3, <1>4, <1>5, <1>6

LEMMA TakeTimestampKeeps ==
  ASSUME CommitInv, ShowInv, NEW k, TakeTimestamp(k)
  PROVE  CommitInv' /\ ShowInv'
<1>1. /\ Moves(k) /\ IsCommit(commits[k]) /\ commits[k] # Done /\ commits[k].phase = "flushed"
      /\ IsCommit(commits'[k]) /\ commits'[k].phase = "stamped"
      /\ Keeps(commits[k], commits'[k]) /\ commits'[k].flippedAt = commits[k].flippedAt
      /\ ~inHandler
      /\ commits'[k].timestamp = IF commits[k].timestamp # 0 THEN commits[k].timestamp ELSE clock
      /\ slot' = IF slot = k THEN 0 ELSE slot
  BY TakeTimestampMoves
<1>2. UNCHANGED <<kms, locks, clock, vblankOn, inHandler, presentation>>
  BY DEF TakeTimestamp
<1>3. \A j \in DOMAIN commits : j # k => commits[j] = Done \/ commits[j].phase \in Early
  BY <1>1, OthersEarly DEF CommitInv, Moves, Late
<1>4. slot' = 0
  BY <1>1, <1>3, DoneRecord DEF CommitInv, Flips, At, Early
<1>5. /\ clock \in Nat \ {0} /\ timestamp \in Nat /\ timestamp <= clock /\ inHandler \in BOOLEAN
      /\ vblankOn \in BOOLEAN
  BY DEF CommitInv, Types
<1>6. Flip(k)'
  <2>1. Flip(k)
    BY <1>1 DEF CommitInv, Flips, Moves
  <2>2. /\ commits[k].timestamp # 0 => /\ commits[k].timestamp = commits[k].flippedAt
                                       /\ timestamp <= commits[k].timestamp /\ commits[k].timestamp <= clock
        /\ commits[k].timestamp = 0 => commits[k].flippedAt = 0
    BY <1>1, <2>1 DEF Flip
  <2>3. /\ commits'[k].timestamp # 0
        /\ commits'[k].flippedAt # 0 => commits'[k].timestamp = commits'[k].flippedAt
        /\ timestamp <= commits'[k].timestamp /\ commits'[k].timestamp <= clock
    BY <1>1, <1>5, <2>2
  <2> QED
    BY <1>1, <1>2, <2>3 DEF Flip, Early, presentation
<1>7. (InTail(k)' <=> InTail(k)) /\ (Holds(commits'[k]) <=> Holds(commits[k]))
  BY <1>1 DEF InTail, Holds, Keeps, SameChange
<1>8. /\ slot' \in Nat /\ clock' \in Nat \ {0} /\ clock <= clock' /\ inHandler' \in BOOLEAN
      /\ vblankOn' \in BOOLEAN
  BY <1>2, <1>4, <1>5
<1>9. commits'[k].phase \in Late => commits[k].phase \in Late
  BY <1>1 DEF Late
<1> QED
  BY <1>1, <1>2, <1>3, <1>4, <1>6, <1>7, <1>8, <1>9, StepKeeps

\* The handler flips the armed commit, which is the one in its slot.
LEMMA VblankFlips ==
  ASSUME CommitInv, Vblank, NEW k, At(k, "flushed"), commits[k].armed
  PROVE  /\ Moves(k) /\ IsCommit(commits[k]) /\ commits[k] # Done
         /\ commits[k].phase = "flushed" /\ slot = k
         /\ IsCommit(commits'[k]) /\ commits'[k].phase = "flushed" /\ Keeps(commits[k], commits'[k])
         /\ ~commits'[k].armed /\ commits'[k].flipDone
         /\ commits'[k].flippedAt = clock + 1 /\ commits'[k].timestamp = 0
<1>1. PICK c : c = commits[k]
  OBVIOUS
<1>2. k \in DOMAIN commits /\ c.phase = "flushed" /\ c # Done /\ IsCommit(c)
  BY <1>1, PhaseTyped DEF CommitInv, Late
<1>3. c.timestamp = 0 /\ slot = k
  BY <1>1, <1>2 DEF CommitInv, Flips, Flip
<1>4. PICK n \in Nat : n = clock + 1
  BY DEF CommitInv, Types
<1> DEFINE d == FlippedBy(c, n)
<1>5. commits' = [commits EXCEPT ![k] = d]
  <2>1. \A j \in DOMAIN commits : j # k => ~(At(j, "flushed") /\ commits[j].armed)
    <3>1. ASSUME NEW j \in DOMAIN commits, At(j, "flushed"), commits[j].armed PROVE j = slot
      <4>1. commits[j] # Done /\ commits[j].phase = "flushed"
        BY <3>1, PhaseTyped DEF CommitInv, Late
      <4> QED
        BY <3>1, <4>1 DEF CommitInv, Flips, Flip
    <3> QED
      BY <1>3, <3>1
  <2>2. commits' = [j \in DOMAIN commits |->
                      IF At(j, "flushed") /\ commits[j].armed THEN FlippedBy(commits[j], n) ELSE commits[j]]
    BY <1>4 DEF Vblank, FlippedBy
  <2>3. commits = [j \in DOMAIN commits |-> commits[j]]
    BY Domain DEF CommitInv, Types
  <2> HIDE DEF d
  <2>4. d = FlippedBy(commits[k], n)
    BY <1>1 DEF d
  <2>5. commits' = [j \in DOMAIN commits |-> IF j = k THEN d ELSE commits[j]]
    BY <2>1, <2>2, <2>4
  <2> QED
    BY <2>3, <2>5
<1>6. /\ IsCommit(d) /\ Keeps(c, d) /\ d.phase = c.phase
      /\ ~d.armed /\ d.flipDone /\ d.flippedAt = n /\ d.timestamp = c.timestamp
  BY <1>2, FlippedRecord
<1> HIDE DEF d
<1>7. Moves(k) /\ commits'[k] = d
  BY <1>2, <1>5, <1>6, Updated DEF CommitInv
<1> QED
  BY <1>1, <1>2, <1>3, <1>4, <1>6, <1>7

LEMMA VblankKeeps ==
  ASSUME CommitInv, ShowInv, Vblank
  PROVE  CommitInv' /\ ShowInv'
<1>1. /\ UNCHANGED <<kms, locks, vblankOn, slot, presentation>>
      /\ ~inHandler /\ clock' = clock + 1 /\ inHandler' = TRUE
  BY DEF Vblank
<1>2. /\ clock \in Nat \ {0} /\ clock' \in Nat \ {0} /\ clock <= clock' /\ timestamp <= clock
      /\ vblankOn \in BOOLEAN /\ slot \in Nat
  BY <1>1 DEF CommitInv, Types
<1>3. CASE \E k \in DOMAIN commits : At(k, "flushed") /\ commits[k].armed
  <2>1. PICK k \in DOMAIN commits : At(k, "flushed") /\ commits[k].armed
    BY <1>3
  <2>2. /\ Moves(k) /\ IsCommit(commits[k]) /\ commits[k] # Done
        /\ commits[k].phase = "flushed" /\ slot = k
        /\ IsCommit(commits'[k]) /\ commits'[k].phase = "flushed" /\ Keeps(commits[k], commits'[k])
        /\ ~commits'[k].armed /\ commits'[k].flipDone
        /\ commits'[k].flippedAt = clock + 1 /\ commits'[k].timestamp = 0
    BY <2>1, VblankFlips
  <2>3. \A j \in DOMAIN commits : j # k => commits[j] = Done \/ commits[j].phase \in Early
    BY <2>2, OthersEarly DEF CommitInv, Moves, Late
  <2>4. Flip(k)'
    BY <1>1, <2>2 DEF Flip, Early
  <2>5. slot' # 0 => At(slot, "flushed")' /\ commits'[slot'].timestamp = 0
    BY <1>1, <2>2 DEF At, Moves
  <2>6. (InTail(k)' <=> InTail(k)) /\ (Holds(commits'[k]) <=> Holds(commits[k]))
    BY <2>2 DEF InTail, Holds, Keeps, SameChange
  <2>7. /\ commits'[k].phase \in Late => commits[k].phase \in Late
        /\ commits'[k].phase = commits[k].phase
    BY <2>2
  <2>8. slot' \in Nat /\ inHandler' \in BOOLEAN /\ vblankOn' \in BOOLEAN
    BY <1>1, <1>2
  <2> QED
    BY <1>1, <1>2, <2>2, <2>3, <2>4, <2>5, <2>6, <2>7, <2>8, StepKeeps
<1>4. CASE ~\E k \in DOMAIN commits : At(k, "flushed") /\ commits[k].armed
  <2>1. commits' = commits
    <3>1. commits' = [j \in DOMAIN commits |-> commits[j]]
      BY <1>4 DEF Vblank
    <3> QED
      BY <3>1, Domain DEF CommitInv, Types
  <2>2. Types'
    <3>1. timestamp' \in 0..clock'
      BY <1>1, <1>2 DEF CommitInv, Types, presentation
    <3> QED
      BY <1>1, <1>2, <2>1, <3>1 DEF CommitInv, Types, presentation
  <2>3. Locks' /\ Order'
    BY <1>1, <2>1 DEF CommitInv, Locks, Order, locks
  <2>4. Flips'
    <3>1. ASSUME NEW k \in DOMAIN commits, commits[k] # Done PROVE Flip(k)'
      <4>1. Flip(k) /\ (At(k, "flushed") => ~commits[k].armed)
        BY <1>4, <3>1 DEF CommitInv, Flips
      <4>2. commits[k].timestamp \in Nat
        BY <3>1, CommitTyped DEF CommitInv, IsCommit, CommitRecord
      <4> QED
        BY <1>1, <1>2, <2>1, <3>1, <4>1, <4>2 DEF Flip, At, presentation
    <3> QED
      BY <1>1, <2>1, <3>1 DEF CommitInv, Flips, At
  <2>5. Chain'
    BY <1>1, <2>1 DEF ShowInv, Chain, Before, InTail, presentation
  <2>6. History' /\ Traced'
    BY <1>1, HistoryKept DEF ShowInv
  <2> QED
    BY <2>2, <2>3, <2>4, <2>5, <2>6 DEF CommitInv, ShowInv
<1> QED
  BY <1>3, <1>4

\* ... and stamps it.
LEMMA StampStamps ==
  ASSUME CommitInv, Stamp, slot # 0, At(slot, "flushed"), commits[slot].flipDone
  PROVE  \E k : /\ k = slot /\ slot' = 0
                /\ Moves(k) /\ IsCommit(commits[k]) /\ commits[k] # Done /\ commits[k].phase = "flushed"
                /\ commits[k].flippedAt = clock
                /\ IsCommit(commits'[k]) /\ commits'[k].phase = "flushed" /\ Keeps(commits[k], commits'[k])
                /\ ~commits'[k].armed
                /\ commits'[k].flippedAt = clock /\ commits'[k].timestamp = clock
<1>1. PICK k, c : k = slot /\ c = commits[k]
  OBVIOUS
<1>2. k \in DOMAIN commits /\ c.phase = "flushed" /\ c # Done /\ IsCommit(c)
  BY <1>1, PhaseTyped DEF CommitInv, Late
<1>3. c.timestamp = 0 /\ c.flippedAt = clock /\ ~c.armed
  BY <1>1, <1>2 DEF CommitInv, Flips, Flip
<1>4. PICK n \in Nat : n = clock
  BY DEF CommitInv, Types
<1> DEFINE d == StampedAt(c, n)
<1>5. commits' = [commits EXCEPT ![k] = d] /\ slot' = 0
  BY <1>1, <1>4 DEF Stamp, StampedAt
<1>6. /\ IsCommit(d) /\ Keeps(c, d) /\ d.phase = c.phase
      /\ d.armed = c.armed /\ d.flippedAt = c.flippedAt /\ d.timestamp = n
  BY <1>2, StampedRecord
<1> HIDE DEF d
<1>7. Moves(k) /\ commits'[k] = d
  BY <1>2, <1>5, <1>6, Updated DEF CommitInv
<1> QED
  BY <1>1, <1>2, <1>3, <1>4, <1>5, <1>6, <1>7

LEMMA StampKeeps ==
  ASSUME CommitInv, ShowInv, Stamp
  PROVE  CommitInv' /\ ShowInv'
<1>1. /\ UNCHANGED <<kms, locks, clock, vblankOn, presentation>> /\ inHandler /\ inHandler' = FALSE
  BY DEF Stamp
<1>2. /\ clock \in Nat \ {0} /\ clock' \in Nat \ {0} /\ clock <= clock' /\ timestamp <= clock
      /\ vblankOn' \in BOOLEAN /\ slot \in Nat
  BY <1>1 DEF CommitInv, Types
<1>3. CASE slot # 0 /\ At(slot, "flushed") /\ commits[slot].flipDone
  <2>1. PICK k : /\ k = slot /\ slot' = 0
                 /\ Moves(k) /\ IsCommit(commits[k]) /\ commits[k] # Done /\ commits[k].phase = "flushed"
                 /\ commits[k].flippedAt = clock
                 /\ IsCommit(commits'[k]) /\ commits'[k].phase = "flushed" /\ Keeps(commits[k], commits'[k])
                 /\ ~commits'[k].armed
                 /\ commits'[k].flippedAt = clock /\ commits'[k].timestamp = clock
    BY <1>3, StampStamps
  <2>2. \A j \in DOMAIN commits : j # k => commits[j] = Done \/ commits[j].phase \in Early
    BY <2>1, OthersEarly DEF CommitInv, Moves, Late
  <2>3. Flip(k)'
    BY <1>1, <1>2, <2>1 DEF Flip, Early, presentation
  <2>4. slot' # 0 => At(slot, "flushed")' /\ commits'[slot'].timestamp = 0
    BY <2>1
  <2>5. (InTail(k)' <=> InTail(k)) /\ (Holds(commits'[k]) <=> Holds(commits[k]))
    BY <2>1 DEF InTail, Holds, Keeps, SameChange
  <2>6. /\ commits'[k].phase \in Late => commits[k].phase \in Late
        /\ commits'[k].phase = commits[k].phase
    BY <2>1
  <2>7. slot' \in Nat /\ inHandler' \in BOOLEAN
    BY <1>1, <2>1
  <2> QED
    BY <1>1, <1>2, <2>1, <2>2, <2>3, <2>4, <2>5, <2>6, <2>7, StepKeeps
<1>4. CASE ~(slot # 0 /\ At(slot, "flushed") /\ commits[slot].flipDone)
  <2>1. UNCHANGED <<commits, slot>>
    BY <1>4 DEF Stamp
  <2>2. Types'
    BY <1>1, <1>2, <2>1 DEF CommitInv, Types, presentation
  <2>3. Locks' /\ Order'
    BY <1>1, <2>1 DEF CommitInv, Locks, Order, locks
  <2>4. Flips'
    <3>1. ASSUME NEW k \in DOMAIN commits, commits[k] # Done PROVE Flip(k)'
      <4>1. Flip(k)
        BY <3>1 DEF CommitInv, Flips
      <4>2. k # 0
        BY Domain DEF CommitInv
      <4>3. ~(commits[k].phase = "flushed" /\ commits[k].flipDone /\ slot = k)
        BY <1>4, <4>2 DEF At
      <4> QED
        BY <1>1, <2>1, <4>1, <4>3 DEF Flip, presentation
    <3> QED
      BY <1>1, <2>1, <3>1 DEF CommitInv, Flips, At
  <2>5. Chain'
    BY <1>1, <2>1 DEF ShowInv, Chain, Before, InTail, presentation
  <2>6. History' /\ Traced'
    BY <1>1, HistoryKept DEF ShowInv
  <2> QED
    BY <2>2, <2>3, <2>4, <2>5, <2>6 DEF CommitInv, ShowInv
<1> QED
  BY <1>3, <1>4

-----------------------------------------------------------------------------
(* A commit publishes.                                                     *)

LEMMA NoMultiple ==
  ASSUME NEW h \in Nat \ {0}, NEW p \in Int, NEW q \in Int, 0 < h * (q - p), h * (q - p) < h
  PROVE  FALSE
OBVIOUS

\* Two numbers less than h apart leave different remainders.
LEMMA RemaindersApart ==
  ASSUME NEW h \in Nat \ {0}, NEW a \in Nat, NEW b \in Nat, a < b, b < a + h
  PROVE  a % h # b % h
<1> SUFFICES ASSUME a % h = b % h PROVE FALSE
  OBVIOUS
<1>1. (a \div h) \in Int /\ (b \div h) \in Int /\ (a % h) \in Int
  OBVIOUS
<1>2. a = h * (a \div h) + (a % h) /\ b = h * (b \div h) + (b % h)
  OBVIOUS
<1>3. PICK p \in Int, q \in Int : a = h * p + (a % h) /\ b = h * q + (b % h)
  BY <1>1, <1>2
<1>4. 0 < h * q - h * p /\ h * q - h * p < h
  BY <1>1, <1>3
<1>5. h * q - h * p = h * (q - p)
  OBVIOUS
<1> QED
  BY <1>4, <1>5, NoMultiple

\* The slot of a presentation.
LEMMA SlotsInTrace ==
  ASSUME NEW s \in Nat \ {0}
  PROVE  TraceSlot(s) \in 0..HistorySize-1
BY LimitsAssumption DEF TraceSlot

\* The presentations of the last HistorySize sequences are in slots of their own.
LEMMA SlotsApart ==
  ASSUME NEW s \in Nat \ {0}, NEW last \in Nat, s < last, last < s + HistorySize
  PROVE  TraceSlot(s) # TraceSlot(last)
<1>1. PICK a \in Nat, b \in Nat, h \in Nat \ {0} : a = s - 1 /\ b = last - 1 /\ h = HistorySize
  BY LimitsAssumption
<1>2. a < b /\ b < a + h
  BY <1>1
<1>3. a % h # b % h
  BY <1>2, RemaindersApart
<1> QED
  BY <1>1, <1>3 DEF TraceSlot

\* What the commit displays is what it put on the plane.
LEMMA DisplaysItsPlane ==
  ASSUME Types, NEW c, IsCommit(c), Follows(c, presentFb)
  PROVE  Displayed(c) = c.kms.fb
<1>1. CASE c.kind = "property"
  <2>1. c.fb = NoFramebuffer /\ c.kms.fb = presentFb /\ (c.kms.on <=> c.kms.fb # NoFramebuffer)
    BY <1>1 DEF IsCommit, Consistent, Follows
  <2>2. CASE c.kms.on
    BY <1>1, <2>1, <2>2 DEF Displayed
  <2>3. CASE ~c.kms.on
    BY <1>1, <2>1, <2>3 DEF Displayed
  <2> QED
    BY <2>2, <2>3
<1>2. CASE c.kind # "property"
  BY <1>2 DEF Displayed, Follows
<1> QED
  BY <1>1, <1>2

LEMMA PublishMoves ==
  ASSUME CommitInv, ShowInv, NEW k, Publish(k)
  PROVE  /\ Moves(k) /\ IsCommit(commits[k]) /\ commits[k] # Done /\ commits[k].phase = "stamped"
         /\ IsCommit(commits'[k]) /\ commits'[k].phase = "published"
         /\ Keeps(commits[k], commits'[k]) /\ SameFlip(commits[k], commits'[k])
         /\ \A j \in 1..k-1 : commits[j] = Done
         /\ presentFb' = commits[k].kms.fb /\ presentFb' \in Frames
         /\ ~commits[k].scanoutChanged => presentFb' = presentFb
<1>1. PICK c : c = commits[k]
  OBVIOUS
<1>2. k \in DOMAIN commits /\ c.phase = "stamped" /\ c # Done /\ IsCommit(c)
  BY <1>1, PhaseTyped DEF Publish, CommitInv, Late
<1> DEFINE d == [c EXCEPT !.phase = "published"]
<1>3. commits' = [commits EXCEPT ![k] = d] /\ presentFb' = Displayed(c)
  BY <1>1 DEF Publish, Present
<1>4. IsCommit(d) /\ d.phase = "published" /\ Keeps(c, d) /\ SameFlip(c, d)
  BY <1>2, AtPhase DEF Late, Keeps
<1> HIDE DEF d
<1>5. Moves(k) /\ commits'[k] = d
  BY <1>2, <1>3, <1>4, Updated DEF CommitInv
<1>6. \A j \in 1..k-1 : commits[j] = Done
  BY <1>1, <1>2 DEF CommitInv, Order, Late
<1>7. Follows(c, presentFb)
  <2>1. Before(k, presentFb)
    BY <1>6, DoneRecord DEF Before, InTail
  <2>2. InTail(k) /\ presentFb \in Frames
    BY <1>1, <1>2 DEF InTail, CommitInv, Types
  <2> QED
    BY <1>1, <1>2, <2>1, <2>2 DEF ShowInv, Chain
<1>8. Displayed(c) = c.kms.fb
  BY <1>2, <1>7, DisplaysItsPlane DEF CommitInv
<1>9. c.kms.fb \in Frames
  BY <1>2 DEF IsCommit, CommitRecord, Scanout
<1>10. ~c.scanoutChanged => Displayed(c) = presentFb
  BY DEF Displayed
<1> QED
  BY <1>1, <1>2, <1>3, <1>4, <1>5, <1>6, <1>8, <1>9, <1>10

LEMMA PublishHistory ==
  ASSUME CommitInv, ShowInv, NEW k, Publish(k), commits[k].scanoutChanged
  PROVE  /\ sequence' = sequence + 1 /\ timestamp' = commits[k].timestamp
         /\ History' /\ Traced'
         /\ published' \in Seq([fb : Frames, timestamp : Nat])
         /\ trace' \in [0..HistorySize-1 -> [sequence : Nat, timestamp : Nat]]
<1>1. PICK c : c = commits[k]
  OBVIOUS
<1>2. /\ k \in DOMAIN commits /\ c.phase = "stamped" /\ c # Done /\ IsCommit(c)
      /\ presentFb' = c.kms.fb /\ presentFb' \in Frames
  BY <1>1, PublishMoves DEF Moves
<1>3. PICK fb \in Frames, time \in Nat : fb = c.kms.fb /\ time = c.timestamp
  BY <1>2 DEF IsCommit, CommitRecord
<1>4. timestamp <= time
  <2>1. Flip(k)
    BY <1>1, <1>2 DEF CommitInv, Flips
  <2> QED
    BY <1>1, <1>2, <1>3, <2>1 DEF Flip
<1>5. PICK n \in Nat : n = sequence + 1
  BY DEF CommitInv, Types
<1> DEFINE shown == [fb |-> fb, timestamp |-> time]
           traced == [sequence |-> n, timestamp |-> time]
<1>6. /\ sequence' = n /\ timestamp' = time
      /\ trace' = [trace EXCEPT ![TraceSlot(n)] = traced]
      /\ published' = Append(published, shown)
  BY <1>1, <1>3, <1>5 DEF Publish, Present
<1>7. shown \in [fb : Frames, timestamp : Nat] /\ shown.fb = fb /\ shown.timestamp = time
  OBVIOUS
<1>8. traced \in [sequence : Nat, timestamp : Nat]
  OBVIOUS
<1> HIDE DEF shown, traced
<1>9. /\ published \in Seq([fb : Frames, timestamp : Nat]) /\ sequence = Len(published)
      /\ sequence \in Nat /\ timestamp \in Nat
  BY DEF CommitInv, ShowInv, Types, History
<1>10. /\ published' \in Seq([fb : Frames, timestamp : Nat]) /\ Len(published') = n
       /\ \A i \in 1..sequence : published'[i] = published[i]
       /\ published'[n] = shown
  BY <1>5, <1>6, <1>7, <1>9, AppendProperties
<1>11. History'
  <2>1. ASSUME NEW i \in 1..n-1 PROVE published'[i].timestamp <= published'[i+1].timestamp
    <3>1. CASE i = sequence
      BY <1>4, <1>5, <1>7, <1>9, <1>10, <3>1 DEF ShowInv, History
    <3>2. CASE i # sequence
      <4>1. i \in 1..Len(published)-1 /\ i \in 1..sequence /\ i+1 \in 1..sequence
        BY <1>5, <1>9, <3>2
      <4> QED
        BY <1>10, <4>1 DEF ShowInv, History
    <3> QED
      BY <3>1, <3>2
  <2> QED
    BY <1>2, <1>3, <1>5, <1>6, <1>7, <1>9, <1>10, <2>1 DEF History
<1>12. TraceSlot(n) \in 0..HistorySize-1
  BY <1>5, <1>9, SlotsInTrace
<1>13. /\ trace \in [0..HistorySize-1 -> [sequence : Nat, timestamp : Nat]]
       /\ trace' \in [0..HistorySize-1 -> [sequence : Nat, timestamp : Nat]]
       /\ trace'[TraceSlot(n)] = traced
       /\ \A i \in 0..HistorySize-1 : i # TraceSlot(n) => trace'[i] = trace[i]
  BY <1>6, <1>8, <1>12 DEF CommitInv, Types
<1>14. Traced'
  <2>1. ASSUME NEW s \in 1..n, s + HistorySize > n
        PROVE  trace'[TraceSlot(s)] = [sequence |-> s, timestamp |-> published'[s].timestamp]
    <3>1. CASE s = n
      BY <1>7, <1>10, <1>13, <3>1 DEF traced
    <3>2. CASE s # n
      <4>1. s \in 1..sequence /\ s + HistorySize > sequence /\ s < n /\ s \in Nat \ {0}
        BY <1>5, <1>9, <2>1, <3>2, LimitsAssumption
      <4>2. TraceSlot(s) # TraceSlot(n) /\ TraceSlot(s) \in 0..HistorySize-1
        BY <2>1, <4>1, SlotsApart, SlotsInTrace, LimitsAssumption
      <4>3. trace[TraceSlot(s)] = [sequence |-> s, timestamp |-> published[s].timestamp]
        BY <4>1 DEF ShowInv, Traced
      <4> QED
        BY <1>10, <1>13, <4>1, <4>2, <4>3
    <3> QED
      BY <3>1, <3>2
  <2>2. sequence' = n
    BY <1>6
  <2> QED
    BY <2>1, <2>2 DEF Traced, TraceSlot
<1> QED
  BY <1>1, <1>3, <1>5, <1>6, <1>10, <1>11, <1>13, <1>14

LEMMA PublishKeeps ==
  ASSUME CommitInv, ShowInv, NEW k, Publish(k)
  PROVE  CommitInv' /\ ShowInv'
<1>1. /\ Moves(k) /\ IsCommit(commits[k]) /\ commits[k] # Done /\ commits[k].phase = "stamped"
      /\ IsCommit(commits'[k]) /\ commits'[k].phase = "published"
      /\ Keeps(commits[k], commits'[k]) /\ SameFlip(commits[k], commits'[k])
      /\ \A j \in 1..k-1 : commits[j] = Done
      /\ presentFb' = commits[k].kms.fb /\ presentFb' \in Frames
      /\ ~commits[k].scanoutChanged => presentFb' = presentFb
  BY PublishMoves
<1>2. UNCHANGED <<kms, locks, flips>>
  BY DEF Publish
<1>3. ~commits[k].scanoutChanged => UNCHANGED <<sequence, timestamp, trace, published>>
  BY DEF Publish, Present
<1>4. Flip(k) /\ commits[k].timestamp \in Nat /\ clock \in Nat /\ timestamp \in Nat /\ timestamp <= clock
  BY <1>1 DEF CommitInv, Flips, Types, IsCommit, CommitRecord, Moves
<1>5. /\ commits[k].timestamp # 0 /\ timestamp <= commits[k].timestamp /\ commits[k].timestamp <= clock
      /\ commits[k].flippedAt # 0 => commits[k].timestamp = commits[k].flippedAt
  BY <1>1, <1>4 DEF Flip
<1>6. timestamp' \in 0..clock /\ timestamp' <= commits[k].timestamp
  BY <1>3, <1>4, <1>5, PublishHistory
<1>7. Types'
  <2>1. \A j \in DOMAIN commits' : commits'[j] = Done \/ IsCommit(commits'[j])
    BY <1>1, MovesTyped DEF CommitInv
  <2>2. /\ sequence' \in Nat /\ published' \in Seq([fb : Frames, timestamp : Nat])
        /\ trace' \in [0..HistorySize-1 -> [sequence : Nat, timestamp : Nat]]
    <3>1. CASE commits[k].scanoutChanged
      <4>1. sequence \in Nat
        BY DEF CommitInv, Types
      <4>2. /\ sequence' = sequence + 1 /\ published' \in Seq([fb : Frames, timestamp : Nat])
            /\ trace' \in [0..HistorySize-1 -> [sequence : Nat, timestamp : Nat]]
        BY <3>1, PublishHistory, Zenon
      <4> QED
        BY <4>1, <4>2
    <3>2. CASE ~commits[k].scanoutChanged
      BY <1>3, <3>2 DEF CommitInv, Types
    <3> QED
      BY <3>1, <3>2
  <2> QED
    BY <1>1, <1>2, <1>6, <2>1, <2>2 DEF CommitInv, Types, Moves, flips
<1>8. Locks'
  <2>1. (Holds(commits'[k]) <=> Holds(commits[k])) /\ commits'[k].by = commits[k].by
    BY <1>1 DEF Holds, Keeps, SameChange
  <2> QED
    BY <1>1, <1>2, <2>1, LocksKept DEF CommitInv
<1>9. Order'
  BY <1>1, OrderKept DEF CommitInv
<1>10. Flips'
  <2>1. \A j \in DOMAIN commits : j # k => commits[j] = Done \/ commits[j].phase \in Early
    BY <1>1, OthersEarly DEF CommitInv, Moves
  <2>2. Flip(k)'
    BY <1>1, <1>2, <1>5, <1>6 DEF Flip, SameFlip, Early, flips
  <2>3. slot = 0
    BY <1>1, <2>1, DoneRecord DEF CommitInv, Flips, At, Early
  <2>4. slot' # 0 => At(slot, "flushed")' /\ commits'[slot'].timestamp = 0
    BY <1>2, <2>3 DEF flips
  <2> QED
    BY <1>1, <2>1, <2>2, <2>4, FlipsStep DEF CommitInv
<1>11. Chain'
  <2>1. InTail(k) /\ ~InTail(k)' /\ \A j \in 1..k-1 : ~InTail(j)
    BY <1>1, DoneRecord DEF InTail
  <2> QED
    BY <1>1, <1>2, <2>1, ChainPublish DEF CommitInv, ShowInv
<1>12. History' /\ Traced'
  <2>1. CASE commits[k].scanoutChanged
    BY <2>1, PublishHistory
  <2>2. CASE ~commits[k].scanoutChanged
    <3>1. UNCHANGED presentation
      BY <1>1, <1>3, <2>2 DEF presentation
    <3> QED
      BY <3>1, HistoryKept DEF ShowInv
  <2> QED
    BY <2>1, <2>2
<1> QED
  BY <1>7, <1>8, <1>9, <1>10, <1>11, <1>12 DEF CommitInv, ShowInv

-----------------------------------------------------------------------------
(* The commits and the threads that close the device.                      *)

LEMMA HushedRefuses ==
  ASSUME Owners, Hushed
  PROVE  ~accepting /\ owner # Client
<1>1. ~accepting
  BY DEF Owners, Hushed, Shut, Over, Stops
<1>2. owner # NoThread => owner \in Closers
  BY DEF Owners
<1> QED
  BY <1>1, <1>2, FinitelyManyThreads

\* A commit that has got past the check is not made under Hushed.
LEMMA NotHushed ==
  ASSUME Closing, NEW k \in DOMAIN commits, commits[k] # Done, commits[k].phase # "locked"
  PROVE  ~Hushed
BY DEF Closing, Quiet

LEMMA OwnersKept ==
  ASSUME Owners, UNCHANGED closing
  PROVE  Owners'
BY DEF Owners, Stops, Over, closing

\* The device is hushed as before, unless a thread that closes it lets go of its commit.
LEMMA SameHush ==
  ASSUME UNCHANGED closing, modesetLock' = modesetLock \/ modesetLock \notin Closers
  PROVE  (Hushed' => Hushed) /\ (Shut' <=> Shut)
BY DEF Hushed, Shut, Over, closing

LEMMA ClosingStep ==
  ASSUME Closing, NEW k, Moves(k), UNCHANGED closing,
         kms' = kms \/ \A j \in DOMAIN commits : j # k => commits[j] = Done \/ commits[j].by = Client,
         commits'[k] # Done /\ commits'[k].by # Client => Closes(k)',
         Hushed' => Quiet', Shut' => presentFb' = NoFramebuffer
  PROVE  Closing'
<1>1. ASSUME NEW j \in DOMAIN commits, j # k, commits'[j] # Done, commits'[j].by # Client PROVE Closes(j)'
  <2>1. commits'[j] = commits[j] /\ kms' = kms /\ closers' = closers
    BY <1>1 DEF Moves, closing
  <2>2. Closes(j)
    BY <1>1, <2>1 DEF Closing
  <2> QED
    BY <2>1, <2>2 DEF Closes
<1> QED
  BY <1>1 DEF Closing, Moves

\* A commit of such a thread has the modeset lock, which no other has.
LEMMA CloserHolds ==
  ASSUME Types, Locks, Closing, NEW k \in DOMAIN commits, commits[k] # Done, commits[k].by # Client
  PROVE  /\ Closes(k) /\ k = Len(commits) /\ modesetLock = commits[k].by
         /\ commits[k].by \in Closers /\ closers[commits[k].by] = "turningOff"
<1>1. Closes(k)
  BY DEF Closing
<1>2. Holds(commits[k])
  BY <1>1, CommitTyped, CommitNotDone DEF Closes, Holds, Early, Late
<1>3. commits[k].by \in Closers
  BY ByThread
<1> QED
  BY <1>1, <1>2, <1>3 DEF Locks, Closes

\* A commit of a client that holds the lock.
LEMMA ClientHolds ==
  ASSUME Types, Locks, Closing, NEW k \in DOMAIN commits, commits[k] # Done, commits[k].by = Client,
         Holds(commits[k])
  PROVE  /\ modesetLock = Client /\ modesetLock \notin Closers
         /\ \A j \in DOMAIN commits : commits[j] = Done \/ commits[j].by = Client
<1>1. modesetLock = Client
  BY DEF Locks
<1>2. \A j \in DOMAIN commits : commits[j] = Done \/ commits[j].by = Client
  BY <1>1, CloserHolds, FinitelyManyThreads
<1> QED
  BY <1>1, <1>2, FinitelyManyThreads

\* A commit that is over leaves the device as quiet as it was.
LEMMA ClientEnds ==
  ASSUME Types, Locks, CloseInv, NEW k, Ends(k), commits[k].by = Client, UNCHANGED closing,
         modesetLock' = modesetLock \/ Holds(commits[k])
  PROVE  CloseInv'
<1>1. /\ Moves(k) /\ k \in DOMAIN commits /\ commits[k] # Done /\ commits'[k] = Done
      /\ kms' = kms /\ presentFb' = presentFb
  BY DEF Ends, Moves, presentation
<1>2. modesetLock' = modesetLock \/ modesetLock \notin Closers
  BY <1>1, ClientHolds DEF CloseInv
<1>3. (Hushed' => Hushed) /\ (Shut' <=> Shut)
  BY <1>2, SameHush
<1>4. Quiet => Quiet'
  BY <1>1 DEF Quiet, Moves
<1>5. Closing'
  BY <1>1, <1>3, <1>4, ClosingStep DEF CloseInv, Closing
<1> QED
  BY <1>5, OwnersKept DEF CloseInv

LEMMA RefuseCloses ==
  ASSUME Types, Locks, CloseInv, NEW k, Refuse(k), Ends(k)
  PROVE  CloseInv'
<1>1. k \in DOMAIN commits /\ commits[k] # Done /\ commits[k].phase = "locked" /\ ~Allowed(k)
  BY PhaseTyped DEF Refuse, Early
<1>2. commits[k].by = Client
  BY <1>1, CloserHolds DEF CloseInv, Owners, Stops, Allowed
<1>3. Holds(commits[k]) /\ UNCHANGED closing
  BY <1>1 DEF Holds, Refuse
<1> QED
  BY <1>2, <1>3, ClientEnds

LEMMA FailCloses ==
  ASSUME Types, Locks, CloseInv, NEW k, Fail(k), Ends(k)
  PROVE  CloseInv'
<1>1. commits[k].phase = "counted" /\ commits[k].by = Client /\ UNCHANGED closing
  BY DEF Fail, At
<1> QED
  BY <1>1, ClientEnds DEF Holds

LEMMA FinishCloses ==
  ASSUME Types, Locks, Order, CloseInv, NEW k, Finish(k), Ends(k)
  PROVE  CloseInv'
<1>1. k \in DOMAIN commits /\ commits[k].phase = "published" /\ commits[k] # Done
  BY PhaseTyped DEF Finish, Late
<1>2. UNCHANGED closing
  BY DEF Finish
<1>3. CASE commits[k].by = Client
  <2>1. modesetLock' = modesetLock \/ Holds(commits[k])
    BY <1>1 DEF Finish, Leave, Holds, locks
  <2> QED
    BY <1>2, <1>3, <2>1, ClientEnds
<1>4. CASE commits[k].by # Client
  <2>1. Closes(k) /\ k = Len(commits)
    BY <1>1, <1>4, CloserHolds DEF CloseInv
  <2>2. ~kms.on
    BY <1>1, <2>1 DEF Closes
  <2>3. \A j \in 1..k-1 : commits[j] = Done
    BY <1>1 DEF Order, Late
  <2>4. \A j \in DOMAIN commits' : commits'[j] = Done
    BY <1>1, <2>1, <2>3, Domain DEF Ends, Moves
  <2>5. Quiet'
    BY <2>2, <2>4 DEF Quiet, Ends
  <2>6. ~Shut
    BY <1>1, NotHushed DEF CloseInv, Hushed
  <2>7. ~Shut'
    BY <1>2, <2>6 DEF Shut, Over, closing
  <2>8. Moves(k) /\ kms' = kms /\ commits'[k] = Done
    BY DEF Ends
  <2>9. Closing'
    BY <1>2, <2>5, <2>7, <2>8, ClosingStep DEF CloseInv
  <2> QED
    BY <1>2, <2>9, OwnersKept DEF CloseInv
<1> QED
  BY <1>3, <1>4

LEMMA CountCloses ==
  ASSUME Types, Locks, CloseInv, NEW k, Count(k)
  PROVE  CloseInv'
<1>1. /\ Moves(k) /\ commits[k] # Done /\ commits[k].phase = "locked"
      /\ commits'[k].phase = "counted" /\ SameChange(commits[k], commits'[k])
  BY CountMoves DEF Keeps
<1>2. UNCHANGED closing /\ modesetLock' = modesetLock /\ kms' = kms /\ presentFb' = presentFb /\ Allowed(k)
  BY DEF Count, presentation
<1>3. ~Hushed
  <2>1. CASE commits[k].by = Client
    BY <1>2, <2>1, HushedRefuses DEF CloseInv, Allowed
  <2>2. CASE commits[k].by # Client
    BY <1>1, <2>2 DEF CloseInv, Closing, Quiet, Moves
  <2> QED
    BY <2>1, <2>2
<1>4. ~Hushed' /\ ~Shut'
  BY <1>2, <1>3, SameHush DEF Hushed
<1>5. ASSUME commits'[k].by # Client PROVE Closes(k)'
  <2>1. Closes(k)
    BY <1>1, <1>5 DEF CloseInv, Closing, SameChange, Moves
  <2> QED
    BY <1>1, <1>2, <2>1 DEF Closes, SameChange, closing
<1>6. Closing'
  BY <1>1, <1>2, <1>4, <1>5, ClosingStep DEF CloseInv
<1> QED
  BY <1>2, <1>6, OwnersKept DEF CloseInv

LEMMA SwapCloses ==
  ASSUME Types, Locks, CloseInv, NEW k, Swap(k)
  PROVE  CloseInv'
<1>1. /\ Moves(k) /\ k \in DOMAIN commits /\ commits[k] # Done /\ commits[k].phase = "counted"
      /\ commits'[k].phase = "queued" /\ SameChange(commits[k], commits'[k])
      /\ commits[k].kind = "off" => ~kms'.on
  BY SwapMoves DEF Moves
<1>2. UNCHANGED closing /\ modesetLock' = IF commits[k].nonblock THEN NoThread ELSE modesetLock
  BY DEF Swap
<1>3. ~Hushed
  BY <1>1, NotHushed DEF CloseInv
<1>4. CASE commits[k].by = Client
  <2>1. /\ modesetLock \notin Closers
        /\ \A j \in DOMAIN commits : commits[j] = Done \/ commits[j].by = Client
    BY <1>1, <1>4, ClientHolds DEF CloseInv, Holds
  <2>2. ~Hushed' /\ ~Shut'
    BY <1>2, <1>3, <2>1, SameHush DEF Hushed
  <2>3. commits'[k].by = Client
    BY <1>1, <1>4 DEF SameChange
  <2>4. Closing'
    BY <1>1, <1>2, <2>1, <2>2, <2>3, ClosingStep DEF CloseInv
  <2> QED
    BY <1>2, <2>4, OwnersKept DEF CloseInv
<1>5. CASE commits[k].by # Client
  <2>1. Closes(k) /\ k = Len(commits)
    BY <1>1, <1>5, CloserHolds DEF CloseInv
  <2>2. modesetLock' = modesetLock
    BY <1>2, <2>1 DEF Closes
  <2>3. ~Hushed' /\ ~Shut'
    BY <1>2, <1>3, <2>2, SameHush DEF Hushed
  <2>4. \A j \in DOMAIN commits : j # k => commits[j] = Done \/ commits[j].by = Client
    BY <2>1, CloserHolds DEF CloseInv
  <2>5. Closes(k)'
    BY <1>1, <1>2, <2>1 DEF Closes, SameChange, closing
  <2>6. Closing'
    BY <1>1, <1>2, <2>3, <2>4, <2>5, ClosingStep DEF CloseInv
  <2> QED
    BY <1>2, <2>6, OwnersKept DEF CloseInv
<1> QED
  BY <1>4, <1>5

\* A step of a tail.
LEMMA TailCloses ==
  ASSUME Types, CloseInv, NEW k, Moves(k), commits[k] # Done, SameChange(commits[k], commits'[k]),
         commits[k].phase \notin {"locked", "counted"},
         UNCHANGED <<closing, locks, kms>>
  PROVE  CloseInv'
<1>1. ~Hushed
  BY NotHushed DEF CloseInv, Moves
<1>2. ~Hushed' /\ ~Shut'
  BY <1>1, SameHush DEF Hushed, locks
<1>3. ASSUME commits'[k].by # Client PROVE Closes(k)'
  <2>1. Closes(k)
    BY <1>3 DEF CloseInv, Closing, SameChange, Moves
  <2> QED
    BY <2>1 DEF Closes, SameChange, closing
<1>4. Closing'
  BY <1>2, <1>3, ClosingStep DEF CloseInv
<1> QED
  BY <1>4, OwnersKept DEF CloseInv

-----------------------------------------------------------------------------
(* The counters.                                                           *)

Counted(c) == c.phase \in {"counted", "queued", "flushed", "stamped"}

LEMMA CountingFinite ==
  ASSUME Types
  PROVE  IsFiniteSet(Counting) /\ Cardinality(Counting) \in Nat
<1>1. IsFiniteSet(1..Len(commits))
  BY Domain, FS_Interval
<1>2. Counting \subseteq 1..Len(commits)
  BY Domain DEF Counting
<1>3. IsFiniteSet(Counting)
  BY <1>1, <1>2, FS_Subset
<1> QED
  BY <1>3, FS_CardinalityType

LEMMA PendingKept ==
  ASSUME PendingExact, NEW k, Moves(k), Counted(commits'[k]) <=> Counted(commits[k]), pending' = pending
  PROVE  PendingExact'
<1>1. Counting' = Counting
  BY DEF Counting, Counted, Moves
<1> QED
  BY <1>1 DEF PendingExact, Counting

LEMMA PendingMore ==
  ASSUME Types, PendingExact, NEW k, Moves(k), Counted(commits'[k]), ~Counted(commits[k]),
         pending' = pending + 1
  PROVE  PendingExact'
<1>1. Counting' = Counting \cup {k} /\ k \notin Counting
  BY DEF Counting, Counted, Moves
<1>2. Cardinality(Counting') = Cardinality(Counting) + 1
  BY <1>1, CountingFinite, FS_AddElement
<1> QED
  BY <1>2 DEF PendingExact, Counting

LEMMA PendingLess ==
  ASSUME Types, PendingExact, NEW k, Moves(k), ~Counted(commits'[k]), Counted(commits[k]),
         pending' = pending - 1
  PROVE  PendingExact'
<1>1. Counting' = Counting \ {k} /\ k \in Counting
  BY DEF Counting, Counted, Moves
<1>2. Cardinality(Counting') = Cardinality(Counting) - 1
  BY <1>1, CountingFinite, FS_RemoveElement
<1> QED
  BY <1>2 DEF PendingExact, Counting

LEMMA WakingTyped ==
  ASSUME Clients, WaitersExact, waiters' = Woken, UNCHANGED <<waiterCount, readers>>,
         references' \in [Framebuffers -> Int], pending' \in Int
  PROVE  /\ Clients' /\ WaitersExact'
         /\ \A w \in Waiters : waiters'[w].at # "asleep"
<1> DEFINE W == [at : {"idle", "awake", "asleep", "leaving"}, knows : Nat]
<1>1. ASSUME NEW w \in Waiters
      PROVE  /\ waiters'[w] \in W /\ waiters'[w].at # "asleep"
             /\ waiters'[w].at # "idle" <=> waiters[w].at # "idle"
  <2>1. waiters[w] \in W
    BY DEF Clients
  <2>2. waiters'[w] = IF waiters[w].at = "asleep" THEN [waiters[w] EXCEPT !.at = "awake"] ELSE waiters[w]
    BY DEF Woken
  <2> QED
    BY <2>1, <2>2
<1>2. waiters' \in [Waiters -> W]
  <2>1. waiters' = [w \in Waiters |-> waiters'[w]]
    BY DEF Woken
  <2> QED
    BY <1>1, <2>1
<1>3. Waiting' = Waiting
  BY <1>1 DEF Waiting
<1> QED
  BY <1>1, <1>2, <1>3 DEF Clients, WaitersExact, Waiting

LEMMA SleepersKept ==
  ASSUME NoSleeperLeftBehind, NEW k, Moves(k), UNCHANGED <<waiters, sequence>>,
         commits[k].phase = "published" => commits'[k].phase = "published"
  PROVE  NoSleeperLeftBehind'
<1>1. \A j \in DOMAIN commits : At(j, "published") => At(j, "published")'
  BY DEF At, Moves
<1> QED
  BY <1>1 DEF NoSleeperLeftBehind, Moves

LEMMA AdjustedTyped ==
  ASSUME NEW refs \in [Framebuffers -> Int], NEW fb \in Frames, NEW by \in Int
  PROVE  /\ Adjusted(refs, fb, by) \in [Framebuffers -> Int]
         /\ \A g \in Framebuffers : Adjusted(refs, fb, by)[g] = refs[g] + (IF g = fb THEN by ELSE 0)
BY FramebufferAssumption DEF Adjusted, Frames

\* The presentation moves its reference with the frame on offer.
LEMMA ReferencesMove ==
  ASSUME Clients, ReferencesExact, presentFb \in Frames, presentFb' \in Frames,
         references' = Adjusted(Adjusted(references, presentFb', 1), presentFb, -1),
         readers' = readers
  PROVE  references' \in [Framebuffers -> Int] /\ ReferencesExact'
<1>1. PICK r \in [Framebuffers -> Int], new \in Frames, old \in Frames :
          r = references /\ new = presentFb' /\ old = presentFb
  BY DEF Clients
<1>2. PICK up \in Int, down \in Int : up = 1 /\ down = -1
  OBVIOUS
<1>3. Adjusted(r, new, up) \in [Framebuffers -> Int]
  BY AdjustedTyped
<1>4. PICK taken \in [Framebuffers -> Int] : taken = Adjusted(r, new, up)
  BY <1>3
<1>5. \A g \in Framebuffers : taken[g] = r[g] + (IF g = new THEN up ELSE 0)
  BY <1>4, FramebufferAssumption DEF Adjusted, Frames
<1>6. references' = Adjusted(taken, old, down)
  BY <1>1, <1>2, <1>4
<1>7. /\ references' \in [Framebuffers -> Int]
      /\ \A g \in Framebuffers : references'[g] = taken[g] + (IF g = old THEN down ELSE 0)
  <2>1. Adjusted(taken, old, down) \in [Framebuffers -> Int]
    BY AdjustedTyped
  <2>2. PICK given \in [Framebuffers -> Int] : given = Adjusted(taken, old, down)
    BY <2>1
  <2>3. \A g \in Framebuffers : given[g] = taken[g] + (IF g = old THEN down ELSE 0)
    BY <2>2, FramebufferAssumption DEF Adjusted, Frames
  <2> QED
    BY <1>6, <2>2, <2>3
<1>8. ASSUME NEW g \in Framebuffers
      PROVE  references'[g] = Cardinality({x \in Readers : readers'[x] = g}) + (IF presentFb' = g THEN 1 ELSE 0)
  <2>1. references[g] = Cardinality({x \in Readers : readers[x] = g}) + (IF presentFb = g THEN 1 ELSE 0)
    BY DEF ReferencesExact
  <2>2. PICK n : n = Cardinality({x \in Readers : readers[x] = g})
    OBVIOUS
  <2>3. n \in Nat
    <3>1. IsFiniteSet({x \in Readers : readers[x] = g})
      BY ClientsAssumption, FS_Subset
    <3> QED
      BY <2>2, <3>1, FS_CardinalityType
  <2>4. r[g] \in Int /\ r[g] = n + (IF old = g THEN 1 ELSE 0)
    BY <1>1, <2>1, <2>2
  <2>5. references'[g] = n + (IF new = g THEN 1 ELSE 0)
    BY <1>2, <1>5, <1>7, <2>3, <2>4
  <2>6. n = Cardinality({x \in Readers : readers'[x] = g})
    BY <2>2
  <2> QED
    BY <1>1, <2>5, <2>6
<1> QED
  BY <1>8, <1>7 DEF ReferencesExact

LEMMA SameClients ==
  ASSUME Clients, WaitersExact, UNCHANGED clients,
         references' \in [Framebuffers -> Int], pending' \in Int
  PROVE  Clients' /\ WaitersExact'
BY DEF Clients, WaitersExact, clients

LEMMA SameReferences ==
  ASSUME ReferencesExact, UNCHANGED <<references, readers, presentFb>>
  PROVE  ReferencesExact'
BY DEF ReferencesExact

\* A step of a commit that is counted after it as before.
LEMMA StepCounts ==
  ASSUME CountInv, NEW k, Moves(k), Counted(commits'[k]) <=> Counted(commits[k]),
         commits[k].phase # "published", UNCHANGED <<presentation, counters, clients>>
  PROVE  CountInv'
<1>1. /\ pending' = pending /\ references' = references /\ waiters' = waiters
      /\ sequence' = sequence /\ presentFb' = presentFb /\ readers' = readers
  BY DEF presentation, counters, clients
<1>2. Clients' /\ WaitersExact'
  BY <1>1, SameClients DEF CountInv, CountersExact, Clients
<1>3. PendingExact'
  BY <1>1, PendingKept DEF CountInv, CountersExact
<1>4. ReferencesExact'
  BY <1>1, SameReferences DEF CountInv, CountersExact
<1>5. NoSleeperLeftBehind'
  BY <1>1, SleepersKept DEF CountInv
<1> QED
  BY <1>2, <1>3, <1>4, <1>5 DEF CountInv, CountersExact

LEMMA RefuseCounts ==
  ASSUME CountInv, NEW k, Refuse(k), Ends(k)
  PROVE  CountInv'
<1>1. /\ commits[k].phase = "locked" /\ commits'[k].phase = "done" /\ Moves(k)
      /\ UNCHANGED <<presentation, counters, clients>>
  BY DoneRecord DEF Refuse, At, Ends
<1> QED
  BY <1>1, StepCounts DEF Counted

LEMMA CountCounts ==
  ASSUME Types, CountInv, NEW k, Count(k)
  PROVE  CountInv'
<1>1. Moves(k) /\ commits[k].phase = "locked" /\ commits'[k].phase = "counted"
  BY CountMoves
<1>2. /\ pending' = pending + 1 /\ references' = references /\ UNCHANGED clients
      /\ sequence' = sequence /\ presentFb' = presentFb /\ readers' = readers /\ waiters' = waiters
  BY DEF Count, presentation, clients
<1>3. pending \in Int /\ references \in [Framebuffers -> Int]
  BY DEF CountInv, Clients
<1>4. Clients' /\ WaitersExact'
  BY <1>2, <1>3, SameClients DEF CountInv, CountersExact
<1>5. PendingExact'
  BY <1>1, <1>2, PendingMore DEF CountInv, CountersExact, Counted
<1>6. ReferencesExact'
  BY <1>2, SameReferences DEF CountInv, CountersExact
<1>7. NoSleeperLeftBehind'
  BY <1>1, <1>2, SleepersKept DEF CountInv
<1> QED
  BY <1>4, <1>5, <1>6, <1>7 DEF CountInv, CountersExact

LEMMA FailCounts ==
  ASSUME Types, CountInv, NEW k, Fail(k), Ends(k)
  PROVE  CountInv'
<1>1. Moves(k) /\ commits[k].phase = "counted" /\ commits'[k].phase = "done"
  BY DoneRecord DEF Fail, At, Ends
<1>2. /\ pending' = pending - 1 /\ references' = references /\ waiters' = Woken
      /\ UNCHANGED <<waiterCount, readers>> /\ presentFb' = presentFb
  BY DEF Fail, presentation
<1>3. pending \in Int /\ references \in [Framebuffers -> Int]
  BY DEF CountInv, Clients
<1>4. Clients' /\ WaitersExact' /\ \A w \in Waiters : waiters'[w].at # "asleep"
  BY <1>2, <1>3, WakingTyped DEF CountInv, CountersExact
<1>5. PendingExact'
  BY <1>1, <1>2, PendingLess DEF CountInv, CountersExact, Counted
<1>6. ReferencesExact'
  BY <1>2, SameReferences DEF CountInv, CountersExact
<1>7. NoSleeperLeftBehind'
  BY <1>4 DEF NoSleeperLeftBehind
<1> QED
  BY <1>4, <1>5, <1>6, <1>7 DEF CountInv, CountersExact

\* The thread that published wakes whoever sleeps.
LEMMA FinishCounts ==
  ASSUME Types, CountInv, NEW k, Finish(k), Ends(k)
  PROVE  CountInv'
<1>1. Moves(k) /\ commits[k].phase = "published" /\ commits'[k].phase = "done"
  BY DoneRecord DEF Finish, At, Ends
<1>2. /\ pending' = pending /\ references' = references /\ waiters' = Woken
      /\ UNCHANGED <<waiterCount, readers>> /\ presentFb' = presentFb
  BY DEF Finish, presentation, counters
<1>3. pending \in Int /\ references \in [Framebuffers -> Int]
  BY DEF CountInv, Clients
<1>4. Clients' /\ WaitersExact' /\ \A w \in Waiters : waiters'[w].at # "asleep"
  BY <1>2, <1>3, WakingTyped DEF CountInv, CountersExact
<1>5. PendingExact'
  BY <1>1, <1>2, PendingKept DEF CountInv, CountersExact, Counted
<1>6. ReferencesExact'
  BY <1>2, SameReferences DEF CountInv, CountersExact
<1>7. NoSleeperLeftBehind'
  BY <1>4 DEF NoSleeperLeftBehind
<1> QED
  BY <1>4, <1>5, <1>6, <1>7 DEF CountInv, CountersExact

LEMMA PublishCounts ==
  ASSUME CommitInv, ShowInv, CountInv, NEW k, Publish(k)
  PROVE  CountInv'
<1>1. /\ Moves(k) /\ commits[k].phase = "stamped" /\ commits'[k].phase = "published"
      /\ presentFb' \in Frames
  BY PublishMoves
<1>2. /\ pending' = pending - 1 /\ UNCHANGED clients /\ readers' = readers
      /\ references' = Adjusted(Adjusted(references, presentFb', 1), presentFb, -1)
  BY DEF Publish, Present, ReferencesAfter, clients
<1>3. references' \in [Framebuffers -> Int] /\ ReferencesExact'
  BY <1>1, <1>2, ReferencesMove DEF CommitInv, Types, CountInv, CountersExact
<1>4. pending \in Int
  BY DEF CountInv, Clients
<1>5. Clients' /\ WaitersExact'
  BY <1>2, <1>3, <1>4, SameClients DEF CountInv, CountersExact
<1>6. PendingExact'
  BY <1>1, <1>2, PendingLess DEF CommitInv, CountInv, CountersExact, Counted
<1>7. NoSleeperLeftBehind'
  BY <1>1 DEF NoSleeperLeftBehind, At, Moves
<1> QED
  BY <1>3, <1>5, <1>6, <1>7 DEF CountInv, CountersExact

LEMMA BeginCounts ==
  ASSUME Types, CountInv, NEW thread \in Closers \cup {Client}, NEW change \in Changes,
         NEW nonblock \in BOOLEAN, Begin(thread, change, nonblock)
  PROVE  CountInv'
<1>1. PICK c : Appends(c)
  BY BeginAppends
<1>2. /\ pending' = pending /\ references' = references /\ UNCHANGED clients
      /\ sequence' = sequence /\ presentFb' = presentFb /\ readers' = readers /\ waiters' = waiters
  BY DEF Begin, presentation, counters, clients
<1>3. Clients' /\ WaitersExact'
  BY <1>2, SameClients DEF CountInv, CountersExact, Clients
<1>4. Counting' = Counting
  <2>1. \A j \in DOMAIN commits' : j \in DOMAIN commits \/ commits'[j].phase = "locked"
    BY <1>1, Domain DEF Appends
  <2>2. \A j \in DOMAIN commits : j \in DOMAIN commits' /\ commits'[j] = commits[j]
    BY <1>1, Domain DEF Appends
  <2> QED
    BY <2>1, <2>2 DEF Counting
<1>5. PendingExact'
  BY <1>2, <1>4 DEF CountInv, CountersExact, PendingExact, Counting
<1>6. ReferencesExact'
  BY <1>2, SameReferences DEF CountInv, CountersExact
<1>7. NoSleeperLeftBehind'
  <2>1. \A j \in DOMAIN commits : At(j, "published") => At(j, "published")' /\ j \in DOMAIN commits'
    BY <1>1, Domain DEF Appends, At
  <2> QED
    BY <1>2, <2>1 DEF CountInv, NoSleeperLeftBehind
<1> QED
  BY <1>3, <1>5, <1>6, <1>7 DEF CountInv, CountersExact

LEMMA QuietCounts ==
  ASSUME CountInv, UNCHANGED <<commits, presentation, counters, clients>>
  PROVE  CountInv'
<1>1. /\ pending' = pending /\ references' = references
      /\ sequence' = sequence /\ presentFb' = presentFb /\ readers' = readers /\ waiters' = waiters
  BY DEF presentation, counters, clients
<1>2. Clients' /\ WaitersExact'
  BY <1>1, SameClients DEF CountInv, CountersExact, Clients
<1>3. PendingExact'
  BY <1>1 DEF CountInv, CountersExact, PendingExact
<1>4. ReferencesExact'
  BY <1>1, SameReferences DEF CountInv, CountersExact
<1>5. NoSleeperLeftBehind'
  BY <1>1 DEF CountInv, NoSleeperLeftBehind, At
<1> QED
  BY <1>2, <1>3, <1>4, <1>5 DEF CountInv, CountersExact

LEMMA SwapCounts ==
  ASSUME Types, CountInv, NEW k, Swap(k)
  PROVE  CountInv'
<1>1. /\ Moves(k) /\ commits[k].phase = "counted" /\ commits'[k].phase = "queued"
  BY SwapMoves
<1>2. UNCHANGED <<presentation, counters, clients>>
  BY DEF Swap
<1> QED
  BY <1>1, <1>2, StepCounts DEF Counted

LEMMA FlushCounts ==
  ASSUME CommitInv, CountInv, NEW k, Flush(k)
  PROVE  CountInv'
<1>1. Moves(k) /\ commits[k].phase = "queued" /\ commits'[k].phase = "flushed"
  BY FlushMoves
<1>2. UNCHANGED <<presentation, counters, clients>>
  BY DEF Flush
<1> QED
  BY <1>1, <1>2, StepCounts DEF Counted

LEMMA TakeTimestampCounts ==
  ASSUME CommitInv, CountInv, NEW k, TakeTimestamp(k)
  PROVE  CountInv'
<1>1. Moves(k) /\ commits[k].phase = "flushed" /\ commits'[k].phase = "stamped"
  BY TakeTimestampMoves
<1>2. UNCHANGED <<presentation, counters, clients>>
  BY DEF TakeTimestamp
<1> QED
  BY <1>1, <1>2, StepCounts DEF Counted

-----------------------------------------------------------------------------
(* Capture clients.                                                        *)

\* One waiter moves.
Becomes(w, v) ==
    /\ v \in [at : {"idle", "awake", "asleep", "leaving"}, knows : Nat]
    /\ waiters' = [waiters EXCEPT ![w] = v]

LEMMA WaiterBecomes ==
  ASSUME CountInv, NEW w \in Waiters, NEW v, Becomes(w, v),
         UNCHANGED <<commits, presentation, counters, readers>>,
         \/ v.at # "idle" /\ waiters[w].at # "idle" /\ waiterCount' = waiterCount
         \/ v.at # "idle" /\ waiters[w].at = "idle" /\ waiterCount' = waiterCount + 1
         \/ v.at = "idle" /\ waiters[w].at # "idle" /\ waiterCount' = waiterCount - 1,
         v.at = "asleep" => v.knows = sequence
  PROVE  CountInv'
<1>1. /\ pending' = pending /\ references' = references
      /\ sequence' = sequence /\ presentFb' = presentFb /\ readers' = readers
  BY DEF presentation, counters
<1>2. /\ waiters'[w] = v
      /\ \A o \in Waiters : o # w => waiters'[o] = waiters[o]
      /\ waiters' \in [Waiters -> [at : {"idle", "awake", "asleep", "leaving"}, knows : Nat]]
  BY DEF CountInv, Clients, Becomes
<1>3. waiterCount = Cardinality(Waiting) /\ waiterCount \in Int
  BY DEF CountInv, Clients, CountersExact, WaitersExact, Waiting
<1>4. IsFiniteSet(Waiting)
  BY ClientsAssumption, FS_Subset DEF Waiting
<1>5. waiterCount' = Cardinality(Waiting')
  <2>1. CASE v.at # "idle" /\ waiters[w].at # "idle" /\ waiterCount' = waiterCount
    <3>1. Waiting' = Waiting
      BY <1>2, <2>1 DEF Waiting
    <3> QED
      BY <1>3, <2>1, <3>1
  <2>2. CASE v.at # "idle" /\ waiters[w].at = "idle" /\ waiterCount' = waiterCount + 1
    <3>1. Waiting' = Waiting \cup {w} /\ w \notin Waiting
      BY <1>2, <2>2 DEF Waiting
    <3>2. Cardinality(Waiting \cup {w}) = Cardinality(Waiting) + 1
      BY <1>4, <3>1, FS_AddElement
    <3> QED
      BY <1>3, <2>2, <3>1, <3>2
  <2>3. CASE v.at = "idle" /\ waiters[w].at # "idle" /\ waiterCount' = waiterCount - 1
    <3>1. Waiting' = Waiting \ {w} /\ w \in Waiting
      BY <1>2, <2>3 DEF Waiting
    <3>2. Cardinality(Waiting \ {w}) = Cardinality(Waiting) - 1
      BY <1>4, <3>1, FS_RemoveElement
    <3> QED
      BY <1>3, <2>3, <3>1, <3>2
  <2> QED
    BY <2>1, <2>2, <2>3
<1>6. waiterCount' \in Int
  BY <1>3
<1>7. Clients'
  BY <1>1, <1>2, <1>6 DEF CountInv, Clients
<1>8. PendingExact' /\ ReferencesExact' /\ WaitersExact'
  BY <1>1, <1>5, SameReferences DEF CountInv, CountersExact, PendingExact, WaitersExact, Waiting
<1>9. NoSleeperLeftBehind'
  BY <1>1, <1>2 DEF CountInv, NoSleeperLeftBehind, At
<1> QED
  BY <1>7, <1>8, <1>9 DEF CountInv, CountersExact

LEMMA WaiterCounts ==
  ASSUME Types, CountInv, NEW w \in Waiters, WaiterStep(w)
  PROVE  CountInv'
<1>1. UNCHANGED <<commits, presentation, counters>> /\ sequence \in Nat
  BY DEF WaiterStep, Types
<1> PICK v : v = waiters[w]
  OBVIOUS
<1>2. v \in [at : {"idle", "awake", "asleep", "leaving"}, knows : Nat]
  BY DEF CountInv, Clients
<1>3. CASE Register(w)
  <2> DEFINE u == [at |-> "awake", knows |-> sequence]
  <2>1. Becomes(w, u) /\ u.at = "awake"
    BY <1>1, <1>3 DEF Register, Becomes
  <2>2. v.at = "idle" /\ waiterCount' = waiterCount + 1 /\ readers' = readers
    BY <1>3 DEF Register
  <2> HIDE DEF u
  <2> QED
    BY <1>1, <2>1, <2>2, WaiterBecomes
<1>4. CASE CheckSequence(w)
  <2> DEFINE u == [v EXCEPT !.at = IF sequence # v.knows THEN "leaving" ELSE "asleep"]
  <2>1. Becomes(w, u) /\ u.at # "idle" /\ (u.at = "asleep" => u.knows = sequence)
    BY <1>2, <1>4 DEF CheckSequence, Becomes
  <2>2. v.at = "awake" /\ waiterCount' = waiterCount /\ readers' = readers
    BY <1>4 DEF CheckSequence
  <2> HIDE DEF u
  <2> QED
    BY <1>1, <2>1, <2>2, WaiterBecomes
<1>5. CASE GiveUpWaiting(w)
  <2> DEFINE u == [v EXCEPT !.at = "leaving"]
  <2>1. Becomes(w, u) /\ u.at = "leaving"
    BY <1>2, <1>5 DEF GiveUpWaiting, Becomes
  <2>2. v.at = "asleep" /\ waiterCount' = waiterCount /\ readers' = readers
    BY <1>5 DEF GiveUpWaiting
  <2> HIDE DEF u
  <2> QED
    BY <1>1, <2>1, <2>2, WaiterBecomes
<1>6. CASE Answer(w)
  <2> DEFINE u == [at |-> "idle", knows |-> 0]
  <2>1. Becomes(w, u) /\ u.at = "idle"
    BY <1>6 DEF Answer, Becomes
  <2>2. v.at = "leaving" /\ waiterCount' = waiterCount - 1 /\ readers' = readers
    BY <1>6 DEF Answer
  <2> HIDE DEF u
  <2> QED
    BY <1>1, <2>1, <2>2, WaiterBecomes
<1> QED
  BY <1>3, <1>4, <1>5, <1>6 DEF WaiterStep

LEMMA ReadingFinite ==
  ASSUME NEW g
  PROVE  IsFiniteSet(Reading(g)) /\ Cardinality(Reading(g)) \in Nat
<1>1. IsFiniteSet(Reading(g))
  BY ClientsAssumption, FS_Subset DEF Reading
<1> QED
  BY <1>1, FS_CardinalityType

LEMMA ReaderCounts ==
  ASSUME Types, CountInv, NEW r \in Readers, ReaderStep(r)
  PROVE  CountInv'
<1>1. /\ UNCHANGED <<commits, presentation, pending, waiterCount, waiters>>
      /\ sequence' = sequence /\ presentFb' = presentFb /\ presentFb \in Frames
  BY DEF ReaderStep, Types, presentation
<1>2. readers \in [Readers -> Frames] /\ references \in [Framebuffers -> Int]
  BY DEF CountInv, Clients
<1>3. ASSUME NEW g \in Framebuffers PROVE references[g] = Cardinality(Reading(g)) + (IF presentFb = g THEN 1 ELSE 0)
  BY DEF CountInv, CountersExact, ReferencesExact, Reading
<1>4. ASSUME ExportFrame(r)
      PROVE  ReferencesExact' /\ readers' \in [Readers -> Frames] /\ references' \in [Framebuffers -> Int]
  <2>1. PICK fb \in Framebuffers, by \in Int : fb = presentFb /\ by = 1
    BY <1>1, <1>4 DEF ExportFrame, Frames
  <2>2. /\ readers' = [readers EXCEPT ![r] = fb] /\ readers[r] = NoFramebuffer
        /\ references' = Adjusted(references, fb, by)
    BY <1>4, <2>1 DEF ExportFrame
  <2>3. /\ readers' \in [Readers -> Frames] /\ readers'[r] = fb
        /\ \A o \in Readers : o # r => readers'[o] = readers[o]
    BY <1>2, <2>1, <2>2 DEF Frames
  <2>4. fb \in Frames
    BY <2>1 DEF Frames
  <2>5. /\ references' \in [Framebuffers -> Int]
        /\ \A g \in Framebuffers : references'[g] = references[g] + (IF g = fb THEN by ELSE 0)
    BY <1>2, <2>2, <2>4, AdjustedTyped
  <2>6. ASSUME NEW g \in Framebuffers
        PROVE  references'[g] = Cardinality(Reading(g)') + (IF presentFb' = g THEN 1 ELSE 0)
    <3>1. PICK n \in Nat : n = Cardinality(Reading(g))
      BY ReadingFinite
    <3>2. CASE g = fb
      <4>1. Reading(g)' = Reading(g) \cup {r} /\ r \notin Reading(g)
        BY <2>2, <2>3, <3>2, FramebufferAssumption DEF Reading
      <4>2. Cardinality(Reading(g)') = n + 1
        BY <3>1, <4>1, ReadingFinite, FS_AddElement
      <4> QED
        BY <1>1, <1>3, <2>1, <2>5, <3>1, <3>2, <4>2
    <3>3. CASE g # fb
      <4>1. Reading(g)' = Reading(g)
        BY <2>2, <2>3, <3>3, FramebufferAssumption DEF Reading
      <4> QED
        BY <1>1, <1>3, <2>1, <2>5, <3>1, <3>3, <4>1
    <3> QED
      BY <3>2, <3>3
  <2> QED
    BY <2>3, <2>5, <2>6 DEF ReferencesExact, Reading
<1>5. ASSUME PutFrame(r)
      PROVE  ReferencesExact' /\ readers' \in [Readers -> Frames] /\ references' \in [Framebuffers -> Int]
  <2>1. PICK fb \in Framebuffers, by \in Int : fb = readers[r] /\ by = -1
    BY <1>2, <1>5 DEF PutFrame, Frames
  <2>2. /\ readers' = [readers EXCEPT ![r] = NoFramebuffer]
        /\ references' = Adjusted(references, fb, by)
    BY <1>5, <2>1 DEF PutFrame
  <2>3. /\ readers' \in [Readers -> Frames] /\ readers'[r] = NoFramebuffer
        /\ \A o \in Readers : o # r => readers'[o] = readers[o]
    BY <1>2, <2>2 DEF Frames
  <2>4. fb \in Frames
    BY <2>1 DEF Frames
  <2>5. /\ references' \in [Framebuffers -> Int]
        /\ \A g \in Framebuffers : references'[g] = references[g] + (IF g = fb THEN by ELSE 0)
    BY <1>2, <2>2, <2>4, AdjustedTyped
  <2>6. ASSUME NEW g \in Framebuffers
        PROVE  references'[g] = Cardinality(Reading(g)') + (IF presentFb' = g THEN 1 ELSE 0)
    <3>1. PICK n \in Nat : n = Cardinality(Reading(g))
      BY ReadingFinite
    <3>2. CASE g = fb
      <4>1. Reading(g)' = Reading(g) \ {r} /\ r \in Reading(g)
        BY <2>1, <2>3, <3>2, FramebufferAssumption DEF Reading
      <4>2. Cardinality(Reading(g)') = n - 1
        BY <3>1, <4>1, ReadingFinite, FS_RemoveElement
      <4>3. references[g] = n + (IF presentFb = g THEN 1 ELSE 0) /\ references'[g] = references[g] + by
        BY <1>3, <2>5, <3>1, <3>2
      <4> QED
        BY <1>1, <2>1, <3>1, <4>2, <4>3
    <3>3. CASE g # fb
      <4>1. Reading(g)' = Reading(g)
        BY <2>1, <2>3, <3>3, FramebufferAssumption DEF Reading
      <4> QED
        BY <1>1, <1>3, <2>1, <2>5, <3>1, <3>3, <4>1
    <3> QED
      BY <3>2, <3>3
  <2> QED
    BY <2>3, <2>5, <2>6 DEF ReferencesExact, Reading
<1>6. ReferencesExact' /\ readers' \in [Readers -> Frames] /\ references' \in [Framebuffers -> Int]
  BY <1>4, <1>5 DEF ReaderStep
<1>7. Clients'
  BY <1>1, <1>6 DEF CountInv, Clients
<1>8. PendingExact' /\ WaitersExact'
  BY <1>1 DEF CountInv, CountersExact, PendingExact, WaitersExact
<1>9. NoSleeperLeftBehind'
  BY <1>1 DEF CountInv, NoSleeperLeftBehind, At
<1> QED
  BY <1>6, <1>7, <1>8, <1>9 DEF CountInv, CountersExact

-----------------------------------------------------------------------------
(* The vblank handler, for the counters and for the threads that close.    *)

\* A commit that waits in its tail goes on waiting.
Waits(k) ==
    /\ Moves(k) /\ commits[k] # Done
    /\ commits[k].phase = "flushed" /\ commits'[k].phase = "flushed"
    /\ SameChange(commits[k], commits'[k])

LEMMA VblankWaits ==
  ASSUME CommitInv, Vblank
  PROVE  commits' = commits \/ \E k : Waits(k)
<1>1. CASE \E k \in DOMAIN commits : At(k, "flushed") /\ commits[k].armed
  BY <1>1, VblankFlips DEF Waits, Keeps
<1>2. CASE ~\E k \in DOMAIN commits : At(k, "flushed") /\ commits[k].armed
  <2>1. commits' = [j \in DOMAIN commits |-> commits[j]]
    BY <1>2 DEF Vblank
  <2> QED
    BY <2>1, Domain DEF CommitInv, Types
<1> QED
  BY <1>1, <1>2

LEMMA StampWaits ==
  ASSUME CommitInv, Stamp
  PROVE  commits' = commits \/ \E k : Waits(k)
<1>1. CASE slot # 0 /\ At(slot, "flushed") /\ commits[slot].flipDone
  BY <1>1, StampStamps DEF Waits, Keeps
<1>2. CASE ~(slot # 0 /\ At(slot, "flushed") /\ commits[slot].flipDone)
  BY <1>2 DEF Stamp
<1> QED
  BY <1>1, <1>2

LEMMA QuietCloses ==
  ASSUME CloseInv, UNCHANGED <<kms, commits, locks, closing, presentation>>
  PROVE  CloseInv'
<1>1. kms' = kms /\ commits' = commits /\ modesetLock' = modesetLock /\ closers' = closers
      /\ presentFb' = presentFb
  BY DEF locks, closing, presentation
<1>2. Closing'
  <2>1. (Shut' <=> Shut) /\ (Hushed' <=> Hushed)
    BY <1>1 DEF Shut, Hushed, Over, closing
  <2> QED
    BY <1>1, <2>1 DEF CloseInv, Closing, Closes, Quiet
<1> QED
  BY <1>2, OwnersKept DEF CloseInv

LEMMA HandlerKeeps ==
  ASSUME Inv, Vblank \/ Stamp
  PROVE  Inv'
<1>1. CommitInv' /\ ShowInv'
  BY VblankKeeps, StampKeeps DEF Inv
<1>2. UNCHANGED <<kms, locks, closing, presentation, counters, clients>>
  BY DEF Vblank, Stamp
<1>3. CASE commits' = commits
  BY <1>1, <1>2, <1>3, QuietCloses, QuietCounts DEF Inv
<1>4. CASE \E k : Waits(k)
  <2>1. PICK k : Waits(k)
    BY <1>4
  <2>2. CloseInv'
    BY <1>2, <2>1, TailCloses DEF Inv, CommitInv, Waits
  <2>3. CountInv'
    BY <1>2, <2>1, StepCounts DEF Inv, Waits, Counted
  <2> QED
    BY <1>1, <2>2, <2>3 DEF Inv
<1> QED
  BY <1>3, <1>4, VblankWaits, StampWaits DEF Inv

LEMMA ClientsKeep ==
  ASSUME Inv, (\E w \in Waiters : WaiterStep(w)) \/ (\E r \in Readers : ReaderStep(r))
  PROVE  Inv'
<1>1. UNCHANGED <<kms, commits, locks, closing, flips, presentation>>
  BY DEF WaiterStep, ReaderStep
<1>2. CommitInv' /\ ShowInv'
  BY <1>1, QuietKeeps DEF Inv
<1>3. CloseInv'
  BY <1>1, QuietCloses DEF Inv
<1>4. CountInv'
  BY WaiterCounts, ReaderCounts DEF Inv, CommitInv
<1> QED
  BY <1>2, <1>3, <1>4 DEF Inv

-----------------------------------------------------------------------------
(* The steps of the commits.                                               *)

LEMMA CommitStepKeeps ==
  ASSUME Inv, NEW k, CommitStep(k)
  PROVE  Inv'
<1> USE DEF Inv
<1>1. CASE Refuse(k)
  BY <1>1, RefuseKeeps, RefuseCloses, RefuseCounts DEF CommitInv
<1>2. CASE Count(k)
  BY <1>2, CountKeeps, CountCloses, CountCounts DEF CommitInv
<1>3. CASE Fail(k)
  BY <1>3, FailKeeps, FailCloses, FailCounts DEF CommitInv
<1>4. CASE Swap(k)
  BY <1>4, SwapKeeps, SwapCloses, SwapCounts DEF CommitInv
<1>5. CASE Flush(k)
  <2>1. /\ Moves(k) /\ commits[k] # Done /\ SameChange(commits[k], commits'[k])
        /\ commits[k].phase = "queued" /\ UNCHANGED <<closing, locks, kms>>
    BY <1>5, FlushMoves DEF Flush, Keeps
  <2>2. CloseInv'
    BY <2>1, TailCloses DEF CommitInv
  <2> QED
    BY <1>5, <2>2, FlushKeeps, FlushCounts
<1>6. CASE TakeTimestamp(k)
  <2>1. /\ Moves(k) /\ commits[k] # Done /\ SameChange(commits[k], commits'[k])
        /\ commits[k].phase = "flushed" /\ UNCHANGED <<closing, locks, kms>>
    BY <1>6, TakeTimestampMoves DEF TakeTimestamp, Keeps
  <2>2. CloseInv'
    BY <2>1, TailCloses DEF CommitInv
  <2> QED
    BY <1>6, <2>2, TakeTimestampKeeps, TakeTimestampCounts
<1>7. CASE Publish(k)
  <2>1. /\ Moves(k) /\ commits[k] # Done /\ SameChange(commits[k], commits'[k])
        /\ commits[k].phase = "stamped" /\ UNCHANGED <<closing, locks, kms>>
    BY <1>7, PublishMoves DEF Publish, Keeps
  <2>2. CloseInv'
    BY <2>1, TailCloses DEF CommitInv
  <2> QED
    BY <1>7, <2>2, PublishKeeps, PublishCounts
<1>8. CASE Finish(k)
  BY <1>8, FinishKeeps, FinishCloses, FinishCounts DEF CommitInv
<1> QED
  BY <1>1, <1>2, <1>3, <1>4, <1>5, <1>6, <1>7, <1>8 DEF CommitStep

-----------------------------------------------------------------------------
(* Commits begin.                                                          *)

LEMMA ClientCommitsCloses ==
  ASSUME Types, CloseInv, ClientCommits
  PROVE  CloseInv'
<1>1. PICK change \in Changes, nonblock \in BOOLEAN : Begin(Client, change, nonblock)
  BY DEF ClientCommits
<1>2. PICK c : Appends(c) /\ c.by = Client
  BY <1>1, BeginAppends
<1>3. UNCHANGED closing /\ kms' = kms /\ presentFb' = presentFb /\ modesetLock = NoThread
  BY <1>1 DEF ClientCommits, Begin, presentation
<1>4. (Hushed' => Hushed) /\ (Shut' <=> Shut)
  BY <1>3, SameHush, FinitelyManyThreads
<1>5. \A j \in DOMAIN commits' : \/ j \in DOMAIN commits /\ commits'[j] = commits[j]
                                 \/ commits'[j].by = Client /\ commits'[j].phase = "locked"
  BY <1>2, Domain DEF Appends
<1>6. Quiet => Quiet'
  BY <1>3, <1>5 DEF Quiet
<1>7. ASSUME NEW j \in DOMAIN commits', commits'[j] # Done, commits'[j].by # Client PROVE Closes(j)'
  <2>1. j \in DOMAIN commits /\ commits'[j] = commits[j]
    BY <1>5, <1>7
  <2> QED
    BY <1>3, <1>7, <2>1 DEF CloseInv, Closing, Closes, closing
<1>8. Closing'
  BY <1>3, <1>4, <1>6, <1>7 DEF CloseInv, Closing
<1> QED
  BY <1>3, <1>8, OwnersKept DEF CloseInv

LEMMA ClientCommitsKeeps ==
  ASSUME Inv, ClientCommits
  PROVE  Inv'
<1>1. PICK change \in Changes, nonblock \in BOOLEAN : Begin(Client, change, nonblock)
  BY DEF ClientCommits
<1>2. CommitInv' /\ ShowInv' /\ CountInv'
  BY <1>1, BeginKeeps, BeginCounts DEF Inv, CommitInv
<1> QED
  BY <1>2, ClientCommitsCloses DEF Inv, CommitInv

-----------------------------------------------------------------------------
(* The threads that close the device.                                      *)

\* One of them at a time has the commits stopped.
LEMMA OneStops ==
  ASSUME Owners, NEW s \in Closers, NEW t \in Closers, Stops(s)
  PROVE  /\ owner = s /\ shutdownLock = s /\ ~accepting
         /\ Stops(t) => t = s
         /\ closers[t] \in {"deciding", "unplug"} => FALSE
BY DEF Owners, Stops

LEMMA Moved ==
  ASSUME Owners, NEW t \in Closers, NEW where \in Sites, GoTo(t, where)
  PROVE  /\ closers' \in [Closers -> Sites] /\ closers'[t] = where
         /\ \A s \in Closers : s # t => closers'[s] = closers[s]
BY DEF Owners, GoTo

LEMMA TurnOutputsOffCloses ==
  ASSUME Types, Locks, CloseInv, NEW t \in Closers, TurnOutputsOff(t)
  PROVE  CloseInv'
<1>1. TurnOff \in Changes /\ TurnOff.kind = "off"
  BY DEF TurnOff, Changes
<1>2. PICK c : Appends(c) /\ c.by = t /\ c.kind = "off" /\ ~c.nonblock
  <2>1. PICK change \in Changes, nonblock \in BOOLEAN :
            change = TurnOff /\ ~nonblock /\ Begin(t, change, nonblock)
    BY <1>1 DEF TurnOutputsOff
  <2>2. PICK c : Appends(c) /\ c.by = t /\ c.kind = change.kind /\ c.nonblock = nonblock
    BY <2>1, BeginAppends
  <2> QED
    BY <1>1, <2>1, <2>2
<1>3. /\ kms' = kms /\ presentFb' = presentFb /\ modesetLock = NoThread /\ modesetLock' = t
      /\ UNCHANGED <<shutdownLock, accepting, owner, unplugged, unplugs, alive>>
      /\ GoTo(t, "turningOff") /\ closers[t] = "stopping"
  BY DEF TurnOutputsOff, Begin, presentation
<1>4. Stops(t) /\ owner = t /\ shutdownLock = t /\ ~accepting /\ t # NoThread
  BY <1>3, OneStops, FinitelyManyThreads DEF CloseInv, Stops
<1>5. \A s \in Closers : s # t => ~Stops(s) /\ closers[s] \notin {"deciding", "unplug"}
  BY <1>4, OneStops DEF CloseInv
<1>6. /\ closers' \in [Closers -> Sites] /\ closers'[t] = "turningOff"
      /\ \A s \in Closers : s # t => closers'[s] = closers[s]
  BY <1>3, Moved DEF CloseInv, Sites
<1>7. Owners'
  BY <1>3, <1>4, <1>5, <1>6 DEF CloseInv, Owners, Stops, Over
<1>8. ~Hushed' /\ ~Shut'
  BY <1>3, <1>4, <1>5, <1>6 DEF Hushed, Shut, Over, Stops
<1>9. ASSUME NEW j \in DOMAIN commits', commits'[j] # Done, commits'[j].by # Client PROVE Closes(j)'
  <2>1. CASE j \in DOMAIN commits /\ commits'[j] = commits[j]
    <3>1. modesetLock = commits[j].by /\ commits[j].by \in Closers
      BY <1>9, <2>1, CloserHolds DEF CloseInv
    <3> QED
      BY <1>3, <3>1, FinitelyManyThreads
  <2>2. CASE commits'[j] = c
    BY <1>2, <1>6, <2>2 DEF Closes, Appends
  <2> QED
    BY <1>2, <2>1, <2>2, Domain DEF Appends
<1> QED
  BY <1>7, <1>8, <1>9 DEF CloseInv, Closing

LEMMA TurnOutputsOffKeeps ==
  ASSUME Inv, NEW t \in Closers, TurnOutputsOff(t)
  PROVE  Inv'
<1>1. TurnOff \in Changes
  BY DEF TurnOff, Changes
<1>2. Begin(t, TurnOff, FALSE)
  BY DEF TurnOutputsOff
<1>3. CommitInv' /\ ShowInv' /\ CountInv'
  BY <1>1, <1>2, BeginKeeps, BeginCounts DEF Inv, CommitInv
<1> QED
  BY <1>3, TurnOutputsOffCloses DEF Inv, CommitInv

\* The other steps of these threads leave the commits alone.
LEMMA CloserCloses ==
  ASSUME Types, Locks, Closing, Owners', UNCHANGED <<kms, commits, locks>>,
         \A t \in Closers : closers[t] = "turningOff" /\ modesetLock = t => closers'[t] = "turningOff",
         Hushed' => Hushed, Shut' => presentFb' = NoFramebuffer
  PROVE  CloseInv'
<1>1. kms' = kms /\ commits' = commits /\ modesetLock' = modesetLock
  BY DEF locks
<1>2. ASSUME NEW k \in DOMAIN commits, commits[k] # Done, commits[k].by # Client PROVE Closes(k)'
  <2>1. /\ Closes(k) /\ modesetLock = commits[k].by
        /\ commits[k].by \in Closers /\ closers[commits[k].by] = "turningOff"
    BY <1>2, CloserHolds
  <2> QED
    BY <1>1, <2>1 DEF Closes
<1>3. Quiet' <=> Quiet
  BY <1>1 DEF Quiet
<1> QED
  BY <1>1, <1>2, <1>3 DEF CloseInv, Closing

\* A quiet device has no frame on offer: giving it up again changes nothing.
LEMMA NothingToRelease ==
  ASSUME Types, Chain, Quiet
  PROVE  presentFb = NoFramebuffer
<1>1. \A j \in DOMAIN commits : ~InTail(j)
  BY DoneRecord DEF Quiet, InTail
<1>2. presentFb = kms.fb
  BY <1>1, NoTails
<1> QED
  BY <1>2 DEF Quiet, Types, Consistent

LEMMA QuietReleases ==
  ASSUME Types, Chain, Quiet, ReleaseFrame
  PROVE  UNCHANGED <<presentation, counters>>
<1>1. presentFb = NoFramebuffer
  BY NothingToRelease
<1>2. presentFb' = presentFb /\ references' = references
  BY <1>1 DEF ReleaseFrame, Adjusted
<1> QED
  BY <1>2 DEF ReleaseFrame, presentation, counters

LEMMA StartClosingCloses ==
  ASSUME Types, Locks, CloseInv, NEW t \in Closers, StartClosing(t)
  PROVE  CloseInv'
<1>1. /\ UNCHANGED <<kms, commits, locks, shutdownLock, accepting, owner, unplugged, unplugs, alive>>
      /\ presentFb' = presentFb /\ closers[t] = "idle" /\ GoTo(t, "quiescing")
  BY DEF StartClosing, presentation
<1>2. /\ closers' \in [Closers -> Sites] /\ closers'[t] = "quiescing"
      /\ \A s \in Closers : s # t => closers'[s] = closers[s]
  BY <1>1, Moved DEF CloseInv, Sites
<1>3. Owners'
  BY <1>1, <1>2 DEF CloseInv, Owners, Stops, Over
<1>4. (Hushed' => Hushed) /\ (Shut' => Shut)
  BY <1>1, <1>2 DEF Hushed, Shut, Over, locks
<1> QED
  BY <1>1, <1>2, <1>3, <1>4, CloserCloses DEF CloseInv, Closing

LEMMA LockShutdownCloses ==
  ASSUME Types, Locks, CloseInv, NEW t \in Closers, LockShutdown(t)
  PROVE  CloseInv'
<1>1. /\ UNCHANGED <<kms, commits, locks, accepting, owner, unplugged, unplugs, alive>>
      /\ presentFb' = presentFb /\ closers[t] = "quiescing" /\ GoTo(t, "deciding")
      /\ shutdownLock = NoThread /\ shutdownLock' = t
  BY DEF LockShutdown, presentation
<1>2. /\ closers' \in [Closers -> Sites] /\ closers'[t] = "deciding"
      /\ \A s \in Closers : s # t => closers'[s] = closers[s]
  BY <1>1, Moved DEF CloseInv, Sites
<1>3. \A s \in Closers : ~Stops(s) /\ closers[s] \notin {"deciding", "unplug"}
  BY <1>1, FinitelyManyThreads DEF CloseInv, Owners
<1>4. Owners'
  BY <1>1, <1>2, <1>3 DEF CloseInv, Owners, Stops, Over
<1>5. (Hushed' => Hushed) /\ (Shut' => Shut)
  BY <1>1, <1>2 DEF Hushed, Shut, Over, locks
<1> QED
  BY <1>1, <1>2, <1>4, <1>5, CloserCloses DEF CloseInv, Closing

\* The thread that decides finds nobody who stops the commits.
LEMMA StopCommitsCloses ==
  ASSUME Types, Locks, CloseInv, NEW t \in Closers, StopCommits(t)
  PROVE  CloseInv'
<1>1. /\ UNCHANGED <<kms, commits, locks, unplugged, unplugs, alive>>
      /\ presentFb' = presentFb /\ closers[t] = "deciding"
  BY DEF StopCommits, presentation
<1>2. shutdownLock = t /\ t # NoThread
  BY <1>1, FinitelyManyThreads DEF CloseInv, Owners
<1>3. \A s \in Closers : ~Stops(s)
  BY <1>1, <1>2 DEF CloseInv, Owners, Stops
<1>4. owner = NoThread
  BY <1>3 DEF CloseInv, Owners
<1>5. CASE accepting
  <2>1. ~accepting' /\ owner' = t /\ GoTo(t, "stopping") /\ shutdownLock' = shutdownLock
    BY <1>5 DEF StopCommits
  <2>2. /\ closers' \in [Closers -> Sites] /\ closers'[t] = "stopping"
        /\ \A s \in Closers : s # t => closers'[s] = closers[s]
    BY <2>1, Moved DEF CloseInv, Sites
  <2>3. ~Over /\ ~Over'
    BY <1>2, <1>5, <2>1 DEF Over
  <2>4. /\ ~unplugged /\ unplugs # 1
        /\ \A s \in Closers : closers[s] \notin {"unplugging", "unplug", "leaving", "ended"}
    BY <2>3 DEF CloseInv, Owners
  <2>5. accepting' \in BOOLEAN
    BY <1>5 DEF StopCommits
  <2>6. Owners'
    BY <1>1, <1>2, <1>3, <2>1, <2>2, <2>4, <2>5 DEF CloseInv, Owners, Stops
  <2>7. ~Hushed' /\ ~Shut'
    BY <1>1, <1>3, <2>2, <2>3 DEF Hushed, Shut, Stops
  <2> QED
    BY <1>1, <2>2, <2>6, <2>7, CloserCloses DEF CloseInv
<1>6. CASE ~accepting
  <2>1. /\ shutdownLock' = NoThread /\ GoTo(t, AfterQuiesce(t)) /\ UNCHANGED <<accepting, owner>>
    BY <1>6 DEF StopCommits
  <2>2. PICK where \in {"ended", "unplugging"} : where = AfterQuiesce(t)
    BY DEF AfterQuiesce
  <2>3. /\ closers' \in [Closers -> Sites] /\ closers'[t] = where
        /\ \A s \in Closers : s # t => closers'[s] = closers[s]
    BY <2>1, <2>2, Moved DEF CloseInv, Sites
  <2>4. Over /\ Over'
    BY <1>4, <1>6, <2>1 DEF Over
  <2>5. \A s \in Closers : s # t => closers[s] \notin {"deciding", "unplug"}
    BY <1>2 DEF CloseInv, Owners
  <2>6. Owners'
    BY <1>1, <1>3, <1>4, <2>1, <2>3, <2>4, <2>5 DEF CloseInv, Owners, Stops
  <2>7. Hushed /\ Shut
    BY <2>4 DEF Hushed, Shut
  <2> QED
    BY <1>1, <2>3, <2>6, <2>7, CloserCloses DEF CloseInv, Closing
<1> QED
  BY <1>5, <1>6

\* The commit that turned the outputs off is over, so the device is quiet.
LEMMA ReleaseAfterTurningOffCloses ==
  ASSUME Types, Locks, CloseInv, NEW t \in Closers, ReleaseAfterTurningOff(t)
  PROVE  CloseInv' /\ Quiet
<1>1. /\ UNCHANGED <<kms, commits, locks, shutdownLock, accepting, owner, unplugged, unplugs, alive>>
      /\ presentFb' = NoFramebuffer /\ closers[t] = "turningOff" /\ modesetLock # t
      /\ GoTo(t, "released")
  BY DEF ReleaseAfterTurningOff, ReleaseFrame
<1>2. Hushed
  BY <1>1 DEF Hushed
<1>3. Quiet
  BY <1>2 DEF CloseInv, Closing
<1>4. /\ closers' \in [Closers -> Sites] /\ closers'[t] = "released"
      /\ \A s \in Closers : s # t => closers'[s] = closers[s]
  BY <1>1, Moved DEF CloseInv, Sites
<1>5. Owners'
  BY <1>1, <1>4 DEF CloseInv, Owners, Stops, Over
<1>6. CloseInv'
  BY <1>1, <1>2, <1>4, <1>5, CloserCloses DEF CloseInv
<1> QED
  BY <1>3, <1>6

LEMMA EndQuiesceCloses ==
  ASSUME Types, Locks, CloseInv, NEW t \in Closers, EndQuiesce(t)
  PROVE  CloseInv'
<1>1. /\ UNCHANGED <<kms, commits, locks, accepting, unplugged, unplugs, alive>>
      /\ presentFb' = presentFb /\ closers[t] = "released"
      /\ owner' = NoThread /\ shutdownLock' = NoThread /\ GoTo(t, AfterQuiesce(t))
  BY DEF EndQuiesce, presentation
<1>2. Stops(t) /\ ~accepting /\ owner = t /\ t # NoThread
  BY <1>1, OneStops, FinitelyManyThreads DEF CloseInv, Stops
<1>3. \A s \in Closers : s # t => ~Stops(s) /\ closers[s] \notin {"deciding", "unplug"}
  BY <1>2, OneStops DEF CloseInv
<1>4. PICK where \in {"ended", "unplugging"} : where = AfterQuiesce(t)
  BY DEF AfterQuiesce
<1>5. /\ closers' \in [Closers -> Sites] /\ closers'[t] = where
      /\ \A s \in Closers : s # t => closers'[s] = closers[s]
  BY <1>1, <1>4, Moved DEF CloseInv, Sites
<1>6. Over' /\ accepting' = accepting
  BY <1>1, <1>2 DEF Over
<1>7. Owners'
  BY <1>1, <1>2, <1>3, <1>5, <1>6 DEF CloseInv, Owners, Stops
<1>8. Hushed /\ Shut
  BY <1>1 DEF Hushed, Shut
<1> QED
  BY <1>1, <1>5, <1>7, <1>8, CloserCloses DEF CloseInv, Closing

LEMMA ClaimUnplugCloses ==
  ASSUME Types, Locks, CloseInv, NEW t \in Closers, ClaimUnplug(t)
  PROVE  CloseInv' /\ Quiet
<1>1. /\ UNCHANGED <<kms, commits, locks, accepting, owner, unplugs, alive>>
      /\ closers[t] = "unplugging" /\ shutdownLock = NoThread
  BY DEF ClaimUnplug
<1>2. Over
  BY <1>1 DEF CloseInv, Owners
<1>3. Hushed /\ Shut
  BY <1>2 DEF Hushed, Shut
<1>4. Quiet /\ presentFb = NoFramebuffer
  BY <1>3 DEF CloseInv, Closing
<1>5. \A s \in Closers : ~Stops(s) /\ closers[s] \notin {"deciding", "unplug"}
  BY <1>1, FinitelyManyThreads DEF CloseInv, Owners
<1>6. Over'
  BY <1>1, <1>2 DEF Over
<1>7. CASE unplugged
  <2>1. GoTo(t, "leaving") /\ UNCHANGED <<shutdownLock, unplugged, presentation>>
    BY <1>7 DEF ClaimUnplug
  <2>2. /\ closers' \in [Closers -> Sites] /\ closers'[t] = "leaving"
        /\ \A s \in Closers : s # t => closers'[s] = closers[s]
    BY <2>1, Moved DEF CloseInv, Sites
  <2>3. Owners'
    BY <1>1, <1>5, <1>6, <2>1, <2>2 DEF CloseInv, Owners, Stops
  <2>4. presentFb' = NoFramebuffer
    BY <1>4, <2>1 DEF presentation
  <2> QED
    BY <1>1, <1>3, <1>4, <2>2, <2>3, <2>4, CloserCloses DEF CloseInv
<1>8. CASE ~unplugged
  <2>1. shutdownLock' = t /\ unplugged' = TRUE /\ GoTo(t, "unplug") /\ presentFb' = NoFramebuffer
    BY <1>8 DEF ClaimUnplug, ReleaseFrame
  <2>2. /\ closers' \in [Closers -> Sites] /\ closers'[t] = "unplug"
        /\ \A s \in Closers : s # t => closers'[s] = closers[s]
    BY <2>1, Moved DEF CloseInv, Sites
  <2>3. unplugs = 0
    BY <1>8 DEF CloseInv, Owners
  <2>4. Owners'
    BY <1>1, <1>5, <1>6, <2>1, <2>2, <2>3 DEF CloseInv, Owners, Stops
  <2> QED
    BY <1>1, <1>3, <1>4, <2>1, <2>2, <2>4, CloserCloses DEF CloseInv
<1> QED
  BY <1>7, <1>8

LEMMA UnplugCloses ==
  ASSUME Types, Locks, CloseInv, NEW t \in Closers, Unplug(t)
  PROVE  CloseInv'
<1>1. /\ UNCHANGED <<kms, commits, locks, accepting, owner, unplugged, alive>>
      /\ presentFb' = presentFb /\ closers[t] = "unplug" /\ GoTo(t, "leaving")
      /\ unplugs' = unplugs + 1 /\ shutdownLock' = NoThread
  BY DEF Unplug, presentation
<1>2. unplugs = 0 /\ shutdownLock = t /\ unplugged /\ Over
  BY <1>1 DEF CloseInv, Owners
<1>3. /\ closers' \in [Closers -> Sites] /\ closers'[t] = "leaving"
      /\ \A s \in Closers : s # t => closers'[s] = closers[s]
  BY <1>1, Moved DEF CloseInv, Sites
<1>4. \A s \in Closers : s # t => ~Stops(s) /\ closers[s] \notin {"deciding", "unplug"}
  BY <1>2 DEF CloseInv, Owners
<1>5. Over' /\ unplugs' = 1
  BY <1>1, <1>2 DEF Over
<1>6. Owners'
  BY <1>1, <1>2, <1>3, <1>4, <1>5 DEF CloseInv, Owners, Stops
<1>7. Hushed /\ Shut
  BY <1>2 DEF Hushed, Shut
<1> QED
  BY <1>1, <1>3, <1>6, <1>7, CloserCloses DEF CloseInv, Closing

LEMMA EndClosingCloses ==
  ASSUME Types, Locks, CloseInv, NEW t \in Closers, EndClosing(t)
  PROVE  CloseInv'
<1>1. /\ UNCHANGED <<kms, commits, locks, shutdownLock, accepting, owner, unplugged, unplugs>>
      /\ presentFb' = presentFb /\ closers[t] = "leaving" /\ GoTo(t, "ended")
  BY DEF EndClosing, presentation
<1>2. /\ closers' \in [Closers -> Sites] /\ closers'[t] = "ended"
      /\ \A s \in Closers : s # t => closers'[s] = closers[s]
  BY <1>1, Moved DEF CloseInv, Sites
<1>3. Over /\ Over'
  BY <1>1 DEF CloseInv, Owners, Over
<1>4. Owners'
  BY <1>1, <1>2, <1>3 DEF CloseInv, Owners, Stops
<1>5. Hushed /\ Shut
  BY <1>3 DEF Hushed, Shut
<1> QED
  BY <1>1, <1>2, <1>4, <1>5, CloserCloses DEF CloseInv, Closing

\* A step of such a thread that begins no commit.
LEMMA CloserQuietKeeps ==
  ASSUME Inv, CloseInv', UNCHANGED <<kms, commits, locks, flips, presentation, counters, clients>>
  PROVE  Inv'
<1>1. CommitInv' /\ ShowInv'
  BY QuietKeeps DEF Inv
<1>2. CountInv'
  BY QuietCounts DEF Inv
<1> QED
  BY <1>1, <1>2 DEF Inv

LEMMA CloserKeeps ==
  ASSUME Inv, NEW t \in Closers, StartClosing(t) \/ CloserStep(t)
  PROVE  Inv'
<1>1. Types /\ Locks /\ CloseInv /\ Chain
  BY DEF Inv, CommitInv, ShowInv
<1>2. CASE StartClosing(t)
  BY <1>1, <1>2, StartClosingCloses, CloserQuietKeeps DEF StartClosing
<1>3. CASE LockShutdown(t)
  BY <1>1, <1>3, LockShutdownCloses, CloserQuietKeeps DEF LockShutdown
<1>4. CASE StopCommits(t)
  BY <1>1, <1>4, StopCommitsCloses, CloserQuietKeeps DEF StopCommits
<1>5. CASE TurnOutputsOff(t)
  BY <1>5, TurnOutputsOffKeeps
<1>6. CASE ReleaseAfterTurningOff(t)
  <2>1. CloseInv' /\ Quiet
    BY <1>1, <1>6, ReleaseAfterTurningOffCloses
  <2>2. ReleaseFrame /\ UNCHANGED <<kms, commits, locks, flips, clients>>
    BY <1>6 DEF ReleaseAfterTurningOff
  <2>3. UNCHANGED <<presentation, counters>>
    BY <1>1, <2>1, <2>2, QuietReleases
  <2> QED
    BY <2>1, <2>2, <2>3, CloserQuietKeeps
<1>7. CASE EndQuiesce(t)
  BY <1>1, <1>7, EndQuiesceCloses, CloserQuietKeeps DEF EndQuiesce
<1>8. CASE ClaimUnplug(t)
  <2>1. CloseInv' /\ Quiet
    BY <1>1, <1>8, ClaimUnplugCloses
  <2>2. UNCHANGED <<kms, commits, locks, flips, clients>>
    BY <1>8 DEF ClaimUnplug
  <2>3. UNCHANGED <<presentation, counters>>
    BY <1>1, <1>8, <2>1, QuietReleases DEF ClaimUnplug
  <2> QED
    BY <2>1, <2>2, <2>3, CloserQuietKeeps
<1>9. CASE Unplug(t)
  BY <1>1, <1>9, UnplugCloses, CloserQuietKeeps DEF Unplug
<1>10. CASE EndClosing(t)
  BY <1>1, <1>10, EndClosingCloses, CloserQuietKeeps DEF EndClosing
<1> QED
  BY <1>2, <1>3, <1>4, <1>5, <1>6, <1>7, <1>8, <1>9, <1>10 DEF CloserStep

-----------------------------------------------------------------------------
(* The theorems.                                                           *)

LEMMA InitHolds ==
  ASSUME Init
  PROVE  Inv
<1>1. /\ commits = <<>> /\ Len(commits) = 0 /\ DOMAIN commits = {}
      /\ published = <<>> /\ Len(published) = 0 /\ sequence = 0
      /\ commits \in Seq(CommitRecord \cup {Done}) /\ published \in Seq([fb : Frames, timestamp : Nat])
  BY EmptySeq DEF Init
<1>2. NoFramebuffer \in Frames /\ kms \in Scanout /\ Consistent(kms)
  BY DEF Init, Frames, Scanout, Consistent
<1>3. Types
  <2>1. trace \in [0..HistorySize-1 -> [sequence : Nat, timestamp : Nat]]
    BY DEF Init
  <2>2. /\ clock = 1 /\ vblankOn = FALSE /\ inHandler = FALSE /\ slot = 0
        /\ timestamp = 0 /\ presentFb = NoFramebuffer
    BY DEF Init
  <2>3. /\ clock \in Nat \ {0} /\ slot \in Nat
        /\ sequence \in Nat /\ timestamp \in 0..clock /\ presentFb \in Frames
    BY <1>1, <1>2, <2>2
  <2>5. vblankOn \in BOOLEAN /\ inHandler \in BOOLEAN
    BY <2>2, Zenon
  <2>4. \A k \in DOMAIN commits : commits[k] = Done \/ IsCommit(commits[k])
    BY <1>1
  <2> QED
    BY <1>1, <1>2, <2>1, <2>3, <2>4, <2>5 DEF Types
<1>4. Locks /\ Order /\ Flips
  BY <1>1 DEF Init, Locks, Order, Flips
<1>5. Chain
  <2>1. kms.fb = presentFb /\ \A j \in 1..Len(commits)+1-1 : FALSE
    BY <1>1 DEF Init
  <2>2. Before(Len(commits) + 1, kms.fb)
    BY <2>1 DEF Before
  <2> QED
    BY <1>1, <2>2 DEF Chain
<1>6. History /\ Traced
  BY <1>1 DEF Init, History, Traced
<1>7. Owners
  <2>1. closers \in [Closers -> Sites] /\ \A t \in Closers : closers[t] = "idle"
    BY DEF Init, Sites
  <2>2. /\ shutdownLock = NoThread /\ accepting = TRUE /\ owner = NoThread /\ unplugged = FALSE
        /\ unplugs = 0
    BY DEF Init
  <2>3. accepting \in BOOLEAN /\ unplugged \in BOOLEAN /\ ~unplugged /\ owner = NoThread
    BY <2>2, Zenon
  <2>4. unplugs \in {0, 1} /\ unplugs # 1
    BY <2>2
  <2> QED
    BY <2>1, <2>3, <2>4 DEF Owners, Stops
<1>8. Closing
  <2>1. ~Hushed /\ ~Shut
    BY DEF Init, Hushed, Shut, Over
  <2> QED
    BY <1>1, <2>1 DEF Closing
<1>9. Clients
  BY DEF Init, Clients, Frames
<1>10. CountersExact
  <2>1. {k \in DOMAIN commits : commits[k].phase \in {"counted", "queued", "flushed", "stamped"}} = {}
    BY <1>1
  <2>2. {w \in Waiters : waiters[w].at # "idle"} = {}
    BY DEF Init
  <2>3. \A fb \in Framebuffers : {r \in Readers : readers[r] = fb} = {}
    BY FramebufferAssumption DEF Init
  <2>4. \A fb \in Framebuffers : references[fb] = 0 /\ presentFb # fb
    BY FramebufferAssumption DEF Init
  <2>5. PendingExact
    BY <2>1, FS_EmptySet DEF Init, PendingExact
  <2>6. WaitersExact
    BY <2>2, FS_EmptySet DEF Init, WaitersExact
  <2>7. ReferencesExact
    BY <2>3, <2>4, FS_EmptySet DEF ReferencesExact
  <2> QED
    BY <2>5, <2>6, <2>7 DEF CountersExact
<1>11. NoSleeperLeftBehind
  BY DEF Init, NoSleeperLeftBehind
<1> QED
  BY <1>3, <1>4, <1>5, <1>6, <1>7, <1>8, <1>9, <1>10, <1>11
  DEF Inv, CommitInv, ShowInv, CloseInv, CountInv

LEMMA InvStep ==
  ASSUME Inv, [Next]_vars
  PROVE  Inv'
<1>1. CASE ClientCommits
  BY <1>1, ClientCommitsKeeps
<1>2. CASE \E k \in DOMAIN commits : CommitStep(k)
  BY <1>2, CommitStepKeeps
<1>3. CASE Vblank \/ Stamp
  BY <1>3, HandlerKeeps
<1>4. CASE (\E w \in Waiters : WaiterStep(w)) \/ (\E r \in Readers : ReaderStep(r))
  BY <1>4, ClientsKeep
<1>5. CASE \E t \in Closers : StartClosing(t) \/ CloserStep(t)
  BY <1>5, CloserKeeps
<1>6. CASE UNCHANGED vars
  <2>1. CloseInv'
    BY <1>6, QuietCloses DEF Inv, vars
  <2> QED
    BY <1>6, <2>1, CloserQuietKeeps DEF vars
<1> QED
  BY <1>1, <1>2, <1>3, <1>4, <1>5, <1>6 DEF Next

\* The invariant of the output, whatever commits, vblanks, clients and closing
\* threads do and in whichever order (the locks of vibeshine-drm's commit path).
THEOREM PresentationInvariant == Spec => []Inv
<1>1. Init => Inv
  BY InitHolds
<1>2. Inv /\ [Next]_vars => Inv'
  BY InvStep
<1> QED
  BY <1>1, <1>2, PTL DEF Spec

\* The counters on the side (pending_commits, present_waiters and the references
\* on framebuffers) are exact at every step.
THEOREM CountersAlwaysExact == Spec => []CountersExact
<1>1. Inv => CountersExact
  BY DEF Inv, CountInv
<1> QED
  BY <1>1, PresentationInvariant, PTL

\* A waiter that sleeps on a sequence that is over is about to be woken by the
\* thread that published the newer one (vkms_wait_present_ioctl).
THEOREM SleepersAlwaysWoken == Spec => []NoSleeperLeftBehind
<1>1. Inv => NoSleeperLeftBehind
  BY DEF Inv, CountInv
<1> QED
  BY <1>1, PresentationInvariant, PTL

\* A presentation has the frame of its own commit and the time of its own flip
\* (vkms_crtc_take_present_timestamp, vkms_signal_presented_crtcs).
THEOREM PresentationsAlwaysMatch == Spec => []PresentationsMatchFlips
<1>1. ASSUME Inv PROVE PresentationsMatchFlips
  <2>1. Types /\ Flips /\ History
    BY <1>1 DEF Inv, CommitInv, ShowInv
  <2>2. SlotNamesLiveState
    BY <2>1 DEF Flips, SlotNamesLiveState
  <2>3. ASSUME NEW k \in DOMAIN commits, commits[k].phase \in {"stamped", "published"},
               commits[k].flippedAt # 0
        PROVE  commits[k].timestamp = commits[k].flippedAt
    <3>1. commits[k] # Done
      BY <2>3, DoneRecord
    <3> QED
      BY <2>1, <2>3, <3>1 DEF Flips, Flip
  <2>4. sequence \in Nat
    BY <2>1 DEF Types
  <2>5. /\ sequence > 0 => timestamp = published[sequence].timestamp
        /\ presentFb # NoFramebuffer => presentFb = published[sequence].fb
        /\ sequence > 0 /\ accepting => presentFb = published[sequence].fb
    BY <2>1, <2>4 DEF History
  <2>6. /\ \A i \in 1..Len(published)-1 : published[i].timestamp <= published[i+1].timestamp
        /\ sequence = Len(published)
    BY <2>1 DEF History
  <2>7. \A k \in DOMAIN commits :
           commits[k].phase \in {"stamped", "published"} /\ commits[k].flippedAt # 0 =>
               commits[k].timestamp = commits[k].flippedAt
    BY <2>3
  <2> QED
    BY <2>2, <2>5, <2>6, <2>7, Zenon DEF PresentationsMatchFlips
<1> QED
  BY <1>1, PresentationInvariant, PTL

\* Once vkms_quiesce is over nothing is shown or under way that could be, and
\* the device is unplugged only then, and once (vkms_shutdown_release).
THEOREM ReleasedAlwaysForGood == Spec => []ReleasedForGood
<1>1. ASSUME Inv PROVE ReleasedForGood
  <2>1. Types /\ Owners /\ Closing /\ PendingExact
    BY <1>1 DEF Inv, CommitInv, CloseInv, CountInv, CountersExact
  <2>2. ASSUME Over PROVE presentFb = NoFramebuffer /\ pending = 0 /\ ~kms.on
    <3>1. Quiet /\ presentFb = NoFramebuffer
      BY <2>1, <2>2 DEF Closing, Hushed, Shut
    <3>2. {k \in DOMAIN commits : commits[k].phase \in {"counted", "queued", "flushed", "stamped"}} = {}
      BY <3>1, DoneRecord DEF Quiet
    <3>3. pending = 0
      BY <2>1, <3>2, FS_EmptySet DEF PendingExact
    <3> QED
      BY <3>1, <3>3 DEF Quiet
  <2>3. unplugs \in {0, 1} /\ (unplugs = 1 => Over)
    BY <2>1 DEF Owners
  <2> QED
    BY <2>2, <2>3 DEF ReleasedForGood, Over
<1> QED
  BY <1>1, PresentationInvariant, PTL

\* Whatever a client has, vkms_get_present_trace_ioctl gives it the presentations
\* that follow, without a gap, or says that the oldest are lost.
THEOREM TraceAlwaysComplete == Spec => []TraceRepliesComplete
<1>1. ASSUME Inv PROVE TraceRepliesComplete
  <2>1. Traced /\ sequence \in Nat
    BY <1>1 DEF Inv, CommitInv, ShowInv, Types
  <2> SUFFICES ASSUME NEW after \in 0..sequence
               PROVE  LET reply == TraceReply(after)
                          lost == {s \in after+1..sequence : s + HistorySize <= sequence}
                          rest == (after+1..sequence) \ lost
                      IN  /\ reply.overflow <=> lost # {}
                          /\ reply.events = {[sequence |-> s, timestamp |-> published[s].timestamp] :
                               s \in {o \in rest : Cardinality({q \in rest : q < o}) < MaxEvents}}
    BY DEF TraceRepliesComplete
  <2> DEFINE overflow == sequence >= HistorySize /\ after + 1 < OldestTraced
             first == IF overflow THEN OldestTraced ELSE after + 1
             kept == {s \in first..sequence : trace[TraceSlot(s)].sequence = s}
             returned == {s \in kept : Cardinality({o \in kept : o < s}) < MaxEvents}
             lost == {s \in after+1..sequence : s + HistorySize <= sequence}
             rest == (after+1..sequence) \ lost
             chosen == {o \in rest : Cardinality({q \in rest : q < o}) < MaxEvents}
             gap == \E s \in first..sequence : s \notin kept /\ Cardinality({o \in kept : o < s}) < MaxEvents
  <2>2. after \in Nat /\ HistorySize \in Nat \ {0} /\ OldestTraced = sequence - HistorySize + 1
    BY <2>1, LimitsAssumption DEF OldestTraced
  <2>3. overflow <=> lost # {}
    <3>1. ASSUME overflow PROVE after + 1 \in lost
      BY <2>1, <2>2, <3>1
    <3>2. ASSUME NEW s \in lost PROVE overflow
      BY <2>1, <2>2
    <3> QED
      BY <3>1, <3>2
  <2>4. first \in Nat \ {0} /\ first..sequence = rest
    <3>1. CASE overflow
      BY <2>1, <2>2, <3>1
    <3>2. CASE ~overflow
      BY <2>1, <2>2, <3>2
    <3> QED
      BY <3>1, <3>2
  <2>5. ASSUME NEW s \in rest
        PROVE  trace[TraceSlot(s)] = [sequence |-> s, timestamp |-> published[s].timestamp]
    <3>1. s \in 1..sequence /\ s + HistorySize > sequence
      BY <2>1, <2>2
    <3> QED
      BY <2>1, <3>1 DEF Traced
  <2>6. kept = rest
    <3>1. \A s \in rest : trace[TraceSlot(s)].sequence = s
      <4> SUFFICES ASSUME NEW s \in rest PROVE trace[TraceSlot(s)].sequence = s
        OBVIOUS
      <4>1. trace[TraceSlot(s)] = [sequence |-> s, timestamp |-> published[s].timestamp]
        BY <2>5
      <4> QED
        BY <4>1
    <3> HIDE DEF rest, first
    <3> QED
      BY <2>4, <3>1
  <2>7. ~gap
    BY <2>4, <2>6
  <2>8. returned = chosen
    BY <2>6
  <2>9. {trace[TraceSlot(s)] : s \in returned}
            = {[sequence |-> s, timestamp |-> published[s].timestamp] : s \in chosen}
    <3>1. \A s \in chosen : s \in rest
      OBVIOUS
    <3> HIDE DEF chosen, rest, returned
    <3>2. \A s \in chosen :
             trace[TraceSlot(s)] = [sequence |-> s, timestamp |-> published[s].timestamp]
      BY <2>5, <3>1
    <3> QED
      BY <2>8, <3>2, Zenon
  <2>10. TraceReply(after) = [events |-> {trace[TraceSlot(s)] : s \in returned}, overflow |-> overflow \/ gap]
    BY DEF TraceReply
  <2> HIDE DEF overflow, first, kept, returned, lost, rest, chosen, gap
  <2>11. (TraceReply(after).overflow <=> lost # {})
          /\ TraceReply(after).events = {[sequence |-> s, timestamp |-> published[s].timestamp] : s \in chosen}
    <3> PICK events : events = {trace[TraceSlot(s)] : s \in returned}
      OBVIOUS
    <3> PICK over \in BOOLEAN : over = (overflow \/ gap)
      OBVIOUS
    <3>1. events = {trace[TraceSlot(s)] : s \in returned} /\ over = (overflow \/ gap)
      OBVIOUS
    <3>2. TraceReply(after) = [events |-> events, overflow |-> over]
      BY <2>10, <3>1, Zenon
    <3>3. TraceReply(after).overflow = over /\ TraceReply(after).events = events
      BY <3>2
    <3>4. over <=> lost # {}
      BY <2>3, <2>7, <3>1, Zenon
    <3> QED
      BY <2>9, <3>1, <3>3, <3>4, Zenon
  <2> QED
    BY <2>11, Zenon DEF chosen, rest, lost
<1> QED
  BY <1>1, PresentationInvariant, PTL
=============================================================================
