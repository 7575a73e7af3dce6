-------------------------- MODULE CheckpointStore --------------------------
(***************************************************************************)
(* The checkpoints of the task-delivery skill                              *)
(* (scripts/skills/checkpoint-store.ts): processes publish numbered,       *)
(* immutable files into one directory, each reserved by an exclusive       *)
(* create and then renamed over, with an index, retention and a cleanup of *)
(* the reservations that crashed publishers leave behind.                  *)
(*                                                                         *)
(* One action is one file-system call another process can come between.    *)
(* The file system is local; the content of a file is whatever was renamed *)
(* onto it, and nobody else writes into the directory.                     *)
(***************************************************************************)
EXTENDS Naturals, FiniteSets, FiniteSetsExt

CONSTANTS
  Publishers,
  RetentionCap,             \* options.retentionCap
  maximumPublishAttempts,
  MaxSeq, MaxCheckpoints, MaxCrashes,
  NoPublisher

ASSUME CheckpointAssumption ==
  /\ NoPublisher \notin Publishers
  /\ RetentionCap \in Nat \ {0} /\ maximumPublishAttempts \in Nat \ {0, 1}
  /\ {MaxSeq, MaxCheckpoints, MaxCrashes} \subseteq Nat

VARIABLES
  files,       \* the published names, by sequence
  index,       \* index.json: [seq, id], seq 0 when there is none
  call,        \* where each publisher is in publishCheckpoint
  handoff,     \* the checkpoint ids the handoff packet cites
  issued, crashes,
  published,   \* every checkpoint ever renamed into place
  acked,       \* the highest sequence a publishCheckpoint has returned
  raced        \* "stolen": a cleanup unlinked something else than what a crash
               \* left behind; "reused": a number was reserved after it was pruned

checkpointVars == <<files, index, call, handoff, issued, crashes, published, acked, raced>>

Seqs == 1..MaxSeq
Absent == [kind |-> "absent"]
Reserved(p, aged) == [kind |-> "reserved", by |-> p, aged |-> aged]
Checkpoint(i, before) == [kind |-> "checkpoint", id |-> i, supersedes |-> before]

isPublished(s) == files[s].kind = "checkpoint"
agedReservation(s) == files[s].kind = "reserved" /\ files[s].aged
abandoned(s) == agedReservation(s) /\ files[s].by = NoPublisher

NoEntry == [seq |-> 0, id |-> 0]
\* The highest published file that reads as a checkpoint.
scanLatest ==
    LET valid == {s \in Seqs : isPublished(s)}
    IN  IF valid = {} THEN NoEntry ELSE [seq |-> Max(valid), id |-> files[Max(valid)].id]

\* What the index alone says: its entry once the file has the recorded hash,
\* nothing when there is no index or its file is gone, or an error.
readIndexed ==
    IF index = NoEntry THEN [ok |-> TRUE, entry |-> NoEntry]
    ELSE IF files[index.seq] = Absent
    THEN [ok |-> scanLatest # NoEntry, entry |-> NoEntry]
    ELSE [ok |-> isPublished(index.seq) /\ files[index.seq].id = index.id, entry |-> index]
newerOf(indexed, scanned) == IF scanned.seq > indexed.seq THEN scanned ELSE indexed
loadLatestCheckpoint ==
    [ok |-> readIndexed.ok, entry |-> newerOf(readIndexed.entry, scanLatest)]
\* assessResume: usable, and from which checkpoint.
assessResume ==
    [usable |-> loadLatestCheckpoint.ok /\ loadLatestCheckpoint.entry # NoEntry,
     seq |-> loadLatestCheckpoint.entry.seq]

NoCall == [pc |-> "idle", id |-> 0, attempt |-> 0, at |-> 0, indexed |-> NoEntry,
         previous |-> NoEntry, victims |-> {}, contended |-> FALSE, result |-> "none"]

CheckpointInit ==
    /\ files = [s \in Seqs |-> Absent]
    /\ index = NoEntry /\ handoff = {}
    /\ call = [p \in Publishers |-> NoCall]
    /\ issued = 0 /\ crashes = 0 /\ published = {} /\ acked = 0 /\ raced = {}

at(p, pc) == call[p].pc = pc
goes(p, pc) == call' = [call EXCEPT ![p].pc = pc]
\* The call ends; everyone else still at work has had company.
ends(p, how) == call' = [call EXCEPT ![p] = [NoCall EXCEPT !.result = how, !.contended = call[p].contended]]
touches(p, pc) ==
    call' = [q \in Publishers |->
               IF q = p THEN [call[p] EXCEPT !.pc = pc]
               ELSE IF call[q].pc # "idle" THEN [call[q] EXCEPT !.contended = TRUE] ELSE call[q]]
ghosts == <<published, acked, raced>>

\* publishCheckpoint up to the cleanup.
BeginPublish(p) ==
    /\ at(p, "idle") /\ issued < MaxCheckpoints
    /\ issued' = issued + 1
    /\ call' = [call EXCEPT ![p] = [NoCall EXCEPT !.pc = "clean", !.id = issued + 1,
                                                !.contended = \E q \in Publishers : call[q].pc # "idle"]]
    /\ UNCHANGED <<files, index, handoff, crashes, ghosts>>

crashedReservation(s) == agedReservation(s)
\* removeCrashedReservationArtifacts: stat one file after the other ...
CleanStat(p) ==
    /\ at(p, "clean")
    /\ LET later == {s \in Seqs : s > call[p].at /\ crashedReservation(s)}
       IN  IF later = {} THEN call' = [call EXCEPT ![p].pc = "load", ![p].at = 0]
           ELSE call' = [call EXCEPT ![p].pc = "unlink", ![p].at = Min(later)]
    /\ UNCHANGED <<files, index, handoff, issued, crashes, ghosts>>
\* ... and unlink the name, whatever it names by now.
unlinkArtifact(s) ==
    /\ files' = [files EXCEPT ![s] = Absent]
    /\ raced' = raced \cup IF files[s] = Absent \/ abandoned(s) THEN {} ELSE {"stolen"}
CleanUnlink(p) ==
    /\ at(p, "unlink")
    /\ unlinkArtifact(call[p].at)
    /\ goes(p, "clean")
    /\ UNCHANGED <<index, handoff, issued, crashes, published, acked>>

\* loadLatestCheckpoint, in its two reads: the index with its file, the scan.
LoadIndex(p) ==
    /\ at(p, "load")
    /\ IF readIndexed.ok
       THEN call' = [call EXCEPT ![p].pc = "scan", ![p].indexed = readIndexed.entry]
       ELSE ends(p, "error")
    /\ UNCHANGED <<files, index, handoff, issued, crashes, ghosts>>
LoadScan(p) ==
    /\ at(p, "scan")
    /\ LET latest == newerOf(call[p].indexed, scanLatest)
       IN  /\ latest.seq < MaxSeq
           /\ call' = [call EXCEPT ![p].pc = "reserve", ![p].previous = latest, ![p].at = latest.seq + 1]
    /\ UNCHANGED <<files, index, handoff, issued, crashes, ghosts>>

\* writeAtomic: the exclusive create, then the rename of the written file.
\* Fault: the name is not reserved before the rename.
Reserve_NotExclusive(p) ==
    /\ at(p, "reserve")
    /\ files' = [files EXCEPT ![call[p].at] = IF @ = Absent THEN Reserved(p, FALSE) ELSE @]
    /\ touches(p, "rename")
    /\ UNCHANGED <<index, handoff, issued, crashes, ghosts>>
Reserve(p) ==
    /\ at(p, "reserve")
    /\ IF files[call[p].at] = Absent
       THEN /\ files' = [files EXCEPT ![call[p].at] = Reserved(p, FALSE)]
            /\ raced' = raced \cup IF \E c \in published : c.seq = call[p].at THEN {"reused"} ELSE {}
            /\ touches(p, "rename")
       ELSE goes(p, "collided") /\ UNCHANGED <<files, raced>>
    /\ UNCHANGED <<index, handoff, issued, crashes, published, acked>>
Rename(p) ==
    /\ at(p, "rename")
    /\ LET s == call[p].at
       IN  /\ files' = [files EXCEPT ![s] = Checkpoint(call[p].id, call[p].previous.id)]
           /\ published' = published \cup {[seq |-> s, id |-> call[p].id, supersedes |-> call[p].previous.id]}
    /\ touches(p, "index")
    /\ UNCHANGED <<index, handoff, issued, crashes, acked, raced>>

\* handleSequenceCollision, as one attempt ends and the next begins.
nextAttempt(p, company) ==
    IF call[p].attempt + 1 = maximumPublishAttempts
    THEN call' = [call EXCEPT ![p] = [NoCall EXCEPT !.result = "collision", !.contended = call[p].contended \/ company]]
    ELSE call' = [call EXCEPT ![p].pc = "load", ![p].attempt = @ + 1, ![p].contended = @ \/ company]
Collide(p) ==
    /\ at(p, "collided")
    /\ IF agedReservation(call[p].at) THEN goes(p, "inspect")
       ELSE nextAttempt(p, files[call[p].at].kind = "reserved")
    /\ UNCHANGED <<files, index, handoff, issued, crashes, ghosts>>
InspectCollision(p) ==
    /\ at(p, "inspect")
    /\ IF isPublished(call[p].at) THEN nextAttempt(p, FALSE) ELSE goes(p, "evict")
    /\ UNCHANGED <<files, index, handoff, issued, crashes, ghosts>>
Evict(p) ==
    /\ at(p, "evict")
    /\ unlinkArtifact(call[p].at)
    /\ nextAttempt(p, FALSE)
    /\ UNCHANGED <<index, handoff, issued, crashes, published, acked>>

\* The index is durable before anything is pruned.
WriteIndex(p) ==
    /\ at(p, "index")
    /\ index' = [seq |-> call[p].at, id |-> call[p].id]
    /\ goes(p, "prune")
    /\ UNCHANGED <<files, handoff, issued, crashes, ghosts>>

\* Never the latest and never one the handoff packet cites.
deletable == {s \in Seqs : isPublished(s) /\ files[s].id # scanLatest.id /\ files[s].id \notin handoff}
firstOf(S, n) == {s \in S : Cardinality({r \in S : r < s}) < n}
\* pruneCheckpoints: what is read decides what is deleted.
PruneRead(p) ==
    /\ at(p, "prune")
    /\ LET count == Cardinality({s \in Seqs : isPublished(s)})
       IN  call' = [call EXCEPT ![p].pc = "pruning",
                      ![p].victims = IF count <= RetentionCap THEN {} ELSE firstOf(deletable, count - RetentionCap)]
    /\ UNCHANGED <<files, index, handoff, issued, crashes, ghosts>>
\* One victim at a time, oldest first; a failed unlink ends the pruning.
PruneUnlink(p) ==
    /\ at(p, "pruning") /\ call[p].victims # {}
    /\ LET s == Min(call[p].victims)
       IN  /\ files' = [files EXCEPT ![s] = Absent]
           /\ call' = [call EXCEPT ![p].victims = IF files[s] = Absent THEN {} ELSE @ \ {s}]
    /\ UNCHANGED <<index, handoff, issued, crashes, ghosts>>
ReturnPublished(p) ==
    /\ at(p, "pruning") /\ call[p].victims = {}
    /\ acked' = Max({acked, call[p].at})
    /\ ends(p, "published")
    /\ UNCHANGED <<files, index, handoff, issued, crashes, published, raced>>

\* The implementation context cites the checkpoint it would resume from.
Cite ==
    /\ assessResume.usable /\ handoff' = {files[assessResume.seq].id}
    /\ UNCHANGED <<files, index, call, issued, crashes, ghosts>>

\* A publisher dies; what it reserved stays and grows old.
Crash(p) ==
    /\ ~at(p, "idle") /\ crashes < MaxCrashes
    /\ crashes' = crashes + 1
    /\ files' = [s \in Seqs |-> IF files[s].kind = "reserved" /\ files[s].by = p
                               THEN Reserved(NoPublisher, files[s].aged) ELSE files[s]]
    /\ call' = [call EXCEPT ![p] = NoCall]
    /\ UNCHANGED <<index, handoff, issued, ghosts>>
Age(s) ==
    /\ files[s].kind = "reserved" /\ ~files[s].aged
    /\ files' = [files EXCEPT ![s].aged = TRUE]
    /\ UNCHANGED <<index, call, handoff, issued, crashes, ghosts>>

CheckpointNext ==
    \/ \E p \in Publishers :
         \/ BeginPublish(p) \/ CleanStat(p) \/ CleanUnlink(p) \/ LoadIndex(p) \/ LoadScan(p)
         \/ Reserve(p) \/ Rename(p) \/ Collide(p) \/ InspectCollision(p) \/ Evict(p)
         \/ WriteIndex(p) \/ PruneRead(p) \/ PruneUnlink(p) \/ ReturnPublished(p) \/ Crash(p)
    \/ \E s \in Seqs : Age(s)
    \/ Cite

CheckpointSpec == CheckpointInit /\ [][CheckpointNext]_checkpointVars

(******************************* Properties *******************************)
\* Types; a live young reservation belongs to the publisher about to rename.
CheckpointTypeOK ==
    /\ index.seq \in 0..MaxSeq /\ acked \in 0..MaxSeq /\ issued \in 0..MaxCheckpoints
    /\ \A s \in Seqs :
         /\ isPublished(s) => files[s].id \in 1..issued
         /\ files[s].kind = "reserved" /\ files[s].by # NoPublisher =>
              call[files[s].by].pc = "rename" /\ call[files[s].by].at = s

\* Concurrent publishers never fork the sequence: a number is published once,
\* and each checkpoint supersedes the one before it, as long as no cleanup hit
\* a live reservation and no publisher was so slow that retention freed the
\* number it had read (publishCheckpoint, writeAtomic).
SequenceNeverForks ==
    raced = {} =>
        /\ \A c, d \in published : c.seq = d.seq => c = d
        /\ \A c \in published :
             IF c.seq = 1 THEN c.supersedes = 0
             ELSE \E d \in published : d.seq = c.seq - 1 /\ d.id = c.supersedes

\* Whatever crashes, a fresh context resumes from a checkpoint at least as
\* recent as every one whose publication returned (loadLatestCheckpoint).
ResumeSeesPublished ==
    raced = {} /\ acked > 0 => assessResume.usable /\ assessResume.seq >= acked

\* A checkpoint cited in the handoff packet is still there (pruneCheckpoints).
CitedIsKept ==
    raced = {} => \A i \in handoff : \E s \in Seqs : isPublished(s) /\ files[s].id = i

\* A publisher that gives up had competition: a crashed publisher's old
\* reservation alone never makes a publication fail (handleSequenceCollision).
GivesUpOnlyUnderContention ==
    \A p \in Publishers : call[p].result = "collision" => call[p].contended

\* Checkpoints: a sequence that never forks, nothing acknowledged or cited is
\* lost, and only competition makes a publisher give up.
CheckpointSafety ==
    /\ CheckpointTypeOK /\ SequenceNeverForks /\ ResumeSeesPublished /\ CitedIsKept
    /\ GivesUpOnlyUnderContention

=============================================================================
