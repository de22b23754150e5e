------------------------------- MODULE AutoModeLog -----------------------------
(***************************************************************************)
(* The EKS Auto Mode collector: it polls, on every node, the log file of   *)
(* the Network Policy Agent through the kubelet, and keeps a checkpoint    *)
(* per node.  The agent's logger appends records, renames a full file to a *)
(* numbered generation, compresses it in place and deletes old ones, all   *)
(* of it while a poll is under way.                                        *)
(*                                                                         *)
(* A record stands for its line, so equal records are equal lines and the  *)
(* hash of a line is the record.  Lines have one of two lengths: an offset *)
(* that belongs to another file need not be a line boundary.  A rotation   *)
(* id is the number of the generation: the timestamps of the code sort in  *)
(* that order.  Reading a record means handing it to CacheFlowLine.        *)
(***************************************************************************)
EXTENDS Integers, Sequences, FiniteSets, FiniteSetsExt, SequencesExt

CONSTANTS
    Nodes,              \* names of Auto Mode nodes
    MaxRecords,         \* bound on the records written, on all nodes
    Long,               \* the records whose line has length 2, not 1
    Overlap,            \* validationOverlap
    MaxConcurrentPolls, \* maxConcurrentPolls
    MaxRotations,       \* bound on the rotations of a node's file
    MaxJoins,           \* bound on how often a node object is created
    MaxRestarts         \* bound on how often the collector starts anew

ASSUME LogAssumption ==
    /\ MaxRecords \in Nat /\ MaxRotations \in Nat /\ MaxJoins \in Nat \ {0}
    /\ MaxRestarts \in Nat
    /\ Long \subseteq 1..MaxRecords
    /\ Overlap \in Nat /\ Overlap > 2   \* exceeds the longest line
    /\ MaxConcurrentPolls \in Nat \ {0}

VARIABLES
    joins,    \* joins[n]: how many node objects of that name there were
    present,  \* present[n]: the node is there, with UID joins[n]
    active,   \* active[n]: the lines of the active file
    torn,     \* torn[n]: the last line has no newline yet
    rotated,  \* rotated[n][g]: generation g, with its form on disk
    gen,      \* gen[n]: the number of rotations so far
    written,  \* number of records written
    cp,       \* cp[n]: the checkpoint, the zero one if there is none
    poll,     \* poll[n]: where the poll of the node is
    seenUID,  \* seenUID[n]: the UID in this round's node list, 0 if absent
    unseen,   \* unseen[n]: rotations still to recover, as they were listed
    boot,     \* boot[n]: startRotationID of a bootstrap, or NotBoot
    restarts, \* how often the collector was replaced by a new one
    reads,    \* history: reads[r], how often the record was read, at most 2
    place,    \* history: place[r], where the record was written
    raced,    \* history: generations that rotated away during a poll, after
              \* the poll had listed and before it had read the active file
    deleted,  \* history: generations deleted before they were recovered
    booted,   \* history: booted[n], the generations a bootstrap skipped
    replayed  \* history: nodes where a poll failed half way or began anew

fileVars  == <<joins, present, active, torn, rotated, gen, written>>
pollVars  == <<cp, poll, seenUID, unseen, boot, restarts>>
ghostVars == <<reads, place, raced, deleted, booted, replayed>>
logVars   == <<joins, present, active, torn, rotated, gen, written,
               cp, poll, seenUID, unseen, boot, restarts,
               reads, place, raced, deleted, booted, replayed>>

Records == 1..MaxRecords
Gens    == 1..MaxRotations
NotBoot == -1
Absent  == [recs |-> << >>, form |-> "none"]

\* RotatedFile: what parseRotationFilename takes from a name, the id and the
\* suffix.  Other names in the directory are not rotations of the active file.
RotatedFiles == [id : Gens, form : {"log", "gz"}]

\* nodeLogCheckpoint: LastObservedSize is written and never read.
Checkpoint(u, offset, hash, last) ==
    [uid |-> u, offset |-> offset, hash |-> hash, last |-> last]
NoCheckpoint == Checkpoint(0, 0, 0, 0)
NoPlace      == [node |-> 0, uid |-> 0, gen |-> 0, end |-> 0]

Phases == {"none", "queued", "list", "open", "relist", "reopen", "active",
           "refetch", "done"}

\* Type invariant of the files, the checkpoints and the polls.
LogTypeOK ==
    /\ joins \in [Nodes -> 1..MaxJoins]
    /\ present \in [Nodes -> BOOLEAN]
    /\ torn \in [Nodes -> BOOLEAN]
    /\ gen \in [Nodes -> 0..MaxRotations]
    /\ written \in 0..MaxRecords
    /\ active \in [Nodes -> Seq(Records)]
    /\ rotated \in [Nodes -> [Gens -> [recs : Seq(Records),
                                       form : {"none", "log", "both", "gz"}]]]
    /\ cp \in [Nodes -> [uid : 0..MaxJoins, offset : Nat, hash : 0..MaxRecords,
                         last : 0..MaxRotations]]
    /\ \A n \in Nodes :
          /\ torn[n] => active[n] # << >>
          /\ poll[n] \in {"open", "relist", "reopen"} <=> unseen[n] # {}
    /\ unseen \in [Nodes -> SUBSET RotatedFiles]
    /\ poll \in [Nodes -> Phases]
    /\ seenUID \in [Nodes -> 0..MaxJoins]
    /\ boot \in [Nodes -> {NotBoot} \cup 0..MaxRotations]
    /\ restarts \in 0..MaxRestarts
    /\ reads \in [Records -> 0..2]

\* The collector starts on nodes that have been there for a while: files are
\* written and rotated before the first poll too.
LogInit ==
    /\ joins = [n \in Nodes |-> 1]
    /\ present = [n \in Nodes |-> TRUE]
    /\ active = [n \in Nodes |-> << >>]
    /\ torn = [n \in Nodes |-> FALSE]
    /\ rotated = [n \in Nodes |-> [g \in Gens |-> Absent]]
    /\ gen = [n \in Nodes |-> 0]
    /\ written = 0
    /\ cp = [n \in Nodes |-> NoCheckpoint]
    /\ poll = [n \in Nodes |-> "none"]
    /\ seenUID = [n \in Nodes |-> 0]
    /\ unseen = [n \in Nodes |-> {}]
    /\ boot = [n \in Nodes |-> NotBoot]
    /\ restarts = 0
    /\ reads = [r \in Records |-> 0]
    /\ place = [r \in Records |-> NoPlace]
    /\ raced = [n \in Nodes |-> {}]
    /\ deleted = [n \in Nodes |-> {}]
    /\ booted = [n \in Nodes |-> {}]
    /\ replayed = {}

--------------------------------------------------------------------------------
(* The nodes and the agent's logger, external to the repository. *)

UID(n) == IF present[n] THEN joins[n] ELSE 0

\* Where line i of a file ends, and the lines that have their newline.
End(recs, i) == i + Cardinality({j \in 1..i : recs[j] \in Long})
Complete(n)  == IF torn[n] THEN Front(active[n]) ELSE active[n]

WriteRecord(n) ==
    /\ present[n] /\ ~torn[n] /\ written < MaxRecords
    /\ written' = written + 1
    /\ active' = [active EXCEPT ![n] = Append(@, written + 1)]
    /\ torn' = [torn EXCEPT ![n] = TRUE]
    /\ place' = [place EXCEPT ![written + 1] =
          [node |-> n, uid |-> joins[n], gen |-> gen[n] + 1,
           end |-> End(Append(active[n], written + 1), Len(active[n]) + 1)]]
    /\ UNCHANGED <<joins, present, rotated, gen, pollVars,
                   reads, raced, deleted, booted, replayed>>

FinishRecord(n) ==
    /\ torn[n]
    /\ torn' = [torn EXCEPT ![n] = FALSE]
    /\ UNCHANGED <<joins, present, active, rotated, gen, written, pollVars, ghostVars>>

\* A poll has listed the rotations and not yet read the active file.
BetweenListAndRead(n) ==
    poll[n] \in {"open", "relist", "reopen", "active", "refetch"}

Rotate(n) ==
    /\ present[n] /\ ~torn[n] /\ active[n] # << >> /\ gen[n] < MaxRotations
    /\ gen' = [gen EXCEPT ![n] = @ + 1]
    /\ rotated' = [rotated EXCEPT ![n][gen[n] + 1] =
                      [recs |-> active[n], form |-> "log"]]
    /\ active' = [active EXCEPT ![n] = << >>]
    /\ raced' = IF BetweenListAndRead(n)
                THEN [raced EXCEPT ![n] = @ \cup {gen[n] + 1}] ELSE raced
    /\ UNCHANGED <<joins, present, torn, written, pollVars,
                   reads, place, deleted, booted, replayed>>

\* The ".log.gz" is written next to the ".log", which goes when it is done.
Compress(n, g) ==
    /\ rotated[n][g].form \in {"log", "both"}
    /\ rotated' = [rotated EXCEPT ![n][g].form =
                      IF @ = "log" THEN "both" ELSE "gz"]
    /\ UNCHANGED <<joins, present, active, torn, gen, written, pollVars, ghostVars>>

DeleteOldest(n) ==
    \E g \in Gens :
        /\ rotated[n][g].form # "none"
        /\ \A h \in Gens : h < g => rotated[n][h].form = "none"
        /\ rotated' = [rotated EXCEPT ![n][g] = Absent]
        /\ deleted' = IF g > cp[n].last \/ cp[n].uid # joins[n]
                      THEN [deleted EXCEPT ![n] = @ \cup {g}] ELSE deleted
        /\ UNCHANGED <<joins, present, active, torn, gen, written, pollVars,
                       reads, place, raced, booted, replayed>>

NodeLeaves(n) ==
    /\ present[n]
    /\ joins[n] < MaxJoins
    /\ present' = [present EXCEPT ![n] = FALSE]
    /\ active' = [active EXCEPT ![n] = << >>]
    /\ torn' = [torn EXCEPT ![n] = FALSE]
    /\ rotated' = [rotated EXCEPT ![n] = [g \in Gens |-> Absent]]
    /\ UNCHANGED <<joins, gen, written, pollVars, ghostVars>>

NodeReturns(n) ==
    /\ ~present[n]
    /\ joins[n] < MaxJoins
    /\ present' = [present EXCEPT ![n] = TRUE]
    /\ joins' = [joins EXCEPT ![n] = @ + 1]
    /\ replayed' = IF poll[n] \in {"none", "done"} THEN replayed
                   ELSE replayed \cup {n}   \* polled under its old UID
    /\ UNCHANGED <<active, torn, rotated, gen, written, pollVars,
                   reads, place, raced, deleted, booted>>

LoggerStep(n) ==
    \/ WriteRecord(n)
    \/ FinishRecord(n)
    \/ Rotate(n)
    \/ \E g \in Gens : Compress(n, g)
    \/ DeleteOldest(n)
    \/ NodeLeaves(n)
    \/ NodeReturns(n)

--------------------------------------------------------------------------------
(* What the collector makes of a listing and of a file. *)

list(files) == {f \in RotatedFiles : files[f.id].form \in {f.form, "both"}}

\* Mutant of dedupRotations: the ".log.gz" is preferred.
dedupPreferringGz(files) ==
    {f \in files : f.form = "gz" \/ ~\E e \in files : e.id = f.id /\ e.form = "gz"}

\* One entry per generation, the ".log" while there is one.
dedupRotations(files) ==
    {f \in files : f.form = "log" \/ ~\E e \in files : e.id = f.id /\ e.form = "log"}

unseenRotations(files, last) == {f \in dedupRotations(files) : f.id > last}

newestRotationID(files) == Max({0} \cup {f.id : f \in dedupRotations(files)})

\* Can a file be read under the name it was listed with?  A ".log.gz" that is
\* still being written cannot.
Found(n, f) == rotated[n][f.id].form \in (IF f.form = "log" THEN {"log", "both"}
                                                          ELSE {"gz"})

\* The lines of a rotated file behind the first skip bytes.  A line that skip
\* cuts in two does not parse.
TailAfter(recs, skip) ==
    {recs[i] : i \in {j \in DOMAIN recs : End(recs, j - 1) >= skip}}

\* The line that ends at the offset is read again, and it is the same.  The
\* first line of a body that begins within the file is not looked at.
Continues(recs, start, c) ==
    \E i \in DOMAIN recs :
        /\ End(recs, i) = c.offset
        /\ recs[i] = c.hash
        /\ start > 0 => End(recs, i - 1) > start

\* streamActive and applyRecord: nothing is read before the line at the offset
\* was recognised, so a reset has read nothing.
streamActive(recs, start, c) ==
    LET valid == c.offset = 0 \/ Continues(recs, start, c)
        fresh == {i \in DOMAIN recs : valid /\ End(recs, i) > c.offset} IN
    [reset  |-> ~valid,
     out    |-> {recs[i] : i \in fresh},
     offset |-> Max({c.offset} \cup {End(recs, i) : i \in fresh}),
     hash   |-> IF fresh = {} THEN c.hash ELSE recs[Max(fresh)]]

\* fetchActive: the server honours the Range or sends the file from its start;
\* a start at or behind the end is answered with 416, and Continues fails.
BodyStarts(c) == {0, IF c.offset > Overlap THEN c.offset - Overlap ELSE 0}

--------------------------------------------------------------------------------
(* The collector.  Whatever a step of a poll fails at (a request, a status, *)
(* the gzip stream, its context), the poll ends and commits nothing.        *)

Count(rs) == [r \in Records |-> IF r \in rs /\ reads[r] < 2 THEN reads[r] + 1
                                ELSE reads[r]]

\* Run and pollAllNodes: the next round begins when the last is over.  A failed
\* node list leaves everything as it is.
PollAllNodes ==
    /\ \A n \in Nodes : poll[n] = "none"
    /\ seenUID' = [n \in Nodes |-> UID(n)]
    /\ poll' = [n \in Nodes |-> IF present[n] THEN "queued" ELSE "done"]
    /\ UNCHANGED <<fileVars, cp, unseen, boot, restarts, ghostVars>>

StartPoll(n) ==
    /\ poll[n] = "queued"
    /\ Cardinality({m \in Nodes : poll[m] \notin {"none", "queued", "done"}})
          < MaxConcurrentPolls
    /\ poll' = [poll EXCEPT ![n] = "list"]
    /\ UNCHANGED <<fileVars, cp, seenUID, unseen, boot, restarts, ghostVars>>

\* pollNode and bootstrapNode up to the read of the active file.  The kubelet
\* of a node that is gone answers nothing.
ListRotations(n) ==
    /\ poll[n] = "list"
    /\ present[n]
    /\ IF cp[n].uid # seenUID[n]
       THEN /\ boot' = [boot EXCEPT ![n] = newestRotationID(list(rotated[n]))]
            /\ poll' = [poll EXCEPT ![n] = "active"]
            /\ UNCHANGED unseen
       ELSE LET u == unseenRotations(list(rotated[n]), cp[n].last) IN
            /\ unseen' = [unseen EXCEPT ![n] = u]
            /\ poll' = [poll EXCEPT ![n] = IF u = {} THEN "active" ELSE "open"]
            /\ UNCHANGED boot
    /\ UNCHANGED <<fileVars, cp, seenUID, restarts, ghostVars>>

\* Unseen generations are recovered oldest first.
Oldest(n) == CHOOSE f \in unseen[n] : \A e \in unseen[n] : f.id <= e.id

\* After a generation, read or found gone: the checkpoint moves past it.
CommitRotation(n) ==
    /\ cp' = [cp EXCEPT ![n] = Checkpoint(seenUID[n], 0, 0, Oldest(n).id)]
    /\ unseen' = [unseen EXCEPT ![n] = @ \ {Oldest(n)}]
    /\ poll' = [poll EXCEPT ![n] = IF unseen[n] = {Oldest(n)} THEN "active" ELSE "open"]

\* The first unseen generation is the one the offset counts in.
Skip(n) == cp[n].offset

\* Mutant of ReadRotated: every generation is read from its start.
ReadRotatedWhole(n) ==
    /\ poll[n] \in {"open", "reopen"}
    /\ present[n] /\ Found(n, Oldest(n))
    /\ reads' = Count(TailAfter(rotated[n][Oldest(n).id].recs, 0))
    /\ CommitRotation(n)
    /\ UNCHANGED <<fileVars, seenUID, boot, restarts, place, raced, deleted, booted, replayed>>

\* recoverRotations and recoverRotatedFile, the file being there.  The offset
\* is zero again after the first generation.
ReadRotated(n) ==
    /\ poll[n] \in {"open", "reopen"}
    /\ present[n] /\ Found(n, Oldest(n))
    /\ reads' = Count(TailAfter(rotated[n][Oldest(n).id].recs, Skip(n)))
    /\ CommitRotation(n)
    /\ UNCHANGED <<fileVars, seenUID, boot, restarts, place, raced, deleted, booted, replayed>>

\* Mutant of RotatedNotFound: a name that is gone is a generation that is gone.
NotFoundIsDeleted(n) ==
    /\ poll[n] = "open"
    /\ present[n] /\ ~Found(n, Oldest(n))
    /\ CommitRotation(n)
    /\ UNCHANGED <<fileVars, seenUID, boot, restarts, ghostVars>>

\* The listed name is gone: list once more.
RotatedNotFound(n) ==
    /\ poll[n] = "open"
    /\ present[n] /\ ~Found(n, Oldest(n))
    /\ poll' = [poll EXCEPT ![n] = "relist"]
    /\ UNCHANGED <<fileVars, cp, seenUID, unseen, boot, restarts, ghostVars>>

Relist(n) ==
    /\ poll[n] = "relist"
    /\ present[n]
    /\ LET again == {f \in dedupRotations(list(rotated[n])) : f.id = Oldest(n).id} IN
       IF again = {} THEN CommitRotation(n)
       ELSE /\ unseen' = [unseen EXCEPT ![n] = (@ \ {Oldest(n)}) \cup again]
            /\ poll' = [poll EXCEPT ![n] = "reopen"]
            /\ UNCHANGED cp
    /\ UNCHANGED <<fileVars, seenUID, boot, restarts, ghostVars>>

\* The checkpoint processActive starts from.
Working(n) == IF boot[n] # NotBoot THEN Checkpoint(seenUID[n], 0, 0, boot[n])
              ELSE cp[n]

PollEnds(n) ==
    /\ poll' = [poll EXCEPT ![n] = "done"]
    /\ unseen' = [unseen EXCEPT ![n] = {}]
    /\ boot' = [boot EXCEPT ![n] = NotBoot]

\* The new records are cached, and only then the checkpoint is set.
CommitActive(n, c, res) ==
    /\ reads' = Count(res.out)
    /\ cp' = [cp EXCEPT ![n] = Checkpoint(seenUID[n], res.offset, res.hash, c.last)]
    /\ booted' = IF boot[n] # NotBoot THEN [booted EXCEPT ![n] = @ \cup 1..boot[n]]
                 ELSE booted
    /\ PollEnds(n)
    /\ UNCHANGED <<fileVars, seenUID, restarts, place, raced, deleted, replayed>>

\* processActive, first attempt.
ReadActive(n) ==
    /\ poll[n] = "active"
    /\ present[n]
    /\ \E start \in BodyStarts(Working(n)) :
          LET c   == Working(n)
              res == streamActive(Complete(n), start, c) IN
          \/ ~res.reset /\ CommitActive(n, c, res)
          \/ /\ res.reset
             /\ poll' = [poll EXCEPT ![n] = "refetch"]
             /\ UNCHANGED <<fileVars, cp, seenUID, unseen, boot, restarts, ghostVars>>

\* The second attempt, from the start and with a fresh checkpoint that keeps
\* LastRotationID.
ReadActiveAgain(n) ==
    /\ poll[n] = "refetch"
    /\ present[n]
    /\ LET c == Checkpoint(seenUID[n], 0, 0, Working(n).last)
       IN CommitActive(n, c, streamActive(Complete(n), 0, c))

\* What the poll would read now.
InHand(n) ==
    CASE poll[n] \in {"open", "reopen"} /\ Found(n, Oldest(n)) ->
            TailAfter(rotated[n][Oldest(n).id].recs, Skip(n))
      [] poll[n] = "active"  -> streamActive(Complete(n), 0, Working(n)).out
      [] poll[n] = "refetch" -> streamActive(Complete(n), 0, NoCheckpoint).out
      [] OTHER -> {}

\* A poll fails.  The lines it read before that, if any, are cached.
PollFails(n) ==
    /\ poll[n] \notin {"none", "queued", "done"}
    /\ \E k \in 0..written :
          LET rs == {r \in InHand(n) : r <= k} IN
          /\ reads' = Count(rs)
          /\ replayed' = IF rs = {} THEN replayed ELSE replayed \cup {n}
    /\ PollEnds(n)
    /\ UNCHANGED <<fileVars, cp, seenUID, restarts, place, raced, deleted, booted>>

\* wg.Wait and retain: a node that was not listed loses its checkpoint.
EndRound ==
    /\ \A n \in Nodes : poll[n] = "done"
    /\ poll' = [n \in Nodes |-> "none"]
    /\ cp' = [n \in Nodes |-> IF seenUID[n] = 0 THEN NoCheckpoint ELSE cp[n]]
    /\ UNCHANGED <<fileVars, seenUID, unseen, boot, restarts, ghostVars>>

\* The stream's context ends; the next stream has a new collector with an empty
\* checkpoint store.
NewCollector ==
    /\ restarts < MaxRestarts
    /\ restarts' = restarts + 1
    /\ cp' = [n \in Nodes |-> NoCheckpoint]
    /\ poll' = [n \in Nodes |-> "none"]
    /\ unseen' = [n \in Nodes |-> {}]
    /\ boot' = [n \in Nodes |-> NotBoot]
    /\ replayed' = Nodes
    /\ UNCHANGED <<fileVars, seenUID, reads, place, raced, deleted, booted>>

PollStep(n) ==
    \/ StartPoll(n)
    \/ ListRotations(n)
    \/ ReadRotated(n)
    \/ RotatedNotFound(n)
    \/ Relist(n)
    \/ ReadActive(n)
    \/ ReadActiveAgain(n)

LogNext ==
    \/ \E n \in Nodes : LoggerStep(n) \/ PollStep(n) \/ PollFails(n)
    \/ PollAllNodes
    \/ EndRound
    \/ NewCollector

(* Goroutines run, and no request fails for ever: a node that is polled again *)
(* and again is read in the end.                                              *)
LogFairness ==
    /\ WF_logVars(PollAllNodes)
    /\ WF_logVars(EndRound)
    /\ \A n \in Nodes :
          /\ WF_logVars(StartPoll(n))
          /\ WF_logVars((~present[n] \/ poll[n] = "reopen") /\ PollFails(n))
          /\ SF_logVars(ListRotations(n))
          /\ SF_logVars(ReadRotated(n) \/ RotatedNotFound(n) \/ Relist(n))
          /\ SF_logVars(ReadActive(n) \/ ReadActiveAgain(n))

LogSpec == LogInit /\ [][LogNext]_logVars
FairLog == LogSpec /\ LogFairness

--------------------------------------------------------------------------------
\* The checkpoint has moved past the record: its generation was dealt with, or
\* it lies before the offset in a file that has not rotated since.
Passed(r) ==
    LET p == place[r] IN
    /\ present[p.node] /\ joins[p.node] = p.uid /\ cp[p.node].uid = p.uid
    /\ \/ p.gen <= cp[p.node].last
       \/ /\ p.gen = gen[p.node] + 1 /\ gen[p.node] = cp[p.node].last
          /\ p.end <= cp[p.node].offset

\* What the collector does not promise to read: history that a bootstrap skips,
\* and what the logger deleted before it was recovered.
NotPromised(r) ==
    LET p == place[r] IN p.gen \in booted[p.node] \cup deleted[p.node]

\* The checkpoint never moves past a record that was not read, whatever fails
\* and whenever files are renamed, compressed and deleted, with two exceptions:
\* a rotation that falls between the listing and the read of one poll, and the
\* generation after one that was deleted unread, both of which get an offset
\* that counts in another file.  (The comment on pollNode claims it without
\* exceptions: "a mid-cycle failure never skips unprocessed records".)
NothingSkipped ==
    \A r \in 1..written :
        Passed(r) => \/ reads[r] > 0
                     \/ NotPromised(r)
                     \/ place[r].gen \in raced[place[r].node]
                     \/ place[r].gen - 1 \in deleted[place[r].node]

\* A record is read twice only if a poll of its node failed half way, the
\* collector was started anew, or a rotation raced with a poll.  A reset of
\* the active file alone does not send anything twice.
ReadOnce ==
    \A r \in 1..written :
        reads[r] = 2 => \/ place[r].node \in replayed
                        \/ raced[place[r].node] # {}

\* In the end every line of every file on the nodes has been read.
CaughtUp ==
    \A r \in 1..written :
        LET p == place[r] IN
        present[p.node] /\ joins[p.node] = p.uid =>
            \/ reads[r] > 0
            \/ r = written /\ torn[p.node]
            \/ NotPromised(r)
            \/ p.gen \in raced[p.node]
            \/ p.gen - 1 \in deleted[p.node]
CatchesUp == <>[]CaughtUp
================================================================================
