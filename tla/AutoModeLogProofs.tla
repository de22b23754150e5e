-------------------------- MODULE AutoModeLogProofs ----------------------------
(***************************************************************************)
(* The EKS Auto Mode collector skips no record and reads none twice, save  *)
(* for the exceptions that NothingSkipped and ReadOnce name: for any       *)
(* nodes, records and lengths of lines, and whatever the logger, the polls *)
(* and the nodes do in between.                                            *)
(*                                                                         *)
(* Three inductive invariants build on each other.  LogIInv: every line is *)
(* in the file it was written to, and the files on disk are the newest.    *)
(* SkipInv: what the checkpoint has passed is excused, the offset ends a   *)
(* line of the file it counts in, and the list of a poll covers what lies  *)
(* between the checkpoint and the active file.  AllOnce: on a node where   *)
(* no poll failed half way and no rotation raced, all that was read lies   *)
(* before the checkpoint, and the line at the offset will be recognised.   *)
(***************************************************************************)
EXTENDS AutoModeLog, FiniteSetTheorems, TLAPS

--------------------------------------------------------------------------------
(* Where the records are, and what a poll knows of its own progress. *)

\* The file of generation g: the active file is the next generation.
LogFile(n, g) == IF g = gen[n] + 1 THEN active[n] ELSE rotated[n][g].recs
OnDisk(n, g)  == \/ g = gen[n] + 1
                 \/ g \in 1..gen[n] /\ rotated[n][g].form # "none"
LogFiles(n)   == {g \in 1..(gen[n] + 1) : OnDisk(n, g)}

\* The records of the node object that is there now.
Mine(n) == {r \in 1..written : place[r].node = n /\ place[r].uid = joins[n]}
Placed(n, g, i) == [node |-> n, uid |-> joins[n], gen |-> g, end |-> End(LogFile(n, g), i)]

\* The lines of a file are where their records say, and a record is in its file.
LinesPlaced(n, g) ==
    \A i \in DOMAIN LogFile(n, g) : /\ LogFile(n, g)[i] \in 1..written
                                   /\ place[LogFile(n, g)[i]] = Placed(n, g, i)
RecordFound(n, r) ==
    /\ place[r].gen \in 1..(gen[n] + 1)
    /\ \A g \in LogFiles(n) :
          g = place[r].gen => \E i \in DOMAIN LogFile(n, g) : LogFile(n, g)[i] = r

\* The generations on disk are the newest ones, and every record is where its
\* history says it was written.
FilesOK(n) ==
    /\ \A g \in Gens : rotated[n][g].form # "none" =>
          g <= gen[n] /\ \A h \in g..gen[n] : rotated[n][h].form # "none"
    /\ ~present[n] => active[n] = << >> /\ \A g \in Gens : rotated[n][g].form = "none"
    /\ present[n] => /\ \A g \in LogFiles(n) : LinesPlaced(n, g)
                     /\ \A r \in Mine(n) : RecordFound(n, r)

\* What the histories say of every record and every node.
Places == [node : Nodes \cup {0}, uid : Nat, gen : Nat, end : Nat]
LogHistoryOK ==
    /\ place \in [Records -> Places]
    /\ \A r \in 1..written : place[r].node \in Nodes /\ place[r].uid <= joins[place[r].node]
    /\ \A r \in Records : r > written => reads[r] = 0
    /\ raced \in [Nodes -> SUBSET Nat]
    /\ deleted \in [Nodes -> SUBSET Nat]
    /\ booted \in [Nodes -> SUBSET Nat]
    /\ replayed \subseteq Nodes

\* What a poll knows of its own progress.
PollOK(n) ==
    /\ cp[n].uid <= joins[n] /\ seenUID[n] <= joins[n]
    /\ cp[n].last <= gen[n] /\ boot[n] <= gen[n]
    /\ raced[n] \subseteq 1..gen[n]
    /\ ~BetweenListAndRead(n) => boot[n] = NotBoot
    /\ boot[n] # NotBoot => cp[n].uid # seenUID[n] /\ unseen[n] = {}
    /\ BetweenListAndRead(n) /\ boot[n] = NotBoot => cp[n].uid = seenUID[n]
    /\ \A f \in unseen[n] : f.id > cp[n].last /\ f.id <= gen[n]
    /\ \A e, f \in unseen[n] : e.id = f.id => e = f

LogIInv == LogTypeOK /\ LogHistoryOK /\ \A n \in Nodes : FilesOK(n) /\ PollOK(n)

--------------------------------------------------------------------------------
(* What keeps the checkpoint from moving past a record. *)

\* The record was read, or is one of the exceptions of NothingSkipped.
Excused(r) == \/ reads[r] > 0
              \/ NotPromised(r)
              \/ place[r].gen \in raced[place[r].node]
              \/ place[r].gen - 1 \in deleted[place[r].node]

\* Generation g is the one the offset of a checkpoint counts in.
FirstAfter(n, g, last) ==
    g > last /\ \A h \in LogFiles(n) : h > last => g <= h

\* The offset ends a line of the file, and all up to it is excused.
ReadUpTo(n, g, offset) ==
    \E i \in DOMAIN LogFile(n, g) :
        /\ End(LogFile(n, g), i) = offset
        /\ \A j \in 1..i : Excused(LogFile(n, g)[j])

\* A generation on disk that the poll has still to read is on its list, unless
\* it rotated away since, and then it is newer than all on the list.
ListCovers(n) ==
    present[n] /\ seenUID[n] = joins[n] /\ BetweenListAndRead(n) =>
        \A g \in LogFiles(n) :
            g > Working(n).last /\ g <= gen[n] =>
               \/ \E f \in unseen[n] : f.id = g
               \/ g \in raced[n] /\ \A f \in unseen[n] : f.id < g

\* Nothing that is no longer on disk is missed.
GoneExcused(n) ==
    present[n] => \A r \in Mine(n) : place[r].gen \notin LogFiles(n) => Excused(r)

\* Nor is anything that the checkpoint has passed, by generation or by offset.
PassedExcused(n) ==
    present[n] /\ cp[n].uid = joins[n] =>
        /\ \A r \in Mine(n) : place[r].gen <= cp[n].last => Excused(r)
        /\ \A g \in LogFiles(n) : FirstAfter(n, g, cp[n].last) =>
              \/ g \in raced[n]
              \/ g - 1 \in deleted[n]
              \/ cp[n].offset = 0
              \/ ReadUpTo(n, g, cp[n].offset)

SkipInvAt(n) == ListCovers(n) /\ GoneExcused(n) /\ PassedExcused(n)
SkipInv == \A n \in Nodes : SkipInvAt(n)

--------------------------------------------------------------------------------
(* What keeps a line from being read again. *)

\* Nothing has happened on the node that makes the collector read again.
Calm(n) == n \notin replayed /\ raced[n] = {}

\* No line of the file, or of any file of the node, has been read.
Unread(n, g) == \A i \in DOMAIN LogFile(n, g) : ~(reads[LogFile(n, g)[i]] > 0)
AllUnread(n) == \A g \in LogFiles(n) : Unread(n, g)

\* Of the files that the checkpoint has not passed only lines before the offset, in the
\* file it counts in, have been read.
ReadBeforeOffset(n) ==
    \A g \in LogFiles(n) : \A i \in DOMAIN LogFile(n, g) :
        g > cp[n].last /\ reads[LogFile(n, g)[i]] > 0 =>
           FirstAfter(n, g, cp[n].last) /\ End(LogFile(n, g), i) <= cp[n].offset

\* The next read of an active file that was read will recognise the checkpoint's line.
Recognised(n) ==
    \/ Unread(n, gen[n] + 1)
    \/ \E k \in DOMAIN Complete(n) : /\ End(active[n], k) = cp[n].offset
                                     /\ active[n][k] = cp[n].hash

\* What is to be proved, what holds of the files behind the checkpoint, and what of the
\* poll that is under way.
AtMostOnce(n) == \A r \in 1..written : place[r].node = n => reads[r] <= 1

OnceBehind(n) ==
    present[n] => /\ cp[n].uid # joins[n] => AllUnread(n)
                  /\ cp[n].uid = joins[n] => ReadBeforeOffset(n) /\ Recognised(n)

OnceAhead(n) ==
    /\ poll[n] \notin {"none", "done"} => seenUID[n] = joins[n]
    /\ present[n] => /\ poll[n] = "done" /\ seenUID[n] = 0 => AllUnread(n)
                     /\ \A f \in unseen[n], g \in LogFiles(n) : g > f.id => Unread(n, g)
                     /\ poll[n] = "refetch" => Unread(n, gen[n] + 1)

OnceInv(n) == Calm(n) => AtMostOnce(n) /\ OnceBehind(n) /\ OnceAhead(n)
AllOnce == \A n \in Nodes : OnceInv(n)

--------------------------------------------------------------------------------
(* Facts about numbers, and about where lines end. *)

\* A set of natural numbers has a least element (sortRotations).
LEMMA LeastId ==
  ASSUME NEW S \in SUBSET Nat, S # {}
  PROVE  \E m \in S : \A k \in S : m <= k
  <1>1. PICK m \in S : \A k \in S : ~(<<k, m>> \in OpToRel(<, Nat))
    BY NatLessThanWellFounded, WFMin
  <1>2. \A k \in S : ~(k < m)
    BY <1>1 DEF OpToRel
  <1> QED BY <1>2

\* A non-empty set of numbers up to n has a greatest element, which is its Max.
LEMMA MaxOf ==
  ASSUME NEW n \in Nat, NEW S \in SUBSET (0..n), S # {}
  PROVE  Max(S) \in S /\ \A k \in S : k <= Max(S)
  <1> DEFINE Below == {n - k : k \in S}
  <1>1. Below \in SUBSET Nat /\ Below # {}
    <2>1. \A k \in S : n - k \in Nat
      OBVIOUS
    <2> QED BY <2>1
  <1>2. PICK b \in Below : \A k \in Below : b <= k
    <2> HIDE DEF Below
    <2> QED BY <1>1, LeastId
  <1>3. PICK m \in S : b = n - m
    OBVIOUS
  <1>4. ASSUME NEW k \in S PROVE m >= k
    <2>1. n - k \in Below
      OBVIOUS
    <2>2. n - m <= n - k
      BY <1>2, <1>3, <2>1
    <2> QED BY <2>2
  <1>5. \E x \in S : \A y \in S : x >= y
    BY <1>4
  <1>6. Max(S) \in S /\ \A k \in S : Max(S) >= k
    BY <1>5 DEF Max
  <1> QED BY <1>6

\* The number of long lines among the first i.
LEMMA LongLines ==
  ASSUME NEW recs, NEW i \in Nat
  PROVE  /\ IsFiniteSet({j \in 1..i : recs[j] \in Long})
         /\ Cardinality({j \in 1..i : recs[j] \in Long}) \in Nat
         /\ End(recs, i) \in Nat
         /\ End(recs, i) >= i
  <1>1. IsFiniteSet(1..i)
    BY FS_Interval
  <1>2. IsFiniteSet({j \in 1..i : recs[j] \in Long})
    BY <1>1, FS_Subset
  <1>3. Cardinality({j \in 1..i : recs[j] \in Long}) \in Nat
    BY <1>2, FS_CardinalityType
  <1> QED BY <1>2, <1>3 DEF End

\* The next line adds one or two to the end.
LEMMA EndStep ==
  ASSUME NEW recs, NEW i \in Nat
  PROVE  /\ End(recs, i + 1) > End(recs, i)
         /\ End(recs, i + 1) <= End(recs, i) + 2
  <1> DEFINE L(k) == {j \in 1..k : recs[j] \in Long}
  <1>1. IsFiniteSet(L(i)) /\ Cardinality(L(i)) \in Nat
    BY LongLines
  <1>2. L(i + 1) = L(i) \/ L(i + 1) = L(i) \cup {i + 1}
    OBVIOUS
  <1>3. i + 1 \notin L(i)
    OBVIOUS
  <1>4. Cardinality(L(i) \cup {i + 1}) = Cardinality(L(i)) + 1
    <2> HIDE DEF L
    <2> QED BY <1>1, <1>3, FS_AddElement
  <1>5. Cardinality(L(i + 1)) \in {Cardinality(L(i)), Cardinality(L(i)) + 1}
    <2> HIDE DEF L
    <2> QED BY <1>2, <1>4
  <1>6. End(recs, i) = i + Cardinality(L(i)) /\ End(recs, i + 1) = i + 1 + Cardinality(L(i + 1))
    BY DEF End
  <1> HIDE DEF L
  <1> QED BY <1>1, <1>5, <1>6

\* A later line ends later.
LEMMA EndGrows ==
  ASSUME NEW recs, NEW i \in Nat, NEW k \in Nat, i < k
  PROVE  End(recs, i) < End(recs, k)
  <1> DEFINE L(m) == {j \in 1..m : recs[j] \in Long}
  <1>1. IsFiniteSet(L(i)) /\ IsFiniteSet(L(k)) /\ Cardinality(L(i)) \in Nat /\ Cardinality(L(k)) \in Nat
    BY LongLines
  <1>2. L(i) \in SUBSET L(k)
    OBVIOUS
  <1>3. Cardinality(L(i)) <= Cardinality(L(k))
    <2> HIDE DEF L
    <2> QED BY <1>1, <1>2, FS_Subset
  <1>4. End(recs, i) = i + Cardinality(L(i)) /\ End(recs, k) = k + Cardinality(L(k))
    BY DEF End
  <1> HIDE DEF L
  <1> QED BY <1>1, <1>3, <1>4

\* Files with the same first lines end them at the same places.
LEMMA EndOfPrefix ==
  ASSUME NEW recs, NEW more, NEW i \in Nat, \A j \in 1..i : recs[j] = more[j]
  PROVE  End(recs, i) = End(more, i)
  <1>1. {j \in 1..i : recs[j] \in Long} = {j \in 1..i : more[j] \in Long}
    OBVIOUS
  <1> QED BY <1>1 DEF End

--------------------------------------------------------------------------------
(* What a listing, a file and a read return. *)

\* What is on disk, as a listing finds it.
Listing == [Gens -> [recs : Seq(Records), form : {"none", "log", "both", "gz"}]]

\* dedupRotations returns every generation on disk, once.
LEMMA ListedOnce ==
  ASSUME NEW files \in Listing
  PROVE  /\ \A f \in dedupRotations(list(files)) :
               f \in RotatedFiles /\ f.id \in Gens /\ files[f.id].form # "none"
         /\ \A g \in Gens : files[g].form # "none" =>
               \E f \in dedupRotations(list(files)) : f.id = g
         /\ \A e, f \in dedupRotations(list(files)) : e.id = f.id => e = f
  <1> DEFINE D == dedupRotations(list(files))
  <1>1. \A f \in RotatedFiles : f = [id |-> f.id, form |-> f.form]
    BY DEF RotatedFiles
  <1>2. \A f \in D : /\ f \in RotatedFiles /\ f.id \in Gens /\ f.form \in {"log", "gz"}
                     /\ files[f.id].form \in {f.form, "both"}
    BY DEF dedupRotations, list, RotatedFiles
  <1>3. ASSUME NEW g \in Gens, files[g].form # "none" PROVE \E f \in D : f.id = g
    <2> DEFINE plain == [id |-> g, form |-> "log"]
               gzip  == [id |-> g, form |-> "gz"]
    <2>1. plain \in RotatedFiles /\ gzip \in RotatedFiles
      BY DEF RotatedFiles
    <2>2. files[g].form \in {"log", "both", "gz"}
      BY <1>3 DEF Listing
    <2>3. CASE files[g].form \in {"log", "both"}
      <3>1. plain \in list(files)
        BY <2>1, <2>3 DEF list
      <3>2. plain \in D
        BY <3>1 DEF dedupRotations
      <3> QED BY <3>2
    <2>4. CASE files[g].form = "gz"
      <3>1. gzip \in list(files)
        BY <2>1, <2>4 DEF list
      <3>2. ~\E e \in list(files) : e.id = g /\ e.form = "log"
        BY <2>4 DEF list
      <3>3. gzip \in D
        BY <3>1, <3>2 DEF dedupRotations
      <3> QED BY <3>3
    <2> QED BY <2>2, <2>3, <2>4
  <1>4. ASSUME NEW e \in D, NEW f \in D, e.id = f.id PROVE e = f
    <2>1. e \in list(files) /\ f \in list(files)
      BY DEF dedupRotations
    <2>2. e.form = f.form
      BY <1>2, <1>4, <2>1 DEF dedupRotations
    <2> QED BY <1>1, <1>2, <1>4, <2>2
  <1>5. \A f \in D : files[f.id].form # "none"
    BY <1>2
  <1> QED BY <1>2, <1>3, <1>4, <1>5

\* newestRotationID is zero or a generation on disk, and none on disk is newer.
LEMMA NewestOnDisk ==
  ASSUME NEW files \in Listing
  PROVE  LET newest == newestRotationID(list(files)) IN
         /\ newest \in 0..MaxRotations
         /\ newest # 0 => newest \in Gens /\ files[newest].form # "none"
         /\ \A g \in Gens : files[g].form # "none" => g <= newest
  <1> DEFINE D == dedupRotations(list(files))
             ids == {0} \cup {f.id : f \in D}
  <1>1. ids \in SUBSET (0..MaxRotations) /\ ids # {} /\ MaxRotations \in Nat
    BY ListedOnce, LogAssumption DEF Gens
  <1>2. Max(ids) \in ids /\ \A k \in ids : k <= Max(ids)
    <2> HIDE DEF ids
    <2> QED BY <1>1, MaxOf
  <1>3. newestRotationID(list(files)) = Max(ids)
    BY DEF newestRotationID
  <1>4. \A g \in Gens : files[g].form # "none" => g \in ids
    BY ListedOnce
  <1>5. Max(ids) # 0 => \E f \in D : f.id = Max(ids)
    BY <1>2
  <1> HIDE DEF ids
  <1>6. Max(ids) # 0 => Max(ids) \in Gens /\ files[Max(ids)].form # "none"
    BY <1>5, ListedOnce
  <1> QED BY <1>1, <1>2, <1>3, <1>4, <1>6

\* The lines that have their newline are the first ones of the active file.
LEMMA CompleteIsPrefix ==
  ASSUME NEW n \in Nodes, active[n] \in Seq(Records), torn[n] \in BOOLEAN,
         torn[n] => active[n] # << >>
  PROVE  /\ Complete(n) \in Seq(Records)
         /\ Len(Complete(n)) <= Len(active[n])
         /\ ~torn[n] => Len(Complete(n)) = Len(active[n])
         /\ \A i \in 1..Len(Complete(n)) :
               /\ Complete(n)[i] = active[n][i]
               /\ End(Complete(n), i) = End(active[n], i)
  <1>1. /\ Complete(n) \in Seq(Records)
        /\ Len(Complete(n)) <= Len(active[n])
        /\ ~torn[n] => Len(Complete(n)) = Len(active[n])
        /\ \A i \in 1..Len(Complete(n)) : Complete(n)[i] = active[n][i]
    <2>1. CASE ~torn[n]
      BY <2>1 DEF Complete
    <2>2. CASE torn[n]
      <3>1. Len(active[n]) \in Nat \ {0}
        BY <2>2
      <3>2. /\ Complete(n) \in Seq(Records)
            /\ Len(Complete(n)) = Len(active[n]) - 1
            /\ \A i \in 1..(Len(active[n]) - 1) : Complete(n)[i] = active[n][i]
        BY <2>2, <3>1 DEF Complete, Front
      <3> QED BY <2>2, <3>1, <3>2
    <2> QED BY <2>1, <2>2
  <1>2. ASSUME NEW i \in 1..Len(Complete(n)) PROVE End(Complete(n), i) = End(active[n], i)
    <2>1. i \in Nat /\ \A j \in 1..i : Complete(n)[j] = active[n][j]
      BY <1>1
    <2> QED BY <2>1, EndOfPrefix
  <1> QED BY <1>1, <1>2

\* streamActive that does not reset returns the lines behind the offset, all there
\* are, and then its offset and its hash are those of the last line.
LEMMA StreamActiveReads ==
  ASSUME NEW recs \in Seq(Records), NEW start, NEW c, c.offset \in Nat
  PROVE  LET res   == streamActive(recs, start, c)
             fresh == {i \in DOMAIN recs : End(recs, i) > c.offset} IN
         /\ res.reset \in BOOLEAN
         /\ res.reset <=> ~(c.offset = 0 \/ Continues(recs, start, c))
         /\ res.reset => res.out = {}
         /\ ~res.reset =>
               /\ res.out = {recs[i] : i \in fresh}
               /\ fresh = {} => res.offset = c.offset /\ res.hash = c.hash
               /\ fresh # {} => /\ Len(recs) \in fresh
                                /\ res.offset = End(recs, Len(recs))
                                /\ res.hash = recs[Len(recs)]
  <1> DEFINE valid == c.offset = 0 \/ Continues(recs, start, c)
             res   == streamActive(recs, start, c)
             fresh == {i \in DOMAIN recs : End(recs, i) > c.offset}
             ends  == {c.offset} \cup {End(recs, i) : i \in fresh}
  <1>1. res.reset = ~valid
    BY DEF streamActive
  <1>2. valid \in BOOLEAN
    BY DEF Continues
  <1>r. ASSUME ~valid PROVE res.out = {}
    <2>1. {i \in DOMAIN recs : valid /\ End(recs, i) > c.offset} = {}
      BY <1>r
    <2> QED BY <2>1 DEF streamActive
  <1>3. ASSUME valid
        PROVE  /\ res.out = {recs[i] : i \in fresh}
               /\ res.offset = Max(ends)
               /\ res.hash = IF fresh = {} THEN c.hash ELSE recs[Max(fresh)]
    <2>1. {i \in DOMAIN recs : valid /\ End(recs, i) > c.offset} = fresh
      BY <1>3
    <2> QED BY <2>1 DEF streamActive
  <1>4. ASSUME fresh = {} PROVE Max(ends) = c.offset
    <2>1. ends = {c.offset}
      BY <1>4
    <2>2. ends \in SUBSET (0..c.offset) /\ ends # {}
      BY <2>1
    <2>3. Max(ends) \in ends
      <3> HIDE DEF ends
      <3> QED BY <2>2, MaxOf
    <2> QED BY <2>1, <2>3
  <1>5. ASSUME fresh # {}
        PROVE  /\ Len(recs) \in fresh
               /\ Max(fresh) = Len(recs)
               /\ Max(ends) = End(recs, Len(recs))
    <2>1. Len(recs) \in Nat /\ DOMAIN recs = 1..Len(recs)
      OBVIOUS
    <2>2. End(recs, Len(recs)) \in Nat
      BY <2>1, LongLines
    <2>3. \A i \in DOMAIN recs : End(recs, i) \in Nat /\ End(recs, i) <= End(recs, Len(recs))
      <3>1. TAKE i \in DOMAIN recs
      <3>2. i \in Nat /\ (i < Len(recs) \/ i = Len(recs))
        BY <2>1
      <3>3. End(recs, i) \in Nat
        BY <3>2, LongLines
      <3>4. i < Len(recs) => End(recs, i) < End(recs, Len(recs))
        BY <2>1, <3>2, EndGrows
      <3> QED BY <2>2, <3>2, <3>3, <3>4
    <2>4. Len(recs) \in fresh
      <3>1. PICK i \in fresh : TRUE
        BY <1>5
      <3>2. End(recs, i) > c.offset /\ i \in DOMAIN recs
        OBVIOUS
      <3>3. End(recs, Len(recs)) > c.offset
        BY <2>2, <2>3, <3>2
      <3> QED BY <2>1, <3>2, <3>3
    <2>5. fresh \in SUBSET (0..Len(recs))
      BY <2>1
    <2>6. Max(fresh) \in fresh /\ Len(recs) <= Max(fresh)
      <3> HIDE DEF fresh
      <3> QED BY <1>5, <2>1, <2>4, <2>5, MaxOf
    <2>7. Max(fresh) = Len(recs)
      BY <2>1, <2>5, <2>6
    <2>8. c.offset < End(recs, Len(recs))
      BY <2>4
    <2>9. ends \in SUBSET (0..End(recs, Len(recs))) /\ End(recs, Len(recs)) \in ends
      BY <2>2, <2>3, <2>4, <2>8
    <2>10. Max(ends) \in ends /\ End(recs, Len(recs)) <= Max(ends)
      <3> HIDE DEF ends
      <3> QED BY <2>2, <2>9, MaxOf
    <2>11. Max(ends) \in 0..End(recs, Len(recs))
      <3> HIDE DEF ends
      <3> QED BY <2>9, <2>10
    <2> HIDE DEF ends
    <2> QED BY <2>2, <2>4, <2>7, <2>10, <2>11
  <1> HIDE DEF valid, ends
  <1>6. res.reset \in BOOLEAN /\ (res.reset <=> ~valid) /\ (res.reset => res.out = {})
    BY <1>1, <1>2, <1>r
  <1> HIDE DEF res, fresh
  <1>7. valid => /\ res.out = {recs[i] : i \in fresh}
                 /\ fresh = {} => res.offset = c.offset /\ res.hash = c.hash
                 /\ fresh # {} => /\ Len(recs) \in fresh
                                  /\ res.offset = End(recs, Len(recs))
                                  /\ res.hash = recs[Len(recs)]
    BY <1>3, <1>4, <1>5
  <1> QED BY <1>6, <1>7 DEF valid, res, fresh

--------------------------------------------------------------------------------
(* Types. *)

\* The first unseen generation is one of them.
LEMMA OldestIsFirst ==
  ASSUME LogTypeOK, NEW n \in Nodes, unseen[n] # {}
  PROVE  /\ Oldest(n) \in unseen[n]
         /\ Oldest(n) \in RotatedFiles
         /\ Oldest(n).id \in Gens
         /\ \A f \in unseen[n] : f.id \in Gens /\ Oldest(n).id <= f.id
  <1> DEFINE ids == {f.id : f \in unseen[n]}
  <1>1. unseen[n] \in SUBSET RotatedFiles
    BY DEF LogTypeOK
  <1>2. \A f \in unseen[n] : f \in RotatedFiles /\ f.id \in Gens
    BY <1>1 DEF RotatedFiles
  <1>3. ids \in SUBSET Nat /\ ids # {}
    BY <1>2 DEF Gens
  <1>4. PICK m \in ids : \A k \in ids : m <= k
    <2> HIDE DEF ids
    <2> QED BY <1>3, LeastId
  <1>5. \E f \in unseen[n] : \A e \in unseen[n] : f.id <= e.id
    BY <1>4
  <1>6. Oldest(n) \in unseen[n] /\ \A e \in unseen[n] : Oldest(n).id <= e.id
    BY <1>5 DEF Oldest
  <1> QED BY <1>2, <1>6

\* Handing lines over keeps the counts of all others, and raises those by one.
LEMMA CountCounts ==
  ASSUME LogTypeOK, NEW rs
  PROVE  /\ Count(rs) \in [Records -> 0..2]
         /\ \A r \in Records : /\ Count(rs)[r] >= reads[r]
                               /\ r \notin rs => Count(rs)[r] = reads[r]
                               /\ r \in rs => Count(rs)[r] > 0
                               /\ r \in rs /\ reads[r] = 0 => Count(rs)[r] = 1
         /\ rs = {} => Count(rs) = reads
  <1>1. reads \in [Records -> 0..2]
    BY DEF LogTypeOK
  <1>2. \A r \in Records : reads[r] \in 0..2
    BY <1>1
  <1>3. \A r \in Records : Count(rs)[r] = IF r \in rs /\ reads[r] < 2 THEN reads[r] + 1 ELSE reads[r]
    BY DEF Count
  <1>4. \A r \in Records : Count(rs)[r] \in 0..2
    BY <1>2, <1>3
  <1>5. Count(rs) \in [Records -> 0..2]
    BY <1>4 DEF Count
  <1>6. ASSUME rs = {} PROVE Count(rs) = reads
    <2>1. \A r \in Records : Count(rs)[r] = reads[r]
      BY <1>3, <1>6
    <2> QED BY <1>1, <1>5, <2>1
  <1> QED BY <1>2, <1>3, <1>5, <1>6

\* What the active file is read with, and what the read leaves in the checkpoint.
LEMMA WorkingType ==
  ASSUME LogTypeOK, NEW n \in Nodes
  PROVE  /\ Working(n).offset \in Nat
         /\ Working(n).hash \in 0..MaxRecords
         /\ Working(n).last \in 0..MaxRotations
         /\ boot[n] # NotBoot => Working(n).offset = 0 /\ Working(n).last = boot[n]
         /\ boot[n] = NotBoot => Working(n) = cp[n]
  <1>1. cp[n] \in [uid : 0..MaxJoins, offset : Nat, hash : 0..MaxRecords, last : 0..MaxRotations]
    BY DEF LogTypeOK
  <1>2. boot[n] \in {NotBoot} \cup 0..MaxRotations /\ MaxRecords \in Nat
    BY LogAssumption DEF LogTypeOK
  <1> QED BY <1>1, <1>2 DEF Working, Checkpoint

\* What a read without a reset returns fits into a checkpoint.
LEMMA ReadType ==
  ASSUME LogTypeOK, NEW n \in Nodes, NEW start, NEW c,
         c.offset \in Nat, c.hash \in 0..MaxRecords,
         ~streamActive(Complete(n), start, c).reset
  PROVE  /\ streamActive(Complete(n), start, c).offset \in Nat
         /\ streamActive(Complete(n), start, c).hash \in 0..MaxRecords
  <1> DEFINE recs == Complete(n)
             res == streamActive(recs, start, c)
             fresh == {i \in DOMAIN recs : End(recs, i) > c.offset}
  <1>1. recs \in Seq(Records)
    BY CompleteIsPrefix DEF LogTypeOK
  <1>2. /\ fresh = {} => res.offset = c.offset /\ res.hash = c.hash
        /\ fresh # {} => /\ Len(recs) \in fresh
                         /\ res.offset = End(recs, Len(recs))
                         /\ res.hash = recs[Len(recs)]
    BY <1>1, StreamActiveReads
  <1>3. CASE fresh = {}
    BY <1>2, <1>3
  <1>4. CASE fresh # {}
    <2>1. Len(recs) \in DOMAIN recs /\ Len(recs) \in Nat
      BY <1>1, <1>2, <1>4
    <2>2. recs[Len(recs)] \in Records
      BY <1>1, <2>1
    <2>3. End(recs, Len(recs)) \in Nat
      BY <2>1, LongLines
    <2>4. recs[Len(recs)] \in 0..MaxRecords
      BY <2>2, LogAssumption DEF Records
    <2> QED BY <1>2, <1>4, <2>3, <2>4
  <1> QED BY <1>3, <1>4

\* A checkpoint after a generation.
LEMMA RotationCommitted ==
  ASSUME LogTypeOK, NEW n \in Nodes, unseen[n] # {}, CommitRotation(n)
  PROVE  /\ cp' \in [Nodes -> [uid : 0..MaxJoins, offset : Nat, hash : 0..MaxRecords,
                               last : 0..MaxRotations]]
         /\ unseen' \in [Nodes -> SUBSET RotatedFiles]
         /\ poll' \in [Nodes -> Phases]
         /\ cp'[n] = Checkpoint(seenUID[n], 0, 0, Oldest(n).id)
         /\ unseen'[n] = unseen[n] \ {Oldest(n)}
         /\ poll'[n] \in {"active", "open"}
         /\ poll'[n] = "open" <=> unseen'[n] # {}
         /\ \A m \in Nodes \ {n} : cp'[m] = cp[m] /\ unseen'[m] = unseen[m] /\ poll'[m] = poll[m]
  <1>1. Oldest(n) \in unseen[n] /\ Oldest(n).id \in Gens
    BY OldestIsFirst
  <1>2. Oldest(n).id \in 0..MaxRotations /\ 0 \in 0..MaxRecords
    BY <1>1, LogAssumption DEF Gens
  <1>3. seenUID[n] \in 0..MaxJoins
    BY DEF LogTypeOK
  <1>4. Checkpoint(seenUID[n], 0, 0, Oldest(n).id)
           \in [uid : 0..MaxJoins, offset : Nat, hash : 0..MaxRecords, last : 0..MaxRotations]
    BY <1>2, <1>3 DEF Checkpoint
  <1>5. /\ cp' = [cp EXCEPT ![n] = Checkpoint(seenUID[n], 0, 0, Oldest(n).id)]
        /\ unseen' = [unseen EXCEPT ![n] = @ \ {Oldest(n)}]
        /\ poll' = [poll EXCEPT ![n] = IF unseen[n] = {Oldest(n)} THEN "active" ELSE "open"]
    BY DEF CommitRotation
  <1>6. /\ cp \in [Nodes -> [uid : 0..MaxJoins, offset : Nat, hash : 0..MaxRecords,
                             last : 0..MaxRotations]]
        /\ unseen \in [Nodes -> SUBSET RotatedFiles]
        /\ poll \in [Nodes -> Phases]
    BY DEF LogTypeOK
  <1>7. unseen[n] = {Oldest(n)} <=> unseen[n] \ {Oldest(n)} = {}
    BY <1>1
  <1>8. /\ cp'[n] = Checkpoint(seenUID[n], 0, 0, Oldest(n).id)
        /\ \A m \in Nodes \ {n} : cp'[m] = cp[m]
        /\ cp' \in [Nodes -> [uid : 0..MaxJoins, offset : Nat, hash : 0..MaxRecords,
                              last : 0..MaxRotations]]
    BY <1>4, <1>5, <1>6
  <1>9. /\ unseen'[n] = unseen[n] \ {Oldest(n)}
        /\ \A m \in Nodes \ {n} : unseen'[m] = unseen[m]
        /\ unseen' \in [Nodes -> SUBSET RotatedFiles]
    BY <1>5, <1>6
  <1>10. /\ poll'[n] = IF unseen[n] = {Oldest(n)} THEN "active" ELSE "open"
         /\ \A m \in Nodes \ {n} : poll'[m] = poll[m]
         /\ poll' \in [Nodes -> Phases]
    BY <1>5, <1>6 DEF Phases
  <1> QED BY <1>7, <1>8, <1>9, <1>10

\* The three parts of the type invariant.
FilesOnDisk == [recs : Seq(Records), form : {"none", "log", "both", "gz"}]
Checkpoints == [uid : 0..MaxJoins, offset : Nat, hash : 0..MaxRecords, last : 0..MaxRotations]
FilesTyped ==
    /\ joins \in [Nodes -> 1..MaxJoins]
    /\ present \in [Nodes -> BOOLEAN]
    /\ torn \in [Nodes -> BOOLEAN]
    /\ gen \in [Nodes -> 0..MaxRotations]
    /\ written \in 0..MaxRecords
    /\ active \in [Nodes -> Seq(Records)]
    /\ rotated \in [Nodes -> [Gens -> FilesOnDisk]]
    /\ \A n \in Nodes : torn[n] => active[n] # << >>
PollsTyped ==
    /\ cp \in [Nodes -> Checkpoints]
    /\ unseen \in [Nodes -> SUBSET RotatedFiles]
    /\ poll \in [Nodes -> Phases]
    /\ seenUID \in [Nodes -> 0..MaxJoins]
    /\ boot \in [Nodes -> {NotBoot} \cup 0..MaxRotations]
    /\ restarts \in 0..MaxRestarts
    /\ \A n \in Nodes : poll[n] \in {"open", "relist", "reopen"} <=> unseen[n] # {}

\* Together they are the type invariant, before a step and after it.
LEMMA TypeParts == LogTypeOK <=> FilesTyped /\ PollsTyped /\ reads \in [Records -> 0..2]
  BY DEF LogTypeOK, FilesTyped, PollsTyped, FilesOnDisk, Checkpoints
\* The same of the next state.
LEMMA TypePartsNext == LogTypeOK' <=> FilesTyped' /\ PollsTyped' /\ reads' \in [Records -> 0..2]
  BY DEF LogTypeOK, FilesTyped, PollsTyped, FilesOnDisk, Checkpoints

\* A step that leaves the files, or the polls, alone keeps their types.
LEMMA FilesTypeStays == FilesTyped /\ UNCHANGED fileVars => FilesTyped'
  BY DEF FilesTyped, fileVars
\* So for the polls.
LEMMA PollsTypeStays == PollsTyped /\ UNCHANGED pollVars => PollsTyped'
  BY DEF PollsTyped, pollVars

\* The nodes and the logger keep the types.
LEMMA LoggerKeepsType ==
  ASSUME LogTypeOK, NEW n \in Nodes, LoggerStep(n)
  PROVE  LogTypeOK'
  <1>1. FilesTyped /\ PollsTyped /\ reads \in [Records -> 0..2]
    BY TypeParts
  <1>2. UNCHANGED <<pollVars, reads>>
    BY DEF LoggerStep, WriteRecord, FinishRecord, Rotate, Compress, DeleteOldest, NodeLeaves,
           NodeReturns, ghostVars
  <1>3. PollsTyped' /\ reads' \in [Records -> 0..2]
    BY <1>1, <1>2, PollsTypeStays
  <1>4. FilesTyped'
    <2> USE <1>1, LogAssumption DEF FilesTyped
    <2> DEFINE F == FilesOnDisk
    <2>0. /\ rotated \in [Nodes -> [Gens -> F]] /\ rotated[n] \in [Gens -> F]
          /\ Absent \in F /\ << >> \in Seq(Records)
      BY DEF Absent, FilesOnDisk
    <2>1. CASE WriteRecord(n)
      <3>1. written + 1 \in Records /\ written + 1 \in 0..MaxRecords /\ active[n] \in Seq(Records)
        BY <2>1 DEF WriteRecord, Records
      <3>2. Append(active[n], written + 1) \in Seq(Records)
        BY <3>1
      <3>3. Len(Append(active[n], written + 1)) # 0
        BY <3>1
      <3>4. active' \in [Nodes -> Seq(Records)] /\ active'[n] # << >>
            /\ \A m \in Nodes \ {n} : active'[m] = active[m]
        BY <2>1, <3>2, <3>3 DEF WriteRecord
      <3>5. torn' \in [Nodes -> BOOLEAN] /\ \A m \in Nodes \ {n} : torn'[m] = torn[m]
        BY <2>1 DEF WriteRecord
      <3> QED BY <2>1, <3>1, <3>4, <3>5 DEF WriteRecord
    <2>2. CASE FinishRecord(n)
      BY <2>2 DEF FinishRecord
    <2>3. CASE Rotate(n)
      <3>1. gen[n] + 1 \in Gens /\ gen[n] + 1 \in 0..MaxRotations /\ active[n] \in Seq(Records)
        BY <2>3 DEF Rotate, Gens
      <3>2. [recs |-> active[n], form |-> "log"] \in F
        BY <3>1 DEF FilesOnDisk
      <3>3. rotated' \in [Nodes -> [Gens -> F]]
        BY <2>3, <2>0, <3>1, <3>2 DEF Rotate
      <3>4. active' \in [Nodes -> Seq(Records)] /\ \A m \in Nodes : torn'[m] => active'[m] # << >>
        BY <2>3, <2>0 DEF Rotate
      <3> QED BY <2>3, <3>1, <3>3, <3>4 DEF Rotate
    <2>4. CASE \E g \in Gens : Compress(n, g)
      <3>1. PICK g \in Gens : Compress(n, g)
        BY <2>4
      <3> DEFINE x == IF rotated[n][g].form = "log" THEN "both" ELSE "gz"
                 f == [rotated[n][g] EXCEPT !.form = x]
      <3>2. rotated' = [rotated EXCEPT ![n] = [rotated[n] EXCEPT ![g] = f]]
        BY <3>1 DEF Compress
      <3>3. f \in F
        BY <2>0 DEF FilesOnDisk
      <3>4. rotated' \in [Nodes -> [Gens -> F]]
        <4> HIDE DEF f, F
        <4> QED BY <2>0, <3>2, <3>3
      <3> QED BY <3>1, <3>4 DEF Compress
    <2>5. CASE DeleteOldest(n)
      <3>1. PICK g \in Gens : rotated' = [rotated EXCEPT ![n][g] = Absent]
        BY <2>5 DEF DeleteOldest
      <3>3. rotated' \in [Nodes -> [Gens -> F]]
        BY <3>1, <2>0
      <3> QED BY <2>5, <3>3 DEF DeleteOldest
    <2>6. CASE NodeLeaves(n)
      <3>1. [g \in Gens |-> Absent] \in [Gens -> F]
        BY <2>0
      <3>2. rotated' \in [Nodes -> [Gens -> F]]
        BY <2>6, <3>1 DEF NodeLeaves
      <3>3. active' \in [Nodes -> Seq(Records)] /\ torn' \in [Nodes -> BOOLEAN]
        BY <2>6, <2>0 DEF NodeLeaves
      <3>4. \A m \in Nodes : torn'[m] => active'[m] # << >>
        BY <2>6 DEF NodeLeaves
      <3>5. present' \in [Nodes -> BOOLEAN] /\ UNCHANGED <<joins, gen, written>>
        BY <2>6 DEF NodeLeaves
      <3> QED BY <3>2, <3>3, <3>4, <3>5
    <2>7. CASE NodeReturns(n)
      BY <2>7 DEF NodeReturns
    <2> QED BY <2>1, <2>2, <2>3, <2>4, <2>5, <2>6, <2>7 DEF LoggerStep
  <1> QED BY <1>3, <1>4, TypePartsNext

\* A poll that is over, whatever became of its checkpoint.
LEMMA EndKeepsType ==
  ASSUME PollsTyped, NEW n \in Nodes, PollEnds(n), cp' \in [Nodes -> Checkpoints],
         UNCHANGED <<seenUID, restarts>>
  PROVE  PollsTyped'
  <1> USE DEF PollsTyped
  <1>1. poll' \in [Nodes -> Phases] /\ \A m \in Nodes : poll'[m] = IF m = n THEN "done" ELSE poll[m]
    BY DEF PollEnds, Phases
  <1>2. /\ unseen' \in [Nodes -> SUBSET RotatedFiles]
        /\ \A m \in Nodes : unseen'[m] = IF m = n THEN {} ELSE unseen[m]
    BY DEF PollEnds
  <1>3. boot' \in [Nodes -> {NotBoot} \cup 0..MaxRotations]
    BY DEF PollEnds
  <1>4. \A m \in Nodes : poll'[m] \in {"open", "relist", "reopen"} <=> unseen'[m] # {}
    BY <1>1, <1>2
  <1> QED BY <1>1, <1>2, <1>3, <1>4

\* A read of the active file sets a checkpoint that is one.
LEMMA CommitKeepsType ==
  ASSUME LogTypeOK, NEW n \in Nodes, NEW start, NEW c,
         c.offset \in Nat, c.hash \in 0..MaxRecords, c.last \in 0..MaxRotations,
         ~streamActive(Complete(n), start, c).reset,
         CommitActive(n, c, streamActive(Complete(n), start, c))
  PROVE  LogTypeOK'
  <1> DEFINE res == streamActive(Complete(n), start, c)
  <1>1. FilesTyped /\ PollsTyped /\ reads \in [Records -> 0..2]
    BY TypeParts
  <1>2. res.offset \in Nat /\ res.hash \in 0..MaxRecords
    BY ReadType
  <1>3. seenUID[n] \in 0..MaxJoins
    BY <1>1 DEF PollsTyped
  <1>4. Checkpoint(seenUID[n], res.offset, res.hash, c.last) \in Checkpoints
    BY <1>2, <1>3 DEF Checkpoint, Checkpoints
  <1>5. /\ cp' = [cp EXCEPT ![n] = Checkpoint(seenUID[n], res.offset, res.hash, c.last)]
        /\ reads' = Count(res.out) /\ PollEnds(n)
        /\ UNCHANGED fileVars /\ UNCHANGED <<seenUID, restarts>>
    BY DEF CommitActive
  <1>6. cp' \in [Nodes -> Checkpoints]
    BY <1>1, <1>4, <1>5 DEF PollsTyped
  <1>7. reads' \in [Records -> 0..2]
    BY <1>5, CountCounts
  <1> QED BY <1>1, <1>5, <1>6, <1>7, EndKeepsType, FilesTypeStays, TypePartsNext

\* The bootstrap reads with an offset of zero.
LEMMA FreshType ==
  ASSUME LogTypeOK, NEW n \in Nodes
  PROVE  LET c == Checkpoint(seenUID[n], 0, 0, Working(n).last) IN
         /\ c.offset = 0 /\ c.hash \in 0..MaxRecords /\ c.last = Working(n).last
         /\ ~streamActive(Complete(n), 0, c).reset
  <1> DEFINE c == Checkpoint(seenUID[n], 0, 0, Working(n).last)
  <1>1. c.offset = 0 /\ c.hash = 0 /\ c.last = Working(n).last
    BY DEF Checkpoint
  <1>2. Complete(n) \in Seq(Records)
    BY CompleteIsPrefix DEF LogTypeOK
  <1> HIDE DEF c
  <1>3. ~streamActive(Complete(n), 0, c).reset
    BY <1>1, <1>2, StreamActiveReads
  <1> QED BY <1>1, <1>3, LogAssumption DEF c

\* The collector keeps the types.
LEMMA PollKeepsType ==
  ASSUME LogTypeOK, NEW n \in Nodes, PollStep(n) \/ PollFails(n)
  PROVE  LogTypeOK'
  <1>1. FilesTyped /\ PollsTyped /\ reads \in [Records -> 0..2]
    BY TypeParts
  <1> DEFINE Rest == /\ UNCHANGED fileVars /\ reads' \in [Records -> 0..2] /\ PollsTyped'
  <1>0. Rest => LogTypeOK'
    BY <1>1, FilesTypeStays, TypePartsNext
  <1>2. CASE StartPoll(n)
    <2>1. poll' \in [Nodes -> Phases] /\ poll[n] = "queued"
          /\ \A m \in Nodes : poll'[m] = IF m = n THEN "list" ELSE poll[m]
      BY <1>1, <1>2 DEF StartPoll, PollsTyped, Phases
    <2>2. PollsTyped'
      BY <1>1, <1>2, <2>1 DEF StartPoll, PollsTyped
    <2> QED BY <1>0, <1>1, <1>2, <2>2 DEF StartPoll, ghostVars
  <1>3. CASE ListRotations(n)
    <2>0. rotated[n] \in Listing
      BY <1>1 DEF FilesTyped, Listing, FilesOnDisk
    <2>1. UNCHANGED <<cp, seenUID, restarts, reads>> /\ UNCHANGED fileVars /\ poll[n] = "list"
      BY <1>3 DEF ListRotations, ghostVars
    <2>2. CASE cp[n].uid # seenUID[n]
      <3>1. newestRotationID(list(rotated[n])) \in 0..MaxRotations
        BY <2>0, NewestOnDisk
      <3>2. boot' \in [Nodes -> {NotBoot} \cup 0..MaxRotations] /\ unseen' = unseen
        BY <1>1, <1>3, <2>2, <3>1 DEF ListRotations, PollsTyped
      <3>3. poll' \in [Nodes -> Phases] /\ \A m \in Nodes : poll'[m] = IF m = n THEN "active" ELSE poll[m]
        BY <1>1, <1>3, <2>2 DEF ListRotations, PollsTyped, Phases
      <3>4. PollsTyped'
        BY <1>1, <2>1, <3>2, <3>3 DEF PollsTyped
      <3> QED BY <1>0, <1>1, <2>1, <3>4
    <2>3. CASE cp[n].uid = seenUID[n]
      <3> DEFINE u == unseenRotations(list(rotated[n]), cp[n].last)
      <3>1. u \in SUBSET RotatedFiles
        BY <2>0, ListedOnce DEF unseenRotations
      <3>2. unseen' = [unseen EXCEPT ![n] = u] /\ boot' = boot
            /\ poll' = [poll EXCEPT ![n] = IF u = {} THEN "active" ELSE "open"]
        BY <1>3, <2>3 DEF ListRotations
      <3> HIDE DEF u
      <3>3. /\ unseen' \in [Nodes -> SUBSET RotatedFiles]
            /\ \A m \in Nodes : unseen'[m] = IF m = n THEN u ELSE unseen[m]
        BY <1>1, <3>1, <3>2 DEF PollsTyped
      <3>4. /\ poll' \in [Nodes -> Phases]
            /\ poll'[n] = IF u = {} THEN "active" ELSE "open"
            /\ \A m \in Nodes \ {n} : poll'[m] = poll[m]
        BY <1>1, <3>2 DEF PollsTyped, Phases
      <3>5. \A m \in Nodes : poll'[m] \in {"open", "relist", "reopen"} <=> unseen'[m] # {}
        BY <1>1, <3>3, <3>4 DEF PollsTyped
      <3>6. PollsTyped'
        BY <1>1, <2>1, <3>2, <3>3, <3>4, <3>5 DEF PollsTyped
      <3> QED BY <1>0, <1>1, <2>1, <3>6
    <2> QED BY <2>2, <2>3
  <1>4. ASSUME CommitRotation(n), unseen[n] # {}, UNCHANGED <<seenUID, boot, restarts>>
        PROVE  PollsTyped'
    <2>1. /\ cp' \in [Nodes -> Checkpoints]
          /\ unseen' \in [Nodes -> SUBSET RotatedFiles]
          /\ poll' \in [Nodes -> Phases]
          /\ poll'[n] \in {"active", "open"}
          /\ poll'[n] = "open" <=> unseen'[n] # {}
          /\ \A m \in Nodes \ {n} : unseen'[m] = unseen[m] /\ poll'[m] = poll[m]
      BY <1>4, RotationCommitted DEF Checkpoints
    <2>2. \A m \in Nodes : poll'[m] \in {"open", "relist", "reopen"} <=> unseen'[m] # {}
      BY <1>1, <2>1 DEF PollsTyped
    <2> QED BY <1>1, <1>4, <2>1, <2>2 DEF PollsTyped
  <1>5. CASE ReadRotated(n)
    <2>1. unseen[n] # {}
      BY <1>1, <1>5 DEF ReadRotated, PollsTyped
    <2>2. reads' \in [Records -> 0..2]
      BY <1>5, CountCounts DEF ReadRotated
    <2> QED BY <1>0, <1>4, <1>5, <2>1, <2>2 DEF ReadRotated
  <1>6. CASE RotatedNotFound(n)
    <2>1. poll' \in [Nodes -> Phases] /\ poll[n] = "open"
          /\ \A m \in Nodes : poll'[m] = IF m = n THEN "relist" ELSE poll[m]
      BY <1>1, <1>6 DEF RotatedNotFound, PollsTyped, Phases
    <2>2. PollsTyped'
      BY <1>1, <1>6, <2>1 DEF RotatedNotFound, PollsTyped
    <2> QED BY <1>0, <1>1, <1>6, <2>2 DEF RotatedNotFound, ghostVars
  <1>7. CASE Relist(n)
    <2> DEFINE again == {f \in dedupRotations(list(rotated[n])) : f.id = Oldest(n).id}
    <2>1. unseen[n] # {} /\ poll[n] = "relist"
      BY <1>1, <1>7 DEF Relist, PollsTyped
    <2>2. UNCHANGED <<seenUID, boot, restarts, reads>> /\ UNCHANGED fileVars
      BY <1>7 DEF Relist, ghostVars
    <2>3. CASE again = {}
      <3>1. CommitRotation(n)
        BY <1>7, <2>3 DEF Relist
      <3> QED BY <1>0, <1>1, <1>4, <2>1, <2>2, <3>1
    <2>4. CASE again # {}
      <3>1. unseen' = [unseen EXCEPT ![n] = (@ \ {Oldest(n)}) \cup again] /\ cp' = cp
            /\ poll' = [poll EXCEPT ![n] = "reopen"]
        BY <1>7, <2>4 DEF Relist
      <3>2. rotated[n] \in Listing
        BY <1>1 DEF FilesTyped, Listing, FilesOnDisk
      <3>3. again \in SUBSET RotatedFiles
        BY <3>2, ListedOnce
      <3> HIDE DEF again
      <3>4. /\ unseen' \in [Nodes -> SUBSET RotatedFiles]
            /\ unseen'[n] # {} /\ \A m \in Nodes \ {n} : unseen'[m] = unseen[m]
        BY <1>1, <2>4, <3>1, <3>3 DEF PollsTyped
      <3>5. /\ poll' \in [Nodes -> Phases]
            /\ poll'[n] = "reopen" /\ \A m \in Nodes \ {n} : poll'[m] = poll[m]
        BY <1>1, <3>1 DEF PollsTyped, Phases
      <3>6. \A m \in Nodes : poll'[m] \in {"open", "relist", "reopen"} <=> unseen'[m] # {}
        BY <1>1, <3>4, <3>5 DEF PollsTyped
      <3>7. PollsTyped'
        BY <1>1, <2>2, <3>1, <3>4, <3>5, <3>6 DEF PollsTyped
      <3> QED BY <1>0, <1>1, <2>2, <3>7
    <2> QED BY <2>3, <2>4
  <1>8. CASE ReadActive(n)
    <2>1. PICK start \in BodyStarts(Working(n)) :
            LET c   == Working(n)
                res == streamActive(Complete(n), start, c) IN
            \/ ~res.reset /\ CommitActive(n, c, res)
            \/ /\ res.reset
               /\ poll' = [poll EXCEPT ![n] = "refetch"]
               /\ UNCHANGED <<fileVars, cp, seenUID, unseen, boot, restarts, ghostVars>>
      BY <1>8 DEF ReadActive
    <2>2. CASE CommitActive(n, Working(n), streamActive(Complete(n), start, Working(n)))
               /\ ~streamActive(Complete(n), start, Working(n)).reset
      <3> HIDE DEF Rest
      <3> QED BY <2>2, WorkingType, CommitKeepsType
    <2>3. CASE /\ poll' = [poll EXCEPT ![n] = "refetch"]
               /\ UNCHANGED <<fileVars, cp, seenUID, unseen, boot, restarts, ghostVars>>
      <3>1. poll' \in [Nodes -> Phases] /\ poll[n] = "active"
            /\ \A m \in Nodes : poll'[m] = IF m = n THEN "refetch" ELSE poll[m]
        BY <1>1, <1>8, <2>3 DEF ReadActive, PollsTyped, Phases
      <3>2. PollsTyped'
        BY <1>1, <2>3, <3>1 DEF PollsTyped
      <3> QED BY <1>0, <1>1, <2>3, <3>2 DEF ghostVars
    <2> QED BY <2>1, <2>2, <2>3
  <1>9. CASE ReadActiveAgain(n)
    <2> DEFINE c == Checkpoint(seenUID[n], 0, 0, Working(n).last)
    <2>1. CommitActive(n, c, streamActive(Complete(n), 0, c))
      BY <1>9 DEF ReadActiveAgain
    <2>2. /\ c.offset \in Nat /\ c.hash \in 0..MaxRecords /\ c.last \in 0..MaxRotations
          /\ ~streamActive(Complete(n), 0, c).reset
      BY FreshType, WorkingType
    <2> HIDE DEF c
    <2> QED BY <2>1, <2>2, CommitKeepsType
  <1>10. CASE PollFails(n)
    <2>1. reads' \in [Records -> 0..2]
      BY <1>10, CountCounts DEF PollFails
    <2>2. PollEnds(n) /\ cp' \in [Nodes -> Checkpoints] /\ UNCHANGED <<seenUID, restarts>>
      BY <1>1, <1>10 DEF PollFails, PollsTyped
    <2> QED BY <1>0, <1>1, <1>10, <2>1, <2>2, EndKeepsType DEF PollFails
  <1> QED BY <1>2, <1>3, <1>5, <1>6, <1>7, <1>8, <1>9, <1>10 DEF PollStep

\* A new round, the end of one and a new collector keep the types.
LEMMA RoundKeepsType ==
  ASSUME LogTypeOK, PollAllNodes \/ EndRound \/ NewCollector
  PROVE  LogTypeOK'
  <1>1. FilesTyped /\ PollsTyped /\ reads \in [Records -> 0..2]
    BY TypeParts
  <1>2. UNCHANGED fileVars /\ UNCHANGED reads
    BY DEF PollAllNodes, EndRound, NewCollector, ghostVars
  <1>0. NoCheckpoint \in Checkpoints
    BY LogAssumption DEF NoCheckpoint, Checkpoint, Checkpoints
  <1>3. PollsTyped'
    <2>1. CASE PollAllNodes
      <3>1. \A n \in Nodes : UID(n) \in 0..MaxJoins
        BY <1>1, LogAssumption DEF UID, FilesTyped
      <3>2. \A n \in Nodes : poll[n] = "none" /\ unseen[n] = {}
        BY <1>1, <2>1 DEF PollAllNodes, PollsTyped
      <3>3. /\ poll' \in [Nodes -> Phases]
            /\ \A n \in Nodes : poll'[n] \in {"queued", "done"}
        BY <2>1 DEF PollAllNodes, Phases
      <3>4. seenUID' \in [Nodes -> 0..MaxJoins]
        BY <2>1, <3>1 DEF PollAllNodes
      <3> QED BY <1>1, <2>1, <3>2, <3>3, <3>4 DEF PollAllNodes, PollsTyped
    <2>2. CASE EndRound
      <3>1. \A n \in Nodes : poll[n] = "done" /\ unseen[n] = {}
        BY <1>1, <2>2 DEF EndRound, PollsTyped
      <3>2. poll' \in [Nodes -> Phases] /\ \A n \in Nodes : poll'[n] = "none"
        BY <2>2 DEF EndRound, Phases
      <3>3. cp' \in [Nodes -> Checkpoints]
        BY <1>0, <1>1, <2>2 DEF EndRound, PollsTyped
      <3> QED BY <1>1, <2>2, <3>1, <3>2, <3>3 DEF EndRound, PollsTyped
    <2>3. CASE NewCollector
      <3>1. poll' \in [Nodes -> Phases] /\ \A n \in Nodes : poll'[n] = "none" /\ unseen'[n] = {}
        BY <2>3 DEF NewCollector, Phases
      <3>2. /\ cp' \in [Nodes -> Checkpoints]
            /\ unseen' \in [Nodes -> SUBSET RotatedFiles]
            /\ boot' \in [Nodes -> {NotBoot} \cup 0..MaxRotations]
            /\ UNCHANGED seenUID
        BY <1>0, <2>3 DEF NewCollector
      <3>3. restarts' \in 0..MaxRestarts
        BY <1>1, <2>3, LogAssumption DEF NewCollector, PollsTyped
      <3> QED BY <1>1, <3>1, <3>2, <3>3 DEF PollsTyped
    <2> QED BY <2>1, <2>2, <2>3
  <1> QED BY <1>1, <1>2, <1>3, FilesTypeStays, TypePartsNext

\* Every step keeps the types.
LEMMA LogTypeStep == LogTypeOK /\ [LogNext]_logVars => LogTypeOK'
  <1> SUFFICES ASSUME LogTypeOK, [LogNext]_logVars PROVE LogTypeOK'
    OBVIOUS
  <1>1. CASE UNCHANGED logVars
    BY <1>1 DEF logVars, LogTypeOK
  <1>2. ASSUME NEW n \in Nodes, LoggerStep(n) \/ PollStep(n) \/ PollFails(n) PROVE LogTypeOK'
    BY <1>2, LoggerKeepsType, PollKeepsType
  <1> QED BY <1>1, <1>2, RoundKeepsType DEF LogNext

\* The initial state has the types.
LEMMA LogTypeStart == LogInit => LogTypeOK
  <1> SUFFICES ASSUME LogInit PROVE LogTypeOK
    OBVIOUS
  <1> USE LogAssumption DEF LogInit
  <1>1. << >> \in Seq(Records) /\ Absent \in FilesOnDisk
    BY DEF Absent, FilesOnDisk
  <1>2. rotated \in [Nodes -> [Gens -> FilesOnDisk]]
    <2>1. [g \in Gens |-> Absent] \in [Gens -> FilesOnDisk]
      BY <1>1
    <2> QED BY <2>1
  <1>3. FilesTyped
    BY <1>1, <1>2 DEF FilesTyped
  <1>4. NoCheckpoint \in Checkpoints
    BY DEF NoCheckpoint, Checkpoint, Checkpoints
  <1>5. PollsTyped
    BY <1>4 DEF PollsTyped, Phases
  <1>6. reads \in [Records -> 0..2]
    OBVIOUS
  <1> QED BY <1>3, <1>5, <1>6, TypeParts

--------------------------------------------------------------------------------
(* What the logger does to the files of a node. *)

\* What a step leaves of a node that it is not about.
SameFiles(n) ==
    /\ LogFiles(n)' = LogFiles(n)
    /\ \A g \in LogFiles(n) : LogFile(n, g)' = LogFile(n, g)
    /\ Mine(n)' = Mine(n)
    /\ gen'[n] = gen[n] /\ joins'[n] = joins[n] /\ present'[n] = present[n]
    /\ active'[n] = active[n] /\ rotated'[n] = rotated[n]

\* Records keep their places.
OldPlaces == /\ written <= written'
             /\ \A r \in 1..written : place'[r] = place[r]

\* A step that neither writes to a node nor renames its files leaves its files alone.
LEMMA SameFilesFrom ==
  ASSUME LogTypeOK, NEW n \in Nodes, OldPlaces, written' \in Nat,
         \A r \in 1..written' : r > written => place'[r].node # n,
         gen'[n] = gen[n], joins'[n] = joins[n], present'[n] = present[n],
         active'[n] = active[n], rotated'[n] = rotated[n]
  PROVE  SameFiles(n)
  <1>1. LogFiles(n)' = LogFiles(n)
    BY DEF LogFiles, OnDisk
  <1>2. \A g : LogFile(n, g)' = LogFile(n, g)
    BY DEF LogFile
  <1>3. written \in Nat
    BY DEF LogTypeOK
  <1>4. Mine(n)' = Mine(n)
    BY <1>3 DEF Mine, OldPlaces
  <1> QED BY <1>1, <1>2, <1>4 DEF SameFiles

\* Records already written keep their places, and a logger step is about one node.
LEMMA OtherNodesFiles ==
  ASSUME LogTypeOK, LogHistoryOK, NEW n \in Nodes, LoggerStep(n)
  PROVE  /\ OldPlaces /\ written' \in Nat
         /\ \A m \in Nodes \ {n} : SameFiles(m)
  <1>1. OldPlaces /\ written' \in Nat /\ \A r \in 1..written' : r > written => place'[r].node = n
    <2>0. written \in Nat /\ written <= MaxRecords /\ MaxRecords \in Nat
      BY LogAssumption DEF LogTypeOK
    <2>1. CASE WriteRecord(n)
      <3>1. /\ written' = written + 1 /\ written + 1 \in Records
            /\ \A r \in 1..written : place'[r] = place[r]
            /\ place'[written + 1].node = n
        BY <2>0, <2>1 DEF WriteRecord, Records, LogHistoryOK
      <3> QED BY <2>0, <3>1 DEF OldPlaces
    <2>2. CASE UNCHANGED <<written, place>>
      BY <2>0, <2>2 DEF OldPlaces
    <2> QED
      BY <2>1, <2>2 DEF LoggerStep, FinishRecord, Rotate, Compress, DeleteOldest, NodeLeaves,
                        NodeReturns, ghostVars
  <1>2. ASSUME NEW m \in Nodes \ {n}
        PROVE  /\ gen'[m] = gen[m] /\ joins'[m] = joins[m] /\ present'[m] = present[m]
               /\ active'[m] = active[m] /\ rotated'[m] = rotated[m]
    BY DEF LogTypeOK, LoggerStep, WriteRecord, FinishRecord, Rotate, Compress, DeleteOldest,
           NodeLeaves, NodeReturns
  <1> QED BY <1>1, <1>2, SameFilesFrom

\* What the logger and the nodes do to the files, said of the files.  A record is
\* written:
RecordAppended(n) ==
    /\ gen'[n] = gen[n] /\ joins'[n] = joins[n] /\ present[n] /\ present'[n] /\ ~torn[n]
    /\ LogFiles(n)' = LogFiles(n)
    /\ \A g \in LogFiles(n) \ {gen[n] + 1} : LogFile(n, g)' = LogFile(n, g)
    /\ LogFile(n, gen[n] + 1)' = Append(active[n], written + 1)
    /\ active'[n] = Append(active[n], written + 1)
    /\ written + 1 \notin 1..written /\ written' = written + 1 /\ written + 1 \in Records
    /\ Mine(n)' = Mine(n) \cup {written + 1}
    /\ place'[written + 1] = [node |-> n, uid |-> joins[n], gen |-> gen[n] + 1,
          end |-> End(Append(active[n], written + 1), Len(active[n]) + 1)]
    /\ \A r \in 1..written : place'[r] = place[r]

\* The active file is renamed:
GenerationAdded(n) ==
    /\ gen'[n] = gen[n] + 1 /\ joins'[n] = joins[n] /\ present[n] /\ present'[n] /\ ~torn[n]
    /\ gen[n] + 1 \in Gens
    /\ LogFiles(n)' = LogFiles(n) \cup {gen[n] + 2}
    /\ gen[n] + 1 \in LogFiles(n) /\ gen[n] + 2 \notin LogFiles(n)
    /\ \A g \in LogFiles(n) : LogFile(n, g)' = LogFile(n, g)
    /\ (\A g : g = gen[n] + 2 => LogFile(n, g)' = << >>) /\ active'[n] = << >>
    /\ Mine(n)' = Mine(n)
    /\ rotated'[n][gen[n] + 1] = [recs |-> active[n], form |-> "log"]
    /\ \A g \in Gens \ {gen[n] + 1} : rotated'[n][g] = rotated[n][g]

\* The oldest generation is deleted:
GenerationGone(n, k) ==
    /\ gen'[n] = gen[n] /\ joins'[n] = joins[n] /\ present'[n] = present[n]
    /\ k \in LogFiles(n) /\ k <= gen[n] /\ \A g \in LogFiles(n) : k <= g
    /\ LogFiles(n)' = LogFiles(n) \ {k}
    /\ \A g \in LogFiles(n) \ {k} : LogFile(n, g)' = LogFile(n, g)
    /\ active'[n] = active[n] /\ Mine(n)' = Mine(n)
    /\ rotated'[n][k].form = "none"
    /\ \A g \in Gens \ {k} : rotated'[n][g] = rotated[n][g]

\* There is a new node of the same name:
NodeIsBack(n) ==
    /\ gen'[n] = gen[n] /\ joins'[n] = joins[n] + 1 /\ present'[n] /\ ~present[n]
    /\ LogFiles(n)' = {gen[n] + 1}
    /\ active'[n] = << >> /\ LogFile(n, gen[n] + 1)' = << >>
    /\ Mine(n)' = {}
    /\ \A g \in Gens : rotated'[n][g].form = "none"
    /\ UNCHANGED <<written, place, gen, torn, reads, pollVars, raced, deleted, booted>>

\* A new line goes to the end of the active file.
LEMMA WriteEffect ==
  ASSUME LogTypeOK, LogHistoryOK, NEW n \in Nodes, WriteRecord(n)
  PROVE  RecordAppended(n)
  <1>1. /\ gen' = gen /\ joins' = joins /\ present' = present /\ present[n] /\ rotated' = rotated
        /\ ~torn[n] /\ written' = written + 1
        /\ active' = [active EXCEPT ![n] = Append(@, written + 1)]
    BY DEF WriteRecord
  <1>2. written \in Nat /\ written + 1 \in Records /\ gen[n] \in Nat
    BY LogAssumption DEF WriteRecord, LogTypeOK, Records
  <1>3. active'[n] = Append(active[n], written + 1)
    BY <1>1 DEF LogTypeOK
  <1>4. LogFiles(n)' = LogFiles(n)
    BY <1>1 DEF LogFiles, OnDisk
  <1>5. \A g \in LogFiles(n) \ {gen[n] + 1} : LogFile(n, g)' = LogFile(n, g)
    BY <1>1 DEF LogFile
  <1>6. LogFile(n, gen[n] + 1)' = Append(active[n], written + 1)
    BY <1>1, <1>3 DEF LogFile
  <1>7. /\ place'[written + 1] = [node |-> n, uid |-> joins[n], gen |-> gen[n] + 1,
               end |-> End(Append(active[n], written + 1), Len(active[n]) + 1)]
        /\ \A r \in 1..written : place'[r] = place[r]
    BY <1>2 DEF WriteRecord, LogHistoryOK, Records
  <1>8. Mine(n)' = Mine(n) \cup {written + 1}
    BY <1>1, <1>2, <1>7 DEF Mine
  <1> QED BY <1>1, <1>2, <1>3, <1>4, <1>5, <1>6, <1>7, <1>8 DEF RecordAppended

\* A rotation makes the active file a generation and begins an empty one.
LEMMA RotateEffect ==
  ASSUME LogTypeOK, NEW n \in Nodes, Rotate(n)
  PROVE  GenerationAdded(n)
  <1>1. gen[n] \in Nat /\ gen[n] + 1 \in Gens /\ MaxRotations \in Nat
    BY LogAssumption DEF Rotate, LogTypeOK, Gens
  <1>2. /\ gen'[n] = gen[n] + 1 /\ joins' = joins /\ present' = present /\ present[n] /\ ~torn[n]
        /\ active'[n] = << >> /\ UNCHANGED <<written, place>>
    BY DEF Rotate, LogTypeOK
  <1>3. /\ rotated'[n][gen[n] + 1] = [recs |-> active[n], form |-> "log"]
        /\ \A g \in Gens \ {gen[n] + 1} : rotated'[n][g] = rotated[n][g]
    BY <1>1 DEF Rotate, LogTypeOK
  <1>4. \A g : OnDisk(n, g)' <=> OnDisk(n, g) \/ g = gen[n] + 2
    <2>1. TAKE g
    <2>2. CASE g = gen[n] + 1
      BY <1>1, <1>2, <1>3, <2>2 DEF OnDisk
    <2>3. CASE g \in 1..gen[n]
      <3>1. g \in Gens \ {gen[n] + 1} /\ g \in 1..(gen[n] + 1)
        BY <1>1, <2>3 DEF Gens
      <3> QED BY <1>1, <1>2, <1>3, <2>3, <3>1 DEF OnDisk
    <2>4. CASE g \notin 1..gen[n] /\ g # gen[n] + 1
      <3>1. g \notin 1..(gen[n] + 1)
        BY <1>1, <2>4
      <3>2. gen'[n] + 1 = gen[n] + 2
        BY <1>1, <1>2
      <3> QED BY <1>2, <2>4, <3>1, <3>2 DEF OnDisk
    <2> QED BY <2>2, <2>3, <2>4
  <1>5. LogFiles(n)' = LogFiles(n) \cup {gen[n] + 2}
    BY <1>1, <1>2, <1>4 DEF LogFiles, OnDisk
  <1>6. gen[n] + 1 \in LogFiles(n) /\ gen[n] + 2 \notin LogFiles(n)
    BY <1>1 DEF LogFiles, OnDisk
  <1>7. ASSUME NEW g \in LogFiles(n) PROVE LogFile(n, g)' = LogFile(n, g)
    <2>1. g \in 1..(gen[n] + 1)
      BY DEF LogFiles
    <2>2. CASE g = gen[n] + 1
      BY <1>1, <1>2, <1>3, <2>2 DEF LogFile
    <2>3. CASE g # gen[n] + 1
      <3>1. g \in Gens \ {gen[n] + 1} /\ g # gen[n] + 2
        BY <1>1, <2>1, <2>3 DEF Gens
      <3> QED BY <1>1, <1>2, <1>3, <2>3, <3>1 DEF LogFile
    <2> QED BY <2>2, <2>3
  <1>8. (\A g : g = gen[n] + 2 => LogFile(n, g)' = << >>)
    BY <1>1, <1>2 DEF LogFile
  <1>9. Mine(n)' = Mine(n)
    BY <1>2 DEF Mine
  <1> QED BY <1>1, <1>2, <1>3, <1>5, <1>6, <1>7, <1>8, <1>9 DEF GenerationAdded

\* Compression changes the form of a file, not its lines.
LEMMA CompressEffect ==
  ASSUME LogTypeOK, NEW n \in Nodes, NEW k \in Gens, Compress(n, k)
  PROVE  /\ gen'[n] = gen[n] /\ joins'[n] = joins[n] /\ present'[n] = present[n]
         /\ LogFiles(n)' = LogFiles(n)
         /\ \A g : LogFile(n, g)' = LogFile(n, g)
         /\ active'[n] = active[n] /\ Mine(n)' = Mine(n)
         /\ \A g \in Gens : rotated'[n][g].form = "none" <=> rotated[n][g].form = "none"
  <1>1. UNCHANGED <<joins, present, active, gen, written, place>>
    BY DEF Compress, ghostVars
  <1>2. \A g \in Gens : /\ rotated'[n][g].recs = rotated[n][g].recs
                        /\ g # k => rotated'[n][g].form = rotated[n][g].form
    BY DEF Compress, LogTypeOK
  <1>3. rotated[n][k].form \in {"log", "both"} /\ rotated'[n][k].form \in {"both", "gz"}
    BY DEF Compress, LogTypeOK
  <1>4. \A g \in Gens : rotated'[n][g].form = "none" <=> rotated[n][g].form = "none"
    BY <1>2, <1>3
  <1>5. gen[n] \in 0..MaxRotations /\ MaxRotations \in Nat
    BY LogAssumption DEF LogTypeOK
  <1>6. LogFiles(n)' = LogFiles(n)
    BY <1>1, <1>4, <1>5 DEF LogFiles, OnDisk, Gens
  <1>7. \A g : LogFile(n, g)' = LogFile(n, g)
    <2>1. \A g \in Gens : rotated'[n][g].recs = rotated[n][g].recs
      BY <1>2
    <2>2. \A g : g \notin Gens => rotated'[n][g] = rotated[n][g]
      BY DEF Compress, LogTypeOK
    <2> QED BY <1>1, <2>1, <2>2 DEF LogFile
  <1>8. Mine(n)' = Mine(n)
    BY <1>1 DEF Mine
  <1> QED BY <1>1, <1>4, <1>6, <1>7, <1>8

\* The generation that is deleted is the oldest.
LEMMA DeleteEffect ==
  ASSUME LogTypeOK, NEW n \in Nodes, FilesOK(n), NEW k \in Gens,
         rotated[n][k].form # "none",
         \A h \in Gens : h < k => rotated[n][h].form = "none",
         rotated' = [rotated EXCEPT ![n][k] = Absent],
         UNCHANGED <<joins, present, active, gen, written, place>>
  PROVE  GenerationGone(n, k)
  <1>1. k <= gen[n] /\ gen[n] \in 0..MaxRotations /\ MaxRotations \in Nat /\ k \in Nat \ {0}
    BY LogAssumption DEF FilesOK, LogTypeOK, Gens
  <1>2. /\ rotated'[n][k] = Absent
        /\ \A g \in Gens \ {k} : rotated'[n][g] = rotated[n][g]
    BY DEF LogTypeOK
  <1>3. k \in LogFiles(n)
    BY <1>1 DEF LogFiles, OnDisk
  <1>4. \A g \in LogFiles(n) : k <= g
    <2>1. TAKE g \in LogFiles(n)
    <2>2. CASE g = gen[n] + 1
      BY <1>1, <2>2
    <2>3. CASE g # gen[n] + 1
      <3>1. g \in 1..gen[n] /\ rotated[n][g].form # "none"
        BY <2>3 DEF LogFiles, OnDisk
      <3>2. g \in Gens
        BY <1>1, <3>1 DEF Gens
      <3>3. ~(g < k)
        BY <3>1, <3>2
      <3> QED BY <1>1, <3>1, <3>3
    <2> QED BY <2>2, <2>3
  <1>5. \A g : OnDisk(n, g)' <=> OnDisk(n, g) /\ g # k
    <2>1. TAKE g
    <2>2. CASE g = gen[n] + 1
      BY <1>1, <2>2 DEF OnDisk
    <2>3. CASE g \in 1..gen[n]
      <3>1. g \in Gens
        BY <1>1, <2>3 DEF Gens
      <3>2. CASE g = k
        BY <1>1, <1>2, <3>2 DEF OnDisk, Absent
      <3>3. CASE g # k
        BY <1>2, <3>1, <3>3 DEF OnDisk
      <3> QED BY <3>2, <3>3
    <2>4. CASE g \notin 1..gen[n] /\ g # gen[n] + 1
      BY <2>4 DEF OnDisk
    <2> QED BY <2>2, <2>3, <2>4
  <1>6. LogFiles(n)' = LogFiles(n) \ {k}
    BY <1>5 DEF LogFiles
  <1>7. ASSUME NEW g \in LogFiles(n) \ {k} PROVE LogFile(n, g)' = LogFile(n, g)
    <2>1. g \in 1..(gen[n] + 1)
      BY DEF LogFiles
    <2>2. CASE g = gen[n] + 1
      BY <2>2 DEF LogFile
    <2>3. CASE g # gen[n] + 1
      <3>1. g \in Gens \ {k}
        BY <1>1, <2>1, <2>3 DEF Gens
      <3> QED BY <1>2, <2>3, <3>1 DEF LogFile
    <2> QED BY <2>2, <2>3
  <1>8. Mine(n)' = Mine(n)
    BY DEF Mine
  <1> QED BY <1>1, <1>2, <1>3, <1>4, <1>6, <1>7, <1>8 DEF Absent, GenerationGone

\* A node that comes back has an empty active file and no records.
LEMMA ReturnEffect ==
  ASSUME LogTypeOK, LogHistoryOK, NEW n \in Nodes, FilesOK(n), NodeReturns(n)
  PROVE  NodeIsBack(n)
  <1>1. /\ gen' = gen /\ ~present[n] /\ active' = active /\ rotated' = rotated
        /\ UNCHANGED <<written, place, gen, torn, reads, pollVars, raced, deleted, booted>>
    BY DEF NodeReturns, pollVars
  <1>2. joins'[n] = joins[n] + 1 /\ present'[n]
    BY DEF NodeReturns, LogTypeOK
  <1>3. active[n] = << >> /\ \A g \in Gens : rotated[n][g].form = "none"
    BY <1>1 DEF FilesOK
  <1>4. gen[n] \in 0..MaxRotations /\ MaxRotations \in Nat
    BY LogAssumption DEF LogTypeOK
  <1>5. LogFiles(n)' = {gen[n] + 1}
    BY <1>1, <1>3, <1>4 DEF LogFiles, OnDisk, Gens
  <1>6. LogFile(n, gen[n] + 1)' = << >>
    BY <1>1, <1>3 DEF LogFile
  <1>7. Mine(n)' = {}
    <2>1. SUFFICES ASSUME NEW r \in Mine(n)' PROVE FALSE
      OBVIOUS
    <2>2. r \in 1..written /\ place[r].node = n /\ place[r].uid = joins[n] + 1
      BY <1>1, <1>2 DEF Mine
    <2>3. place[r].uid <= joins[n] /\ joins[n] \in Nat
      BY <2>2 DEF LogHistoryOK, LogTypeOK
    <2> QED BY <2>2, <2>3
  <1> QED BY <1>1, <1>2, <1>3, <1>5, <1>6, <1>7 DEF NodeIsBack

\* A file that a step leaves alone is still where it was written.
LEMMA LinesStay ==
  ASSUME LogTypeOK, OldPlaces, written' \in Nat, NEW n \in Nodes, joins'[n] = joins[n],
         NEW g, LinesPlaced(n, g), LogFile(n, g)' = LogFile(n, g)
  PROVE  LinesPlaced(n, g)'
  <1>1. \A r \in 1..written : r \in 1..written' /\ place'[r] = place[r]
    BY DEF OldPlaces, LogTypeOK
  <1>2. \A i : Placed(n, g, i)' = Placed(n, g, i)
    BY DEF Placed
  <1> QED BY <1>1, <1>2 DEF LinesPlaced

\* So is a record whose file, if it was there, was left alone or deleted.
LEMMA RecordStays ==
  ASSUME LogTypeOK, OldPlaces, NEW n \in Nodes, gen'[n] >= gen[n], gen'[n] \in Nat,
         NEW r \in 1..written, RecordFound(n, r),
         \A g \in LogFiles(n)' : g \in 1..(gen[n] + 1) =>
            g \in LogFiles(n) /\ LogFile(n, g)' = LogFile(n, g)
  PROVE  RecordFound(n, r)'
  <1>1. place'[r] = place[r]
    BY DEF OldPlaces
  <1>2. place[r].gen \in 1..(gen[n] + 1) /\ gen[n] \in Nat
    BY DEF RecordFound, LogTypeOK
  <1>3. place[r].gen \in 1..(gen'[n] + 1)
    BY <1>2
  <1>4. ASSUME NEW g \in LogFiles(n)', g = place[r].gen
        PROVE  \E i \in DOMAIN LogFile(n, g)' : LogFile(n, g)'[i] = r
    <2>1. g \in LogFiles(n) /\ LogFile(n, g)' = LogFile(n, g)
      BY <1>2, <1>4
    <2>2. PICK i \in DOMAIN LogFile(n, g) : LogFile(n, g)[i] = r
      BY <1>4, <2>1 DEF RecordFound
    <2> QED BY <2>1, <2>2
  <1> QED BY <1>1, <1>3, <1>4 DEF RecordFound

\* Of a node that a step leaves alone all files stay what they were.
LEMMA SameFilesKept ==
  ASSUME LogTypeOK, OldPlaces, written' \in Nat, NEW m \in Nodes, FilesOK(m), SameFiles(m)
  PROVE  FilesOK(m)'
  <1>1. gen'[m] >= gen[m] /\ gen'[m] \in Nat /\ joins'[m] = joins[m]
    BY DEF SameFiles, LogTypeOK
  <1>2. ASSUME NEW g \in LogFiles(m), LinesPlaced(m, g) PROVE LinesPlaced(m, g)'
    <2>1. LogFile(m, g)' = LogFile(m, g)
      BY DEF SameFiles
    <2> QED BY <1>1, <1>2, <2>1, LinesStay
  <1>3. ASSUME NEW r \in Mine(m), RecordFound(m, r) PROVE RecordFound(m, r)'
    <2>1. r \in 1..written
      BY DEF Mine
    <2>2. \A g \in LogFiles(m)' : g \in 1..(gen[m] + 1) =>
             g \in LogFiles(m) /\ LogFile(m, g)' = LogFile(m, g)
      BY DEF SameFiles
    <2> QED BY <1>1, <1>3, <2>1, <2>2, RecordStays
  <1> QED BY <1>2, <1>3 DEF FilesOK, SameFiles

\* Every logger step keeps every file of its node what its history says.
LEMMA LoggerKeepsOwnFiles ==
  ASSUME LogTypeOK, LogTypeOK', LogHistoryOK, NEW n \in Nodes, LoggerStep(n), FilesOK(n)
  PROVE  FilesOK(n)'
  <1>0. OldPlaces /\ written' \in Nat /\ written \in Nat /\ gen[n] \in Nat
    <2>1. OldPlaces /\ written' \in Nat
      BY OtherNodesFiles
    <2> QED BY <2>1 DEF LogTypeOK
  <1>b. gen[n] <= MaxRotations /\ MaxRotations \in Nat
    BY LogAssumption DEF LogTypeOK
  <1>a. Mine(n) \subseteq 1..written
    BY DEF Mine
  <1>s. ASSUME SameFiles(n) PROVE FilesOK(n)'
    BY <1>0, <1>s, SameFilesKept
  <1>1. CASE WriteRecord(n)
    <2>e. RecordAppended(n)
      BY <1>1, WriteEffect
    <2> DEFINE s == Append(active[n], written + 1)
    <2>1. \A g \in LogFiles(n) : LinesPlaced(n, g)
      BY <1>1 DEF FilesOK, WriteRecord
    <2>2. ASSUME NEW g \in LogFiles(n)' PROVE LinesPlaced(n, g)'
      <3>1. g \in LogFiles(n)
        BY <2>e DEF RecordAppended
      <3>2. CASE g # gen[n] + 1
        BY <1>0, <2>e, <2>1, <3>1, <3>2, LinesStay DEF RecordAppended
      <3>3. CASE g = gen[n] + 1
        <4>1. LogFile(n, g) = active[n] /\ LogFile(n, g)' = s
          BY <2>e, <3>3 DEF LogFile, RecordAppended
        <4>2. active[n] \in Seq(Records) /\ written + 1 \in Records
          BY <2>e DEF LogTypeOK, RecordAppended
        <4>3. ASSUME NEW i \in DOMAIN s
              PROVE  s[i] \in 1..(written + 1) /\ place'[s[i]] = Placed(n, g, i)'
          <5>1. i \in 1..(Len(active[n]) + 1)
            BY <4>2
          <5>2. CASE i = Len(active[n]) + 1
            <6>1. s[i] = written + 1
              BY <4>2, <5>2
            <6>2. Placed(n, g, i)' = [node |-> n, uid |-> joins[n], gen |-> g, end |-> End(s, i)]
              BY <2>e, <4>1 DEF Placed, RecordAppended
            <6> QED BY <1>0, <2>e, <3>3, <5>2, <6>1, <6>2 DEF RecordAppended
          <5>3. CASE i \in DOMAIN active[n]
            <6>1. s[i] = active[n][i]
              BY <4>2, <5>3
            <6>2. s[i] \in 1..written /\ place[s[i]] = Placed(n, g, i)
              BY <2>1, <3>1, <4>1, <5>3, <6>1 DEF LinesPlaced
            <6>3. End(active[n], i) = End(s, i)
              <7>1. i \in Nat /\ \A j \in 1..i : active[n][j] = s[j]
                BY <4>2, <5>3
              <7> HIDE DEF s
              <7> QED BY <7>1, EndOfPrefix
            <6>4. Placed(n, g, i)' = Placed(n, g, i)
              BY <2>e, <4>1, <6>3 DEF Placed, RecordAppended
            <6>5. place'[s[i]] = place[s[i]]
              BY <2>e, <6>2 DEF RecordAppended
            <6> QED BY <1>0, <6>2, <6>4, <6>5
          <5> QED BY <4>2, <5>1, <5>2, <5>3
        <4> HIDE DEF s
        <4> QED BY <2>e, <4>1, <4>3 DEF LinesPlaced, RecordAppended
      <3> QED BY <3>2, <3>3
    <2>3. ASSUME NEW r \in Mine(n)' PROVE RecordFound(n, r)'
      <3>1. gen[n] + 1 \in LogFiles(n)' /\ LogFiles(n)' = LogFiles(n) /\ gen'[n] = gen[n]
        BY <1>0, <2>e DEF LogFiles, OnDisk, RecordAppended
      <3>2. /\ \A g : g = gen[n] + 1 => LogFile(n, g) = active[n] /\ LogFile(n, g)' = s
            /\ active[n] \in Seq(Records) /\ written + 1 \in Records
        BY <2>e DEF LogTypeOK, LogFile, RecordAppended
      <3>3. CASE r = written + 1
        <4>1. place'[r].gen = gen[n] + 1
          BY <2>e, <3>3 DEF RecordAppended
        <4>2. Len(s) \in DOMAIN s /\ s[Len(s)] = r
          BY <3>2, <3>3
        <4>3. place'[r].gen \in 1..(gen'[n] + 1)
          BY <1>0, <3>1, <4>1
        <4> HIDE DEF s
        <4> QED BY <3>2, <4>1, <4>2, <4>3 DEF RecordFound
      <3>4. CASE r # written + 1
        <4>1. r \in Mine(n) /\ r \in 1..written
          BY <1>a, <2>e, <3>4 DEF RecordAppended
        <4>2. place'[r] = place[r] /\ RecordFound(n, r)
          BY <2>e, <4>1 DEF FilesOK, WriteRecord, RecordAppended
        <4>3. ASSUME NEW g \in LogFiles(n)', g = place[r].gen
              PROVE  \E i \in DOMAIN LogFile(n, g)' : LogFile(n, g)'[i] = r
          <5>1. PICK i \in DOMAIN LogFile(n, g) : LogFile(n, g)[i] = r
            BY <3>1, <4>2, <4>3 DEF RecordFound
          <5>2. CASE g # gen[n] + 1
            BY <2>e, <3>1, <5>1, <5>2 DEF RecordAppended
          <5>3. CASE g = gen[n] + 1
            <6>1. LogFile(n, g) = active[n] /\ LogFile(n, g)' = s
              BY <3>2, <5>3
            <6>2. i \in DOMAIN s /\ s[i] = r
              BY <3>2, <5>1, <6>1
            <6> QED BY <6>1, <6>2
          <5> QED BY <5>2, <5>3
        <4>4. place'[r].gen \in 1..(gen'[n] + 1)
          BY <3>1, <4>2 DEF RecordFound
        <4> QED BY <4>2, <4>3, <4>4 DEF RecordFound
      <3> QED BY <3>3, <3>4
    <2>4. rotated' = rotated /\ gen' = gen /\ present'[n]
      BY <1>1, <2>e DEF WriteRecord, RecordAppended
    <2> QED BY <2>2, <2>3, <2>4 DEF FilesOK
  <1>2. CASE FinishRecord(n)
    <2>1. SameFiles(n)
      BY <1>0, <1>2, SameFilesFrom DEF FinishRecord, ghostVars
    <2> QED BY <1>s, <2>1
  <1>3. CASE Rotate(n)
    <2>e. GenerationAdded(n)
      BY <1>3, RotateEffect
    <2>0. gen'[n] \in Nat /\ gen'[n] = gen[n] + 1
      BY <1>0, <2>e DEF GenerationAdded
    <2>1. ASSUME NEW g \in LogFiles(n)' PROVE LinesPlaced(n, g)'
      <3>1. CASE g \in LogFiles(n)
        BY <1>0, <2>e, <3>1, LinesStay DEF FilesOK, GenerationAdded
      <3>2. CASE g = gen[n] + 2
        <4>1. LogFile(n, g)' = << >>
          BY <2>e, <3>2 DEF GenerationAdded
        <4> QED BY <4>1 DEF LinesPlaced
      <3> QED BY <2>e, <3>1, <3>2 DEF GenerationAdded
    <2>2. ASSUME NEW r \in Mine(n)' PROVE RecordFound(n, r)'
      <3>1. r \in Mine(n) /\ r \in 1..written /\ RecordFound(n, r)
        BY <1>a, <2>e DEF FilesOK, GenerationAdded
      <3>2. \A g \in LogFiles(n)' : g \in 1..(gen[n] + 1) =>
               g \in LogFiles(n) /\ LogFile(n, g)' = LogFile(n, g)
        <4>1. gen[n] + 2 \notin 1..(gen[n] + 1)
          BY <1>0
        <4> QED BY <2>e, <4>1 DEF GenerationAdded
      <3> QED BY <1>0, <2>0, <3>1, <3>2, RecordStays
    <2>3. ASSUME NEW g \in Gens, rotated'[n][g].form # "none"
          PROVE  g <= gen'[n] /\ \A h \in g..gen'[n] : rotated'[n][h].form # "none"
      <3>1. g = gen[n] + 1 \/ (g <= gen[n] /\ \A h \in g..gen[n] : rotated[n][h].form # "none")
        BY <2>e, <2>3 DEF FilesOK, GenerationAdded
      <3>2. rotated'[n][gen[n] + 1].form # "none"
        BY <2>e DEF GenerationAdded
      <3>3. gen[n] + 1 <= MaxRotations /\ MaxRotations \in Nat
        BY <2>e, LogAssumption DEF Gens, GenerationAdded
      <3>4. \A h \in g..gen[n] : h \in Gens \ {gen[n] + 1}
        BY <1>0, <3>3 DEF Gens
      <3>5. \A h \in g..gen[n] : rotated'[n][h] = rotated[n][h]
        BY <2>e, <3>4 DEF GenerationAdded
      <3>6. \A h \in g..gen'[n] : h = gen[n] + 1 \/ h \in g..gen[n]
        BY <1>0, <2>0 DEF Gens
      <3> QED BY <1>0, <2>0, <3>1, <3>2, <3>5, <3>6 DEF Gens
    <2>4. present'[n]
      BY <2>e DEF GenerationAdded
    <2> QED BY <2>1, <2>2, <2>3, <2>4 DEF FilesOK
  <1>4. CASE \E k \in Gens : Compress(n, k)
    <2>0. PICK k \in Gens : Compress(n, k)
      BY <1>4
    <2>1. \A g \in LogFiles(n)' : LinesPlaced(n, g) => LinesPlaced(n, g)'
      BY <1>0, <2>0, CompressEffect, LinesStay
    <2>2. \A r \in Mine(n)' : RecordFound(n, r) => RecordFound(n, r)'
      BY <1>0, <1>a, <2>0, CompressEffect, RecordStays
    <2>3. \A g \in Gens : \A h \in g..gen[n] : h \in Gens
      BY <1>0, LogAssumption DEF Gens, LogTypeOK
    <2> QED BY <2>0, <2>1, <2>2, <2>3, CompressEffect DEF FilesOK
  <1>5. CASE DeleteOldest(n)
    <2>0. PICK k \in Gens :
            /\ rotated[n][k].form # "none"
            /\ \A h \in Gens : h < k => rotated[n][h].form = "none"
            /\ rotated' = [rotated EXCEPT ![n][k] = Absent]
      BY <1>5 DEF DeleteOldest
    <2>a. UNCHANGED <<joins, present, active, gen, written, place>>
      BY <1>5 DEF DeleteOldest
    <2>e. GenerationGone(n, k)
      BY <2>0, <2>a, DeleteEffect
    <2>b. /\ gen'[n] = gen[n] /\ joins'[n] = joins[n] /\ present'[n] = present[n]
          /\ LogFiles(n)' = LogFiles(n) \ {k}
          /\ \A g \in LogFiles(n) \ {k} : LogFile(n, g)' = LogFile(n, g)
          /\ active'[n] = active[n] /\ Mine(n)' = Mine(n)
          /\ rotated'[n][k].form = "none"
          /\ \A g \in Gens \ {k} : rotated'[n][g] = rotated[n][g]
      BY <2>e DEF GenerationGone
    <2>1. \A g \in LogFiles(n)' : LinesPlaced(n, g) => LinesPlaced(n, g)'
      BY <1>0, <2>b, LinesStay
    <2>2. \A r \in Mine(n)' : RecordFound(n, r) => RecordFound(n, r)'
      BY <1>0, <1>a, <2>b, RecordStays
    <2>3. ASSUME NEW g \in Gens, rotated'[n][g].form # "none"
          PROVE  g <= gen'[n] /\ \A h \in g..gen'[n] : rotated'[n][h].form # "none"
      <3>1. g # k /\ rotated[n][g].form # "none"
        BY <2>3, <2>b
      <3>2. g > k
        BY <2>0, <3>1 DEF Gens
      <3>3. g <= gen[n] /\ \A h \in g..gen[n] : rotated[n][h].form # "none"
        BY <3>1 DEF FilesOK
      <3>4. \A h \in g..gen[n] : h \in Gens \ {k}
        BY <1>0, <1>b, <3>2 DEF Gens
      <3> QED BY <2>b, <3>3, <3>4
    <2>4. ~present[n] => active'[n] = << >> /\ \A g \in Gens : rotated'[n][g].form = "none"
      BY <2>0 DEF FilesOK
    <2> QED BY <2>b, <2>1, <2>2, <2>3, <2>4 DEF FilesOK
  <1>6. CASE NodeLeaves(n)
    <2>1. /\ present'[n] = FALSE /\ active'[n] = << >>
          /\ \A g \in Gens : rotated'[n][g] = Absent
      BY <1>6 DEF NodeLeaves, LogTypeOK
    <2> QED BY <2>1 DEF FilesOK, Absent
  <1>7. CASE NodeReturns(n)
    <2>e. NodeIsBack(n)
      BY <1>7, ReturnEffect
    <2>1. /\ present'[n] /\ LogFiles(n)' = {gen[n] + 1} /\ Mine(n)' = {}
          /\ gen'[n] = gen[n] /\ active'[n] = << >>
          /\ \A g \in Gens : rotated'[n][g].form = "none"
      BY <2>e DEF NodeIsBack
    <2>2. ASSUME NEW g \in LogFiles(n)' PROVE LinesPlaced(n, g)'
      <3>1. LogFile(n, g)' = << >>
        BY <2>1 DEF LogFile
      <3> QED BY <3>1 DEF LinesPlaced
    <2> QED BY <2>1, <2>2 DEF FilesOK
  <1> QED BY <1>1, <1>2, <1>3, <1>4, <1>5, <1>6, <1>7 DEF LoggerStep

\* A logger step keeps the files of all nodes what their histories say.
LEMMA LoggerKeepsFiles ==
  ASSUME LogTypeOK, LogTypeOK', LogHistoryOK, NEW n \in Nodes, LoggerStep(n),
         NEW m \in Nodes, FilesOK(m)
  PROVE  FilesOK(m)'
  <1>1. OldPlaces /\ written' \in Nat /\ (m # n => SameFiles(m))
    BY OtherNodesFiles
  <1>2. CASE m # n
    BY <1>1, <1>2, SameFilesKept
  <1>3. CASE m = n
    BY <1>3, LoggerKeepsOwnFiles
  <1> QED BY <1>2, <1>3

--------------------------------------------------------------------------------
(* What the collector reads, and what it knows of its progress. *)

\* The generation a poll opens, found, is a file of the node.
LEMMA FoundOnDisk ==
  ASSUME LogTypeOK, NEW n \in Nodes, FilesOK(n), unseen[n] # {}, Found(n, Oldest(n))
  PROVE  /\ Oldest(n).id \in LogFiles(n)
         /\ Oldest(n).id <= gen[n]
         /\ LogFile(n, Oldest(n).id) = rotated[n][Oldest(n).id].recs
         /\ rotated[n][Oldest(n).id].recs \in Seq(Records)
  <1> DEFINE o == Oldest(n).id
  <1>1. o \in Gens
    BY OldestIsFirst
  <1>2. rotated[n][o].form # "none"
    BY DEF Found
  <1>3. o <= gen[n] /\ gen[n] \in Nat /\ o \in Nat \ {0}
    BY <1>1, <1>2 DEF FilesOK, LogTypeOK, Gens
  <1>4. rotated[n][o].recs \in Seq(Records)
    BY <1>1 DEF LogTypeOK
  <1> HIDE DEF o
  <1>5. o \in LogFiles(n) /\ LogFile(n, o) = rotated[n][o].recs
    BY <1>2, <1>3 DEF LogFiles, OnDisk, LogFile
  <1> QED BY <1>3, <1>4, <1>5 DEF o

\* The active file is a file of the node.
LEMMA ActiveOnDisk ==
  ASSUME LogTypeOK, NEW n \in Nodes
  PROVE  gen[n] + 1 \in LogFiles(n) /\ LogFile(n, gen[n] + 1) = active[n] /\ gen[n] \in Nat
         /\ LogFiles(n) \subseteq 1..(gen[n] + 1)
  BY DEF LogFiles, OnDisk, LogFile, LogTypeOK

\* A read of the active file hands over lines of it that are complete.
LEMMA OutIsComplete ==
  ASSUME LogTypeOK, NEW n \in Nodes, NEW start, NEW c, c.offset \in Nat,
         ~streamActive(Complete(n), start, c).reset
  PROVE  streamActive(Complete(n), start, c).out =
            {active[n][i] : i \in {k \in 1..Len(Complete(n)) : End(active[n], k) > c.offset}}
  <1> DEFINE recs == Complete(n)
             res == streamActive(recs, start, c)
             fresh == {i \in DOMAIN recs : End(recs, i) > c.offset}
             K == {k \in 1..Len(recs) : End(active[n], k) > c.offset}
  <1>1. recs \in Seq(Records) /\ \A i \in 1..Len(recs) :
           recs[i] = active[n][i] /\ End(recs, i) = End(active[n], i)
    BY CompleteIsPrefix DEF LogTypeOK
  <1>2. DOMAIN recs = 1..Len(recs)
    BY <1>1
  <1>3. fresh = K
    BY <1>1, <1>2
  <1>4. res.out = {recs[i] : i \in fresh}
    BY <1>1, StreamActiveReads
  <1>5. {recs[i] : i \in fresh} = {active[n][i] : i \in K}
    <2>1. \A i \in K : recs[i] = active[n][i]
      BY <1>1
    <2> HIDE DEF recs, fresh, K
    <2> QED BY <1>3, <2>1
  <1> QED BY <1>4, <1>5

\* What a file of the node holds has been written.
LEMMA LinesWritten ==
  ASSUME LogTypeOK, NEW n \in Nodes, FilesOK(n), present[n], NEW g \in LogFiles(n),
         NEW i \in DOMAIN LogFile(n, g)
  PROVE  /\ LogFile(n, g)[i] \in 1..written
         /\ LogFile(n, g)[i] \in Mine(n) /\ LogFile(n, g)[i] \in Records
         /\ place[LogFile(n, g)[i]].node = n
         /\ place[LogFile(n, g)[i]].gen = g
         /\ place[LogFile(n, g)[i]].end = End(LogFile(n, g), i)
  <1>1. LogFile(n, g)[i] \in 1..written /\ place[LogFile(n, g)[i]] = Placed(n, g, i)
    BY DEF FilesOK, LinesPlaced
  <1>2. 1..written \subseteq Records
    BY LogAssumption DEF LogTypeOK, Records
  <1> QED BY <1>1, <1>2 DEF Placed, Mine

\* A record of the node that is there.
ItsRecord(n, r) == r \in Mine(n) /\ r \in 1..written /\ r \in Records /\ place[r].node = n

\* The lines of a commit of the active file.
LEMMA CommitReads ==
  ASSUME LogTypeOK, NEW n \in Nodes, FilesOK(n), present[n], NEW start, NEW c, c.offset \in Nat,
         ~streamActive(Complete(n), start, c).reset
  PROVE  \A r \in streamActive(Complete(n), start, c).out :
            ItsRecord(n, r) /\ place[r].gen = gen[n] + 1
  <1> DEFINE K == {k \in 1..Len(Complete(n)) : End(active[n], k) > c.offset}
             out == streamActive(Complete(n), start, c).out
  <1>1. out = {active[n][i] : i \in K}
    BY OutIsComplete
  <1>2. K \subseteq DOMAIN active[n]
    <2>1. Len(Complete(n)) <= Len(active[n]) /\ active[n] \in Seq(Records) /\ Complete(n) \in Seq(Records)
      BY CompleteIsPrefix DEF LogTypeOK
    <2>2. Len(Complete(n)) \in Nat /\ Len(active[n]) \in Nat
      BY <2>1
    <2> QED BY <2>1, <2>2
  <1>3. \A i \in DOMAIN active[n] :
           ItsRecord(n, active[n][i]) /\ place[active[n][i]].gen = gen[n] + 1
    BY ActiveOnDisk, LinesWritten DEF ItsRecord
  <1> HIDE DEF K, out
  <1>4. \A r \in out : \E i \in DOMAIN active[n] : r = active[n][i]
    BY <1>1, <1>2
  <1> QED BY <1>3, <1>4 DEF out

\* So are those of a recovered generation.
LEMMA RotatedReads ==
  ASSUME LogTypeOK, NEW n \in Nodes, FilesOK(n), present[n], unseen[n] # {},
         Found(n, Oldest(n)), NEW skip,
         NEW r \in TailAfter(rotated[n][Oldest(n).id].recs, skip)
  PROVE  /\ ItsRecord(n, r) /\ place[r].gen = Oldest(n).id
         /\ \E i \in DOMAIN LogFile(n, Oldest(n).id) :
               LogFile(n, Oldest(n).id)[i] = r /\ End(LogFile(n, Oldest(n).id), i - 1) >= skip
  <1> DEFINE o == Oldest(n).id
             recs == rotated[n][o].recs
  <1>1. o \in LogFiles(n) /\ LogFile(n, o) = recs
    BY FoundOnDisk
  <1>2. \E i \in DOMAIN recs : recs[i] = r /\ End(recs, i - 1) >= skip
    BY DEF TailAfter
  <1> HIDE DEF o, recs
  <1>3. \A i \in DOMAIN LogFile(n, o) :
           ItsRecord(n, LogFile(n, o)[i]) /\ place[LogFile(n, o)[i]].gen = o
    BY <1>1, LinesWritten DEF ItsRecord
  <1>4. /\ ItsRecord(n, r) /\ place[r].gen = o
        /\ \E i \in DOMAIN LogFile(n, o) : LogFile(n, o)[i] = r /\ End(LogFile(n, o), i - 1) >= skip
    BY <1>1, <1>2, <1>3
  <1> QED BY <1>4 DEF o, recs

\* What a failing poll may have read is lines of its node.
LEMMA FailReads ==
  ASSUME LogTypeOK, NEW n \in Nodes, FilesOK(n)
  PROVE  \A r \in InHand(n) : present[n] /\ ItsRecord(n, r)
  <1> DEFINE Good(r) == present[n] /\ ItsRecord(n, r)
  <1>0. Complete(n) \in Seq(Records)
    BY CompleteIsPrefix DEF LogTypeOK
  <1>1. ASSUME NEW c, c.offset \in Nat, NEW r \in streamActive(Complete(n), 0, c).out PROVE Good(r)
    <2>1. streamActive(Complete(n), 0, c).reset \in BOOLEAN
          /\ ~streamActive(Complete(n), 0, c).reset
      BY <1>0, <1>1, StreamActiveReads
    <2>2. CASE present[n]
      BY <1>1, <2>1, <2>2, CommitReads
    <2>3. CASE ~present[n]
      <3>1. active[n] = << >>
        BY <2>3 DEF FilesOK
      <3>2. Len(Complete(n)) \in Nat /\ Len(Complete(n)) <= 0
        BY <1>0, <3>1, CompleteIsPrefix DEF LogTypeOK
      <3>3. {k \in 1..Len(Complete(n)) : End(active[n], k) > c.offset} = {}
        BY <3>2
      <3>4. streamActive(Complete(n), 0, c).out = {}
        BY <1>1, <2>1, <3>3, OutIsComplete
      <3> QED BY <1>1, <3>4
    <2> QED BY <2>2, <2>3 DEF LogTypeOK
  <1>2. ASSUME NEW r \in InHand(n), poll[n] \in {"open", "reopen"} PROVE Good(r)
    <2>1. Found(n, Oldest(n)) /\ r \in TailAfter(rotated[n][Oldest(n).id].recs, Skip(n))
      BY <1>2 DEF InHand
    <2>2. unseen[n] # {}
      BY <1>2 DEF LogTypeOK
    <2>3. present[n]
      <3>1. Oldest(n).id \in Gens
        BY <2>2, OldestIsFirst
      <3>2. rotated[n][Oldest(n).id].form # "none"
        BY <2>1 DEF Found
      <3> QED BY <3>1, <3>2 DEF FilesOK
    <2> QED BY <2>1, <2>2, <2>3, RotatedReads
  <1>3. ASSUME NEW r \in InHand(n), poll[n] = "active" PROVE Good(r)
    <2>1. r \in streamActive(Complete(n), 0, Working(n)).out
      BY <1>3 DEF InHand
    <2> QED BY <1>1, <2>1, WorkingType
  <1>4. ASSUME NEW r \in InHand(n), poll[n] = "refetch" PROVE Good(r)
    <2>1. r \in streamActive(Complete(n), 0, NoCheckpoint).out /\ NoCheckpoint.offset = 0
      BY <1>4 DEF InHand, NoCheckpoint, Checkpoint
    <2> QED BY <1>1, <2>1
  <1>5. ASSUME poll[n] \notin {"open", "reopen", "active", "refetch"} PROVE InHand(n) = {}
    BY <1>5 DEF InHand
  <1> QED BY <1>2, <1>3, <1>4, <1>5

\* A step of a poll hands over lines of its node, and touches no history but its own.
PollReads(n) ==
    /\ UNCHANGED <<fileVars, place, raced, deleted>>
    /\ \E rs : /\ reads' = Count(rs)
               /\ \A r \in rs : ItsRecord(n, r)
    /\ booted' \in [Nodes -> SUBSET Nat] /\ \A m \in Nodes : booted[m] \subseteq booted'[m]
    /\ replayed \subseteq replayed' /\ replayed' \subseteq replayed \cup {n}
    /\ \A m \in Nodes \ {n} : /\ cp'[m] = cp[m] /\ poll'[m] = poll[m] /\ unseen'[m] = unseen[m]
                              /\ boot'[m] = boot[m]
    /\ seenUID' = seenUID

\* Every step of a poll, and its failure, is such a step.
LEMMA PollReadsIts ==
  ASSUME LogTypeOK, LogHistoryOK, NEW n \in Nodes, FilesOK(n), PollStep(n) \/ PollFails(n)
  PROVE  PollReads(n)
  <1>n. \A r \in {} : ItsRecord(n, r)
    OBVIOUS
  <1>z. Count({}) = reads /\ booted \in [Nodes -> SUBSET Nat]
    BY CountCounts DEF LogHistoryOK
  <1>c. ASSUME present[n], NEW start, NEW c, c.offset \in Nat,
               ~streamActive(Complete(n), start, c).reset,
               CommitActive(n, c, streamActive(Complete(n), start, c))
        PROVE  PollReads(n)
    <2> DEFINE res == streamActive(Complete(n), start, c)
    <2>1. /\ reads' = Count(res.out)
          /\ cp' = [cp EXCEPT ![n] = Checkpoint(seenUID[n], res.offset, res.hash, c.last)]
          /\ booted' = IF boot[n] # NotBoot THEN [booted EXCEPT ![n] = @ \cup 1..boot[n]]
                       ELSE booted
          /\ UNCHANGED <<fileVars, seenUID, restarts, place, raced, deleted, replayed>>
      BY <1>c DEF CommitActive
    <2>2. \A r \in res.out : ItsRecord(n, r)
      BY <1>c, CommitReads
    <2>3. boot[n] \in Int /\ 1..boot[n] \subseteq Nat
      BY DEF LogTypeOK, NotBoot
    <2>4. booted' \in [Nodes -> SUBSET Nat] /\ \A m \in Nodes : booted[m] \subseteq booted'[m]
      BY <1>z, <2>1, <2>3
    <2>5. \A m \in Nodes \ {n} : /\ cp'[m] = cp[m] /\ poll'[m] = poll[m] /\ unseen'[m] = unseen[m]
                                 /\ boot'[m] = boot[m]
      BY <1>c DEF CommitActive, PollEnds, LogTypeOK
    <2> HIDE DEF res
    <2> QED BY <2>1, <2>2, <2>4, <2>5 DEF PollReads
  <1>1. CASE StartPoll(n)
    <2>1. \A m \in Nodes \ {n} : poll'[m] = poll[m]
      BY <1>1 DEF StartPoll, LogTypeOK
    <2>2. UNCHANGED <<fileVars, ghostVars, cp, unseen, boot, seenUID>>
      BY <1>1 DEF StartPoll
    <2> QED BY <2>1, <2>2, <1>n, <1>z DEF PollReads, ghostVars
  <1>2. CASE ListRotations(n)
    <2>1. \A m \in Nodes \ {n} : /\ cp'[m] = cp[m] /\ poll'[m] = poll[m] /\ unseen'[m] = unseen[m]
                                 /\ boot'[m] = boot[m]
      BY <1>2 DEF ListRotations, LogTypeOK
    <2>2. UNCHANGED <<fileVars, ghostVars, seenUID>>
      BY <1>2 DEF ListRotations
    <2> QED BY <2>1, <2>2, <1>n, <1>z DEF PollReads, ghostVars
  <1>3. CASE ReadRotated(n)
    <2> DEFINE tail == TailAfter(rotated[n][Oldest(n).id].recs, Skip(n))
    <2>1. unseen[n] # {} /\ present[n] /\ Found(n, Oldest(n))
      BY <1>3 DEF ReadRotated, LogTypeOK
    <2>2. \A m \in Nodes \ {n} : cp'[m] = cp[m] /\ poll'[m] = poll[m] /\ unseen'[m] = unseen[m]
      BY <1>3 DEF ReadRotated, CommitRotation, LogTypeOK
    <2>3. /\ reads' = Count(tail)
          /\ UNCHANGED <<fileVars, seenUID, boot, place, raced, deleted, booted, replayed>>
      BY <1>3 DEF ReadRotated
    <2>4. \A r \in tail : ItsRecord(n, r)
      BY <2>1, RotatedReads
    <2>5. booted' \in [Nodes -> SUBSET Nat] /\ \A m \in Nodes : booted[m] \subseteq booted'[m]
      BY <1>z, <2>3
    <2> HIDE DEF tail
    <2> QED BY <2>2, <2>3, <2>4, <2>5 DEF PollReads
  <1>4. CASE RotatedNotFound(n)
    <2>1. \A m \in Nodes \ {n} : poll'[m] = poll[m]
      BY <1>4 DEF RotatedNotFound, LogTypeOK
    <2>2. UNCHANGED <<fileVars, ghostVars, cp, unseen, boot, seenUID>>
      BY <1>4 DEF RotatedNotFound
    <2> QED BY <2>1, <2>2, <1>n, <1>z DEF PollReads, ghostVars
  <1>5. CASE Relist(n)
    <2>1. \A m \in Nodes \ {n} : cp'[m] = cp[m] /\ poll'[m] = poll[m] /\ unseen'[m] = unseen[m]
      BY <1>5 DEF Relist, CommitRotation, LogTypeOK
    <2>2. UNCHANGED <<fileVars, ghostVars, seenUID, boot>>
      BY <1>5 DEF Relist
    <2> QED BY <2>1, <2>2, <1>n, <1>z DEF PollReads, ghostVars
  <1>6. CASE ReadActive(n)
    <2>0. present[n]
      BY <1>6 DEF ReadActive
    <2>1. PICK start \in BodyStarts(Working(n)) :
            LET c   == Working(n)
                res == streamActive(Complete(n), start, c) IN
            \/ ~res.reset /\ CommitActive(n, c, res)
            \/ /\ res.reset
               /\ poll' = [poll EXCEPT ![n] = "refetch"]
               /\ UNCHANGED <<fileVars, cp, seenUID, unseen, boot, restarts, ghostVars>>
      BY <1>6 DEF ReadActive
    <2>2. CASE CommitActive(n, Working(n), streamActive(Complete(n), start, Working(n)))
               /\ ~streamActive(Complete(n), start, Working(n)).reset
      BY <1>c, <2>0, <2>2, WorkingType
    <2>3. CASE /\ poll' = [poll EXCEPT ![n] = "refetch"]
               /\ UNCHANGED <<fileVars, cp, seenUID, unseen, boot, restarts, ghostVars>>
      BY <1>n, <1>z, <2>3 DEF PollReads, LogTypeOK, ghostVars
    <2> QED BY <2>1, <2>2, <2>3
  <1>7. CASE ReadActiveAgain(n)
    <2> DEFINE c == Checkpoint(seenUID[n], 0, 0, Working(n).last)
    <2>1. CommitActive(n, c, streamActive(Complete(n), 0, c)) /\ present[n]
      BY <1>7 DEF ReadActiveAgain
    <2>2. c.offset \in Nat /\ ~streamActive(Complete(n), 0, c).reset
      BY FreshType
    <2> HIDE DEF c
    <2> QED BY <1>c, <2>1, <2>2
  <1>8. CASE PollFails(n)
    <2>1. PICK k \in 0..written :
             LET rs == {r \in InHand(n) : r <= k} IN
             /\ reads' = Count(rs)
             /\ replayed' = IF rs = {} THEN replayed ELSE replayed \cup {n}
      BY <1>8 DEF PollFails
    <2>2. \A r \in {r \in InHand(n) : r <= k} : ItsRecord(n, r)
      BY FailReads
    <2>3. \A m \in Nodes \ {n} : /\ cp'[m] = cp[m] /\ poll'[m] = poll[m] /\ unseen'[m] = unseen[m]
                                 /\ boot'[m] = boot[m]
      BY <1>8 DEF PollFails, PollEnds, LogTypeOK
    <2>4. UNCHANGED <<fileVars, cp, seenUID, restarts, place, raced, deleted, booted>>
      BY <1>8 DEF PollFails
    <2> QED BY <1>z, <2>1, <2>2, <2>3, <2>4 DEF PollReads
  <1> QED BY <1>1, <1>2, <1>3, <1>4, <1>5, <1>6, <1>7, <1>8 DEF PollStep

--------------------------------------------------------------------------------
(* The histories, the files and the polls stay in order. *)

\* What nobody wrote has not been read, and every record was written on a node.
LEMMA HistoryKept ==
  ASSUME LogTypeOK, LogTypeOK', LogHistoryOK, \A m \in Nodes : FilesOK(m), LogNext
  PROVE  LogHistoryOK'
  <1>0. /\ written \in Nat /\ written <= MaxRecords /\ MaxRecords \in Nat /\ MaxRotations \in Nat
        /\ \A n \in Nodes : joins[n] \in Nat /\ gen[n] \in Nat /\ joins'[n] \in Nat
    <2>1. /\ joins \in [Nodes -> 1..MaxJoins] /\ joins' \in [Nodes -> 1..MaxJoins]
          /\ gen \in [Nodes -> 0..MaxRotations] /\ written \in 0..MaxRecords
      BY DEF LogTypeOK
    <2> QED BY <2>1, LogAssumption
  <1>1. ASSUME NEW n \in Nodes, LoggerStep(n) PROVE LogHistoryOK'
    <2>1. CASE WriteRecord(n)
      <3> DEFINE p == [node |-> n, uid |-> joins[n], gen |-> gen[n] + 1,
                       end |-> End(Append(active[n], written + 1), Len(active[n]) + 1)]
      <3>1. /\ written' = written + 1 /\ written + 1 \in Records
            /\ UNCHANGED <<joins, reads, raced, deleted, booted, replayed>>
            /\ place' = [place EXCEPT ![written + 1] = p]
        BY <1>0, <2>1 DEF WriteRecord, Records
      <3>2. Len(active[n]) + 1 \in Nat
        BY DEF LogTypeOK
      <3>3. p \in Places
        <4>1. End(Append(active[n], written + 1), Len(active[n]) + 1) \in Nat
          BY <3>2, LongLines
        <4> QED BY <1>0, <4>1 DEF Places
      <3>3a. p.node = n /\ p.uid = joins[n]
        OBVIOUS
      <3> HIDE DEF p
      <3>4. place' \in [Records -> Places]
        BY <3>1, <3>3 DEF LogHistoryOK
      <3>5. \A r \in 1..written' : place'[r].node \in Nodes /\ place'[r].uid <= joins'[place'[r].node]
        BY <1>0, <3>1, <3>3a DEF LogHistoryOK, Records
      <3>6. \A r \in Records : r > written' => reads'[r] = 0
        BY <1>0, <3>1 DEF LogHistoryOK, Records
      <3> QED BY <3>1, <3>4, <3>5, <3>6 DEF LogHistoryOK
    <2>2. ASSUME UNCHANGED <<written, place, reads, booted>>,
                 \A m \in Nodes : joins'[m] >= joins[m],
                 raced' \in [Nodes -> SUBSET Nat], deleted' \in [Nodes -> SUBSET Nat],
                 replayed' \subseteq Nodes
          PROVE  LogHistoryOK'
      <3>1. ASSUME NEW r \in 1..written
            PROVE  place[r].node \in Nodes /\ place[r].uid <= joins'[place[r].node]
        <4>1. /\ place[r] \in Places /\ place[r].node \in Nodes
              /\ place[r].uid <= joins[place[r].node]
          BY <1>0 DEF LogHistoryOK, Records
        <4>2. place[r].uid \in Nat /\ joins'[place[r].node] \in Nat
          BY <1>0, <4>1 DEF Places
        <4> QED BY <1>0, <2>2, <4>1, <4>2
      <3> QED BY <2>2, <3>1 DEF LogHistoryOK
    <2>3. CASE Rotate(n)
      <3>1. raced' \in [Nodes -> SUBSET Nat] /\ UNCHANGED <<joins, written, place, reads, deleted, booted, replayed>>
        BY <1>0, <2>3 DEF Rotate, LogHistoryOK
      <3> QED BY <1>0, <2>2, <3>1 DEF LogHistoryOK
    <2>4. CASE DeleteOldest(n)
      <3>1. deleted' \in [Nodes -> SUBSET Nat] /\ UNCHANGED <<joins, written, place, reads, raced, booted, replayed>>
        BY <1>0, <2>4 DEF DeleteOldest, LogHistoryOK, Gens
      <3> QED BY <1>0, <2>2, <3>1 DEF LogHistoryOK
    <2>5. CASE NodeReturns(n)
      <3>1. /\ \A m \in Nodes : joins'[m] >= joins[m]
            /\ replayed' \subseteq Nodes
            /\ UNCHANGED <<written, place, reads, raced, deleted, booted>>
        <4>1. joins' = [joins EXCEPT ![n] = @ + 1] /\ joins \in [Nodes -> 1..MaxJoins]
          BY <2>5 DEF NodeReturns, LogTypeOK
        <4>2. \A m \in Nodes : joins'[m] >= joins[m]
          BY <1>0, <4>1
        <4> QED BY <2>5, <4>2 DEF NodeReturns, LogHistoryOK
      <3> QED BY <2>2, <3>1 DEF LogHistoryOK
    <2>6. CASE FinishRecord(n) \/ NodeLeaves(n) \/ \E g \in Gens : Compress(n, g)
      <3>1. UNCHANGED <<joins, written, place, reads, raced, deleted, booted, replayed>>
        BY <2>6 DEF FinishRecord, NodeLeaves, Compress, ghostVars
      <3> QED BY <1>0, <2>2, <3>1 DEF LogHistoryOK
    <2> QED BY <1>1, <2>1, <2>3, <2>4, <2>5, <2>6 DEF LoggerStep
  <1>2. ASSUME NEW n \in Nodes, PollStep(n) \/ PollFails(n) PROVE LogHistoryOK'
    <2>1. PollReads(n)
      BY <1>2, PollReadsIts
    <2>2. PICK rs : reads' = Count(rs) /\ \A r \in rs : ItsRecord(n, r)
      BY <2>1 DEF PollReads
    <2>3. UNCHANGED <<joins, written, place, raced, deleted>> /\ replayed' \subseteq Nodes
          /\ booted' \in [Nodes -> SUBSET Nat]
      BY <2>1 DEF PollReads, fileVars, LogHistoryOK
    <2>4. \A r \in Records : r > written => reads'[r] = 0
      <3>1. TAKE r \in Records
      <3>2. HAVE r > written
      <3>3. r \notin rs
        BY <1>0, <2>2, <3>2 DEF ItsRecord
      <3> QED BY <2>2, <3>2, <3>3, CountCounts DEF LogHistoryOK
    <2> QED BY <2>3, <2>4 DEF LogHistoryOK
  <1>3. CASE PollAllNodes \/ EndRound \/ NewCollector
    <2>1. UNCHANGED <<joins, written, place, reads, raced, deleted, booted>> /\ replayed' \subseteq Nodes
      BY <1>3 DEF PollAllNodes, EndRound, NewCollector, ghostVars, fileVars, LogHistoryOK
    <2> QED BY <2>1 DEF LogHistoryOK
  <1> QED BY <1>1, <1>2, <1>3 DEF LogNext

\* The numbers of a node and of its poll.
LEMMA NodeNumbers ==
  ASSUME LogTypeOK, NEW n \in Nodes
  PROVE  /\ joins[n] \in Nat \ {0} /\ gen[n] \in Nat /\ gen[n] <= MaxRotations
         /\ MaxRotations \in Nat
         /\ cp[n].uid \in Nat /\ cp[n].last \in Nat /\ cp[n].offset \in Nat
         /\ seenUID[n] \in Nat
         /\ boot[n] # NotBoot => boot[n] \in Nat
         /\ boot[n] \in Int /\ NotBoot = -1
         /\ written \in Nat /\ 1..written \subseteq Records
  <1>1. /\ joins[n] \in 1..MaxJoins /\ gen[n] \in 0..MaxRotations
        /\ cp[n] \in [uid : 0..MaxJoins, offset : Nat, hash : 0..MaxRecords, last : 0..MaxRotations]
        /\ seenUID[n] \in 0..MaxJoins
        /\ boot[n] \in {NotBoot} \cup 0..MaxRotations
        /\ written \in 0..MaxRecords
    BY DEF LogTypeOK
  <1>2. NotBoot = -1
    BY DEF NotBoot
  <1>3. written \in Nat /\ 1..written \subseteq Records
    BY <1>1, LogAssumption DEF Records
  <1> QED BY <1>1, <1>2, <1>3, LogAssumption

\* What is still to recover is newer than the checkpoint.
LEMMA UnseenIds ==
  ASSUME LogTypeOK, NEW n \in Nodes, PollOK(n)
  PROVE  \A f \in unseen[n] : /\ f \in RotatedFiles /\ f.id \in Gens /\ f.id \in Nat
                              /\ f.id <= gen[n] /\ f.id > cp[n].last
  <1>1. unseen[n] \in SUBSET RotatedFiles
    BY DEF LogTypeOK
  <1>2. \A f \in unseen[n] : f \in RotatedFiles /\ f.id \in Gens
    BY <1>1 DEF RotatedFiles
  <1>3. \A f \in unseen[n] : f.id <= gen[n] /\ f.id > cp[n].last
    BY DEF PollOK
  <1> QED BY <1>2, <1>3 DEF Gens

\* A step that leaves the poll of a node alone.
LEMMA PollOKStays ==
  ASSUME LogTypeOK, LogTypeOK', NEW n \in Nodes, PollOK(n),
         cp'[n] = cp[n], poll'[n] = poll[n], seenUID'[n] = seenUID[n],
         unseen'[n] = unseen[n], boot'[n] = boot[n],
         joins'[n] >= joins[n], gen'[n] >= gen[n], raced'[n] \subseteq 1..gen'[n]
  PROVE  PollOK(n)'
  <1>1. joins'[n] \in Nat /\ gen'[n] \in Nat
    <2>1. joins'[n] \in 1..MaxJoins /\ gen'[n] \in 0..MaxRotations
      BY DEF LogTypeOK
    <2> QED BY <2>1, LogAssumption
  <1>2. /\ joins[n] \in Nat /\ gen[n] \in Nat /\ cp[n].uid \in Nat /\ cp[n].last \in Nat
        /\ seenUID[n] \in Nat /\ boot[n] \in Int
    BY NodeNumbers
  <1>3. /\ cp[n].uid <= joins'[n] /\ seenUID[n] <= joins'[n]
        /\ cp[n].last <= gen'[n] /\ boot[n] <= gen'[n]
    BY <1>1, <1>2 DEF PollOK
  <1>4. \A f \in unseen[n] : f.id \in Nat /\ f.id > cp[n].last /\ f.id <= gen[n]
    BY DEF PollOK, LogTypeOK, RotatedFiles, Gens
  <1>5. \A f \in unseen[n] : f.id > cp[n].last /\ f.id <= gen'[n]
    BY <1>1, <1>2, <1>4
  <1> QED BY <1>3, <1>5 DEF PollOK, BetweenListAndRead

\* A poll that has not listed yet, or is over.
LEMMA PollOKIdle ==
  ASSUME NEW n \in Nodes, poll'[n] \notin {"open", "relist", "reopen", "active", "refetch"},
         boot'[n] = NotBoot, unseen'[n] = {},
         cp'[n].uid <= joins'[n], seenUID'[n] <= joins'[n],
         cp'[n].last <= gen'[n], gen'[n] \in Nat, raced'[n] \subseteq 1..gen'[n]
  PROVE  PollOK(n)'
  <1>1. NotBoot <= gen'[n]
    BY DEF NotBoot
  <1> QED BY <1>1 DEF PollOK, BetweenListAndRead

\* The logger does not disturb what a poll knows of its own progress.
LEMMA LoggerKeepsPolls ==
  ASSUME LogTypeOK, LogTypeOK', NEW n \in Nodes, LoggerStep(n), NEW m \in Nodes, PollOK(m)
  PROVE  PollOK(m)'
  <1>1. UNCHANGED pollVars
    BY DEF LoggerStep, WriteRecord, FinishRecord, Rotate, Compress, DeleteOldest, NodeLeaves, NodeReturns
  <1>2. /\ cp'[m] = cp[m] /\ poll'[m] = poll[m] /\ seenUID'[m] = seenUID[m]
        /\ unseen'[m] = unseen[m] /\ boot'[m] = boot[m]
    BY <1>1 DEF pollVars
  <1>3. joins[m] \in Nat /\ gen[m] \in Nat /\ joins \in [Nodes -> 1..MaxJoins]
        /\ gen \in [Nodes -> 0..MaxRotations]
    BY NodeNumbers DEF LogTypeOK
  <1>4. raced[m] \subseteq 1..gen[m]
    BY DEF PollOK
  <1>5. CASE Rotate(n)
    <2>1. /\ joins' = joins /\ gen' = [gen EXCEPT ![n] = @ + 1]
          /\ raced' = IF BetweenListAndRead(n)
                      THEN [raced EXCEPT ![n] = @ \cup {gen[n] + 1}] ELSE raced
      BY <1>5 DEF Rotate
    <2>2. gen'[m] >= gen[m] /\ (m = n => gen'[m] = gen[m] + 1)
      BY <1>3, <2>1
    <2>3. raced'[m] \subseteq raced[m] \cup {gen[n] + 1} /\ (m # n => raced'[m] = raced[m])
      BY <2>1
    <2>4. raced'[m] \subseteq 1..gen'[m]
      BY <1>3, <1>4, <2>1, <2>2, <2>3
    <2> QED BY <1>2, <1>3, <2>1, <2>2, <2>4, PollOKStays
  <1>6. CASE ~Rotate(n)
    <2>1. gen' = gen /\ raced' = raced
      BY <1>6 DEF LoggerStep, WriteRecord, FinishRecord, Compress, DeleteOldest, NodeLeaves,
                  NodeReturns, ghostVars
    <2>2. joins'[m] >= joins[m]
      <3>1. joins' = joins \/ joins' = [joins EXCEPT ![n] = @ + 1]
        BY DEF LoggerStep, WriteRecord, FinishRecord, Rotate, Compress, DeleteOldest, NodeLeaves,
               NodeReturns
      <3> QED BY <1>3, <3>1
    <2> QED BY <1>2, <1>3, <1>4, <2>1, <2>2, PollOKStays
  <1> QED BY <1>5, <1>6

\* After a generation the checkpoint is behind what is still to recover.
LEMMA RotationKeepsPoll ==
  ASSUME LogTypeOK, NEW n \in Nodes, PollOK(n), unseen[n] # {}, CommitRotation(n),
         poll[n] \in {"open", "relist", "reopen"},
         UNCHANGED <<joins, gen, raced, seenUID, boot>>
  PROVE  PollOK(n)'
  <1> DEFINE o == Oldest(n)
  <1>1. /\ o \in unseen[n] /\ o.id \in Gens
        /\ \A f \in unseen[n] : f.id \in Gens /\ o.id <= f.id
    BY OldestIsFirst
  <1>2. /\ cp'[n] = Checkpoint(seenUID[n], 0, 0, o.id)
        /\ unseen'[n] = unseen[n] \ {o}
        /\ poll'[n] \in {"active", "open"}
    BY RotationCommitted
  <1> HIDE DEF o
  <1>3. cp'[n].uid = seenUID[n] /\ cp'[n].last = o.id
    BY <1>2 DEF Checkpoint
  <1>4. boot[n] = NotBoot /\ seenUID[n] <= joins[n] /\ o.id <= gen[n] /\ boot[n] <= gen[n]
        /\ raced[n] \subseteq 1..gen[n]
    BY <1>1 DEF PollOK
  <1>5. \A f \in unseen[n] \ {o} : f.id > o.id /\ f.id <= gen[n]
    <2>1. TAKE f \in unseen[n] \ {o}
    <2>2. f.id # o.id /\ f.id <= gen[n]
      BY <1>1 DEF PollOK
    <2> QED BY <1>1, <2>2 DEF Gens
  <1>6. \A e, f \in unseen[n] \ {o} : e.id = f.id => e = f
    BY DEF PollOK
  <1>7. poll'[n] \in {"open", "relist", "reopen", "active", "refetch"}
    BY <1>2
  <1> QED BY <1>2, <1>3, <1>4, <1>5, <1>6, <1>7 DEF PollOK, BetweenListAndRead

\* A poll that commits the active file, or fails, is over.
LEMMA EndKeepsPoll ==
  ASSUME LogTypeOK, NEW n \in Nodes, PollOK(n), PollEnds(n),
         cp'[n].uid <= joins[n], cp'[n].last <= gen[n],
         UNCHANGED <<joins, gen, raced, seenUID>>
  PROVE  PollOK(n)'
  <1>1. poll'[n] = "done" /\ unseen'[n] = {} /\ boot'[n] = NotBoot
    BY DEF PollEnds, LogTypeOK
  <1>2. gen[n] \in Nat /\ seenUID[n] <= joins[n] /\ raced[n] \subseteq 1..gen[n]
    BY NodeNumbers DEF PollOK
  <1> QED BY <1>1, <1>2, PollOKIdle

\* Every step of a poll keeps what it knows in order.
LEMMA PollKeepsItsPoll ==
  ASSUME LogTypeOK, LogTypeOK', NEW n \in Nodes, PollStep(n) \/ PollFails(n), FilesOK(n), PollOK(n)
  PROVE  PollOK(n)'
  <1>1. /\ joins[n] \in Nat \ {0} /\ gen[n] \in Nat /\ cp[n].uid \in Nat /\ cp[n].last \in Nat
        /\ seenUID[n] \in Nat /\ boot[n] \in Int /\ MaxRotations \in Nat
    BY NodeNumbers
  <1>2. CASE StartPoll(n)
    <2>1. poll[n] = "queued" /\ poll'[n] = "list"
          /\ UNCHANGED <<joins, gen, raced, seenUID, cp, unseen, boot>>
      BY <1>2 DEF StartPoll, LogTypeOK, fileVars, ghostVars
    <2>2. unseen[n] = {}
      BY <2>1 DEF LogTypeOK
    <2>3. boot[n] = NotBoot
      BY <2>1 DEF PollOK, BetweenListAndRead
    <2>4. cp[n].uid <= joins[n] /\ seenUID[n] <= joins[n] /\ cp[n].last <= gen[n] /\ raced[n] \subseteq 1..gen[n]
      BY DEF PollOK
    <2> QED BY <1>1, <2>1, <2>2, <2>3, <2>4, PollOKIdle
  <1>3. CASE ListRotations(n)
    <2>0. rotated[n] \in Listing /\ unseen[n] = {}
      BY <1>3 DEF LogTypeOK, Listing, ListRotations
    <2>1. UNCHANGED <<joins, gen, raced, cp, seenUID>>
      BY <1>3 DEF ListRotations, ghostVars, fileVars
    <2>2. boot[n] = NotBoot
      BY <1>3 DEF ListRotations, PollOK, BetweenListAndRead
    <2>3. cp[n].uid <= joins[n] /\ seenUID[n] <= joins[n] /\ cp[n].last <= gen[n] /\ raced[n] \subseteq 1..gen[n]
      BY DEF PollOK
    <2>4. CASE cp[n].uid # seenUID[n]
      <3> DEFINE b == newestRotationID(list(rotated[n]))
      <3>1. b \in 0..MaxRotations /\ (b # 0 => b \in Gens /\ rotated[n][b].form # "none")
        BY <2>0, NewestOnDisk
      <3>2. boot'[n] = b /\ poll'[n] = "active" /\ unseen'[n] = {}
        BY <1>3, <2>0, <2>4 DEF ListRotations, LogTypeOK
      <3> HIDE DEF b
      <3>3. b <= gen[n] /\ b # NotBoot
        BY <1>1, <3>1 DEF FilesOK, NotBoot
      <3> QED BY <2>1, <2>3, <2>4, <3>2, <3>3 DEF PollOK, BetweenListAndRead
    <2>5. CASE cp[n].uid = seenUID[n]
      <3> DEFINE u == unseenRotations(list(rotated[n]), cp[n].last)
      <3>1. \A f \in u : f.id > cp[n].last /\ f.id \in Gens /\ rotated[n][f.id].form # "none"
        BY <2>0, ListedOnce DEF unseenRotations
      <3>2. \A e, f \in u : e.id = f.id => e = f
        BY <2>0, ListedOnce DEF unseenRotations
      <3>3. unseen'[n] = u /\ boot' = boot /\ poll'[n] \in {"active", "open"}
        BY <1>3, <2>5 DEF ListRotations, LogTypeOK
      <3> HIDE DEF u
      <3>4. \A f \in u : f.id > cp[n].last /\ f.id <= gen[n]
        BY <3>1 DEF FilesOK
      <3>5. NotBoot <= gen[n]
        BY <1>1 DEF NotBoot
      <3> QED BY <2>1, <2>2, <2>3, <2>5, <3>2, <3>3, <3>4, <3>5 DEF PollOK, BetweenListAndRead
    <2> QED BY <2>4, <2>5
  <1>4. CASE ReadRotated(n)
    <2>1. unseen[n] # {} /\ CommitRotation(n) /\ poll[n] \in {"open", "relist", "reopen"}
          /\ UNCHANGED <<joins, gen, raced, seenUID, boot>>
      BY <1>4 DEF ReadRotated, LogTypeOK, fileVars
    <2> QED BY <2>1, RotationKeepsPoll
  <1>5. CASE RotatedNotFound(n)
    <2>1. poll[n] = "open" /\ poll'[n] = "relist"
          /\ UNCHANGED <<joins, gen, raced, seenUID, cp, unseen, boot>>
      BY <1>5 DEF RotatedNotFound, LogTypeOK, fileVars, ghostVars
    <2> QED BY <2>1 DEF PollOK, BetweenListAndRead
  <1>6. CASE Relist(n)
    <2> DEFINE o == Oldest(n)
               again == {f \in dedupRotations(list(rotated[n])) : f.id = o.id}
    <2>1. unseen[n] # {} /\ poll[n] = "relist" /\ UNCHANGED <<joins, gen, raced, seenUID, boot>>
      BY <1>6 DEF Relist, LogTypeOK, fileVars, ghostVars
    <2>2. CASE again = {}
      <3>1. CommitRotation(n)
        BY <1>6, <2>2 DEF Relist
      <3> QED BY <2>1, <3>1, RotationKeepsPoll
    <2>3. CASE again # {}
      <3>0. rotated[n] \in Listing
        BY DEF LogTypeOK, Listing
      <3>1. unseen'[n] = (unseen[n] \ {o}) \cup again /\ poll'[n] = "reopen" /\ cp' = cp
        BY <1>6, <2>3 DEF Relist, LogTypeOK
      <3>2. o \in unseen[n]
        BY <2>1, OldestIsFirst
      <3>3. \A f \in again : f.id = o.id
        OBVIOUS
      <3>4. \A e, f \in again : e = f
        BY <3>0, ListedOnce
      <3> HIDE DEF o, again
      <3>5. \A f \in unseen'[n] : f.id > cp[n].last /\ f.id <= gen[n]
        BY <3>1, <3>2, <3>3 DEF PollOK
      <3>6. \A e, f \in unseen'[n] : e.id = f.id => e = f
        BY <3>1, <3>2, <3>3, <3>4 DEF PollOK
      <3> QED BY <2>1, <3>1, <3>5, <3>6 DEF PollOK, BetweenListAndRead
    <2> QED BY <2>2, <2>3
  <1>7. ASSUME NEW c, NEW res, CommitActive(n, c, res), c.last <= gen[n] PROVE PollOK(n)'
    <2>1. /\ cp' = [cp EXCEPT ![n] = Checkpoint(seenUID[n], res.offset, res.hash, c.last)]
          /\ PollEnds(n) /\ UNCHANGED <<joins, gen, raced, seenUID>>
      BY <1>7 DEF CommitActive, fileVars
    <2>2. cp'[n] = Checkpoint(seenUID[n], res.offset, res.hash, c.last)
      BY <2>1 DEF LogTypeOK
    <2>3. cp'[n].uid = seenUID[n] /\ cp'[n].last = c.last
      BY <2>2 DEF Checkpoint
    <2>4. seenUID[n] <= joins[n]
      BY DEF PollOK
    <2> QED BY <1>7, <2>1, <2>3, <2>4, EndKeepsPoll
  <1>w. Working(n).last <= gen[n]
    BY WorkingType DEF PollOK
  <1>8. CASE ReadActive(n)
    <2>1. PICK start \in BodyStarts(Working(n)) :
            LET c   == Working(n)
                res == streamActive(Complete(n), start, c) IN
            \/ ~res.reset /\ CommitActive(n, c, res)
            \/ /\ res.reset
               /\ poll' = [poll EXCEPT ![n] = "refetch"]
               /\ UNCHANGED <<fileVars, cp, seenUID, unseen, boot, restarts, ghostVars>>
      BY <1>8 DEF ReadActive
    <2>2. CASE CommitActive(n, Working(n), streamActive(Complete(n), start, Working(n)))
      BY <1>7, <1>w, <2>2
    <2>3. CASE /\ poll' = [poll EXCEPT ![n] = "refetch"]
               /\ UNCHANGED <<fileVars, cp, seenUID, unseen, boot, restarts, ghostVars>>
      <3>1. poll[n] = "active" /\ poll'[n] = "refetch"
            /\ UNCHANGED <<joins, gen, raced, seenUID, cp, unseen, boot>>
        BY <1>8, <2>3 DEF ReadActive, LogTypeOK, fileVars, ghostVars
      <3> QED BY <3>1 DEF PollOK, BetweenListAndRead
    <2> QED BY <2>1, <2>2, <2>3
  <1>9. CASE ReadActiveAgain(n)
    <2> DEFINE c == Checkpoint(seenUID[n], 0, 0, Working(n).last)
    <2>1. CommitActive(n, c, streamActive(Complete(n), 0, c))
      BY <1>9 DEF ReadActiveAgain
    <2>2. c.last <= gen[n]
      BY <1>w DEF Checkpoint
    <2> HIDE DEF c
    <2> QED BY <1>7, <2>1, <2>2
  <1>10. CASE PollFails(n)
    <2>1. PollEnds(n) /\ UNCHANGED <<joins, gen, raced, seenUID, cp>>
      BY <1>10 DEF PollFails, fileVars
    <2>2. cp[n].uid <= joins[n] /\ cp[n].last <= gen[n]
      BY DEF PollOK
    <2> QED BY <2>1, <2>2, EndKeepsPoll
  <1> QED BY <1>2, <1>3, <1>4, <1>5, <1>6, <1>8, <1>9, <1>10 DEF PollStep

\* The polls of other nodes are left alone.
LEMMA PollKeepsPolls ==
  ASSUME LogTypeOK, LogTypeOK', LogHistoryOK, NEW n \in Nodes, PollStep(n) \/ PollFails(n),
         FilesOK(n), NEW m \in Nodes, PollOK(m)
  PROVE  PollOK(m)'
  <1>1. CASE m = n
    BY <1>1, PollKeepsItsPoll
  <1>2. CASE m # n
    <2>1. PollReads(n)
      BY PollReadsIts
    <2>2. UNCHANGED <<joins, gen, raced, seenUID>>
      BY <2>1 DEF PollReads, fileVars
    <2>3. cp'[m] = cp[m] /\ poll'[m] = poll[m] /\ unseen'[m] = unseen[m] /\ boot'[m] = boot[m]
      BY <1>2, <2>1 DEF PollReads
    <2>4. joins[m] \in Nat /\ gen[m] \in Nat /\ raced[m] \subseteq 1..gen[m]
      BY NodeNumbers DEF PollOK
    <2> QED BY <2>2, <2>3, <2>4, PollOKStays
  <1> QED BY <1>1, <1>2

\* A round begins and ends, and a collector starts, with no poll under way.
LEMMA RoundKeepsPolls ==
  ASSUME LogTypeOK, LogTypeOK', NEW n \in Nodes, PollOK(n), PollAllNodes \/ EndRound \/ NewCollector
  PROVE  PollOK(n)'
  <1>1. /\ joins[n] \in Nat \ {0} /\ gen[n] \in Nat
        /\ cp[n].uid <= joins[n] /\ seenUID[n] <= joins[n] /\ cp[n].last <= gen[n]
        /\ raced[n] \subseteq 1..gen[n]
    BY NodeNumbers DEF PollOK
  <1>2. NoCheckpoint.uid = 0 /\ NoCheckpoint.last = 0
    BY DEF NoCheckpoint, Checkpoint
  <1>3. CASE PollAllNodes
    <2>1. /\ poll[n] = "none" /\ poll'[n] \in {"queued", "done"} /\ seenUID'[n] = UID(n)
          /\ UNCHANGED <<joins, gen, raced, cp, unseen, boot>>
      BY <1>3 DEF PollAllNodes, fileVars, ghostVars
    <2>2. unseen[n] = {} /\ boot[n] = NotBoot
      BY <2>1 DEF LogTypeOK, PollOK, BetweenListAndRead
    <2>3. UID(n) <= joins[n]
      BY <1>1 DEF UID
    <2> QED BY <1>1, <2>1, <2>2, <2>3, PollOKIdle
  <1>4. CASE EndRound
    <2>1. /\ poll[n] = "done" /\ poll'[n] = "none" /\ cp'[n] \in {NoCheckpoint, cp[n]}
          /\ UNCHANGED <<joins, gen, raced, seenUID, unseen, boot>>
      BY <1>4 DEF EndRound, fileVars, ghostVars
    <2>2. unseen[n] = {} /\ boot[n] = NotBoot
      BY <2>1 DEF LogTypeOK, PollOK, BetweenListAndRead
    <2>3. cp'[n].uid <= joins[n] /\ cp'[n].last <= gen[n]
      BY <1>1, <1>2, <2>1
    <2> QED BY <1>1, <2>1, <2>2, <2>3, PollOKIdle
  <1>5. CASE NewCollector
    <2>1. /\ poll'[n] = "none" /\ cp'[n] = NoCheckpoint /\ unseen'[n] = {} /\ boot'[n] = NotBoot
          /\ UNCHANGED <<joins, gen, raced, seenUID>>
      BY <1>5 DEF NewCollector, fileVars
    <2> QED BY <1>1, <1>2, <2>1, PollOKIdle
  <1> QED BY <1>3, <1>4, <1>5

\* A step that leaves the files alone keeps what is known of them.
LEMMA FilesUntouched ==
  ASSUME LogTypeOK, UNCHANGED <<fileVars, place>>, NEW n \in Nodes
  PROVE  OldPlaces /\ written' \in Nat /\ SameFiles(n)
  <1>1. UNCHANGED <<joins, present, active, rotated, gen, written, place>>
    BY DEF fileVars
  <1>2. OldPlaces /\ written' \in Nat
    BY <1>1, NodeNumbers DEF OldPlaces
  <1> QED BY <1>1, <1>2, SameFilesFrom, NodeNumbers

\* Every step keeps the invariant.
LEMMA LogIInvStep ==
  ASSUME LogIInv, [LogNext]_logVars
  PROVE  LogIInv'
  <1>1. LogTypeOK /\ LogHistoryOK /\ \A m \in Nodes : FilesOK(m) /\ PollOK(m)
    BY DEF LogIInv
  <1>2. LogTypeOK'
    BY <1>1, LogTypeStep
  <1>3. CASE UNCHANGED logVars
    <2>1. UNCHANGED <<joins, present, active, rotated, gen, written, place, reads, raced, deleted,
                      booted, replayed, cp, poll, seenUID, unseen, boot>>
      BY <1>3 DEF logVars
    <2>2. LogHistoryOK'
      BY <1>1, <2>1 DEF LogHistoryOK
    <2>3. ASSUME NEW m \in Nodes PROVE FilesOK(m)' /\ PollOK(m)'
      <3>0. UNCHANGED <<fileVars, place>>
        BY <1>3 DEF logVars, fileVars
      <3>1. OldPlaces /\ written' \in Nat /\ SameFiles(m)
        BY <1>1, <3>0, FilesUntouched
      <3>2. FilesOK(m)'
        BY <1>1, <3>1, SameFilesKept
      <3>3. joins[m] \in Nat /\ gen[m] \in Nat /\ raced[m] \subseteq 1..gen[m]
        BY <1>1, NodeNumbers DEF PollOK
      <3>4. PollOK(m)'
        BY <1>1, <1>2, <2>1, <3>3, PollOKStays
      <3> QED BY <3>2, <3>4
    <2> QED BY <1>2, <2>2, <2>3 DEF LogIInv
  <1>4. CASE LogNext
    <2>1. LogHistoryOK'
      BY <1>1, <1>2, <1>4, HistoryKept
    <2>2. ASSUME NEW n \in Nodes, LoggerStep(n), NEW m \in Nodes PROVE FilesOK(m)' /\ PollOK(m)'
      BY <1>1, <1>2, <2>2, LoggerKeepsFiles, LoggerKeepsPolls
    <2>3. ASSUME UNCHANGED <<fileVars, place>>, NEW m \in Nodes PROVE FilesOK(m)'
      BY <1>1, <2>3, FilesUntouched, SameFilesKept
    <2>4. ASSUME NEW n \in Nodes, PollStep(n) \/ PollFails(n), NEW m \in Nodes
          PROVE  FilesOK(m)' /\ PollOK(m)'
      <3>1. UNCHANGED <<fileVars, place>>
        BY <1>1, <2>4, PollReadsIts DEF PollReads
      <3> QED BY <1>1, <1>2, <2>3, <2>4, <3>1, PollKeepsPolls
    <2>5. ASSUME PollAllNodes \/ EndRound \/ NewCollector, NEW m \in Nodes
          PROVE  FilesOK(m)' /\ PollOK(m)'
      <3>1. UNCHANGED <<fileVars, place>>
        BY <2>5 DEF PollAllNodes, EndRound, NewCollector, ghostVars
      <3> QED BY <1>1, <1>2, <2>3, <2>5, <3>1, RoundKeepsPolls
    <2> QED BY <1>2, <1>4, <2>1, <2>2, <2>4, <2>5 DEF LogNext, LogIInv
  <1> QED BY <1>3, <1>4

\* Nothing has been written, and no poll has begun.
LEMMA LogIInvStart == LogInit => LogIInv
  <1> SUFFICES ASSUME LogInit PROVE LogIInv
    OBVIOUS
  <1>1. LogTypeOK
    BY LogTypeStart
  <1>2. LogHistoryOK
    <2>1. NoPlace \in Places
      BY DEF NoPlace, Places
    <2> QED BY <2>1 DEF LogInit, LogHistoryOK
  <1>3. ASSUME NEW n \in Nodes PROVE FilesOK(n)
    <2>1. /\ active[n] = << >> /\ gen[n] = 0 /\ written = 0
          /\ \A g \in Gens : rotated[n][g].form = "none"
      BY DEF LogInit, Absent
    <2>2. LogFiles(n) = {1} /\ LogFile(n, 1) = << >> /\ Mine(n) = {}
      BY <2>1 DEF LogFiles, OnDisk, LogFile, Mine
    <2> QED BY <2>1, <2>2 DEF FilesOK, LinesPlaced
  <1>4. ASSUME NEW n \in Nodes PROVE PollOK(n)
    <2>1. /\ joins[n] = 1 /\ gen[n] = 0 /\ cp[n] = NoCheckpoint /\ seenUID[n] = 0
          /\ boot[n] = NotBoot /\ unseen[n] = {} /\ raced[n] = {} /\ poll[n] = "none"
      BY DEF LogInit
    <2> QED BY <2>1 DEF PollOK, BetweenListAndRead, NoCheckpoint, Checkpoint, NotBoot
  <1> QED BY <1>1, <1>2, <1>3, <1>4 DEF LogIInv

\* The files, the histories and the polls are always in order: the generations on
\* disk are the newest ones, every line is where its record was written, and what is
\* still to be recovered is newer than the checkpoint.
THEOREM LogInOrder == LogSpec => []LogIInv
  <1>1. LogIInv /\ [LogNext]_logVars => LogIInv'
    BY LogIInvStep
  <1> QED BY <1>1, LogIInvStart, PTL DEF LogSpec

\* Files, checkpoints and polls keep their types, for any number of nodes and records.
THEOREM LogTypeCorrect == LogSpec => []LogTypeOK
  <1>1. LogIInv => LogTypeOK
    BY DEF LogIInv
  <1> QED BY <1>1, LogInOrder, PTL

--------------------------------------------------------------------------------
(* Nothing is skipped. *)

\* No history is ever taken back.
HistoryGrows ==
    /\ OldPlaces
    /\ \A r \in 1..written : reads'[r] >= reads[r]
    /\ \A m \in Nodes : /\ raced[m] \subseteq raced'[m]
                        /\ deleted[m] \subseteq deleted'[m]
                        /\ booted[m] \subseteq booted'[m]

\* Lines are added at the end of a file only.
FileGrows(n, g) ==
    \A i \in DOMAIN LogFile(n, g) : /\ i \in DOMAIN LogFile(n, g)'
                                   /\ LogFile(n, g)'[i] = LogFile(n, g)[i]

\* The same files, with the same lines and perhaps a new one in the active file.
FilesGrow(n) ==
    /\ gen'[n] = gen[n] /\ joins'[n] = joins[n] /\ present'[n] = present[n]
    /\ LogFiles(n)' = LogFiles(n)
    /\ \A g \in LogFiles(n) : FileGrows(n, g)
    /\ \A r \in Mine(n)' : r \in Mine(n) \/ place'[r].gen = gen[n] + 1

\* A step that takes no part in the polls of a node.
SamePoll(n) ==
    /\ cp'[n] = cp[n] /\ poll'[n] = poll[n] /\ seenUID'[n] = seenUID[n]
    /\ unseen'[n] = unseen[n] /\ boot'[n] = boot[n]

\* Every step of the system only adds to the histories.
LEMMA HistoryOnlyGrows ==
  ASSUME LogIInv, LogNext
  PROVE  HistoryGrows
  <1>1. LogTypeOK /\ LogHistoryOK /\ \A m \in Nodes : FilesOK(m) /\ PollOK(m)
    BY DEF LogIInv
  <1>2. written \in Nat /\ 1..written \subseteq Records /\ reads \in [Records -> 0..2]
    <2>1. written \in 0..MaxRecords /\ reads \in [Records -> 0..2]
      BY <1>1 DEF LogTypeOK
    <2> QED BY <2>1, LogAssumption DEF Records
  <1>3. ASSUME NEW n \in Nodes, LoggerStep(n) PROVE HistoryGrows
    <2>1. OldPlaces
      BY <1>1, <1>3, OtherNodesFiles
    <2>2. reads' = reads /\ booted' = booted
      BY <1>3 DEF LoggerStep, WriteRecord, FinishRecord, Rotate, Compress, DeleteOldest, NodeLeaves,
                  NodeReturns, ghostVars
    <2>3. \A m \in Nodes : raced[m] \subseteq raced'[m]
      <3>1. raced' = raced \/ raced' = [raced EXCEPT ![n] = @ \cup {gen[n] + 1}]
        BY <1>3 DEF LoggerStep, WriteRecord, FinishRecord, Rotate, Compress, DeleteOldest, NodeLeaves,
                    NodeReturns, ghostVars
      <3>2. raced \in [Nodes -> SUBSET Nat]
        BY <1>1 DEF LogHistoryOK
      <3> QED BY <3>1, <3>2
    <2>4. \A m \in Nodes : deleted[m] \subseteq deleted'[m]
      <3>1. deleted' = deleted \/ \E g \in Gens : deleted' = [deleted EXCEPT ![n] = @ \cup {g}]
        BY <1>3 DEF LoggerStep, WriteRecord, FinishRecord, Rotate, Compress, DeleteOldest, NodeLeaves,
                    NodeReturns, ghostVars
      <3>2. deleted \in [Nodes -> SUBSET Nat]
        BY <1>1 DEF LogHistoryOK
      <3> QED BY <3>1, <3>2
    <2>5. \A r \in 1..written : reads'[r] >= reads[r]
      BY <1>2, <2>2
    <2> QED BY <2>1, <2>2, <2>3, <2>4, <2>5 DEF HistoryGrows
  <1>4. ASSUME UNCHANGED <<written, place, raced, deleted>>,
               \A r \in Records : reads'[r] >= reads[r],
               \A m \in Nodes : booted[m] \subseteq booted'[m]
        PROVE  HistoryGrows
    BY <1>2, <1>4 DEF HistoryGrows, OldPlaces
  <1>5. ASSUME NEW n \in Nodes, PollStep(n) \/ PollFails(n) PROVE HistoryGrows
    <2>1. PollReads(n)
      BY <1>1, <1>5, PollReadsIts
    <2>2. \A r \in Records : reads'[r] >= reads[r]
      BY <1>1, <2>1, CountCounts DEF PollReads
    <2>3. UNCHANGED <<written, place, raced, deleted>> /\ \A m \in Nodes : booted[m] \subseteq booted'[m]
      BY <2>1 DEF PollReads, fileVars
    <2> QED BY <1>4, <2>2, <2>3
  <1>6. CASE PollAllNodes \/ EndRound \/ NewCollector
    <2>1. UNCHANGED <<written, place, raced, deleted, booted, reads>>
      BY <1>6 DEF PollAllNodes, EndRound, NewCollector, ghostVars, fileVars
    <2>2. \A r \in Records : reads'[r] >= reads[r]
      BY <1>2, <2>1
    <2> QED BY <1>4, <2>1, <2>2
  <1> QED BY <1>3, <1>5, <1>6 DEF LogNext

\* A record that need not be read any more stays one.
LEMMA ExcusedStays ==
  ASSUME LogIInv, HistoryGrows, LogTypeOK', NEW r \in 1..written, Excused(r)
  PROVE  Excused(r)'
  <1>1. /\ place'[r] = place[r] /\ place[r].node \in Nodes
    BY DEF HistoryGrows, OldPlaces, LogIInv, LogHistoryOK
  <1>2. reads[r] \in 0..2 /\ reads'[r] \in 0..2 /\ reads'[r] >= reads[r]
    <2>1. LogTypeOK
      BY DEF LogIInv
    <2>2. r \in Records
      <3>1. written \in 0..MaxRecords
        BY <2>1 DEF LogTypeOK
      <3> QED BY <3>1, LogAssumption DEF Records
    <2> QED BY <2>1, <2>2 DEF HistoryGrows, LogTypeOK
  <1>3. reads[r] > 0 => reads'[r] > 0
    BY <1>2
  <1> QED BY <1>1, <1>3 DEF Excused, NotPromised, HistoryGrows

\* A file on disk is a sequence of records.
LEMMA FileIsSequence ==
  ASSUME LogTypeOK, NEW n \in Nodes, NEW g \in LogFiles(n)
  PROVE  LogFile(n, g) \in Seq(Records) /\ g \in Nat \ {0}
  <1>1. gen[n] \in Nat /\ gen[n] <= MaxRotations /\ MaxRotations \in Nat
    BY NodeNumbers
  <1>2. g \in 1..(gen[n] + 1)
    BY DEF LogFiles
  <1>3. active[n] \in Seq(Records) /\ \A k \in Gens : rotated[n][k].recs \in Seq(Records)
    BY DEF LogTypeOK
  <1>4. g # gen[n] + 1 => g \in Gens
    BY <1>1, <1>2 DEF Gens
  <1> QED BY <1>1, <1>2, <1>3, <1>4 DEF LogFile

\* What was read of a file up to an offset stays read, and the offset stays in it.
LEMMA ReadUpToStays ==
  ASSUME LogIInv, HistoryGrows, LogTypeOK', NEW n \in Nodes, present[n], NEW g \in LogFiles(n),
         FileGrows(n, g), NEW offset, ReadUpTo(n, g, offset)
  PROVE  ReadUpTo(n, g, offset)'
  <1>1. LogTypeOK /\ FilesOK(n)
    BY DEF LogIInv
  <1>2. PICK i \in DOMAIN LogFile(n, g) :
           /\ End(LogFile(n, g), i) = offset
           /\ \A j \in 1..i : Excused(LogFile(n, g)[j])
    BY DEF ReadUpTo
  <1>3. i \in Nat /\ 1..i \subseteq DOMAIN LogFile(n, g)
    BY <1>1, FileIsSequence
  <1>4. \A j \in 1..i : LogFile(n, g)[j] = LogFile(n, g)'[j]
    BY <1>3 DEF FileGrows
  <1>5. End(LogFile(n, g)', i) = offset
    BY <1>2, <1>3, <1>4, EndOfPrefix
  <1>6. ASSUME NEW j \in 1..i, NEW r, r = LogFile(n, g)[j] PROVE Excused(r)' /\ r = LogFile(n, g)'[j]
    <2>1. r \in 1..written /\ Excused(r)
      BY <1>1, <1>2, <1>3, <1>6, LinesWritten
    <2> QED BY <1>4, <1>6, <2>1, ExcusedStays
  <1>7. i \in DOMAIN LogFile(n, g)'
    BY DEF FileGrows
  <1>8. \A j \in 1..i : Excused(LogFile(n, g)[j])'
    BY <1>6 DEF Excused, NotPromised
  <1> QED BY <1>5, <1>7, <1>8 DEF ReadUpTo

\* Records that are gone stay excused while the files only grow.
LEMMA GoneStays ==
  ASSUME LogIInv, HistoryGrows, LogTypeOK', NEW n \in Nodes, FilesGrow(n), GoneExcused(n)
  PROVE  GoneExcused(n)'
  <1> SUFFICES ASSUME present'[n], NEW r \in Mine(n)', place'[r].gen \notin LogFiles(n)'
               PROVE  Excused(r)'
    BY DEF GoneExcused
  <1>1. LogTypeOK
    BY DEF LogIInv
  <1>2. gen[n] + 1 \in LogFiles(n)
    BY <1>1, ActiveOnDisk
  <1>3. r \in Mine(n) /\ present[n] /\ LogFiles(n)' = LogFiles(n)
    BY <1>2 DEF FilesGrow
  <1>4. r \in 1..written /\ place'[r] = place[r]
    BY <1>3 DEF Mine, HistoryGrows, OldPlaces
  <1>5. Excused(r)
    BY <1>3, <1>4 DEF GoneExcused
  <1> QED BY <1>4, <1>5, ExcusedStays

\* So does what the checkpoint has passed.
LEMMA PassedStays ==
  ASSUME LogIInv, HistoryGrows, LogTypeOK', NEW n \in Nodes, FilesGrow(n), cp'[n] = cp[n],
         PassedExcused(n)
  PROVE  PassedExcused(n)'
  <1> SUFFICES ASSUME present'[n], cp'[n].uid = joins'[n]
               PROVE  /\ \A r \in Mine(n)' : place'[r].gen <= cp[n].last => Excused(r)'
                      /\ \A g \in LogFiles(n)' : FirstAfter(n, g, cp[n].last)' =>
                            \/ g \in raced'[n]
                            \/ g - 1 \in deleted'[n]
                            \/ cp[n].offset = 0
                            \/ ReadUpTo(n, g, cp[n].offset)'
    BY DEF PassedExcused
  <1>1. LogTypeOK /\ PollOK(n)
    BY DEF LogIInv
  <1>2. /\ present[n] /\ cp[n].uid = joins[n] /\ LogFiles(n)' = LogFiles(n)
        /\ cp[n].last <= gen[n] /\ gen[n] \in Nat /\ cp[n].last \in Nat
    BY <1>1, NodeNumbers DEF FilesGrow, PollOK
  <1>3. ASSUME NEW r \in Mine(n)', place'[r].gen <= cp[n].last PROVE Excused(r)'
    <2>1. r \in Mine(n)
      BY <1>2, <1>3 DEF FilesGrow
    <2>2. r \in 1..written /\ place'[r] = place[r]
      BY <2>1 DEF Mine, HistoryGrows, OldPlaces
    <2>3. Excused(r)
      BY <1>2, <1>3, <2>1, <2>2 DEF PassedExcused
    <2> QED BY <2>2, <2>3, ExcusedStays
  <1>4. ASSUME NEW g \in LogFiles(n), FirstAfter(n, g, cp[n].last)'
        PROVE  \/ g \in raced'[n]
               \/ g - 1 \in deleted'[n]
               \/ cp[n].offset = 0
               \/ ReadUpTo(n, g, cp[n].offset)'
    <2>1. FirstAfter(n, g, cp[n].last)
      BY <1>2, <1>4 DEF FirstAfter
    <2>2. \/ g \in raced[n]
          \/ g - 1 \in deleted[n]
          \/ cp[n].offset = 0
          \/ ReadUpTo(n, g, cp[n].offset)
      BY <1>2, <2>1 DEF PassedExcused
    <2>3. ReadUpTo(n, g, cp[n].offset) => ReadUpTo(n, g, cp[n].offset)'
      <3> DEFINE o == cp[n].offset
      <3>1. FileGrows(n, g)
        BY DEF FilesGrow
      <3>2. ASSUME NEW x, x = cp[n].offset, ReadUpTo(n, g, x) PROVE ReadUpTo(n, g, x)'
        BY <1>2, <3>1, <3>2, ReadUpToStays
      <3>3. cp'[n].offset = cp[n].offset
        OBVIOUS
      <3> QED BY <3>2, <3>3 DEF ReadUpTo
    <2> QED BY <2>2, <2>3 DEF HistoryGrows
  <1> QED BY <1>2, <1>3, <1>4

\* And so does the list of what a poll has still to recover.
LEMMA ListStays ==
  ASSUME LogIInv, HistoryGrows, NEW n \in Nodes, FilesGrow(n), SamePoll(n), ListCovers(n)
  PROVE  ListCovers(n)'
  <1>1. Working(n)' = Working(n)
    BY DEF Working, SamePoll
  <1>2. raced[n] \subseteq raced'[n]
    BY DEF HistoryGrows
  <1>3. present'[n] = present[n] /\ joins'[n] = joins[n] /\ LogFiles(n)' = LogFiles(n) /\ gen'[n] = gen[n]
    BY DEF FilesGrow
  <1>4. poll'[n] = poll[n] /\ seenUID'[n] = seenUID[n] /\ unseen'[n] = unseen[n]
    BY DEF SamePoll
  <1> QED BY <1>1, <1>2, <1>3, <1>4 DEF ListCovers, BetweenListAndRead

\* A step that leaves a file alone makes it grow, if only by nothing.
LEMMA SameFilesGrow ==
  ASSUME NEW n \in Nodes, SameFiles(n)
  PROVE  FilesGrow(n)
  <1>1. \A g \in LogFiles(n) : FileGrows(n, g)
    BY DEF SameFiles, FileGrows
  <1> QED BY <1>1 DEF SameFiles, FilesGrow

\* A step that is not about the node.
LEMMA SkipKept ==
  ASSUME LogIInv, HistoryGrows, LogTypeOK', NEW n \in Nodes, FilesGrow(n), SamePoll(n), SkipInvAt(n)
  PROVE  SkipInvAt(n)'
  BY GoneStays, PassedStays, ListStays DEF SkipInvAt, SamePoll

\* What the logger writes, finishes or compresses makes files grow.
LEMMA LoggerGrows ==
  ASSUME LogIInv, NEW n \in Nodes,
         WriteRecord(n) \/ FinishRecord(n) \/ \E g \in Gens : Compress(n, g)
  PROVE  FilesGrow(n) /\ SamePoll(n)
  <1>1. LogTypeOK /\ LogHistoryOK /\ FilesOK(n)
    BY DEF LogIInv
  <1>2. SamePoll(n)
    BY DEF WriteRecord, FinishRecord, Compress, pollVars, SamePoll
  <1>3. CASE WriteRecord(n)
    <2>1. RecordAppended(n)
      BY <1>1, <1>3, WriteEffect
    <2>2. ASSUME NEW g \in LogFiles(n) PROVE FileGrows(n, g)
      <3>1. CASE g # gen[n] + 1
        BY <2>1, <3>1 DEF RecordAppended, FileGrows
      <3>2. CASE g = gen[n] + 1
        <4>1. LogFile(n, g) = active[n] /\ LogFile(n, g)' = Append(active[n], written + 1)
              /\ active[n] \in Seq(Records)
          BY <1>1, <2>1, <3>2 DEF RecordAppended, LogFile, LogTypeOK
        <4>2. \A i \in DOMAIN active[n] : /\ i \in DOMAIN Append(active[n], written + 1)
                                          /\ Append(active[n], written + 1)[i] = active[n][i]
          BY <4>1
        <4> QED BY <4>1, <4>2 DEF FileGrows
      <3> QED BY <3>1, <3>2
    <2>3. place'[written + 1].gen = gen[n] + 1 /\ Mine(n)' = Mine(n) \cup {written + 1}
      BY <2>1 DEF RecordAppended
    <2> QED BY <1>2, <2>1, <2>2, <2>3 DEF RecordAppended, FilesGrow
  <1>4. CASE FinishRecord(n)
    <2>1. UNCHANGED <<joins, present, active, rotated, gen, written, place>>
      BY <1>4 DEF FinishRecord, ghostVars
    <2>2. OldPlaces /\ written' \in Nat
      BY <1>1, <2>1, NodeNumbers DEF OldPlaces
    <2>3. SameFiles(n)
      BY <1>1, <2>1, <2>2, SameFilesFrom, NodeNumbers
    <2> QED BY <1>2, <2>3, SameFilesGrow
  <1>5. CASE \E g \in Gens : Compress(n, g)
    <2>1. /\ gen'[n] = gen[n] /\ joins'[n] = joins[n] /\ present'[n] = present[n]
          /\ LogFiles(n)' = LogFiles(n)
          /\ \A g : LogFile(n, g)' = LogFile(n, g)
          /\ Mine(n)' = Mine(n)
      BY <1>1, <1>5, CompressEffect
    <2>2. \A g \in LogFiles(n) : FileGrows(n, g)
      BY <2>1 DEF FileGrows
    <2> QED BY <1>2, <2>1, <2>2 DEF FilesGrow
  <1> QED BY <1>3, <1>4, <1>5

\* A rotation that a poll could miss is one that raced with it.
LEMMA RotateSkips ==
  ASSUME LogIInv, HistoryGrows, LogTypeOK', NEW n \in Nodes, Rotate(n), SkipInvAt(n)
  PROVE  SkipInvAt(n)'
  <1>1. LogTypeOK /\ FilesOK(n) /\ PollOK(n) /\ LogHistoryOK
    BY DEF LogIInv
  <1>2. GenerationAdded(n)
    BY <1>1, RotateEffect
  <1>3. SamePoll(n) /\ UNCHANGED <<deleted, booted, reads, place>>
    BY DEF Rotate, pollVars, SamePoll
  <1>4. BetweenListAndRead(n) => gen[n] + 1 \in raced'[n]
    BY <1>1 DEF Rotate, LogHistoryOK
  <1>5. /\ gen[n] \in Nat /\ cp[n].last \in Nat /\ cp[n].last <= gen[n]
        /\ \A g \in LogFiles(n) : g \in Nat /\ g <= gen[n] + 1
    BY <1>1, NodeNumbers, ActiveOnDisk DEF PollOK
  <1>6. /\ gen'[n] = gen[n] + 1 /\ joins'[n] = joins[n] /\ present[n]
        /\ LogFiles(n)' = LogFiles(n) \cup {gen[n] + 2} /\ gen[n] + 1 \in LogFiles(n)
        /\ Mine(n)' = Mine(n)
        /\ \A g \in LogFiles(n) : LogFile(n, g)' = LogFile(n, g)
    BY <1>2 DEF GenerationAdded
  <1>7. raced[n] \subseteq raced'[n]
    BY DEF HistoryGrows
  <1>8. ListCovers(n)'
    <2> SUFFICES ASSUME BetweenListAndRead(n), seenUID[n] = joins[n],
                        NEW g \in LogFiles(n)', g > Working(n).last, g <= gen[n] + 1
                 PROVE  \/ \E f \in unseen[n] : f.id = g
                        \/ g \in raced'[n] /\ \A f \in unseen[n] : f.id < g
      BY <1>3, <1>6 DEF ListCovers, BetweenListAndRead, SamePoll, Working
    <2>1. CASE g = gen[n] + 1
      <3>1. \A f \in unseen[n] : f.id \in Nat /\ f.id <= gen[n]
        BY <1>1, UnseenIds
      <3>2. \A f \in unseen[n] : f.id < g
        BY <1>5, <2>1, <3>1
      <3> QED BY <1>4, <2>1, <3>2
    <2>2. CASE g # gen[n] + 1
      <3>1. g \in LogFiles(n) /\ g <= gen[n]
        BY <1>5, <1>6, <2>2
      <3>2. \/ \E f \in unseen[n] : f.id = g
            \/ g \in raced[n] /\ \A f \in unseen[n] : f.id < g
        BY <1>6, <3>1 DEF SkipInvAt, ListCovers
      <3> QED BY <1>7, <3>2
    <2> QED BY <2>1, <2>2
  <1>9. \A r \in Mine(n) : r \in 1..written /\ place'[r] = place[r]
    BY <1>3 DEF Mine
  <1>10. GoneExcused(n)'
    <2>1. \A r \in Mine(n) : place[r].gen \notin LogFiles(n) => Excused(r)'
      BY <1>6, <1>9, ExcusedStays DEF SkipInvAt, GoneExcused
    <2> QED BY <1>6, <1>9, <2>1 DEF GoneExcused
  <1>11. PassedExcused(n)'
    <2>1. ASSUME cp[n].uid = joins[n]
          PROVE  /\ \A r \in Mine(n) : place[r].gen <= cp[n].last => Excused(r)'
                 /\ \A g \in LogFiles(n)' : FirstAfter(n, g, cp[n].last)' =>
                       \/ g \in raced'[n]
                       \/ g - 1 \in deleted'[n]
                       \/ cp[n].offset = 0
                       \/ ReadUpTo(n, g, cp[n].offset)'
      <3>1. \A r \in Mine(n) : place[r].gen <= cp[n].last => Excused(r)'
        BY <1>6, <1>9, <2>1, ExcusedStays DEF SkipInvAt, PassedExcused
      <3>2. ASSUME NEW g \in LogFiles(n)', FirstAfter(n, g, cp[n].last)'
            PROVE  \/ g \in raced'[n]
                   \/ g - 1 \in deleted'[n]
                   \/ cp[n].offset = 0
                   \/ ReadUpTo(n, g, cp[n].offset)'
        <4>1. cp'[n] = cp[n]
          BY <1>3 DEF SamePoll
        <4>2. g <= gen[n] + 1
          BY <1>5, <1>6, <3>2, <4>1 DEF FirstAfter
        <4>3. g \in LogFiles(n)
          BY <1>5, <1>6, <4>2
        <4>4. FirstAfter(n, g, cp[n].last)
          BY <1>6, <3>2, <4>1, <4>3 DEF FirstAfter
        <4>5. \/ g \in raced[n]
              \/ g - 1 \in deleted[n]
              \/ cp[n].offset = 0
              \/ ReadUpTo(n, g, cp[n].offset)
          BY <1>6, <2>1, <4>3, <4>4 DEF SkipInvAt, PassedExcused
        <4>6. FileGrows(n, g)
          BY <1>6, <4>3 DEF FileGrows
        <4>7. ASSUME NEW x, x = cp[n].offset, ReadUpTo(n, g, x) PROVE ReadUpTo(n, g, x)'
          BY <1>6, <4>3, <4>6, <4>7, ReadUpToStays
        <4>8. ReadUpTo(n, g, cp[n].offset) => ReadUpTo(n, g, cp[n].offset)'
          BY <4>1, <4>7 DEF ReadUpTo
        <4> QED BY <1>3, <1>7, <4>5, <4>8
      <3> QED BY <3>1, <3>2
    <2>2. cp'[n] = cp[n]
      BY <1>3 DEF SamePoll
    <2> QED BY <1>6, <1>9, <2>1, <2>2 DEF PassedExcused
  <1> QED BY <1>8, <1>10, <1>11 DEF SkipInvAt

\* A generation is deleted after it was passed, or its deletion is remembered.
LEMMA DeleteSkips ==
  ASSUME LogIInv, HistoryGrows, LogTypeOK', NEW n \in Nodes, DeleteOldest(n), SkipInvAt(n)
  PROVE  SkipInvAt(n)'
  <1>1. LogTypeOK /\ FilesOK(n) /\ PollOK(n) /\ LogHistoryOK
    BY DEF LogIInv
  <1>2. PICK k \in Gens :
           /\ rotated[n][k].form # "none"
           /\ \A h \in Gens : h < k => rotated[n][h].form = "none"
           /\ rotated' = [rotated EXCEPT ![n][k] = Absent]
           /\ deleted' = IF k > cp[n].last \/ cp[n].uid # joins[n]
                         THEN [deleted EXCEPT ![n] = @ \cup {k}] ELSE deleted
           /\ UNCHANGED <<joins, present, active, torn, gen, written, pollVars,
                          reads, place, raced, booted, replayed>>
    BY DEF DeleteOldest
  <1>3. GenerationGone(n, k)
    BY <1>1, <1>2, DeleteEffect
  <1>4. SamePoll(n) /\ UNCHANGED <<raced, booted, reads, place>>
    BY <1>2 DEF pollVars, SamePoll
  <1>5. k > cp[n].last \/ cp[n].uid # joins[n] => k \in deleted'[n]
    BY <1>1, <1>2 DEF LogHistoryOK
  <1>6. /\ gen'[n] = gen[n] /\ joins'[n] = joins[n] /\ present'[n] = present[n]
        /\ LogFiles(n)' = LogFiles(n) \ {k} /\ k \in LogFiles(n) /\ k <= gen[n]
        /\ Mine(n)' = Mine(n) /\ \A g \in LogFiles(n) : k <= g
        /\ \A g \in LogFiles(n) \ {k} : LogFile(n, g)' = LogFile(n, g)
    BY <1>3 DEF GenerationGone
  <1>7. deleted[n] \subseteq deleted'[n]
    BY DEF HistoryGrows
  <1>8. ListCovers(n)'
    <2>1. Working(n)' = Working(n)
      BY <1>4 DEF SamePoll, Working
    <2> QED BY <1>4, <1>6, <2>1 DEF SkipInvAt, ListCovers, BetweenListAndRead, SamePoll
  <1>9. \A r \in Mine(n) : r \in 1..written /\ place'[r] = place[r] /\ place[r].node = n
    BY <1>4 DEF Mine
  <1>10. GoneExcused(n)'
    <2> SUFFICES ASSUME present[n], NEW r \in Mine(n), place[r].gen \notin LogFiles(n) \ {k}
                 PROVE  Excused(r)'
      BY <1>6, <1>9 DEF GoneExcused
    <2>1. CASE place[r].gen \notin LogFiles(n)
      BY <1>9, <2>1, ExcusedStays DEF SkipInvAt, GoneExcused
    <2>2. CASE place[r].gen = k /\ k \in deleted'[n]
      BY <1>9, <2>2 DEF Excused, NotPromised
    <2>3. CASE place[r].gen = k /\ k \notin deleted'[n]
      <3>1. cp[n].uid = joins[n] /\ ~(k > cp[n].last)
        BY <1>5, <2>3
      <3>2. place[r].gen <= cp[n].last
        BY <1>1, <2>3, <3>1, NodeNumbers DEF Gens
      <3>3. Excused(r)
        BY <3>1, <3>2 DEF SkipInvAt, PassedExcused
      <3> QED BY <1>9, <3>3, ExcusedStays
    <2> QED BY <2>1, <2>2, <2>3
  <1>11. PassedExcused(n)'
    <2>0. cp'[n] = cp[n]
      BY <1>4 DEF SamePoll
    <2>1. ASSUME present[n], cp[n].uid = joins[n]
          PROVE  /\ \A r \in Mine(n) : place[r].gen <= cp[n].last => Excused(r)'
                 /\ \A g \in LogFiles(n)' : FirstAfter(n, g, cp[n].last)' =>
                       \/ g \in raced'[n]
                       \/ g - 1 \in deleted'[n]
                       \/ cp[n].offset = 0
                       \/ ReadUpTo(n, g, cp[n].offset)'
      <3>1. \A r \in Mine(n) : place[r].gen <= cp[n].last => Excused(r)'
        BY <1>9, <2>1, ExcusedStays DEF SkipInvAt, PassedExcused
      <3>2. ASSUME NEW g \in LogFiles(n)', FirstAfter(n, g, cp[n].last)'
            PROVE  \/ g \in raced'[n]
                   \/ g - 1 \in deleted'[n]
                   \/ cp[n].offset = 0
                   \/ ReadUpTo(n, g, cp[n].offset)'
        <4>1. g \in LogFiles(n) /\ g # k
          BY <1>6
        <4>2. g > cp[n].last /\ \A h \in LogFiles(n) \ {k} : h > cp[n].last => g <= h
          BY <1>6, <2>0, <3>2 DEF FirstAfter
        <4>3. CASE FirstAfter(n, g, cp[n].last)
          <5>1. \/ g \in raced[n]
                \/ g - 1 \in deleted[n]
                \/ cp[n].offset = 0
                \/ ReadUpTo(n, g, cp[n].offset)
            BY <2>1, <4>1, <4>3 DEF SkipInvAt, PassedExcused
          <5>2. FileGrows(n, g)
            BY <1>6, <4>1 DEF FileGrows
          <5>3. ASSUME NEW x, x = cp[n].offset, ReadUpTo(n, g, x) PROVE ReadUpTo(n, g, x)'
            BY <2>1, <4>1, <5>2, <5>3, ReadUpToStays
          <5>4. ReadUpTo(n, g, cp[n].offset) => ReadUpTo(n, g, cp[n].offset)'
            BY <2>0, <5>3 DEF ReadUpTo
          <5> QED BY <1>4, <1>7, <5>1, <5>4
        <4>4. CASE ~FirstAfter(n, g, cp[n].last)
          <5>0. /\ g \in Nat /\ k \in Nat \ {0} /\ gen[n] \in Nat /\ cp[n].last \in Nat
                /\ gen[n] <= MaxRotations /\ MaxRotations \in Nat
            BY <1>1, <4>1, NodeNumbers, FileIsSequence DEF Gens
          <5>1. k > cp[n].last /\ k < g
            <6>1. PICK h \in LogFiles(n) : h > cp[n].last /\ ~(g <= h)
              BY <4>2, <4>4 DEF FirstAfter
            <6>2. h = k
              BY <4>2, <6>1
            <6> QED BY <5>0, <6>1, <6>2
          <5>2. k \in deleted'[n]
            BY <1>5, <5>1
          <5>3. k + 1 \in LogFiles(n) \ {k}
            <6>1. CASE k = gen[n]
              BY <1>1, <5>0, <6>1, ActiveOnDisk
            <6>2. CASE k < gen[n]
              <7>1. k + 1 \in k..gen[n] /\ k + 1 \in 1..gen[n]
                BY <5>0, <6>2
              <7>2. rotated[n][k + 1].form # "none"
                BY <1>1, <1>2, <7>1 DEF FilesOK
              <7> QED BY <5>0, <7>1, <7>2 DEF LogFiles, OnDisk
            <6> QED BY <1>6, <5>0, <6>1, <6>2
          <5>4. g <= k + 1
            BY <4>2, <5>0, <5>1, <5>3
          <5>5. g - 1 = k
            BY <5>0, <5>1, <5>4
          <5> QED BY <5>2, <5>5
        <4> QED BY <4>3, <4>4
      <3> QED BY <3>1, <3>2
    <2> QED BY <1>6, <1>9, <2>0, <2>1 DEF PassedExcused
  <1> QED BY <1>8, <1>10, <1>11 DEF SkipInvAt

\* What the nodes and the logger do skips nothing, of any node.
LEMMA LoggerSkips ==
  ASSUME LogIInv, HistoryGrows, LogTypeOK', NEW n \in Nodes, LoggerStep(n), NEW m \in Nodes,
         SkipInvAt(m)
  PROVE  SkipInvAt(m)'
  <1>1. LogTypeOK /\ LogHistoryOK /\ FilesOK(n) /\ PollOK(n)
    BY DEF LogIInv
  <1>2. CASE m # n
    <2>1. SameFiles(m)
      BY <1>1, <1>2, OtherNodesFiles
    <2>2. UNCHANGED pollVars
      BY DEF LoggerStep, WriteRecord, FinishRecord, Rotate, Compress, DeleteOldest, NodeLeaves,
             NodeReturns
    <2>3. SamePoll(m)
      BY <2>2 DEF pollVars, SamePoll
    <2> QED BY <2>1, <2>3, SameFilesGrow, SkipKept
  <1>3. ASSUME WriteRecord(n) \/ FinishRecord(n) \/ \E g \in Gens : Compress(n, g), m = n
        PROVE  SkipInvAt(m)'
    <2>1. FilesGrow(n) /\ SamePoll(n)
      BY <1>3, LoggerGrows
    <2> QED BY <1>3, <2>1, SkipKept
  <1>4. ASSUME NodeLeaves(n), m = n PROVE SkipInvAt(m)'
    <2>1. ~present'[n]
      BY <1>1, <1>4 DEF NodeLeaves, LogTypeOK
    <2> QED BY <1>4, <2>1 DEF SkipInvAt, ListCovers, GoneExcused, PassedExcused
  <1>5. ASSUME NodeReturns(n), m = n PROVE SkipInvAt(m)'
    <2>1. NodeIsBack(n)
      BY <1>1, <1>5, ReturnEffect
    <2>2. joins'[n] = joins[n] + 1 /\ Mine(n)' = {} /\ cp' = cp /\ seenUID' = seenUID
      BY <2>1 DEF NodeIsBack, pollVars
    <2>3. /\ cp[n].uid <= joins[n] /\ seenUID[n] <= joins[n] /\ joins[n] \in Nat
          /\ cp[n].uid \in Nat /\ seenUID[n] \in Nat
      BY <1>1, NodeNumbers DEF PollOK
    <2>4. cp'[n].uid # joins'[n] /\ seenUID'[n] # joins'[n]
      BY <2>2, <2>3
    <2> QED BY <1>5, <2>2, <2>4 DEF SkipInvAt, ListCovers, GoneExcused, PassedExcused
  <1> QED BY <1>2, <1>3, <1>4, <1>5, RotateSkips, DeleteSkips DEF LoggerStep

\* A listing finds every generation that is to be read.
LEMMA ListingCovers ==
  ASSUME LogIInv, NEW n \in Nodes, ListRotations(n)
  PROVE  ListCovers(n)'
  <1>1. LogTypeOK /\ FilesOK(n) /\ PollOK(n)
    BY DEF LogIInv
  <1>2. rotated[n] \in Listing /\ boot[n] = NotBoot /\ unseen[n] = {}
    BY <1>1 DEF LogTypeOK, Listing, ListRotations, PollOK, BetweenListAndRead
  <1>3. UNCHANGED <<joins, present, active, rotated, gen, cp, seenUID, raced>>
    BY DEF ListRotations, fileVars, ghostVars
  <1>4. LogFiles(n)' = LogFiles(n)
    BY <1>3 DEF LogFiles, OnDisk
  <1>5. \A g \in LogFiles(n) : g <= gen[n] => g \in Gens /\ rotated[n][g].form # "none"
    <2>1. gen[n] \in Nat /\ gen[n] <= MaxRotations /\ MaxRotations \in Nat
      BY <1>1, NodeNumbers
    <2> QED BY <2>1 DEF LogFiles, OnDisk, Gens
  <1>6. CASE cp[n].uid # seenUID[n]
    <2> DEFINE b == newestRotationID(list(rotated[n]))
    <2>1. b \in 0..MaxRotations /\ \A g \in Gens : rotated[n][g].form # "none" => g <= b
      BY <1>2, NewestOnDisk
    <2>2. boot'[n] = b
      BY <1>1, <1>6 DEF ListRotations, LogTypeOK
    <2> HIDE DEF b
    <2>3. b # NotBoot /\ b \in Nat
      BY <2>1, LogAssumption DEF NotBoot
    <2>4. Working(n)'.last = b
      BY <2>2, <2>3 DEF Working, Checkpoint
    <2>5. \A g \in LogFiles(n) : g <= gen[n] => ~(g > b)
      <3>1. TAKE g \in LogFiles(n)
      <3>2. HAVE g <= gen[n]
      <3>3. g <= b /\ g \in Nat
        BY <1>5, <2>1, <3>2 DEF Gens
      <3> QED BY <2>3, <3>3
    <2> QED BY <1>3, <1>4, <2>4, <2>5 DEF ListCovers
  <1>7. CASE cp[n].uid = seenUID[n]
    <2> DEFINE u == unseenRotations(list(rotated[n]), cp[n].last)
    <2>1. unseen'[n] = u /\ boot'[n] = NotBoot
      BY <1>1, <1>2, <1>7 DEF ListRotations, LogTypeOK
    <2>2. Working(n)' = cp[n]
      BY <1>3, <2>1 DEF Working
    <2>3. \A g \in LogFiles(n) : g <= gen[n] /\ g > cp[n].last => \E f \in u : f.id = g
      <3>1. TAKE g \in LogFiles(n)
      <3>2. HAVE g <= gen[n] /\ g > cp[n].last
      <3>3. PICK f \in dedupRotations(list(rotated[n])) : f.id = g
        BY <1>2, <1>5, <3>2, ListedOnce
      <3>4. f \in u
        BY <3>2, <3>3 DEF unseenRotations
      <3> QED BY <3>3, <3>4
    <2> HIDE DEF u
    <2> QED BY <1>3, <1>4, <2>1, <2>2, <2>3 DEF ListCovers
  <1> QED BY <1>6, <1>7

\* The first generation to recover is the one the offset counts in, and the only one
\* on disk between the checkpoint and itself.
LEMMA OldestIsNext ==
  ASSUME LogIInv, NEW n \in Nodes, SkipInvAt(n), poll[n] \in {"open", "relist", "reopen"},
         present[n], seenUID[n] = joins[n]
  PROVE  /\ cp[n].uid = joins[n] /\ Working(n) = cp[n] /\ boot[n] = NotBoot /\ unseen[n] # {}
         /\ Oldest(n).id > cp[n].last /\ Oldest(n).id <= gen[n] /\ Oldest(n).id \in Nat
         /\ \A g \in LogFiles(n) : g > cp[n].last => Oldest(n).id <= g
         /\ \A g \in LogFiles(n) : g > cp[n].last /\ g <= Oldest(n).id => g = Oldest(n).id
         /\ Oldest(n).id \in LogFiles(n) => FirstAfter(n, Oldest(n).id, cp[n].last)
  <1> DEFINE o == Oldest(n).id
  <1>1. LogTypeOK /\ FilesOK(n) /\ PollOK(n)
    BY DEF LogIInv
  <1>2. unseen[n] # {} /\ BetweenListAndRead(n)
    BY <1>1 DEF LogTypeOK, BetweenListAndRead
  <1>3. Oldest(n) \in unseen[n] /\ \A f \in unseen[n] : f.id \in Nat /\ o <= f.id
    BY <1>1, <1>2, OldestIsFirst DEF Gens
  <1>4. boot[n] = NotBoot /\ cp[n].uid = joins[n] /\ Working(n) = cp[n]
    BY <1>1, <1>2, WorkingType DEF PollOK
  <1>5. o > cp[n].last /\ o <= gen[n] /\ o \in Nat
    BY <1>1, <1>3, UnseenIds
  <1> HIDE DEF o
  <1>6. ASSUME NEW g \in LogFiles(n), g > cp[n].last PROVE o <= g /\ g \in Nat
    <2>1. g \in Nat /\ g <= gen[n] + 1 /\ gen[n] \in Nat
      BY <1>1, ActiveOnDisk
    <2>2. CASE g <= gen[n]
      <3>1. \/ \E f \in unseen[n] : f.id = g
            \/ \A f \in unseen[n] : f.id < g
        BY <1>2, <1>4, <1>6, <2>2 DEF SkipInvAt, ListCovers
      <3>2. o = Oldest(n).id
        BY DEF o
      <3> QED BY <1>3, <1>5, <2>1, <3>1, <3>2
    <2>3. CASE ~(g <= gen[n])
      BY <1>5, <2>1, <2>3
    <2> QED BY <2>2, <2>3
  <1>7. \A g \in LogFiles(n) : g > cp[n].last /\ g <= o => g = o
    BY <1>5, <1>6
  <1>8. o \in LogFiles(n) => FirstAfter(n, o, cp[n].last)
    BY <1>5, <1>6 DEF FirstAfter
  <1> QED BY <1>2, <1>4, <1>5, <1>6, <1>7, <1>8 DEF o

\* Every line of the generation that is recovered is excused: those behind the offset
\* are read, those before it were.
LEMMA RotationExcused ==
  ASSUME LogIInv, HistoryGrows, LogTypeOK', NEW n \in Nodes, SkipInvAt(n), ReadRotated(n),
         seenUID[n] = joins[n], NEW r \in Mine(n), place[r].gen = Oldest(n).id
  PROVE  Excused(r)'
  <1> DEFINE o == Oldest(n).id
             recs == rotated[n][o].recs
  <1>1. LogTypeOK /\ FilesOK(n) /\ PollOK(n)
    BY DEF LogIInv
  <1>2. poll[n] \in {"open", "reopen"} /\ present[n] /\ Found(n, Oldest(n))
        /\ reads' = Count(TailAfter(recs, cp[n].offset)) /\ UNCHANGED <<place, written>>
    BY DEF ReadRotated, Skip, fileVars
  <1>3. unseen[n] # {} /\ (o \in LogFiles(n) => FirstAfter(n, o, cp[n].last)) /\ cp[n].uid = joins[n]
    BY <1>2, OldestIsNext
  <1>4. o \in LogFiles(n) /\ LogFile(n, o) = recs /\ recs \in Seq(Records)
    BY <1>1, <1>2, <1>3, FoundOnDisk
  <1>5. r \in 1..written /\ place[r].node = n /\ r \in Records
    BY <1>1, NodeNumbers DEF Mine
  <1>e. Excused(r) => Excused(r)'
    BY <1>5, ExcusedStays
  <1> HIDE DEF o, recs
  <1>6. PICK i \in DOMAIN recs : recs[i] = r
    <2>1. RecordFound(n, r)
      BY <1>1, <1>2 DEF FilesOK
    <2> QED BY <1>4, <2>1 DEF RecordFound, o
  <1>7. i \in Nat /\ i - 1 \in Nat /\ 1..i \subseteq DOMAIN recs
    BY <1>4
  <1>8. CASE End(recs, i - 1) >= cp[n].offset
    <2>1. r \in TailAfter(recs, cp[n].offset)
      BY <1>6, <1>8 DEF TailAfter
    <2>2. reads'[r] > 0
      BY <1>1, <1>2, <1>5, <2>1, CountCounts
    <2> QED BY <2>2 DEF Excused
  <1>9. CASE ~(End(recs, i - 1) >= cp[n].offset)
    <2>1. cp[n].offset \in Nat /\ End(recs, i - 1) \in Nat
      BY <1>1, <1>7, LongLines, NodeNumbers
    <2>2. cp[n].offset # 0
      BY <1>9, <2>1
    <2>3. \/ o \in raced[n]
          \/ o - 1 \in deleted[n]
          \/ ReadUpTo(n, o, cp[n].offset)
      BY <1>2, <1>3, <1>4, <2>2 DEF SkipInvAt, PassedExcused
    <2>4. CASE o \in raced[n] \/ o - 1 \in deleted[n]
      BY <1>5, <1>e, <2>4 DEF Excused, o
    <2>5. CASE ReadUpTo(n, o, cp[n].offset)
      <3>1. PICK k \in DOMAIN recs : End(recs, k) = cp[n].offset /\ \A j \in 1..k : Excused(recs[j])
        BY <1>4, <2>5 DEF ReadUpTo
      <3>2. k \in Nat
        BY <1>4
      <3>3. ~(k <= i - 1)
        <4>1. k < i - 1 => End(recs, k) < End(recs, i - 1)
          BY <1>7, <3>2, EndGrows
        <4> QED BY <1>7, <1>9, <2>1, <3>1, <3>2, <4>1
      <3>4. i \in 1..k
        BY <1>4, <1>7, <3>2, <3>3
      <3> QED BY <1>6, <1>e, <3>1, <3>4
    <2> QED BY <2>3, <2>4, <2>5
  <1> QED BY <1>8, <1>9

\* The checkpoint moves past a generation once its lines are excused, or once it is gone.
LEMMA RotationSkips ==
  ASSUME LogIInv, HistoryGrows, LogTypeOK', NEW n \in Nodes, SkipInvAt(n), SameFiles(n),
         CommitRotation(n), poll[n] \in {"open", "relist", "reopen"}, present[n],
         UNCHANGED <<seenUID, boot>>,
         seenUID[n] = joins[n] =>
            \/ Oldest(n).id \notin LogFiles(n)
            \/ \A r \in Mine(n) : place[r].gen = Oldest(n).id => Excused(r)'
  PROVE  ListCovers(n)' /\ PassedExcused(n)'
  <1> DEFINE o == Oldest(n).id
  <1>1. LogTypeOK /\ FilesOK(n) /\ PollOK(n)
    BY DEF LogIInv
  <1>2. unseen[n] # {}
    BY <1>1 DEF LogTypeOK
  <1>3. /\ cp'[n] = Checkpoint(seenUID[n], 0, 0, o)
        /\ unseen'[n] = unseen[n] \ {Oldest(n)}
    BY <1>1, <1>2, RotationCommitted
  <1>4. cp'[n].uid = seenUID[n] /\ cp'[n].offset = 0 /\ cp'[n].last = o
    BY <1>3 DEF Checkpoint
  <1>5. /\ gen'[n] = gen[n] /\ joins'[n] = joins[n] /\ present'[n] = present[n]
        /\ LogFiles(n)' = LogFiles(n) /\ Mine(n)' = Mine(n)
    BY DEF SameFiles
  <1>6. CASE seenUID[n] = joins[n]
    <2>1. /\ cp[n].uid = joins[n] /\ Working(n) = cp[n] /\ boot[n] = NotBoot
          /\ o > cp[n].last /\ o <= gen[n] /\ o \in Nat
          /\ \A g \in LogFiles(n) : g > cp[n].last /\ g <= o => g = o
      BY <1>1, <1>6, OldestIsNext
    <2>2. cp[n].last \in Nat /\ gen[n] \in Nat /\ \A g \in LogFiles(n) : g \in Nat
      BY <1>1, NodeNumbers, FileIsSequence
    <2> HIDE DEF o
    <2>3. ListCovers(n)'
      <3>1. Working(n)'.last = o
        BY <1>4, <2>1 DEF Working
      <3>2. BetweenListAndRead(n)
        BY DEF BetweenListAndRead
      <3>3. ASSUME NEW g \in LogFiles(n), g > o, g <= gen[n]
            PROVE  \/ \E f \in unseen'[n] : f.id = g
                   \/ g \in raced'[n] /\ \A f \in unseen'[n] : f.id < g
        <4>1. \/ \E f \in unseen[n] : f.id = g
              \/ g \in raced[n] /\ \A f \in unseen[n] : f.id < g
          BY <1>6, <2>1, <2>2, <3>2, <3>3 DEF SkipInvAt, ListCovers
        <4>2. \A f \in unseen[n] : f.id = g => f \in unseen'[n]
          BY <1>3, <2>1, <2>2, <3>3 DEF o
        <4> QED BY <1>3, <4>1, <4>2 DEF HistoryGrows
      <3> QED BY <1>5, <3>1, <3>3 DEF ListCovers
    <2>4. ASSUME NEW r \in Mine(n), place'[r].gen <= o PROVE Excused(r)'
      <3>1. r \in 1..written /\ place'[r] = place[r] /\ r \in Records
        BY <1>1, NodeNumbers DEF Mine, HistoryGrows, OldPlaces
      <3>2. place[r].gen \in Nat
        BY <1>1, <3>1 DEF LogIInv, LogHistoryOK, Places
      <3>3. CASE place[r].gen <= cp[n].last
        BY <2>1, <3>1, <3>3, ExcusedStays DEF SkipInvAt, PassedExcused
      <3>4. CASE place[r].gen \notin LogFiles(n)
        BY <3>1, <3>4, ExcusedStays DEF SkipInvAt, GoneExcused
      <3>5. CASE place[r].gen > cp[n].last /\ place[r].gen \in LogFiles(n)
        <4>1. place[r].gen = o
          BY <2>1, <2>4, <3>1, <3>5
        <4> QED BY <1>6, <3>5, <4>1 DEF o
      <3> QED BY <2>2, <3>2, <3>3, <3>4, <3>5
    <2>5. PassedExcused(n)'
      BY <1>4, <1>5, <2>4 DEF PassedExcused
    <2> QED BY <2>3, <2>5
  <1>7. CASE seenUID[n] # joins[n]
    BY <1>4, <1>5, <1>7 DEF ListCovers, PassedExcused
  <1> QED BY <1>6, <1>7

\* A read of the active file leaves an offset up to which everything is excused.
LEMMA ActiveSkips ==
  ASSUME LogIInv, HistoryGrows, LogTypeOK', NEW n \in Nodes, SkipInvAt(n), SameFiles(n),
         present[n], poll[n] \in {"active", "refetch"}, NEW start, NEW c,
         c.offset \in Nat, c.last = Working(n).last,
         c.offset # 0 => c = cp[n] /\ boot[n] = NotBoot,
         ~streamActive(Complete(n), start, c).reset,
         CommitActive(n, c, streamActive(Complete(n), start, c))
  PROVE  PassedExcused(n)'
  <1> DEFINE recs == Complete(n)
             res == streamActive(recs, start, c)
             last == Working(n).last
             K == {k \in 1..Len(recs) : End(active[n], k) > c.offset}
  <1>1. LogTypeOK /\ FilesOK(n) /\ PollOK(n)
    BY DEF LogIInv
  <1>2. /\ reads' = Count(res.out)
        /\ cp' = [cp EXCEPT ![n] = Checkpoint(seenUID[n], res.offset, res.hash, c.last)]
        /\ booted' = IF boot[n] # NotBoot THEN [booted EXCEPT ![n] = @ \cup 1..boot[n]]
                     ELSE booted
        /\ UNCHANGED <<written, place, raced, deleted>>
    BY DEF CommitActive, fileVars
  <1>o. PICK off : off = res.offset
    OBVIOUS
  <1>3. cp'[n] = Checkpoint(seenUID[n], res.offset, res.hash, c.last)
    BY <1>1, <1>2 DEF LogTypeOK
  <1>4. cp'[n].uid = seenUID[n] /\ cp'[n].offset = off /\ cp'[n].last = last
    BY <1>3, <1>o DEF Checkpoint
  <1>5. /\ gen'[n] = gen[n] /\ joins'[n] = joins[n] /\ present'[n] = present[n]
        /\ LogFiles(n)' = LogFiles(n) /\ Mine(n)' = Mine(n)
        /\ \A g \in LogFiles(n) : LogFile(n, g)' = LogFile(n, g)
    BY DEF SameFiles
  <1>6. unseen[n] = {} /\ BetweenListAndRead(n) /\ last \in Nat /\ gen[n] \in Nat
        /\ cp[n].last \in Nat
    BY <1>1, WorkingType, NodeNumbers, LogAssumption DEF LogTypeOK, BetweenListAndRead
  <1>7. CASE seenUID[n] # joins[n]
    BY <1>4, <1>5, <1>7 DEF PassedExcused
  <1>8. CASE seenUID[n] = joins[n]
    <2>1. boot[n] = NotBoot => cp[n].uid = joins[n] /\ Working(n) = cp[n]
      BY <1>1, <1>6, <1>8, WorkingType DEF PollOK
    <2>2. ASSUME NEW r \in Mine(n), place'[r].gen <= last PROVE Excused(r)'
      <3>1. r \in 1..written /\ place'[r] = place[r] /\ place[r].node = n
        BY <1>2 DEF Mine
      <3>2. CASE boot[n] # NotBoot
        <4>1. last = boot[n]
          BY <1>1, <3>2, WorkingType
        <4>2. place[r].gen \in 1..(gen[n] + 1)
          BY <1>1 DEF FilesOK, RecordFound
        <4>3. place[r].gen \in 1..boot[n]
          BY <1>6, <2>2, <3>1, <4>1, <4>2
        <4>4. place[r].gen \in booted'[n]
          BY <1>2, <3>2, <4>3 DEF LogIInv, LogHistoryOK
        <4> QED BY <3>1, <4>4 DEF Excused, NotPromised
      <3>3. CASE boot[n] = NotBoot
        <4>1. cp[n].uid = joins[n] /\ place[r].gen <= cp[n].last
          BY <2>1, <2>2, <3>1, <3>3
        <4>2. Excused(r)
          BY <4>1 DEF SkipInvAt, PassedExcused
        <4> QED BY <3>1, <4>2, ExcusedStays
      <3> QED BY <3>2, <3>3
    <2>3. ASSUME NEW g \in LogFiles(n), FirstAfter(n, g, last)
          PROVE  g \in raced[n] \/ g - 1 \in deleted[n] \/ off = 0 \/ ReadUpTo(n, g, off)'
      <3>0. g \in Nat /\ g <= gen[n] + 1
        BY <1>1, ActiveOnDisk
      <3>1. CASE g <= gen[n]
        <4>1. g > last
          BY <2>3 DEF FirstAfter
        <4> QED BY <1>6, <1>8, <3>1, <4>1 DEF SkipInvAt, ListCovers
      <3>2. CASE g = gen[n] + 1
        <4>0. /\ LogFile(n, g) = active[n] /\ LogFile(n, g)' = active[n]
              /\ active[n] \in Seq(Records)
          <5>1. LogFile(n, g) = active[n] /\ active[n] \in Seq(Records)
            BY <1>1, <3>2, ActiveOnDisk DEF LogTypeOK
          <5> QED BY <1>5, <5>1
        <4>1. /\ recs \in Seq(Records) /\ Len(recs) <= Len(active[n])
              /\ \A i \in 1..Len(recs) : End(recs, i) = End(active[n], i)
          BY <1>1, CompleteIsPrefix DEF LogTypeOK
        <4>1a. Len(recs) \in Nat /\ DOMAIN recs = 1..Len(recs) /\ 1..Len(recs) \subseteq DOMAIN active[n]
          <5> HIDE DEF recs
          <5> QED BY <4>0, <4>1
        <4>2. res.out = {active[n][i] : i \in K}
          BY <1>1, OutIsComplete
        <4>3. /\ K = {} => off = c.offset
              /\ K # {} => Len(recs) \in K /\ off = End(active[n], Len(recs))
          <5> DEFINE fresh == {i \in DOMAIN recs : End(recs, i) > c.offset}
          <5>1. fresh = K
            BY <4>1, <4>1a
          <5>2. /\ fresh = {} => res.offset = c.offset
                /\ fresh # {} => Len(recs) \in fresh /\ res.offset = End(recs, Len(recs))
            BY <4>1, StreamActiveReads
          <5>3. Len(recs) \in K => End(recs, Len(recs)) = End(active[n], Len(recs))
            BY <4>1
          <5> HIDE DEF fresh, res, recs, K
          <5> QED BY <1>o, <5>1, <5>2, <5>3
        <4>4. c.offset # 0 => \/ g \in raced[n] \/ g - 1 \in deleted[n]
                              \/ ReadUpTo(n, g, c.offset)
          <5>1. HAVE c.offset # 0
          <5>2. cp[n].uid = joins[n] /\ Working(n) = cp[n] /\ c = cp[n]
            BY <2>1, <5>1
          <5>3. FirstAfter(n, g, cp[n].last) /\ cp[n].offset # 0
            BY <2>3, <5>1, <5>2
          <5> QED BY <5>2, <5>3 DEF SkipInvAt, PassedExcused
        <4>5. FileGrows(n, g)
          BY <4>0 DEF FileGrows
        <4>6. CASE K = {}
          <5>1. ReadUpTo(n, g, off) => ReadUpTo(n, g, off)'
            BY <4>5, ReadUpToStays
          <5> QED BY <4>3, <4>4, <4>6, <5>1
        <4>7. CASE K # {}
          <5>1. /\ Len(recs) \in DOMAIN LogFile(n, g)' /\ Len(recs) \in Nat
                /\ End(active[n], Len(recs)) = off
            BY <4>0, <4>1a, <4>3, <4>7
          <5>2. ASSUME NEW j \in 1..Len(recs), NEW r, r = active[n][j],
                       ~(g \in raced[n] \/ g - 1 \in deleted[n])
                PROVE  Excused(r)'
            <6>1. r \in 1..written /\ r \in Records /\ j \in Nat /\ j \in 1..Len(recs)
              <7>1. j \in DOMAIN LogFile(n, g)
                BY <4>0, <4>1a
              <7>2. LogFile(n, g)[j] \in 1..written /\ LogFile(n, g)[j] \in Records
                BY <1>1, <7>1, LinesWritten
              <7> QED BY <4>0, <4>1a, <5>2, <7>2
            <6>2. CASE End(active[n], j) > c.offset
              <7>1. r \in res.out
                BY <4>2, <5>2, <6>2
              <7>2. reads'[r] > 0
                BY <1>1, <1>2, <6>1, <7>1, CountCounts
              <7> QED BY <7>2 DEF Excused
            <6>3. CASE ~(End(active[n], j) > c.offset)
              <7>1. End(active[n], j) \in Nat /\ End(active[n], j) >= j /\ j >= 1
                <8>1. j \in Nat
                  BY <6>1
                <8>2. End(active[n], j) \in Nat /\ End(active[n], j) >= j
                  BY <8>1, LongLines
                <8> QED BY <6>1, <8>2
              <7>2. c.offset # 0
                BY <6>3, <7>1
              <7>3. PICK k \in DOMAIN active[n] : /\ End(active[n], k) = c.offset
                                                  /\ \A i \in 1..k : Excused(active[n][i])
                BY <4>0, <4>4, <5>2, <7>2 DEF ReadUpTo
              <7>4. k \in Nat
                BY <4>0
              <7>5. k < j => End(active[n], k) < End(active[n], j)
                BY <6>1, <7>4, EndGrows
              <7>6. j \in 1..k
                BY <6>1, <6>3, <7>1, <7>3, <7>4, <7>5
              <7>7. Excused(r)
                BY <5>2, <7>3, <7>6
              <7> QED BY <6>1, <7>7, ExcusedStays
            <6> QED BY <6>2, <6>3
          <5>3. ASSUME ~(g \in raced[n] \/ g - 1 \in deleted[n]) PROVE ReadUpTo(n, g, off)'
            <6>1. PICK i : i = Len(recs)
              OBVIOUS
            <6>2. i \in DOMAIN LogFile(n, g)' /\ End(LogFile(n, g)', i) = off
              BY <4>0, <5>1, <6>1
            <6>3. ASSUME NEW j \in 1..i, NEW r, r = LogFile(n, g)'[j] PROVE Excused(r)'
              BY <4>0, <5>2, <5>3, <6>1, <6>3
            <6>4. \A j \in 1..i : Excused(LogFile(n, g)[j])'
              BY <6>3 DEF Excused, NotPromised
            <6> QED BY <6>2, <6>4 DEF ReadUpTo
          <5> QED BY <5>3
        <4> QED BY <4>6, <4>7
      <3> QED BY <1>6, <3>0, <3>1, <3>2
    <2>4. ASSUME NEW g \in LogFiles(n)', FirstAfter(n, g, cp[n].last)'
          PROVE  \/ g \in raced'[n]
                 \/ g - 1 \in deleted'[n]
                 \/ cp'[n].offset = 0
                 \/ ReadUpTo(n, g, cp[n].offset)'
      <3>1. g \in LogFiles(n) /\ FirstAfter(n, g, last)
        BY <1>4, <1>5, <2>4 DEF FirstAfter
      <3>2. g \in raced[n] \/ g - 1 \in deleted[n] \/ off = 0 \/ ReadUpTo(n, g, off)'
        BY <2>3, <3>1
      <3>3. ReadUpTo(n, g, off)' => ReadUpTo(n, g, cp[n].offset)'
        BY <1>4 DEF ReadUpTo
      <3> QED BY <1>2, <1>4, <3>2, <3>3
    <2>5. \A r \in Mine(n)' : place'[r].gen <= cp'[n].last => Excused(r)'
      BY <1>4, <1>5, <2>2
    <2> QED BY <2>4, <2>5 DEF PassedExcused
  <1> QED BY <1>7, <1>8

\* No step of a poll skips anything of its node.
LEMMA PollSkipsNothing ==
  ASSUME LogIInv, HistoryGrows, LogTypeOK', NEW n \in Nodes, PollStep(n) \/ PollFails(n), SkipInvAt(n)
  PROVE  SkipInvAt(n)'
  <1>1. LogTypeOK /\ FilesOK(n) /\ PollOK(n) /\ LogHistoryOK
    BY DEF LogIInv
  <1>2. UNCHANGED <<fileVars, place>>
    BY <1>1, PollReadsIts DEF PollReads
  <1>3. SameFiles(n) /\ FilesGrow(n)
    BY <1>1, <1>2, FilesUntouched, SameFilesGrow
  <1>4. GoneExcused(n)'
    BY <1>3, GoneStays DEF SkipInvAt
  <1>5. ASSUME cp' = cp PROVE PassedExcused(n)'
    BY <1>3, <1>5, PassedStays DEF SkipInvAt
  <1>6. ASSUME poll'[n] \in {"none", "queued", "list", "done"} PROVE ListCovers(n)'
    BY <1>6 DEF ListCovers, BetweenListAndRead
  <1>7. ASSUME cp' = cp, seenUID' = seenUID, boot' = boot, BetweenListAndRead(n),
               \A f \in unseen[n] : \E e \in unseen'[n] : e.id = f.id,
               \A f \in unseen'[n] : \E e \in unseen[n] : e.id = f.id
        PROVE  ListCovers(n)'
    <2>1. Working(n)' = Working(n)
      BY <1>7 DEF Working
    <2>2. /\ present'[n] = present[n] /\ joins'[n] = joins[n] /\ LogFiles(n)' = LogFiles(n)
          /\ gen'[n] = gen[n] /\ raced[n] \subseteq raced'[n]
      BY <1>3 DEF FilesGrow, HistoryGrows
    <2>3. ASSUME present[n], seenUID[n] = joins[n], NEW g \in LogFiles(n), g > Working(n).last, g <= gen[n]
          PROVE  \/ \E f \in unseen'[n] : f.id = g
                 \/ g \in raced'[n] /\ \A f \in unseen'[n] : f.id < g
      <3>1. \/ \E f \in unseen[n] : f.id = g
            \/ g \in raced[n] /\ \A f \in unseen[n] : f.id < g
        BY <1>7, <2>3 DEF SkipInvAt, ListCovers
      <3> QED BY <1>7, <2>2, <3>1
    <2> QED BY <1>7, <2>1, <2>2, <2>3 DEF ListCovers
  <1>8. CASE StartPoll(n)
    <2>1. poll'[n] = "list" /\ cp' = cp
      BY <1>1, <1>8 DEF StartPoll, LogTypeOK
    <2> QED BY <1>4, <1>5, <1>6, <2>1 DEF SkipInvAt
  <1>9. CASE ListRotations(n)
    <2>1. cp' = cp
      BY <1>9 DEF ListRotations
    <2> QED BY <1>4, <1>5, <1>9, <2>1, ListingCovers DEF SkipInvAt
  <1>10. CASE ReadRotated(n)
    <2>1. /\ CommitRotation(n) /\ poll[n] \in {"open", "relist", "reopen"} /\ present[n]
          /\ UNCHANGED <<seenUID, boot>>
      BY <1>10 DEF ReadRotated
    <2>2. seenUID[n] = joins[n] => \A r \in Mine(n) : place[r].gen = Oldest(n).id => Excused(r)'
      BY <1>10, RotationExcused
    <2> QED BY <1>3, <1>4, <2>1, <2>2, RotationSkips DEF SkipInvAt
  <1>11. CASE RotatedNotFound(n)
    <2>1. cp' = cp /\ seenUID' = seenUID /\ boot' = boot /\ unseen' = unseen /\ poll[n] = "open"
      BY <1>11 DEF RotatedNotFound
    <2>2. BetweenListAndRead(n)
      BY <2>1 DEF BetweenListAndRead
    <2> QED BY <1>4, <1>5, <1>7, <2>1, <2>2 DEF SkipInvAt
  <1>12. CASE Relist(n)
    <2> DEFINE again == {f \in dedupRotations(list(rotated[n])) : f.id = Oldest(n).id}
    <2>1. /\ unseen[n] # {} /\ poll[n] = "relist" /\ present[n] /\ UNCHANGED <<seenUID, boot>>
          /\ BetweenListAndRead(n)
      BY <1>1, <1>12 DEF Relist, LogTypeOK, BetweenListAndRead
    <2>2. CASE again = {}
      <3>1. CommitRotation(n)
        BY <1>12, <2>2 DEF Relist
      <3>2. Oldest(n).id \in Gens /\ Oldest(n).id <= gen[n] /\ gen[n] \in Nat
        BY <1>1, <2>1, OldestIsFirst, UnseenIds, NodeNumbers
      <3>3. rotated[n][Oldest(n).id].form = "none"
        <4>1. rotated[n] \in Listing
          BY <1>1 DEF LogTypeOK, Listing
        <4> QED BY <2>2, <3>2, <4>1, ListedOnce
      <3>4. Oldest(n).id \notin LogFiles(n)
        BY <3>2, <3>3 DEF LogFiles, OnDisk, Gens
      <3> QED BY <1>3, <1>4, <2>1, <3>1, <3>4, RotationSkips DEF SkipInvAt
    <2>3. CASE again # {}
      <3>1. unseen'[n] = (unseen[n] \ {Oldest(n)}) \cup again /\ cp' = cp
        BY <1>1, <1>12, <2>3 DEF Relist, LogTypeOK
      <3>2. Oldest(n) \in unseen[n]
        BY <1>1, <2>1, OldestIsFirst
      <3>3. \A f \in again : f.id = Oldest(n).id
        OBVIOUS
      <3> HIDE DEF again
      <3>4. /\ \A f \in unseen[n] : \E e \in unseen'[n] : e.id = f.id
            /\ \A f \in unseen'[n] : \E e \in unseen[n] : e.id = f.id
        BY <2>3, <3>1, <3>2, <3>3
      <3> QED BY <1>4, <1>5, <1>7, <2>1, <3>1, <3>4 DEF SkipInvAt
    <2> QED BY <2>2, <2>3
  <1>13. CASE ReadActive(n)
    <2>1. PICK start \in BodyStarts(Working(n)) :
            LET c   == Working(n)
                res == streamActive(Complete(n), start, c) IN
            \/ ~res.reset /\ CommitActive(n, c, res)
            \/ /\ res.reset
               /\ poll' = [poll EXCEPT ![n] = "refetch"]
               /\ UNCHANGED <<fileVars, cp, seenUID, unseen, boot, restarts, ghostVars>>
      BY <1>13 DEF ReadActive
    <2>2. CASE /\ ~streamActive(Complete(n), start, Working(n)).reset
               /\ CommitActive(n, Working(n), streamActive(Complete(n), start, Working(n)))
      <3>1. poll'[n] = "done"
        BY <1>1, <2>2 DEF CommitActive, PollEnds, LogTypeOK
      <3>2. present[n] /\ poll[n] \in {"active", "refetch"}
        BY <1>13 DEF ReadActive
      <3>3. Working(n).offset \in Nat /\ (Working(n).offset # 0 => Working(n) = cp[n] /\ boot[n] = NotBoot)
        BY <1>1, WorkingType
      <3>4. PassedExcused(n)'
        BY <1>3, <2>2, <3>2, <3>3, ActiveSkips
      <3> QED BY <1>4, <1>6, <3>1, <3>4 DEF SkipInvAt
    <2>3. CASE /\ poll' = [poll EXCEPT ![n] = "refetch"]
               /\ UNCHANGED <<fileVars, cp, seenUID, unseen, boot, restarts, ghostVars>>
      <3>1. BetweenListAndRead(n)
        BY <1>13 DEF ReadActive, BetweenListAndRead
      <3> QED BY <1>4, <1>5, <1>7, <2>3, <3>1 DEF SkipInvAt
    <2> QED BY <2>1, <2>2, <2>3
  <1>14. CASE ReadActiveAgain(n)
    <2> DEFINE c == Checkpoint(seenUID[n], 0, 0, Working(n).last)
    <2>1. CommitActive(n, c, streamActive(Complete(n), 0, c)) /\ present[n] /\ poll[n] = "refetch"
      BY <1>14 DEF ReadActiveAgain
    <2>2. c.offset = 0 /\ c.last = Working(n).last /\ ~streamActive(Complete(n), 0, c).reset
      BY <1>1, FreshType
    <2> HIDE DEF c
    <2>3. poll'[n] = "done"
      BY <1>1, <2>1 DEF CommitActive, PollEnds, LogTypeOK
    <2>4. PassedExcused(n)'
      BY <1>3, <2>1, <2>2, ActiveSkips
    <2> QED BY <1>4, <1>6, <2>3, <2>4 DEF SkipInvAt
  <1>15. CASE PollFails(n)
    <2>1. poll'[n] = "done" /\ cp' = cp
      BY <1>1, <1>15 DEF PollFails, PollEnds, LogTypeOK
    <2> QED BY <1>4, <1>5, <1>6, <2>1 DEF SkipInvAt
  <1> QED BY <1>8, <1>9, <1>10, <1>11, <1>12, <1>13, <1>14, <1>15 DEF PollStep

\* Nor does the beginning or the end of a round, or a new collector.
LEMMA RoundSkipsNothing ==
  ASSUME LogIInv, HistoryGrows, LogTypeOK', NEW n \in Nodes, SkipInvAt(n),
         PollAllNodes \/ EndRound \/ NewCollector
  PROVE  SkipInvAt(n)'
  <1>1. LogTypeOK
    BY DEF LogIInv
  <1>2. UNCHANGED <<fileVars, place>>
    BY DEF PollAllNodes, EndRound, NewCollector, ghostVars
  <1>3. FilesGrow(n) /\ joins'[n] = joins[n] /\ joins[n] # 0
    BY <1>1, <1>2, FilesUntouched, SameFilesGrow, NodeNumbers DEF FilesGrow
  <1>4. ListCovers(n)'
    <2>1. poll'[n] \in {"none", "queued", "done"}
      BY DEF PollAllNodes, EndRound, NewCollector
    <2> QED BY <2>1 DEF ListCovers, BetweenListAndRead
  <1>5. PassedExcused(n)'
    <2>1. CASE cp'[n] = cp[n]
      BY <1>3, <2>1, PassedStays DEF SkipInvAt
    <2>2. CASE cp'[n] = NoCheckpoint
      BY <1>3, <2>2 DEF PassedExcused, NoCheckpoint, Checkpoint
    <2> QED BY <2>1, <2>2 DEF PollAllNodes, EndRound, NewCollector
  <1> QED BY <1>3, <1>4, <1>5, GoneStays DEF SkipInvAt

\* The checkpoints and the lists of a poll skip nothing, whatever step is taken.
LEMMA SkipInvStep ==
  ASSUME LogIInv, SkipInv, [LogNext]_logVars
  PROVE  SkipInv'
  <1>1. LogIInv'
    BY LogIInvStep
  <1>2. LogTypeOK /\ LogHistoryOK /\ LogTypeOK' /\ \A m \in Nodes : FilesOK(m)
    BY <1>1 DEF LogIInv
  <1>3. CASE UNCHANGED logVars
    <2>1. UNCHANGED <<fileVars, place, written, reads, raced, deleted, booted>> /\ UNCHANGED pollVars
      BY <1>3 DEF logVars, fileVars, pollVars
    <2>2. written \in Nat /\ \A r \in 1..written : reads[r] \in 0..2
      <3>1. written \in Nat /\ 1..written \subseteq Records
        BY <1>2, LogAssumption DEF LogTypeOK, Records
      <3> QED BY <1>2, <3>1 DEF LogTypeOK
    <2>3. HistoryGrows
      BY <2>1, <2>2 DEF HistoryGrows, OldPlaces
    <2>4. ASSUME NEW m \in Nodes PROVE SkipInvAt(m)'
      <3>1. UNCHANGED <<fileVars, place>>
        BY <2>1
      <3>2. FilesGrow(m)
        BY <1>2, <3>1, FilesUntouched, SameFilesGrow
      <3>3. SamePoll(m)
        BY <2>1 DEF pollVars, SamePoll
      <3> QED BY <1>2, <2>3, <3>2, <3>3, SkipKept DEF SkipInv
    <2> QED BY <2>4 DEF SkipInv
  <1>4. CASE LogNext
    <2>1. HistoryGrows
      BY <1>4, HistoryOnlyGrows
    <2>2. ASSUME NEW m \in Nodes PROVE SkipInvAt(m)'
      <3>0. SkipInvAt(m)
        BY DEF SkipInv
      <3>1. ASSUME NEW n \in Nodes, LoggerStep(n) PROVE SkipInvAt(m)'
        BY <1>2, <2>1, <3>0, <3>1, LoggerSkips
      <3>2. ASSUME NEW n \in Nodes, PollStep(n) \/ PollFails(n) PROVE SkipInvAt(m)'
        <4>1. CASE m = n
          BY <1>2, <2>1, <3>0, <3>2, <4>1, PollSkipsNothing
        <4>2. CASE m # n
          <5>1. PollReads(n)
            BY <1>2, <3>2, PollReadsIts
          <5>2. UNCHANGED <<fileVars, place>> /\ SamePoll(m)
            BY <4>2, <5>1 DEF PollReads, SamePoll
          <5>3. FilesGrow(m)
            BY <1>2, <5>2, FilesUntouched, SameFilesGrow
          <5> QED BY <1>2, <2>1, <3>0, <5>2, <5>3, SkipKept
        <4> QED BY <4>1, <4>2
      <3>3. ASSUME PollAllNodes \/ EndRound \/ NewCollector PROVE SkipInvAt(m)'
        BY <1>2, <2>1, <3>0, <3>3, RoundSkipsNothing
      <3> QED BY <1>4, <3>1, <3>2, <3>3 DEF LogNext
    <2> QED BY <2>2 DEF SkipInv
  <1> QED BY <1>3, <1>4

\* Nothing has been written when the collector starts.
LEMMA SkipInvStart == LogInit => SkipInv
  <1> SUFFICES ASSUME LogInit, NEW n \in Nodes PROVE SkipInvAt(n)
    BY DEF SkipInv
  <1>1. /\ cp[n] = NoCheckpoint /\ joins[n] = 1 /\ written = 0 /\ poll[n] = "none"
    BY DEF LogInit
  <1>2. Mine(n) = {}
    BY <1>1 DEF Mine
  <1> QED BY <1>1, <1>2 DEF SkipInvAt, ListCovers, GoneExcused, PassedExcused, BetweenListAndRead,
                            NoCheckpoint, Checkpoint

\* The invariant says of every record what NothingSkipped says of it.
LEMMA SkipInvImplies ==
  ASSUME LogIInv, SkipInv
  PROVE  NothingSkipped
  <1> SUFFICES ASSUME NEW r \in 1..written, Passed(r) PROVE Excused(r)
    BY DEF NothingSkipped, Excused
  <1> DEFINE n == place[r].node
  <1>1. LogTypeOK /\ LogHistoryOK /\ n \in Nodes
    BY DEF LogIInv, LogHistoryOK
  <1>2. FilesOK(n) /\ PollOK(n) /\ SkipInvAt(n)
    BY <1>1 DEF LogIInv, SkipInv
  <1>3. present[n] /\ joins[n] = place[r].uid /\ cp[n].uid = joins[n] /\ r \in Mine(n)
    BY <1>1 DEF Passed, Mine
  <1> HIDE DEF n
  <1>4. gen[n] \in Nat /\ cp[n].last \in Nat /\ cp[n].offset \in Nat /\ r \in Records
    BY <1>1, NodeNumbers
  <1>5. CASE place[r].gen <= cp[n].last
    BY <1>2, <1>3, <1>5 DEF SkipInvAt, PassedExcused
  <1>6. CASE place[r].gen = gen[n] + 1 /\ gen[n] = cp[n].last /\ place[r].end <= cp[n].offset
    <2> DEFINE a == gen[n] + 1
    <2>1. a \in LogFiles(n) /\ LogFile(n, a) = active[n] /\ LogFiles(n) \subseteq 1..a
          /\ active[n] \in Seq(Records)
      BY <1>1, ActiveOnDisk DEF LogTypeOK
    <2>2. PICK i \in DOMAIN active[n] : active[n][i] = r
      BY <1>2, <1>3, <1>6, <2>1 DEF FilesOK, RecordFound
    <2>3. place[r].end = End(active[n], i)
      BY <1>1, <1>2, <1>3, <2>1, <2>2, LinesWritten
    <2>4. i \in Nat \ {0} /\ End(active[n], i) \in Nat /\ End(active[n], i) >= i
      <3>1. i \in Nat \ {0}
        BY <2>1
      <3> QED BY <3>1, LongLines
    <2>5. cp[n].offset # 0
      BY <1>4, <1>6, <2>3, <2>4
    <2>6. FirstAfter(n, a, cp[n].last)
      BY <1>4, <1>6, <2>1 DEF FirstAfter
    <2>7. \/ a \in raced[n]
          \/ a - 1 \in deleted[n]
          \/ ReadUpTo(n, a, cp[n].offset)
      BY <1>2, <1>3, <2>1, <2>5, <2>6 DEF SkipInvAt, PassedExcused
    <2>8. CASE a \in raced[n] \/ a - 1 \in deleted[n]
      BY <1>6, <2>8 DEF Excused, n
    <2>9. CASE ReadUpTo(n, a, cp[n].offset)
      <3>1. PICK k \in DOMAIN active[n] : /\ End(active[n], k) = cp[n].offset
                                          /\ \A j \in 1..k : Excused(active[n][j])
        BY <2>1, <2>9 DEF ReadUpTo
      <3>2. k \in Nat
        BY <2>1
      <3>3. k < i => End(active[n], k) < End(active[n], i)
        BY <2>4, <3>2, EndGrows
      <3>4. i \in 1..k
        BY <1>4, <1>6, <2>3, <2>4, <3>1, <3>2, <3>3
      <3> QED BY <2>2, <3>1, <3>4
    <2> QED BY <2>7, <2>8, <2>9
  <1> QED BY <1>5, <1>6 DEF Passed, n

\* The checkpoint never moves past a record that was not read, save for the exceptions
\* that NothingSkipped names: whatever fails, and whenever files are renamed, compressed
\* and deleted, for any number of nodes, records, rotations and restarts (NothingSkipped
\* of the auto_mode run).
THEOREM NothingEverSkipped == LogSpec => []NothingSkipped
  <1>1. LogIInv /\ SkipInv /\ [LogNext]_logVars => LogIInv' /\ SkipInv'
    BY LogIInvStep, SkipInvStep
  <1>2. LogInit => LogIInv /\ SkipInv
    BY LogIInvStart, SkipInvStart
  <1>3. LogIInv /\ SkipInv => NothingSkipped
    BY SkipInvImplies
  <1> QED BY <1>1, <1>2, <1>3, PTL DEF LogSpec

--------------------------------------------------------------------------------
(* Nothing is read twice. *)

\* A line that has been read after a step had been read before it.
ReadBefore(n) ==
    present'[n] => \A g \in LogFiles(n)' : \A i \in DOMAIN LogFile(n, g)' :
        reads'[LogFile(n, g)'[i]] > 0 =>
           /\ g \in LogFiles(n) /\ i \in DOMAIN LogFile(n, g)
           /\ reads[LogFile(n, g)[i]] > 0
           /\ End(LogFile(n, g)', i) = End(LogFile(n, g), i)

\* The complete lines of the active file stay.
CompleteGrows(n) ==
    /\ gen'[n] = gen[n]
    /\ \A k \in DOMAIN Complete(n) : /\ k \in DOMAIN Complete(n)'
                                     /\ active'[n][k] = active[n][k]
                                     /\ End(active'[n], k) = End(active[n], k)

\* The file that the offset counts in stays the one.
FirstStaysFirst(n) ==
    \A g \in LogFiles(n)' : g \in LogFiles(n) /\ FirstAfter(n, g, cp[n].last) =>
                              FirstAfter(n, g, cp[n].last)'

\* An unread file stays unread.
LEMMA UnreadStays ==
  ASSUME NEW n \in Nodes, ReadBefore(n), present'[n], NEW g \in LogFiles(n)',
         g \in LogFiles(n) => Unread(n, g)
  PROVE  Unread(n, g)'
  BY DEF ReadBefore, Unread

\* What is behind the checkpoint stays behind it.
LEMMA OnceBehindStays ==
  ASSUME LogTypeOK, LogTypeOK', NEW n \in Nodes, ReadBefore(n), OnceBehind(n),
         present'[n] => present[n],
         joins'[n] = joins[n], cp'[n] = cp[n], FirstStaysFirst(n),
         Unread(n, gen[n] + 1)' \/ CompleteGrows(n)
  PROVE  OnceBehind(n)'
  <1> SUFFICES ASSUME present'[n] PROVE OnceBehind(n)'
    BY DEF OnceBehind
  <1>1. CASE cp[n].uid # joins[n]
    <2>1. \A g \in LogFiles(n)' : Unread(n, g)'
      BY <1>1, UnreadStays DEF OnceBehind, AllUnread
    <2> QED BY <1>1, <2>1 DEF OnceBehind, AllUnread
  <1>2. CASE cp[n].uid = joins[n]
    <2>1. ReadBeforeOffset(n)'
      BY <1>2 DEF OnceBehind, ReadBeforeOffset, ReadBefore, FirstStaysFirst
    <2>2. Recognised(n)'
      <3>1. CASE Unread(n, gen[n] + 1)'
        BY <3>1 DEF Recognised
      <3>2. CASE CompleteGrows(n)
        <4>1. PICK a : a = gen[n] + 1
          OBVIOUS
        <4>2. a \in LogFiles(n) /\ a \in LogFiles(n)' /\ gen'[n] + 1 = a
          <5>1. gen[n] \in Nat /\ gen'[n] = gen[n]
            BY <3>2, NodeNumbers DEF CompleteGrows
          <5> QED BY <4>1, <5>1 DEF LogFiles, OnDisk
        <4>3. CASE Unread(n, gen[n] + 1)
          <5>1. Unread(n, a)
            BY <4>1, <4>3
          <5>2. Unread(n, a)'
            BY <4>2, <5>1, UnreadStays
          <5>3. Unread(n, gen[n] + 1)'
            BY <4>2, <5>2 DEF Unread, LogFile
          <5> QED BY <5>3 DEF Recognised
        <4>4. CASE \E k \in DOMAIN Complete(n) : /\ End(active[n], k) = cp[n].offset
                                                 /\ active[n][k] = cp[n].hash
          BY <3>2, <4>4 DEF CompleteGrows, Recognised
        <4> QED BY <1>2, <4>3, <4>4 DEF OnceBehind, Recognised
      <3> QED BY <3>1, <3>2
    <2> QED BY <1>2, <2>1, <2>2 DEF OnceBehind
  <1> QED BY <1>1, <1>2

\* What is ahead of the poll stays ahead of it.
LEMMA OnceAheadStays ==
  ASSUME LogTypeOK, LogTypeOK', NEW n \in Nodes, ReadBefore(n), OnceAhead(n), SamePoll(n),
         present'[n] => present[n], joins'[n] = joins[n], gen'[n] >= gen[n]
  PROVE  OnceAhead(n)'
  <1>1. poll[n] \notin {"none", "done"} => seenUID[n] = joins[n]
    BY DEF OnceAhead
  <1>2. ASSUME present'[n], poll[n] = "done", seenUID[n] = 0 PROVE AllUnread(n)'
    BY <1>2, UnreadStays DEF OnceAhead, AllUnread
  <1>3. ASSUME present'[n], NEW f \in unseen[n], NEW g \in LogFiles(n)', g > f.id PROVE Unread(n, g)'
    BY <1>3, UnreadStays DEF OnceAhead
  <1>4. ASSUME present'[n], poll[n] = "refetch" PROVE Unread(n, gen[n] + 1)'
    <2>1. PICK a : a = gen'[n] + 1
      OBVIOUS
    <2>2. gen[n] \in Nat /\ gen'[n] \in Nat
      <3>1. gen'[n] \in 0..MaxRotations
        BY DEF LogTypeOK
      <3> QED BY <3>1, NodeNumbers, LogAssumption
    <2>3. a \in LogFiles(n)'
      BY <2>1, <2>2 DEF LogFiles, OnDisk
    <2>4. a \in LogFiles(n) => a = gen[n] + 1
      BY <2>1, <2>2 DEF LogFiles
    <2>5. Unread(n, gen[n] + 1)
      BY <1>4 DEF OnceAhead
    <2>6. a \in LogFiles(n) => Unread(n, a)
      BY <2>4, <2>5
    <2>7. Unread(n, a)'
      BY <1>4, <2>3, <2>6, UnreadStays
    <2> QED BY <2>1, <2>7 DEF Unread, LogFile
  <1> QED BY <1>1, <1>2, <1>3, <1>4 DEF OnceAhead, SamePoll

\* A step that does not read records of a node leaves each read at most once.
LEMMA AtMostOnceStays ==
  ASSUME LogIInv, LogTypeOK', OldPlaces, NEW n \in Nodes, AtMostOnce(n),
         \A r \in Records : (r \in 1..written => place[r].node = n) => reads'[r] = reads[r]
  PROVE  AtMostOnce(n)'
  <1> SUFFICES ASSUME NEW r \in 1..written', place'[r].node = n PROVE reads'[r] <= 1
    BY DEF AtMostOnce
  <1>1. r \in Records /\ r \in Nat /\ written \in Nat
    <2>1. written \in 0..MaxRecords /\ written' \in 0..MaxRecords
      BY DEF LogIInv, LogTypeOK
    <2> QED BY <2>1, LogAssumption DEF Records
  <1>2. CASE r \in 1..written
    BY <1>1, <1>2 DEF OldPlaces, AtMostOnce
  <1>3. CASE r \notin 1..written
    <2>1. reads[r] = 0
      BY <1>1, <1>3 DEF LogIInv, LogHistoryOK
    <2> QED BY <1>1, <1>3, <2>1
  <1> QED BY <1>2, <1>3

\* After a step that leaves the files of a node, no more lines of it have been read.
LEMMA SameReadBefore ==
  ASSUME LogIInv, NEW n \in Nodes, SameFiles(n),
         \A r \in 1..written : place[r].node = n => reads'[r] = reads[r]
  PROVE  ReadBefore(n)
  <1> SUFFICES ASSUME present[n], NEW g \in LogFiles(n), NEW i \in DOMAIN LogFile(n, g)
               PROVE  reads'[LogFile(n, g)[i]] = reads[LogFile(n, g)[i]]
    BY DEF ReadBefore, SameFiles
  <1>1. LogFile(n, g)[i] \in 1..written /\ place[LogFile(n, g)[i]].node = n
    BY LinesWritten DEF LogIInv
  <1> QED BY <1>1

\* The complete lines of a file that only grows stay complete.
LEMMA SameComplete ==
  ASSUME NEW n \in Nodes, SameFiles(n), torn'[n] = torn[n], cp'[n] = cp[n]
  PROVE  CompleteGrows(n) /\ FirstStaysFirst(n)
  <1>1. active'[n] = active[n] /\ LogFiles(n)' = LogFiles(n) /\ gen'[n] = gen[n]
    BY DEF SameFiles
  <1>2. Complete(n)' = Complete(n)
    BY <1>1 DEF Complete
  <1>3. CompleteGrows(n)
    BY <1>1, <1>2 DEF CompleteGrows
  <1>4. FirstStaysFirst(n)
    BY <1>1 DEF FirstStaysFirst, FirstAfter
  <1> QED BY <1>3, <1>4

\* A step that is not about the node reads nothing of it twice.
LEMMA OnceKept ==
  ASSUME LogIInv, LogTypeOK', OldPlaces, NEW n \in Nodes, SameFiles(n), SamePoll(n),
         torn'[n] = torn[n], OnceInv(n), Calm(n)' => Calm(n),
         \A r \in Records : (r \in 1..written => place[r].node = n) => reads'[r] = reads[r]
  PROVE  OnceInv(n)'
  <1> SUFFICES ASSUME Calm(n)' PROVE AtMostOnce(n)' /\ OnceBehind(n)' /\ OnceAhead(n)'
    BY DEF OnceInv
  <1>1. LogTypeOK /\ AtMostOnce(n) /\ OnceBehind(n) /\ OnceAhead(n)
    BY DEF OnceInv, LogIInv
  <1>2. 1..written \subseteq Records /\ gen[n] \in Nat
    BY <1>1, NodeNumbers
  <1>3. ReadBefore(n)
    BY <1>2, SameReadBefore
  <1>4. CompleteGrows(n) /\ FirstStaysFirst(n)
    BY SameComplete DEF SamePoll
  <1>5. joins'[n] = joins[n] /\ present'[n] = present[n] /\ gen'[n] >= gen[n] /\ cp'[n] = cp[n]
    BY <1>2 DEF SameFiles, SamePoll
  <1> QED BY <1>1, <1>3, <1>4, <1>5, AtMostOnceStays, OnceBehindStays, OnceAheadStays

\* Whatever the logger does to its node, no line is read by it.
LEMMA LoggerReadsNothing ==
  ASSUME LogIInv, NEW n \in Nodes, LoggerStep(n)
  PROVE  /\ reads' = reads /\ (Calm(n)' => Calm(n)) /\ SamePoll(n)
         /\ Calm(n)' /\ Rotate(n) => ~BetweenListAndRead(n)
  <1>1. reads' = reads /\ UNCHANGED pollVars
    BY DEF LoggerStep, WriteRecord, FinishRecord, Rotate, Compress, DeleteOldest, NodeLeaves,
           NodeReturns, ghostVars
  <1>2. replayed \subseteq replayed'
    BY DEF LoggerStep, WriteRecord, FinishRecord, Rotate, Compress, DeleteOldest, NodeLeaves,
           NodeReturns, ghostVars
  <1>3. raced \in [Nodes -> SUBSET Nat]
    BY DEF LogIInv, LogHistoryOK
  <1>4. raced[n] \subseteq raced'[n]
    <2>1. raced' = raced \/ raced' = [raced EXCEPT ![n] = @ \cup {gen[n] + 1}]
      BY DEF LoggerStep, WriteRecord, FinishRecord, Rotate, Compress, DeleteOldest, NodeLeaves,
             NodeReturns, ghostVars
    <2> QED BY <1>3, <2>1
  <1>5. Rotate(n) /\ BetweenListAndRead(n) => raced'[n] # {}
    BY <1>3 DEF Rotate
  <1> QED BY <1>1, <1>2, <1>4, <1>5 DEF Calm, SamePoll, pollVars

\* Nothing that is read, written, rotated, compressed or deleted changes what was read.
LEMMA LoggerReadBefore ==
  ASSUME LogIInv, NEW n \in Nodes,
         \/ WriteRecord(n) \/ FinishRecord(n) \/ Rotate(n) \/ DeleteOldest(n)
         \/ \E g \in Gens : Compress(n, g)
  PROVE  /\ ReadBefore(n) /\ FirstStaysFirst(n)
         /\ Unread(n, gen[n] + 1)' \/ CompleteGrows(n)
         /\ joins'[n] = joins[n] /\ present'[n] = present[n]
         /\ gen'[n] >= gen[n]
  <1>1. LogTypeOK /\ LogHistoryOK /\ FilesOK(n) /\ PollOK(n)
    BY DEF LogIInv
  <1>2. LoggerStep(n)
    BY DEF LoggerStep
  <1>3. reads' = reads /\ cp'[n] = cp[n]
    BY <1>2, LoggerReadsNothing DEF SamePoll
  <1>4. /\ gen[n] \in Nat /\ active[n] \in Seq(Records) /\ written \in Nat
        /\ reads \in [Records -> 0..2]
    BY <1>1, NodeNumbers DEF LogTypeOK
  <1>5. CASE WriteRecord(n)
    <2> DEFINE s == Append(active[n], written + 1)
    <2>1. RecordAppended(n)
      BY <1>1, <1>5, WriteEffect
    <2>2. /\ gen'[n] = gen[n] /\ joins'[n] = joins[n] /\ present[n] /\ present'[n] /\ ~torn[n]
          /\ LogFiles(n)' = LogFiles(n) /\ active'[n] = s
          /\ \A g \in LogFiles(n) \ {gen[n] + 1} : LogFile(n, g)' = LogFile(n, g)
      BY <2>1 DEF RecordAppended
    <2>3. reads[written + 1] = 0
      BY <1>1, <1>4, <2>1 DEF LogHistoryOK, RecordAppended
    <2>4. /\ DOMAIN s = 1..(Len(active[n]) + 1) /\ DOMAIN active[n] = 1..Len(active[n])
          /\ Len(active[n]) \in Nat
          /\ \A i \in DOMAIN active[n] : i \in Nat /\ s[i] = active[n][i]
          /\ s[Len(active[n]) + 1] = written + 1
      BY <1>4
    <2>5. \A i \in DOMAIN active[n] : End(s, i) = End(active[n], i)
      <3>1. TAKE i \in DOMAIN active[n]
      <3>2. i \in Nat /\ \A j \in 1..i : s[j] = active[n][j]
        BY <2>4
      <3> QED BY <3>2, EndOfPrefix
    <2> HIDE DEF s
    <2>6. ReadBefore(n)
      <3> SUFFICES ASSUME NEW g \in LogFiles(n)', NEW i \in DOMAIN LogFile(n, g)',
                          reads'[LogFile(n, g)'[i]] > 0
                   PROVE  /\ g \in LogFiles(n) /\ i \in DOMAIN LogFile(n, g)
                          /\ reads[LogFile(n, g)[i]] > 0
                          /\ End(LogFile(n, g)', i) = End(LogFile(n, g), i)
        BY DEF ReadBefore
      <3>1. CASE g = gen[n] + 1
        <4>1. LogFile(n, g) = active[n] /\ LogFile(n, g)' = s
          BY <2>2, <3>1 DEF LogFile
        <4>2. i # Len(active[n]) + 1
          BY <1>3, <2>3, <2>4, <4>1
        <4>3. i \in DOMAIN active[n]
          BY <2>4, <4>1, <4>2
        <4> QED BY <1>3, <2>2, <2>4, <2>5, <4>1, <4>3
      <3>2. CASE g # gen[n] + 1
        BY <1>3, <2>2, <3>2
      <3> QED BY <3>1, <3>2
    <2>7. FirstStaysFirst(n)
      BY <1>3, <2>2 DEF FirstStaysFirst, FirstAfter
    <2>8. CompleteGrows(n)
      <3>1. torn'[n]
        BY <1>1, <1>5 DEF WriteRecord, LogTypeOK
      <3>2. Complete(n) = active[n]
        BY <2>2 DEF Complete
      <3>3. Complete(n)' = Front(s)
        BY <2>2, <3>1 DEF Complete
      <3>4. DOMAIN Front(s) = DOMAIN active[n]
        BY <1>4, <2>4 DEF Front, s
      <3> QED BY <2>2, <2>4, <2>5, <3>2, <3>3, <3>4 DEF CompleteGrows
    <2> QED BY <1>4, <2>2, <2>6, <2>7, <2>8
  <1>6. CASE FinishRecord(n) \/ \E g \in Gens : Compress(n, g)
    <2>1. /\ gen' = gen /\ joins' = joins /\ present' = present /\ active' = active
          /\ LogFiles(n)' = LogFiles(n)
          /\ \A g : LogFile(n, g)' = LogFile(n, g)
      <3>1. CASE FinishRecord(n)
        BY <3>1 DEF FinishRecord, LogFiles, OnDisk, LogFile
      <3>2. CASE \E g \in Gens : Compress(n, g)
        <4>1. /\ LogFiles(n)' = LogFiles(n)
              /\ \A g : LogFile(n, g)' = LogFile(n, g)
          BY <1>1, <3>2, CompressEffect
        <4> QED BY <3>2, <4>1 DEF Compress
      <3> QED BY <1>6, <3>1, <3>2
    <2>2. ReadBefore(n) /\ FirstStaysFirst(n)
      BY <1>3, <2>1 DEF ReadBefore, FirstStaysFirst, FirstAfter
    <2>3. CompleteGrows(n)
      <3>1. \A k \in DOMAIN Complete(n) : k \in DOMAIN Complete(n)'
        <4>1. CASE FinishRecord(n)
          <5>1. Complete(n)' = active[n]
            BY <1>1, <2>1, <4>1 DEF FinishRecord, Complete, LogTypeOK
          <5>2. /\ Complete(n) \in Seq(Records) /\ Len(Complete(n)) <= Len(active[n])
            BY <1>1, CompleteIsPrefix DEF LogTypeOK
          <5> QED BY <1>4, <5>1, <5>2
        <4>2. CASE \E g \in Gens : Compress(n, g)
          <5>1. torn' = torn
            BY <4>2 DEF Compress
          <5> QED BY <2>1, <5>1 DEF Complete
        <4> QED BY <1>6, <4>1, <4>2
      <3> QED BY <2>1, <3>1 DEF CompleteGrows
    <2> QED BY <1>4, <2>1, <2>2, <2>3
  <1>7. CASE Rotate(n)
    <2>1. GenerationAdded(n)
      BY <1>1, <1>7, RotateEffect
    <2>2. /\ gen'[n] = gen[n] + 1 /\ joins'[n] = joins[n] /\ present[n] /\ present'[n]
          /\ LogFiles(n)' = LogFiles(n) \cup {gen[n] + 2}
          /\ \A g \in LogFiles(n) : LogFile(n, g)' = LogFile(n, g)
          /\ \A g : g = gen[n] + 2 => LogFile(n, g)' = << >>
          /\ active'[n] = << >>
          /\ LogFiles(n) \subseteq 1..(gen[n] + 1)
      BY <1>1, <2>1, ActiveOnDisk DEF GenerationAdded
    <2>3. ReadBefore(n)
      BY <1>3, <2>2 DEF ReadBefore
    <2>4. FirstStaysFirst(n)
      BY <1>3, <1>4, <2>2 DEF FirstStaysFirst, FirstAfter
    <2>5. Unread(n, gen[n] + 1)'
      BY <2>2 DEF Unread, LogFile
    <2> QED BY <1>4, <2>2, <2>3, <2>4, <2>5
  <1>8. CASE DeleteOldest(n)
    <2>1. PICK k \in Gens :
             /\ rotated[n][k].form # "none"
             /\ \A h \in Gens : h < k => rotated[n][h].form = "none"
             /\ rotated' = [rotated EXCEPT ![n][k] = Absent]
             /\ UNCHANGED <<joins, present, active, torn, gen, written, pollVars,
                            reads, place, raced, booted, replayed>>
      BY <1>8 DEF DeleteOldest
    <2>2. GenerationGone(n, k)
      BY <1>1, <2>1, DeleteEffect
    <2>3. /\ gen'[n] = gen[n] /\ joins'[n] = joins[n] /\ present'[n] = present[n]
          /\ LogFiles(n)' = LogFiles(n) \ {k} /\ active'[n] = active[n]
          /\ \A g \in LogFiles(n) \ {k} : LogFile(n, g)' = LogFile(n, g)
      BY <2>2 DEF GenerationGone
    <2>4. ReadBefore(n) /\ FirstStaysFirst(n)
      BY <1>3, <2>3 DEF ReadBefore, FirstStaysFirst, FirstAfter
    <2>5. CompleteGrows(n)
      BY <2>1, <2>3 DEF CompleteGrows, Complete
    <2> QED BY <1>4, <2>3, <2>4, <2>5
  <1> QED BY <1>5, <1>6, <1>7, <1>8

\* No step of the nodes and the logger makes the collector read anything twice.
LEMMA LoggerOnce ==
  ASSUME LogIInv, LogTypeOK', NEW n \in Nodes, LoggerStep(n), OnceInv(n)
  PROVE  OnceInv(n)'
  <1>1. LogTypeOK /\ LogHistoryOK /\ FilesOK(n) /\ PollOK(n)
    BY DEF LogIInv
  <1>2. reads' = reads /\ (Calm(n)' => Calm(n)) /\ SamePoll(n)
    BY LoggerReadsNothing
  <1>3. OldPlaces
    BY <1>1, OtherNodesFiles
  <1> SUFFICES ASSUME Calm(n)' PROVE AtMostOnce(n)' /\ OnceBehind(n)' /\ OnceAhead(n)'
    BY DEF OnceInv
  <1>4. AtMostOnce(n) /\ OnceBehind(n) /\ OnceAhead(n)
    BY <1>2 DEF OnceInv
  <1>5. AtMostOnce(n)'
    BY <1>2, <1>3, <1>4, AtMostOnceStays
  <1>6. CASE \/ WriteRecord(n) \/ FinishRecord(n) \/ Rotate(n) \/ DeleteOldest(n)
             \/ \E g \in Gens : Compress(n, g)
    <2>1. /\ ReadBefore(n) /\ FirstStaysFirst(n)
          /\ Unread(n, gen[n] + 1)' \/ CompleteGrows(n)
          /\ joins'[n] = joins[n] /\ present'[n] = present[n]
          /\ gen'[n] >= gen[n] /\ cp'[n] = cp[n]
      BY <1>2, <1>6, LoggerReadBefore DEF SamePoll
    <2> QED BY <1>1, <1>2, <1>4, <1>5, <2>1, OnceBehindStays, OnceAheadStays
  <1>7. CASE NodeLeaves(n)
    <2>1. ~present'[n] /\ joins'[n] = joins[n] /\ poll'[n] = poll[n] /\ seenUID'[n] = seenUID[n]
      BY <1>1, <1>2, <1>7 DEF NodeLeaves, LogTypeOK, SamePoll
    <2> QED BY <1>4, <1>5, <2>1 DEF OnceBehind, OnceAhead
  <1>8. CASE NodeReturns(n)
    <2>1. NodeIsBack(n)
      BY <1>1, <1>8, ReturnEffect
    <2>2. /\ gen'[n] = gen[n] /\ joins'[n] = joins[n] + 1 /\ LogFiles(n)' = {gen[n] + 1}
          /\ \A g : g = gen[n] + 1 => LogFile(n, g)' = << >>
      BY <2>1 DEF NodeIsBack, LogFile
    <2>3. poll[n] \in {"none", "done"}
      BY <1>8 DEF NodeReturns, Calm
    <2>9. cp[n].uid \in Nat /\ joins[n] \in Nat /\ cp[n].uid <= joins[n]
      BY <1>1, NodeNumbers DEF PollOK
    <2>10. unseen[n] = {}
      BY <1>1, <2>3 DEF LogTypeOK
    <2>4. cp[n].uid # joins[n] + 1 /\ unseen[n] = {}
      BY <2>9, <2>10
    <2>5. AllUnread(n)'
      BY <2>2 DEF AllUnread, Unread
    <2>6. cp'[n] = cp[n] /\ poll'[n] = poll[n] /\ unseen'[n] = unseen[n]
      BY <1>2 DEF SamePoll
    <2>7. OnceBehind(n)'
      BY <2>2, <2>4, <2>5, <2>6 DEF OnceBehind
    <2>8. OnceAhead(n)'
      BY <2>3, <2>4, <2>5, <2>6 DEF OnceAhead
    <2> QED BY <1>5, <2>7, <2>8
  <1> QED BY <1>6, <1>7, <1>8 DEF LoggerStep

\* A step of the poll of the node that neither reads nor moves the checkpoint.
LEMMA BehindKept ==
  ASSUME LogIInv, LogTypeOK', OldPlaces, NEW n \in Nodes, SameFiles(n), torn'[n] = torn[n],
         AtMostOnce(n), OnceBehind(n), reads' = reads, cp'[n] = cp[n]
  PROVE  AtMostOnce(n)' /\ OnceBehind(n)' /\ ReadBefore(n)
  <1>1. LogTypeOK
    BY DEF LogIInv
  <1>2. ReadBefore(n) /\ CompleteGrows(n) /\ FirstStaysFirst(n)
    BY SameReadBefore, SameComplete
  <1>3. joins'[n] = joins[n] /\ present'[n] = present[n]
    BY DEF SameFiles
  <1>4. OnceBehind(n)'
    BY <1>1, <1>2, <1>3, OnceBehindStays
  <1> QED BY <1>2, <1>4, AtMostOnceStays

\* What such a step leaves ahead of the poll.
LEMMA AheadKept ==
  ASSUME LogTypeOK, NEW n \in Nodes, SameFiles(n), ReadBefore(n), seenUID'[n] = seenUID[n],
         poll'[n] \notin {"none", "done"} => seenUID[n] = joins[n],
         present[n] /\ poll'[n] = "done" /\ seenUID[n] = 0 => AllUnread(n),
         present[n] => \A f \in unseen'[n], g \in LogFiles(n) : g > f.id => Unread(n, g),
         present[n] /\ poll'[n] = "refetch" => Unread(n, gen[n] + 1)
  PROVE  OnceAhead(n)'
  <1>1. /\ gen'[n] = gen[n] /\ joins'[n] = joins[n] /\ present'[n] = present[n]
        /\ LogFiles(n)' = LogFiles(n)
    BY DEF SameFiles
  <1>2. \A g \in LogFiles(n) : present[n] /\ Unread(n, g) => Unread(n, g)'
    BY <1>1, UnreadStays
  <1>3. present[n] /\ poll'[n] = "done" /\ seenUID[n] = 0 => AllUnread(n)'
    BY <1>1, <1>2 DEF AllUnread
  <1>4. present[n] /\ poll'[n] = "refetch" => Unread(n, gen[n] + 1)'
    <2>1. PICK a : a = gen[n] + 1
      OBVIOUS
    <2>2. a \in LogFiles(n)
      BY <2>1, ActiveOnDisk
    <2>3. present[n] /\ poll'[n] = "refetch" => Unread(n, a)'
      BY <1>2, <2>1, <2>2
    <2> QED BY <1>1, <2>1, <2>3 DEF Unread, LogFile
  <1> QED BY <1>1, <1>2, <1>3, <1>4 DEF OnceAhead

\* A listing puts on the list only generations behind which nothing has been read: what
\* has been read of files that the checkpoint has not passed is in the first of them.
LEMMA ListingOnce ==
  ASSUME LogIInv, NEW n \in Nodes, OnceBehind(n), OnceAhead(n), ListRotations(n)
  PROVE  \A f \in unseen'[n], g \in LogFiles(n) : g > f.id => Unread(n, g)
  <1>1. LogTypeOK /\ FilesOK(n)
    BY DEF LogIInv
  <1>2. present[n] /\ poll[n] = "list" /\ seenUID[n] = joins[n]
    BY DEF ListRotations, OnceAhead
  <1>3. CASE cp[n].uid # seenUID[n]
    <2>1. unseen'[n] = {}
      BY <1>1, <1>2, <1>3 DEF ListRotations, LogTypeOK
    <2> QED BY <2>1
  <1>4. CASE cp[n].uid = seenUID[n]
    <2> DEFINE u == unseenRotations(list(rotated[n]), cp[n].last)
    <2>1. unseen'[n] = u
      BY <1>1, <1>4 DEF ListRotations, LogTypeOK
    <2>2. ReadBeforeOffset(n)
      BY <1>2, <1>4 DEF OnceBehind
    <2>3. rotated[n] \in Listing
      BY <1>1 DEF LogTypeOK, Listing
    <2>4. ASSUME NEW f \in u PROVE f.id \in LogFiles(n) /\ f.id > cp[n].last /\ f.id \in Nat
      <3>1. f \in dedupRotations(list(rotated[n])) /\ f.id > cp[n].last
        BY DEF unseenRotations
      <3>2. f.id \in Gens /\ rotated[n][f.id].form # "none"
        BY <2>3, <3>1, ListedOnce
      <3>3. f.id <= gen[n] /\ gen[n] \in Nat /\ f.id \in Nat \ {0}
        BY <1>1, <3>2, NodeNumbers DEF FilesOK, Gens
      <3>4. f.id \in 1..gen[n] /\ f.id \in 1..(gen[n] + 1)
        BY <3>3
      <3> QED BY <3>1, <3>2, <3>3, <3>4 DEF LogFiles, OnDisk
    <2> HIDE DEF u
    <2>5. ASSUME NEW f \in u, NEW g \in LogFiles(n), g > f.id PROVE Unread(n, g)
      <3>1. g \in Nat /\ cp[n].last \in Nat /\ f.id \in LogFiles(n) /\ f.id > cp[n].last /\ f.id \in Nat
        BY <1>1, <2>4, FileIsSequence, NodeNumbers
      <3>2. g > cp[n].last /\ ~(g <= f.id)
        BY <2>5, <3>1
      <3>3. ~FirstAfter(n, g, cp[n].last)
        BY <3>1, <3>2 DEF FirstAfter
      <3> QED BY <2>2, <3>2, <3>3 DEF ReadBeforeOffset, Unread
    <2> QED BY <2>1, <2>5
  <1> QED BY <1>3, <1>4

\* When the checkpoint moves past a generation of which only unread lines were read, no
\* line has been read twice, and none behind that generation at all.
LEMMA RotationOnce ==
  ASSUME LogIInv, LogTypeOK', OldPlaces, NEW n \in Nodes, SkipInvAt(n), SameFiles(n),
         written' = written, AtMostOnce(n), OnceAhead(n), CommitRotation(n),
         poll[n] \in {"open", "relist", "reopen"}, present[n], seenUID' = seenUID,
         NEW rs, reads' = Count(rs),
         \A r \in rs : place[r].gen = Oldest(n).id /\ reads[r] = 0
  PROVE  AtMostOnce(n)' /\ OnceBehind(n)' /\ OnceAhead(n)'
  <1> DEFINE o == Oldest(n).id
  <1>1. LogTypeOK /\ FilesOK(n) /\ PollOK(n)
    BY DEF LogIInv
  <1>2. seenUID[n] = joins[n]
    BY DEF OnceAhead
  <1>3. unseen[n] # {} /\ o <= gen[n] /\ o \in Nat /\ gen[n] \in Nat
    BY <1>1, <1>2, OldestIsNext, NodeNumbers
  <1>4. /\ cp'[n] = Checkpoint(seenUID[n], 0, 0, o)
        /\ unseen'[n] = unseen[n] \ {Oldest(n)}
        /\ poll'[n] \in {"active", "open"}
    <2>1. poll'[n] \in {"active", "open"}
      BY <1>1 DEF CommitRotation, LogTypeOK
    <2> QED BY <1>1, <1>3, <2>1, RotationCommitted
  <1>5. cp'[n].uid = joins[n] /\ cp'[n].last = o
    BY <1>2, <1>4 DEF Checkpoint
  <1>6. /\ gen'[n] = gen[n] /\ joins'[n] = joins[n] /\ present'[n] = present[n]
        /\ LogFiles(n)' = LogFiles(n)
        /\ \A g \in LogFiles(n) : LogFile(n, g)' = LogFile(n, g)
    BY DEF SameFiles
  <1>7. Oldest(n) \in unseen[n] /\ \A f \in unseen[n] : f.id \in Nat /\ o <= f.id
    BY <1>1, <1>3, OldestIsFirst DEF Gens
  <1>8. 1..written \subseteq Records
    BY <1>1, NodeNumbers
  <1> HIDE DEF o
  <1>9. ASSUME NEW g \in LogFiles(n), g > o PROVE Unread(n, g)'
    <2>1. Unread(n, g)
      BY <1>7, <1>9 DEF OnceAhead, o
    <2>2. ASSUME NEW i \in DOMAIN LogFile(n, g), NEW r, r = LogFile(n, g)[i] PROVE ~(reads'[r] > 0)
      <3>1. r \in Records /\ place[r].gen = g
        BY <1>1, <2>2, LinesWritten
      <3>2. r \notin rs
        BY <1>3, <1>9, <3>1 DEF o
      <3>3. reads'[r] = reads[r]
        BY <1>1, <3>1, <3>2, CountCounts
      <3> QED BY <2>1, <2>2, <3>3 DEF Unread
    <2> QED BY <1>6, <2>2 DEF Unread
  <1>10. AtMostOnce(n)'
    <2>1. ASSUME NEW r \in 1..written, place[r].node = n PROVE reads'[r] <= 1
      <3>1. r \in Records
        BY <1>8
      <3>2. CASE r \in rs
        <4>1. reads'[r] = 1
          BY <1>1, <3>1, <3>2, CountCounts
        <4> QED BY <4>1
      <3>3. CASE r \notin rs
        <4>1. reads'[r] = reads[r]
          BY <1>1, <3>1, <3>3, CountCounts
        <4> QED BY <2>1, <4>1 DEF AtMostOnce
      <3> QED BY <3>2, <3>3
    <2> QED BY <2>1 DEF AtMostOnce, OldPlaces
  <1>11. PICK a : a = gen[n] + 1
    OBVIOUS
  <1>12. a \in LogFiles(n) /\ a > o
    BY <1>1, <1>3, <1>11, ActiveOnDisk
  <1>13. Unread(n, gen[n] + 1)'
    <2>1. Unread(n, a)'
      BY <1>9, <1>12
    <2> QED BY <1>6, <1>11, <2>1 DEF Unread, LogFile
  <1>14. OnceBehind(n)'
    <2>1. ReadBeforeOffset(n)'
      BY <1>5, <1>6, <1>9 DEF ReadBeforeOffset, Unread
    <2> QED BY <1>5, <1>6, <1>13, <2>1 DEF OnceBehind, Recognised
  <1>15. OnceAhead(n)'
    <2>1. ASSUME NEW f \in unseen'[n], NEW g \in LogFiles(n)', g > f.id PROVE Unread(n, g)'
      <3>1. f.id \in Nat /\ o <= f.id /\ g \in LogFiles(n) /\ g \in Nat
        BY <1>1, <1>4, <1>6, <1>7, FileIsSequence
      <3>2. g > o
        BY <1>3, <2>1, <3>1
      <3> QED BY <1>9, <3>1, <3>2
    <2> QED BY <1>2, <1>4, <1>6, <2>1 DEF OnceAhead
  <1> QED BY <1>10, <1>14, <1>15

\* What is read of a rotated generation lies behind the offset, and was not read before.
LEMMA RotatedUnread ==
  ASSUME LogIInv, NEW n \in Nodes, SkipInvAt(n), OnceBehind(n), OnceAhead(n), ReadRotated(n),
         NEW r \in TailAfter(rotated[n][Oldest(n).id].recs, Skip(n))
  PROVE  place[r].gen = Oldest(n).id /\ reads[r] = 0
  <1> DEFINE o == Oldest(n).id
  <1>1. LogTypeOK /\ FilesOK(n) /\ PollOK(n)
    BY DEF LogIInv
  <1>2. poll[n] \in {"open", "reopen"} /\ present[n] /\ Found(n, Oldest(n))
    BY DEF ReadRotated
  <1>3. seenUID[n] = joins[n]
    BY <1>2 DEF OnceAhead
  <1>4. cp[n].uid = joins[n] /\ unseen[n] # {} /\ o > cp[n].last
    BY <1>2, <1>3, OldestIsNext
  <1>5. /\ ItsRecord(n, r) /\ place[r].gen = o
        /\ \E i \in DOMAIN LogFile(n, o) :
              LogFile(n, o)[i] = r /\ End(LogFile(n, o), i - 1) >= Skip(n)
    BY <1>1, <1>2, <1>4, RotatedReads
  <1>6. o \in LogFiles(n)
    BY <1>1, <1>2, <1>4, FoundOnDisk
  <1> HIDE DEF o
  <1>7. PICK i \in DOMAIN LogFile(n, o) :
           LogFile(n, o)[i] = r /\ End(LogFile(n, o), i - 1) >= cp[n].offset
    BY <1>5 DEF Skip
  <1>8. i \in Nat \ {0} /\ i - 1 \in Nat
    <2>1. LogFile(n, o) \in Seq(Records)
      BY <1>1, <1>6, FileIsSequence
    <2> QED BY <2>1
  <1>9. ~(End(LogFile(n, o), i) <= cp[n].offset)
    <2>1. End(LogFile(n, o), i - 1) \in Nat /\ End(LogFile(n, o), i) \in Nat /\ cp[n].offset \in Nat
      BY <1>1, <1>8, LongLines, NodeNumbers
    <2>2. (i - 1) + 1 = i
      BY <1>8
    <2>3. End(LogFile(n, o), i) > End(LogFile(n, o), i - 1)
      BY <1>8, <2>2, EndStep
    <2> QED BY <1>7, <2>1, <2>3
  <1>10. ~(reads[r] > 0)
    BY <1>2, <1>4, <1>6, <1>7, <1>9 DEF OnceBehind, ReadBeforeOffset
  <1>11. reads[r] \in 0..2
    BY <1>1, <1>5 DEF ItsRecord, LogTypeOK
  <1> QED BY <1>5, <1>10, <1>11 DEF o

\* A read of the active file that does not recognise the checkpoint's line starts again
\* only where nothing was read: the line that ends at the offset is within the overlap.
LEMMA ResetUnread ==
  ASSUME LogIInv, NEW n \in Nodes, OnceBehind(n), OnceAhead(n), present[n], poll[n] = "active",
         NEW start \in BodyStarts(Working(n)),
         streamActive(Complete(n), start, Working(n)).reset
  PROVE  Unread(n, gen[n] + 1)
  <1> DEFINE recs == Complete(n)
  <1>1. LogTypeOK /\ PollOK(n) /\ BetweenListAndRead(n) /\ seenUID[n] = joins[n]
    BY DEF LogIInv, BetweenListAndRead, OnceAhead
  <1>2. /\ recs \in Seq(Records)
        /\ \A i \in 1..Len(recs) : recs[i] = active[n][i] /\ End(recs, i) = End(active[n], i)
    BY <1>1, CompleteIsPrefix DEF LogTypeOK
  <1>3. Working(n).offset \in Nat /\ Working(n).offset # 0
        /\ ~Continues(recs, start, Working(n))
    <2>1. Working(n).offset \in Nat
      BY <1>1, WorkingType
    <2> QED BY <1>2, <2>1, StreamActiveReads
  <1>4. Working(n) = cp[n] /\ cp[n].uid = joins[n]
    BY <1>1, <1>3, WorkingType DEF PollOK
  <1> SUFFICES ASSUME NEW k \in DOMAIN recs, End(active[n], k) = cp[n].offset,
                      active[n][k] = cp[n].hash
               PROVE  FALSE
    BY <1>4 DEF OnceBehind, Recognised
  <1> HIDE DEF recs
  <1>5. k \in Nat \ {0} /\ k \in 1..Len(recs)
    BY <1>2
  <1>6. End(recs, k) = cp[n].offset /\ recs[k] = cp[n].hash
    BY <1>2, <1>5
  <1>7. ASSUME start > 0 PROVE End(recs, k - 1) > start
    <2>1. start = cp[n].offset - Overlap
      BY <1>4, <1>7 DEF BodyStarts
    <2>2. (k - 1) + 1 = k /\ k - 1 \in Nat
      BY <1>5
    <2>3. End(recs, k) <= End(recs, k - 1) + 2
      BY <2>2, EndStep
    <2>4. End(recs, k - 1) \in Nat /\ cp[n].offset \in Nat /\ Overlap \in Nat /\ Overlap > 2
      BY <1>1, <2>2, LongLines, NodeNumbers, LogAssumption
    <2> QED BY <1>6, <2>1, <2>3, <2>4
  <1> QED BY <1>3, <1>4, <1>6, <1>7 DEF Continues

\* Of the active file, only lines up to the offset it is read from have been read.
LEMMA ActiveUnread ==
  ASSUME LogIInv, NEW n \in Nodes, OnceBehind(n), OnceAhead(n), present[n],
         poll[n] \in {"active", "refetch"}, NEW c,
         poll[n] = "active" => c = Working(n)
  PROVE  \A i \in DOMAIN active[n] : reads[active[n][i]] > 0 => End(active[n], i) <= c.offset
  <1>1. LogTypeOK /\ PollOK(n) /\ BetweenListAndRead(n) /\ seenUID[n] = joins[n]
    BY DEF LogIInv, BetweenListAndRead, OnceAhead
  <1>2. PICK a : a = gen[n] + 1
    OBVIOUS
  <1>3. a \in LogFiles(n) /\ LogFile(n, a) = active[n]
    BY <1>1, <1>2, ActiveOnDisk
  <1>4. CASE poll[n] = "refetch" \/ boot[n] # NotBoot
    <2>1. Unread(n, a)
      BY <1>1, <1>2, <1>3, <1>4 DEF OnceAhead, OnceBehind, AllUnread, PollOK
    <2> QED BY <1>3, <2>1 DEF Unread
  <1>5. CASE poll[n] = "active" /\ boot[n] = NotBoot
    <2>1. c = cp[n] /\ cp[n].uid = joins[n]
      BY <1>1, <1>5, WorkingType DEF PollOK
    <2>2. a > cp[n].last
      <3>1. cp[n].last <= gen[n] /\ cp[n].last \in Nat /\ gen[n] \in Nat
        BY <1>1, NodeNumbers DEF PollOK
      <3> QED BY <1>2, <3>1
    <2> QED BY <1>3, <2>1, <2>2 DEF OnceBehind, ReadBeforeOffset
  <1> QED BY <1>4, <1>5

\* What a commit of the active file leaves of it: the lines read were unread, and they and
\* all read before lie before the offset, at which the last complete line ends.
ActiveRead(n, c, off, hash) ==
    /\ AtMostOnce(n)'
    /\ off >= c.offset
    /\ \A i \in DOMAIN active[n] : reads'[active[n][i]] > 0 => End(active[n], i) <= off
    /\ \/ /\ off = c.offset /\ hash = c.hash
          /\ \A i \in DOMAIN active[n] : reads'[active[n][i]] = reads[active[n][i]]
       \/ \E k \in DOMAIN Complete(n) : End(active[n], k) = off /\ active[n][k] = hash

\* Every commit without a reset is such a commit.
LEMMA ActiveReads ==
  ASSUME LogIInv, LogTypeOK', OldPlaces, NEW n \in Nodes, written' = written,
         AtMostOnce(n), present[n], NEW start, NEW c, c.offset \in Nat,
         \A i \in DOMAIN active[n] : reads[active[n][i]] > 0 => End(active[n], i) <= c.offset,
         ~streamActive(Complete(n), start, c).reset,
         NEW res, res = streamActive(Complete(n), start, c), reads' = Count(res.out)
  PROVE  ActiveRead(n, c, res.offset, res.hash)
  <1> DEFINE recs == Complete(n)
             K == {k \in 1..Len(recs) : End(active[n], k) > c.offset}
             fresh == {i \in DOMAIN recs : End(recs, i) > c.offset}
  <1>1. LogTypeOK /\ FilesOK(n)
    BY DEF LogIInv
  <1>2. /\ recs \in Seq(Records) /\ Len(recs) <= Len(active[n])
        /\ \A i \in 1..Len(recs) : recs[i] = active[n][i] /\ End(recs, i) = End(active[n], i)
        /\ active[n] \in Seq(Records)
    BY <1>1, CompleteIsPrefix DEF LogTypeOK
  <1>3. res.out = {active[n][i] : i \in K}
    BY <1>1, OutIsComplete
  <1>4. /\ fresh = {} => res.offset = c.offset /\ res.hash = c.hash
        /\ fresh # {} => /\ Len(recs) \in fresh
                         /\ res.offset = End(recs, Len(recs))
                         /\ res.hash = recs[Len(recs)]
    BY <1>2, StreamActiveReads
  <1> HIDE DEF recs
  <1>5. Len(recs) \in Nat /\ DOMAIN recs = 1..Len(recs) /\ 1..Len(recs) \subseteq DOMAIN active[n]
    BY <1>2
  <1>6. fresh = K
    BY <1>2, <1>5
  <1> HIDE DEF fresh
  <1>7. /\ K = {} => res.offset = c.offset /\ res.hash = c.hash
        /\ K # {} => /\ Len(recs) \in K /\ Len(recs) \in DOMAIN recs
                     /\ res.offset = End(active[n], Len(recs))
                     /\ res.hash = active[n][Len(recs)]
    <2>1. Len(recs) \in K => Len(recs) \in 1..Len(recs)
      OBVIOUS
    <2> QED BY <1>2, <1>4, <1>5, <1>6, <2>1
  <1>8. /\ 1..written \subseteq Records
        /\ \A i \in DOMAIN active[n] : /\ active[n][i] \in 1..written
                                       /\ active[n][i] \in Records
                                       /\ place[active[n][i]].end = End(active[n], i)
                                       /\ i \in Nat /\ End(active[n], i) \in Nat
    <2>1. \A i \in DOMAIN active[n] : i \in Nat
      BY <1>2
    <2>2. \A i \in DOMAIN active[n] : End(active[n], i) \in Nat
      BY <2>1, LongLines
    <2>3. gen[n] + 1 \in LogFiles(n) /\ LogFile(n, gen[n] + 1) = active[n]
      BY <1>1, ActiveOnDisk
    <2>4. ASSUME NEW g \in LogFiles(n), LogFile(n, g) = active[n], NEW i \in DOMAIN active[n]
          PROVE  /\ active[n][i] \in 1..written /\ active[n][i] \in Records
                 /\ place[active[n][i]].end = End(active[n], i)
      BY <1>1, <2>4, LinesWritten
    <2> QED BY <1>1, <2>1, <2>2, <2>3, <2>4, NodeNumbers
  <1>9. ASSUME NEW r \in res.out PROVE reads[r] = 0 /\ r \in Records
    <2>1. PICK k \in K : r = active[n][k]
      BY <1>3
    <2>2. k \in DOMAIN active[n] /\ End(active[n], k) > c.offset
      BY <1>5
    <2>3. reads[r] \in 0..2 /\ r \in Records /\ End(active[n], k) \in Nat
      BY <1>1, <1>8, <2>1, <2>2 DEF LogTypeOK
    <2> QED BY <2>1, <2>2, <2>3
  <1>10. AtMostOnce(n)'
    <2>1. ASSUME NEW r \in 1..written, place[r].node = n PROVE reads'[r] <= 1
      <3>1. r \in Records
        BY <1>8
      <3>2. CASE r \in res.out
        <4>1. reads'[r] = 1
          BY <1>1, <1>9, <3>1, <3>2, CountCounts
        <4> QED BY <4>1
      <3>3. CASE r \notin res.out
        <4>1. reads'[r] = reads[r]
          BY <1>1, <3>1, <3>3, CountCounts
        <4> QED BY <2>1, <4>1 DEF AtMostOnce
      <3> QED BY <3>2, <3>3
    <2> QED BY <2>1 DEF AtMostOnce, OldPlaces
  <1>11. res.offset \in Nat /\ res.offset >= c.offset
    <2>1. CASE K = {}
      BY <1>7, <2>1
    <2>2. CASE K # {}
      <3>1. End(active[n], Len(recs)) \in Nat
        BY <1>5, LongLines
      <3>2. End(active[n], Len(recs)) > c.offset
        BY <1>7, <2>2
      <3> QED BY <1>7, <2>2, <3>1, <3>2
    <2> QED BY <2>1, <2>2
  <1>12. ASSUME NEW i \in DOMAIN active[n], reads'[active[n][i]] > 0
         PROVE  End(active[n], i) <= res.offset
    <2>1. CASE active[n][i] \in res.out
      <3>1. PICK k \in K : active[n][i] = active[n][k]
        BY <1>3, <2>1
      <3>2. k \in 1..Len(recs) /\ k \in DOMAIN active[n] /\ K # {}
        BY <1>5
      <3>3. End(active[n], i) = End(active[n], k)
        BY <1>8, <3>1, <3>2
      <3>4. k < Len(recs) => End(active[n], k) < End(active[n], Len(recs))
        BY <1>5, <3>2, EndGrows
      <3>5. res.offset = End(active[n], Len(recs))
        BY <1>7, <3>2
      <3> QED BY <1>5, <1>8, <1>11, <3>2, <3>3, <3>4, <3>5
    <2>2. CASE active[n][i] \notin res.out
      <3>1. reads'[active[n][i]] = reads[active[n][i]]
        BY <1>1, <1>8, <2>2, CountCounts
      <3>2. End(active[n], i) <= c.offset
        BY <1>12, <3>1
      <3> QED BY <1>8, <1>11, <3>2
    <2> QED BY <2>1, <2>2
  <1>13. \/ /\ res.offset = c.offset /\ res.hash = c.hash
            /\ \A i \in DOMAIN active[n] : reads'[active[n][i]] = reads[active[n][i]]
         \/ \E k \in DOMAIN recs : End(active[n], k) = res.offset /\ active[n][k] = res.hash
    <2>1. CASE K = {}
      <3>1. res.out = {}
        BY <1>3, <2>1
      <3>2. reads' = reads
        BY <1>1, <3>1, CountCounts
      <3> QED BY <1>7, <2>1, <3>2
    <2>2. CASE K # {}
      BY <1>7, <2>2
    <2> QED BY <2>1, <2>2
  <1> QED BY <1>10, <1>11, <1>12, <1>13 DEF ActiveRead, recs

\* A commit of the active file leaves a checkpoint before which all that was read lies, and
\* whose line the next read will recognise.
LEMMA ActiveOnce ==
  ASSUME LogIInv, LogTypeOK', OldPlaces, NEW n \in Nodes, SkipInvAt(n), Calm(n), SameFiles(n),
         written' = written, torn'[n] = torn[n], seenUID' = seenUID,
         AtMostOnce(n), OnceBehind(n), OnceAhead(n), present[n],
         poll[n] \in {"active", "refetch"}, NEW start, NEW c,
         c.offset \in Nat, c.last = Working(n).last, poll[n] = "active" => c = Working(n),
         c.offset # 0 => c = cp[n] /\ boot[n] = NotBoot,
         ~streamActive(Complete(n), start, c).reset,
         CommitActive(n, c, streamActive(Complete(n), start, c))
  PROVE  AtMostOnce(n)' /\ OnceBehind(n)' /\ OnceAhead(n)'
  <1> DEFINE last == Working(n).last
  <1>1. LogTypeOK /\ FilesOK(n) /\ PollOK(n) /\ BetweenListAndRead(n) /\ seenUID[n] = joins[n]
    BY DEF LogIInv, BetweenListAndRead, OnceAhead
  <1>2. PICK res : res = streamActive(Complete(n), start, c)
    OBVIOUS
  <1>3. /\ reads' = Count(res.out)
        /\ cp' = [cp EXCEPT ![n] = Checkpoint(seenUID[n], res.offset, res.hash, c.last)]
        /\ poll' = [poll EXCEPT ![n] = "done"]
        /\ unseen' = [unseen EXCEPT ![n] = {}]
    BY <1>2 DEF CommitActive, PollEnds
  <1>4. PICK off, hash : off = res.offset /\ hash = res.hash
    OBVIOUS
  <1>5. ActiveRead(n, c, off, hash)
    <2>1. \A i \in DOMAIN active[n] : reads[active[n][i]] > 0 => End(active[n], i) <= c.offset
      BY ActiveUnread
    <2>2. ActiveRead(n, c, res.offset, res.hash)
      BY <1>2, <1>3, <2>1, ActiveReads
    <2> QED BY <1>4, <2>2
  <1>6. cp'[n] = Checkpoint(joins[n], off, hash, last) /\ poll'[n] = "done" /\ unseen'[n] = {}
    BY <1>1, <1>3, <1>4 DEF LogTypeOK
  <1>7. cp'[n].uid = joins[n] /\ cp'[n].offset = off /\ cp'[n].hash = hash /\ cp'[n].last = last
    BY <1>6 DEF Checkpoint
  <1>8. /\ gen'[n] = gen[n] /\ joins'[n] = joins[n] /\ present'[n] = present[n]
        /\ LogFiles(n)' = LogFiles(n) /\ active'[n] = active[n]
        /\ \A g \in LogFiles(n) : LogFile(n, g)' = LogFile(n, g)
    BY DEF SameFiles
  <1>9. PICK a : a = gen[n] + 1
    OBVIOUS
  <1>10. /\ a \in LogFiles(n) /\ LogFile(n, a) = active[n] /\ gen[n] \in Nat
         /\ LogFiles(n) \subseteq 1..a /\ active[n] \in Seq(Records)
    BY <1>1, <1>9, ActiveOnDisk DEF LogTypeOK
  <1> HIDE DEF last
  <1>11. \A g \in LogFiles(n) : g > last => g = a
    <2>1. ASSUME NEW g \in LogFiles(n), g > last PROVE ~(g <= gen[n])
      <3>1. unseen[n] = {} /\ raced[n] = {}
        BY <1>1 DEF LogTypeOK, Calm
      <3> QED BY <1>1, <2>1, <3>1 DEF SkipInvAt, ListCovers, last
    <2> QED BY <1>9, <1>10, <2>1
  <1>12. ReadBeforeOffset(n)'
    <2>1. ASSUME NEW g \in LogFiles(n), NEW i \in DOMAIN LogFile(n, g), g > last,
                 reads'[LogFile(n, g)[i]] > 0
          PROVE  FirstAfter(n, g, last) /\ End(LogFile(n, g), i) <= off
      <3>1. g = a /\ g \in Nat
        BY <1>10, <1>11, <2>1
      <3>2. FirstAfter(n, g, last)
        BY <1>11, <2>1, <3>1 DEF FirstAfter
      <3> QED BY <1>5, <1>10, <2>1, <3>1, <3>2 DEF ActiveRead
    <2>2. \A g \in LogFiles(n) : FirstAfter(n, g, last) => FirstAfter(n, g, cp[n].last)'
      BY <1>7, <1>8 DEF FirstAfter
    <2> QED BY <1>7, <1>8, <2>1, <2>2 DEF ReadBeforeOffset
  <1>13. Complete(n)' = Complete(n)
    BY <1>8 DEF Complete
  <1>14. Recognised(n)'
    <2>1. ASSUME NEW k \in DOMAIN Complete(n), End(active[n], k) = off, active[n][k] = hash
          PROVE  Recognised(n)'
      BY <1>7, <1>8, <1>13, <2>1 DEF Recognised
    <2>2. ASSUME \A i \in DOMAIN active[n] : ~(reads'[active[n][i]] > 0) PROVE Recognised(n)'
      <3>1. Unread(n, a)'
        BY <1>8, <1>10, <2>2 DEF Unread
      <3>2. Unread(n, gen[n] + 1)'
        BY <1>8, <1>9, <3>1 DEF Unread, LogFile
      <3> QED BY <3>2 DEF Recognised
    <2>3. ASSUME off = c.offset, hash = c.hash,
                 \A i \in DOMAIN active[n] : reads'[active[n][i]] = reads[active[n][i]]
          PROVE  Recognised(n)'
      <3>1. CASE c.offset = 0
        <4>1. \A i \in DOMAIN active[n] : ~(End(active[n], i) <= 0)
          <5>1. \A i \in DOMAIN active[n] : i \in Nat \ {0}
            BY <1>10
          <5>2. \A i \in DOMAIN active[n] : End(active[n], i) \in Nat /\ End(active[n], i) >= i
            BY <5>1, LongLines
          <5> QED BY <5>1, <5>2
        <4>2. \A i \in DOMAIN active[n] : ~(reads'[active[n][i]] > 0)
          BY <1>5, <2>3, <3>1, <4>1 DEF ActiveRead
        <4> QED BY <2>2, <4>2
      <3>2. CASE c.offset # 0
        <4>1. c = cp[n] /\ cp[n].uid = joins[n]
          BY <1>1, <3>2 DEF PollOK
        <4>2. \/ Unread(n, a)
              \/ \E k \in DOMAIN Complete(n) : End(active[n], k) = off /\ active[n][k] = hash
          BY <1>9, <2>3, <4>1 DEF OnceBehind, Recognised
        <4>3. CASE Unread(n, a)
          BY <1>10, <2>2, <2>3, <4>3 DEF Unread
        <4> QED BY <2>1, <4>2, <4>3
      <3> QED BY <3>1, <3>2
    <2> QED BY <1>5, <2>1, <2>3 DEF ActiveRead
  <1>15. OnceBehind(n)'
    BY <1>7, <1>8, <1>12, <1>14 DEF OnceBehind
  <1>16. OnceAhead(n)'
    <2>1. seenUID'[n] # 0
      BY <1>1, NodeNumbers
    <2> QED BY <1>6, <2>1 DEF OnceAhead
  <1> QED BY <1>5, <1>15, <1>16 DEF ActiveRead

\* No step of a poll reads a line of its node that was read before, while the node is calm.
LEMMA PollOnce ==
  ASSUME LogIInv, LogTypeOK', NEW n \in Nodes, SkipInvAt(n), PollStep(n) \/ PollFails(n), OnceInv(n)
  PROVE  OnceInv(n)'
  <1>1. LogTypeOK /\ LogHistoryOK /\ FilesOK(n) /\ PollOK(n)
    BY DEF LogIInv
  <1>2. UNCHANGED <<fileVars, place, raced>> /\ seenUID' = seenUID /\ replayed \subseteq replayed'
    BY <1>1, PollReadsIts DEF PollReads
  <1>3. OldPlaces /\ SameFiles(n) /\ written' = written /\ torn'[n] = torn[n]
    <2>1. torn' = torn /\ written' = written
      BY <1>2 DEF fileVars
    <2> QED BY <1>1, <1>2, <2>1, FilesUntouched
  <1> SUFFICES ASSUME Calm(n)' PROVE AtMostOnce(n)' /\ OnceBehind(n)' /\ OnceAhead(n)'
    BY DEF OnceInv
  <1>4. Calm(n)
    BY <1>2 DEF Calm
  <1>5. AtMostOnce(n) /\ OnceBehind(n) /\ OnceAhead(n)
    BY <1>4 DEF OnceInv
  <1>6. ASSUME reads' = reads, cp'[n] = cp[n]
        PROVE  AtMostOnce(n)' /\ OnceBehind(n)' /\ ReadBefore(n)
    BY <1>3, <1>5, <1>6, BehindKept
  <1>7. ASSUME poll[n] \notin {"none", "done"} PROVE seenUID[n] = joins[n] /\ seenUID[n] # 0
    BY <1>1, <1>5, <1>7, NodeNumbers DEF OnceAhead
  <1>8. CASE StartPoll(n)
    <2>1. /\ reads' = reads /\ cp'[n] = cp[n] /\ unseen' = unseen
          /\ poll[n] = "queued" /\ poll'[n] = "list"
      BY <1>1, <1>8 DEF StartPoll, LogTypeOK, ghostVars
    <2>2. present[n] => \A f \in unseen'[n], g \in LogFiles(n) : g > f.id => Unread(n, g)
      BY <1>5, <2>1 DEF OnceAhead
    <2> QED BY <1>1, <1>2, <1>3, <1>6, <1>7, <2>1, <2>2, AheadKept
  <1>9. CASE ListRotations(n)
    <2>1. reads' = reads /\ cp'[n] = cp[n] /\ poll[n] = "list"
      BY <1>9 DEF ListRotations, ghostVars
    <2>2. poll'[n] \in {"active", "open"}
      BY <1>1, <1>9 DEF ListRotations, LogTypeOK
    <2>3. \A f \in unseen'[n], g \in LogFiles(n) : g > f.id => Unread(n, g)
      BY <1>5, <1>9, ListingOnce
    <2> QED BY <1>1, <1>2, <1>3, <1>6, <1>7, <2>1, <2>2, <2>3, AheadKept
  <1>10. CASE ReadRotated(n)
    <2> DEFINE rs == TailAfter(rotated[n][Oldest(n).id].recs, Skip(n))
    <2>1. /\ CommitRotation(n) /\ poll[n] \in {"open", "relist", "reopen"} /\ present[n]
          /\ reads' = Count(rs)
      BY <1>10 DEF ReadRotated
    <2>2. \A r \in rs : place[r].gen = Oldest(n).id /\ reads[r] = 0
      BY <1>5, <1>10, RotatedUnread
    <2> HIDE DEF rs
    <2> QED BY <1>2, <1>3, <1>5, <2>1, <2>2, RotationOnce
  <1>11. CASE RotatedNotFound(n)
    <2>1. /\ reads' = reads /\ cp'[n] = cp[n] /\ unseen' = unseen
          /\ poll[n] = "open" /\ poll'[n] = "relist"
      BY <1>1, <1>11 DEF RotatedNotFound, LogTypeOK, ghostVars
    <2>2. present[n] => \A f \in unseen'[n], g \in LogFiles(n) : g > f.id => Unread(n, g)
      BY <1>5, <2>1 DEF OnceAhead
    <2> QED BY <1>1, <1>2, <1>3, <1>6, <1>7, <2>1, <2>2, AheadKept
  <1>12. CASE Relist(n)
    <2> DEFINE again == {f \in dedupRotations(list(rotated[n])) : f.id = Oldest(n).id}
    <2>1. poll[n] = "relist" /\ present[n] /\ reads' = reads /\ unseen[n] # {}
      BY <1>1, <1>12 DEF Relist, LogTypeOK, ghostVars
    <2>2. CASE again = {}
      <3>1. CommitRotation(n) /\ reads' = Count({})
        BY <1>1, <1>12, <2>1, <2>2, CountCounts DEF Relist
      <3> QED BY <1>2, <1>3, <1>5, <2>1, <3>1, RotationOnce
    <2>3. CASE again # {}
      <3>1. /\ unseen'[n] = (unseen[n] \ {Oldest(n)}) \cup again /\ cp'[n] = cp[n]
            /\ poll'[n] = "reopen"
        BY <1>1, <1>12, <2>3 DEF Relist, LogTypeOK
      <3>2. Oldest(n) \in unseen[n]
        BY <1>1, <2>1, OldestIsFirst
      <3>3. \A f \in again : f.id = Oldest(n).id
        OBVIOUS
      <3> HIDE DEF again
      <3>4. \A f \in unseen'[n] : \E e \in unseen[n] : e.id = f.id
        BY <3>1, <3>2, <3>3
      <3>5. \A f \in unseen'[n], g \in LogFiles(n) : g > f.id => Unread(n, g)
        BY <1>5, <2>1, <3>4 DEF OnceAhead
      <3> QED BY <1>1, <1>2, <1>3, <1>6, <1>7, <2>1, <3>1, <3>5, AheadKept
    <2> QED BY <2>2, <2>3
  <1>13. CASE ReadActive(n)
    <2>1. PICK start \in BodyStarts(Working(n)) :
            LET c   == Working(n)
                res == streamActive(Complete(n), start, c) IN
            \/ ~res.reset /\ CommitActive(n, c, res)
            \/ /\ res.reset
               /\ poll' = [poll EXCEPT ![n] = "refetch"]
               /\ UNCHANGED <<fileVars, cp, seenUID, unseen, boot, restarts, ghostVars>>
      BY <1>13 DEF ReadActive
    <2>2. poll[n] = "active" /\ present[n] /\ unseen[n] = {}
      BY <1>1, <1>13 DEF ReadActive, LogTypeOK
    <2>3. CASE /\ ~streamActive(Complete(n), start, Working(n)).reset
               /\ CommitActive(n, Working(n), streamActive(Complete(n), start, Working(n)))
      <3>1. Working(n).offset \in Nat /\ (Working(n).offset # 0 => Working(n) = cp[n] /\ boot[n] = NotBoot)
        BY <1>1, WorkingType
      <3> QED BY <1>2, <1>3, <1>4, <1>5, <2>2, <2>3, <3>1, ActiveOnce
    <2>4. CASE /\ streamActive(Complete(n), start, Working(n)).reset
               /\ poll' = [poll EXCEPT ![n] = "refetch"]
               /\ UNCHANGED <<fileVars, cp, seenUID, unseen, boot, restarts, ghostVars>>
      <3>1. reads' = reads /\ cp'[n] = cp[n] /\ unseen'[n] = {} /\ poll'[n] = "refetch"
        BY <1>1, <2>2, <2>4 DEF LogTypeOK, ghostVars
      <3>2. Unread(n, gen[n] + 1)
        BY <1>5, <2>2, <2>4, ResetUnread
      <3> QED BY <1>1, <1>2, <1>3, <1>6, <1>7, <2>2, <3>1, <3>2, AheadKept
    <2> QED BY <2>1, <2>3, <2>4
  <1>14. CASE ReadActiveAgain(n)
    <2> DEFINE c == Checkpoint(seenUID[n], 0, 0, Working(n).last)
    <2>1. CommitActive(n, c, streamActive(Complete(n), 0, c)) /\ present[n] /\ poll[n] = "refetch"
      BY <1>14 DEF ReadActiveAgain
    <2>2. c.offset = 0 /\ c.last = Working(n).last /\ ~streamActive(Complete(n), 0, c).reset
      BY <1>1, FreshType
    <2> HIDE DEF c
    <2> QED BY <1>2, <1>3, <1>4, <1>5, <2>1, <2>2, ActiveOnce
  <1>15. CASE PollFails(n)
    <2>1. PICK rs : /\ reads' = Count(rs)
                    /\ replayed' = IF rs = {} THEN replayed ELSE replayed \cup {n}
      BY <1>15 DEF PollFails
    <2>2. reads' = reads
      BY <1>1, <2>1, CountCounts DEF Calm
    <2>3. /\ cp'[n] = cp[n] /\ poll'[n] = "done" /\ unseen'[n] = {}
          /\ poll[n] \notin {"none", "done"}
      BY <1>1, <1>15 DEF PollFails, PollEnds, LogTypeOK
    <2> QED BY <1>1, <1>2, <1>3, <1>6, <1>7, <2>2, <2>3, AheadKept
  <1> QED BY <1>8, <1>9, <1>10, <1>11, <1>12, <1>13, <1>14, <1>15 DEF PollStep

\* Rounds begin and end without a line being read: a node that loses its checkpoint was not
\* in the list, and nothing of a node object that is back since then has been read.
LEMMA RoundOnce ==
  ASSUME LogIInv, LogTypeOK', NEW n \in Nodes, OnceInv(n), PollAllNodes \/ EndRound \/ NewCollector
  PROVE  OnceInv(n)'
  <1>1. LogTypeOK
    BY DEF LogIInv
  <1>2. UNCHANGED <<fileVars, place, raced, reads>>
    BY DEF PollAllNodes, EndRound, NewCollector, ghostVars
  <1>3. OldPlaces /\ SameFiles(n) /\ torn'[n] = torn[n]
    <2>1. torn' = torn
      BY <1>2 DEF fileVars
    <2> QED BY <1>1, <1>2, <2>1, FilesUntouched
  <1>4. joins'[n] = joins[n] /\ present'[n] = present[n] /\ joins[n] # 0
    BY <1>1, <1>3, NodeNumbers DEF SameFiles
  <1> SUFFICES ASSUME Calm(n)' PROVE AtMostOnce(n)' /\ OnceBehind(n)' /\ OnceAhead(n)'
    BY DEF OnceInv
  <1>5. CASE NewCollector
    BY <1>5 DEF NewCollector, Calm
  <1>6. ASSUME replayed' = replayed PROVE AtMostOnce(n) /\ OnceBehind(n) /\ OnceAhead(n)
    BY <1>2, <1>6 DEF OnceInv, Calm
  <1>7. CASE PollAllNodes
    <2>1. replayed' = replayed /\ cp'[n] = cp[n] /\ unseen' = unseen /\ poll[n] = "none"
      BY <1>7 DEF PollAllNodes, ghostVars
    <2>2. /\ seenUID'[n] = IF present[n] THEN joins[n] ELSE 0
          /\ poll'[n] = IF present[n] THEN "queued" ELSE "done"
      BY <1>7 DEF PollAllNodes, UID
    <2>3. unseen'[n] = {}
      BY <1>1, <2>1 DEF LogTypeOK
    <2>4. OnceAhead(n)'
      BY <1>4, <2>2, <2>3 DEF OnceAhead
    <2> QED BY <1>2, <1>3, <1>6, <2>1, <2>4, BehindKept
  <1>8. CASE EndRound
    <2>1. /\ replayed' = replayed /\ unseen' = unseen /\ poll[n] = "done" /\ poll'[n] = "none"
          /\ cp'[n] = IF seenUID[n] = 0 THEN NoCheckpoint ELSE cp[n]
      BY <1>8 DEF EndRound, ghostVars
    <2>2. unseen'[n] = {}
      BY <1>1, <2>1 DEF LogTypeOK
    <2>3. OnceAhead(n)'
      BY <2>1, <2>2 DEF OnceAhead
    <2>4. CASE seenUID[n] # 0
      BY <1>2, <1>3, <1>6, <2>1, <2>3, <2>4, BehindKept
    <2>5. CASE seenUID[n] = 0
      <3>1. ReadBefore(n)
        BY <1>2, <1>3, SameReadBefore
      <3>2. LogFiles(n)' = LogFiles(n)
        BY <1>3 DEF SameFiles
      <3>3. present[n] => AllUnread(n)'
        BY <1>4, <1>6, <2>1, <2>5, <3>1, <3>2, UnreadStays DEF OnceAhead, AllUnread
      <3>4. cp'[n].uid = 0
        BY <2>1, <2>5 DEF NoCheckpoint, Checkpoint
      <3>5. OnceBehind(n)'
        BY <1>4, <3>3, <3>4 DEF OnceBehind
      <3>6. AtMostOnce(n)'
        BY <1>2, <1>3, <1>6, <2>1, AtMostOnceStays
      <3> QED BY <2>3, <3>5, <3>6
    <2> QED BY <2>4, <2>5
  <1> QED BY <1>5, <1>7, <1>8

\* No step at all reads a line twice on a calm node.
LEMMA AllOnceStep ==
  ASSUME LogIInv, SkipInv, AllOnce, [LogNext]_logVars
  PROVE  AllOnce'
  <1>1. LogIInv'
    BY LogIInvStep
  <1>2. LogTypeOK /\ LogHistoryOK /\ LogTypeOK' /\ \A m \in Nodes : FilesOK(m)
    BY <1>1 DEF LogIInv
  <1> SUFFICES ASSUME NEW m \in Nodes PROVE OnceInv(m)'
    BY DEF AllOnce
  <1>3. OnceInv(m) /\ SkipInvAt(m)
    BY DEF AllOnce, SkipInv
  <1>4. CASE UNCHANGED logVars
    <2>1. UNCHANGED <<fileVars, place>> /\ UNCHANGED <<reads, raced, replayed, torn>> /\ UNCHANGED pollVars
      BY <1>4 DEF logVars, fileVars, pollVars
    <2>2. OldPlaces /\ SameFiles(m)
      BY <1>2, <2>1, FilesUntouched
    <2>3. SamePoll(m) /\ (Calm(m)' => Calm(m))
      BY <2>1 DEF pollVars, SamePoll, Calm
    <2> QED BY <1>2, <1>3, <2>1, <2>2, <2>3, OnceKept
  <1>5. ASSUME NEW n \in Nodes, LoggerStep(n) PROVE OnceInv(m)'
    <2>1. CASE m = n
      BY <1>2, <1>3, <1>5, <2>1, LoggerOnce
    <2>2. CASE m # n
      <3>1. OldPlaces /\ SameFiles(m)
        BY <1>2, <1>5, <2>2, OtherNodesFiles
      <3>2. reads' = reads /\ UNCHANGED pollVars
        BY <1>5 DEF LoggerStep, WriteRecord, FinishRecord, Rotate, Compress, DeleteOldest, NodeLeaves,
                    NodeReturns, ghostVars
      <3>3. torn'[m] = torn[m]
        <4>1. torn \in [Nodes -> BOOLEAN]
          BY <1>2 DEF LogTypeOK
        <4> QED BY <1>5, <2>2, <4>1 DEF LoggerStep, WriteRecord, FinishRecord, Rotate, Compress,
                                        DeleteOldest, NodeLeaves, NodeReturns
      <3>4. replayed \subseteq replayed' /\ raced[m] \subseteq raced'[m]
        <4>1. raced \in [Nodes -> SUBSET Nat]
          BY <1>2 DEF LogHistoryOK
        <4>2. raced' = raced \/ raced' = [raced EXCEPT ![n] = @ \cup {gen[n] + 1}]
          BY <1>5 DEF LoggerStep, WriteRecord, FinishRecord, Rotate, Compress, DeleteOldest, NodeLeaves,
                      NodeReturns, ghostVars
        <4>3. replayed \subseteq replayed'
          BY <1>5 DEF LoggerStep, WriteRecord, FinishRecord, Rotate, Compress, DeleteOldest, NodeLeaves,
                      NodeReturns, ghostVars
        <4> QED BY <4>1, <4>2, <4>3
      <3>5. SamePoll(m) /\ (Calm(m)' => Calm(m))
        BY <3>2, <3>4 DEF pollVars, SamePoll, Calm
      <3> QED BY <1>2, <1>3, <3>1, <3>2, <3>3, <3>5, OnceKept
    <2> QED BY <2>1, <2>2
  <1>6. ASSUME NEW n \in Nodes, PollStep(n) \/ PollFails(n) PROVE OnceInv(m)'
    <2>1. CASE m = n
      BY <1>2, <1>3, <1>6, <2>1, PollOnce
    <2>2. CASE m # n
      <3>1. PollReads(n)
        BY <1>2, <1>6, PollReadsIts
      <3>2. UNCHANGED <<fileVars, place>> /\ raced' = raced /\ replayed \subseteq replayed'
        BY <3>1 DEF PollReads
      <3>3. torn' = torn
        BY <3>2 DEF fileVars
      <3>4. SamePoll(m) /\ (Calm(m)' => Calm(m))
        BY <2>2, <3>1, <3>2 DEF PollReads, SamePoll, Calm
      <3>5. OldPlaces /\ SameFiles(m)
        BY <1>2, <3>2, FilesUntouched
      <3>6. PICK rs : reads' = Count(rs) /\ \A r \in rs : ItsRecord(n, r)
        BY <3>1 DEF PollReads
      <3>7. ASSUME NEW r \in Records, r \in 1..written => place[r].node = m
            PROVE  reads'[r] = reads[r]
        <4>1. r \notin rs
          BY <2>2, <3>6, <3>7 DEF ItsRecord
        <4> QED BY <1>2, <3>6, <4>1, CountCounts
      <3> QED BY <1>2, <1>3, <3>3, <3>4, <3>5, <3>7, OnceKept
    <2> QED BY <2>1, <2>2
  <1>7. ASSUME PollAllNodes \/ EndRound \/ NewCollector PROVE OnceInv(m)'
    BY <1>2, <1>3, <1>7, RoundOnce
  <1> QED BY <1>4, <1>5, <1>6, <1>7 DEF LogNext

\* Nothing has been read when the collector starts.
LEMMA AllOnceStart == LogInit => AllOnce
  <1> SUFFICES ASSUME LogInit, NEW n \in Nodes PROVE AtMostOnce(n) /\ OnceBehind(n) /\ OnceAhead(n)
    BY DEF AllOnce, OnceInv
  <1>1. /\ cp[n] = NoCheckpoint /\ joins[n] = 1 /\ written = 0 /\ poll[n] = "none"
        /\ unseen[n] = {} /\ active[n] = << >> /\ gen[n] = 0
    BY DEF LogInit
  <1>2. \A g \in LogFiles(n) : LogFile(n, g) = << >>
    BY <1>1 DEF LogFiles, LogFile
  <1>3. AllUnread(n)
    BY <1>2 DEF AllUnread, Unread
  <1>4. AtMostOnce(n)
    BY <1>1 DEF AtMostOnce
  <1>5. cp[n].uid # joins[n]
    BY <1>1 DEF NoCheckpoint, Checkpoint
  <1> QED BY <1>1, <1>3, <1>4, <1>5 DEF OnceBehind, OnceAhead

\* A record is read twice only where a poll of its node failed half way, the collector was
\* started anew or a rotation raced with a poll, whatever the logger does in between and
\* for any number of nodes, records and rotations (ReadOnce of the auto_mode run).
THEOREM AlwaysReadOnce == LogSpec => []ReadOnce
  <1>1. LogIInv /\ SkipInv /\ AllOnce /\ [LogNext]_logVars => LogIInv' /\ SkipInv' /\ AllOnce'
    BY LogIInvStep, SkipInvStep, AllOnceStep
  <1>2. LogInit => LogIInv /\ SkipInv /\ AllOnce
    BY LogIInvStart, SkipInvStart, AllOnceStart
  <1>3. LogIInv /\ AllOnce => ReadOnce
    <2> SUFFICES ASSUME LogIInv, AllOnce, NEW r \in 1..written, reads[r] = 2,
                        place[r].node \notin replayed, raced[place[r].node] = {}
                 PROVE  FALSE
      BY DEF ReadOnce
    <2>1. place[r].node \in Nodes
      BY DEF LogIInv, LogHistoryOK
    <2>2. AtMostOnce(place[r].node)
      BY <2>1 DEF AllOnce, OnceInv, Calm
    <2>3. reads[r] <= 1
      BY <2>2 DEF AtMostOnce
    <2> QED BY <2>3
  <1> QED BY <1>1, <1>2, <1>3, PTL DEF LogSpec
================================================================================
