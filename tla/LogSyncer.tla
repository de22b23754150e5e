------------------------------- MODULE LogSyncer -------------------------------
(***************************************************************************)
(* BufferedGrpcWriteSyncer: log entries go to CloudSecure on the current   *)
(* log stream, or into a bounded buffer while there is none.  write,       *)
(* UpdateClient and the ticks of run hold the mutex and are one step each. *)
(* SetDone does not, so what run reads of b.done at its next select is the *)
(* channel it last read or the new one.                                    *)
(*                                                                         *)
(* A session is one log stream: NewStreamClient opens it, Run installs it, *)
(* Close closes its done channel.  A stream that has failed fails every    *)
(* later Send.  Channel 0 is the one the syncer was made with.             *)
(***************************************************************************)
EXTENDS Naturals, Sequences

CONSTANTS
    logMaxBufferSize,
    MaxEntries,     \* bound on the entries written
    MaxLogSessions  \* bound on the log streams opened

ASSUME LogAssumption ==
    {logMaxBufferSize, MaxEntries, MaxLogSessions} \subseteq Nat \ {0}

VARIABLES
    written,    \* entries written so far: 1, 2, ...
    buffer,     \* the entries waiting
    lostLogEntriesCount,
    reported,   \* lost entries that CloudSecure has been told of (auxiliary)
    sent,       \* the entries on CloudSecure's side
    client,     \* the session whose stream and connection are installed, or 0
    ready,      \* the state of that connection is Ready
    flapped,    \* it changed in the middle of a write (auxiliary)
    broken,     \* the sessions whose stream has failed
    phase,      \* phase[s]: "none", "opened", "up" or "closed"
    done,       \* b.done
    listening,  \* the channel that run's select reads
    runner      \* run: "on" or "gone"

entryVars   == <<buffer, lostLogEntriesCount, reported, sent, broken>>
runnerVars  == <<listening, runner>>
logVars == <<written, entryVars, client, ready, flapped, phase, done, runnerVars>>

LogSessions == 1..MaxLogSessions
Entries     == 1..MaxEntries
Opened      == {s \in LogSessions : phase[s] # "none"}

\* Type invariant of BufferedGrpcWriteSyncer; the buffer stays within its capacity.
LogTypeOK ==
    /\ written \in 0..MaxEntries
    /\ buffer \in Seq(Entries) /\ Len(buffer) <= logMaxBufferSize
    /\ {lostLogEntriesCount, reported} \subseteq 0..MaxEntries
    /\ sent \in Seq(Entries)
    /\ client \in Opened \cup {0}
    /\ ready \in BOOLEAN /\ flapped \in BOOLEAN
    /\ broken \subseteq Opened
    /\ phase \in [LogSessions -> {"none", "opened", "up", "closed"}]
    /\ done \in Opened \cup {0} /\ listening \in Opened \cup {0}
    /\ runner \in {"on", "gone"}

LogInit ==
    /\ written = 0 /\ buffer = <<>> /\ lostLogEntriesCount = 0 /\ reported = 0
    /\ sent = <<>> /\ client = 0 /\ ready = FALSE /\ flapped = FALSE
    /\ broken = {} /\ phase = [s \in LogSessions |-> "none"]
    /\ done = 0 /\ listening = 0 /\ runner = "on"

--------------------------------------------------------------------------------
\* The streams that may have failed after some Sends on session c: c too, if one
\* of them failed.
AfterSends(c, allSent) == IF allSent THEN broken ELSE broken \cup {c}

\* How many of n messages the stream of c takes before it fails.
Takes(c, n) == IF c \in broken THEN {0} ELSE 0..n

\* The report of lost entries that a flush sends before the buffer, if any are.
Report == IF lostLogEntriesCount > 0 THEN 1 ELSE 0

\* Mutant of Flushed: the buffer is cleared after a failed Send, too.
FlushedClearing(n) ==
    LET m == IF n < Report THEN 0 ELSE n - Report
    IN  [lost |-> IF n < Report THEN lostLogEntriesCount ELSE 0,
         sent |-> SubSeq(buffer, 1, m), kept |-> <<>>]

\* Mutant of Flushed: a flush that breaks off keeps the whole buffer.
FlushedKeeping(n) ==
    LET m == IF n < Report THEN 0 ELSE n - Report
    IN  [lost |-> IF n < Report THEN lostLogEntriesCount ELSE 0,
         sent |-> SubSeq(buffer, 1, m),
         kept |-> IF m = Len(buffer) THEN <<>> ELSE buffer]

\* What a flush leaves and sends when the stream takes its first n messages.
Flushed(n) ==
    LET m == IF n < Report THEN 0 ELSE n - Report
    IN  [lost |-> IF n < Report THEN lostLogEntriesCount ELSE 0,
         sent |-> SubSeq(buffer, 1, m),
         kept |-> SubSeq(buffer, m + 1, Len(buffer))]

Pending == Report + Len(buffer)

\* flush, on the connection of session c in the state isReady.
flush(c, isReady) ==
    IF buffer = <<>> \/ c = 0 \/ ~isReady
    THEN UNCHANGED entryVars
    ELSE \E n \in Takes(c, Pending) :
            /\ lostLogEntriesCount' = Flushed(n).lost
            /\ reported' = reported + (lostLogEntriesCount - Flushed(n).lost)
            /\ sent' = sent \o Flushed(n).sent
            /\ buffer' = Flushed(n).kept
            /\ broken' = AfterSends(c, n = Pending)

--------------------------------------------------------------------------------
Written == written < MaxEntries /\ written' = written + 1

\* The end of write when the entry could not be sent.
BufferEntry(e, b, l) ==
    IF Len(b) < logMaxBufferSize
    THEN buffer' = Append(b, e) /\ lostLogEntriesCount' = l
    ELSE buffer' = b /\ lostLogEntriesCount' = l + 1

\* write, while there is no connection that is Ready.
WriteBuffers ==
    /\ Written
    /\ client = 0 \/ ~ready
    /\ BufferEntry(written + 1, buffer, lostLogEntriesCount)
    /\ UNCHANGED <<reported, sent, broken, client, ready, flapped, phase, done,
                   runnerVars>>

\* write, flush succeeds (or there is nothing to flush) and so does the Send.
WriteSends ==
    /\ Written
    /\ client # 0 /\ ready /\ client \notin broken
    /\ LET n == IF buffer = <<>> THEN 0 ELSE Pending
       IN  /\ sent' = Append(sent \o Flushed(n).sent, written + 1)
           /\ buffer' = Flushed(n).kept
           /\ lostLogEntriesCount' = Flushed(n).lost
           /\ reported' = reported + (lostLogEntriesCount - Flushed(n).lost)
    /\ UNCHANGED <<broken, client, ready, flapped, phase, done, runnerVars>>

\* write, the stream fails during the flush or the Send: the entry goes behind
\* what the flush left.
WriteFails ==
    /\ Written
    /\ client # 0 /\ ready
    /\ \E n \in Takes(client, Pending) :
          /\ buffer # <<>> \/ n = 0
          /\ broken' = broken \cup {client}
          /\ sent' = sent \o Flushed(n).sent
          /\ reported' = reported + (lostLogEntriesCount - Flushed(n).lost)
          /\ BufferEntry(written + 1, Flushed(n).kept, Flushed(n).lost)
    /\ UNCHANGED <<client, ready, flapped, phase, done, runnerVars>>

\* write, and the connection stops being Ready between the look of write and that
\* of flush: nothing is flushed, but the stream may still take the entry.
WriteFlaps ==
    /\ Written
    /\ client # 0 /\ ready
    /\ buffer # <<>>
    /\ ready' = FALSE /\ flapped' = TRUE
    /\ \/ /\ client \notin broken
          /\ sent' = Append(sent, written + 1)
          /\ UNCHANGED <<buffer, lostLogEntriesCount, broken>>
       \/ /\ broken' = broken \cup {client}
          /\ BufferEntry(written + 1, buffer, lostLogEntriesCount)
          /\ UNCHANGED sent
    /\ UNCHANGED <<reported, client, phase, done, runnerVars>>

write == WriteBuffers \/ WriteSends \/ WriteFails \/ WriteFlaps

--------------------------------------------------------------------------------
\* NewStreamClient: the stream is open and SetDone has set its channel.  The
\* previous stream is over by then; its client may not be closed yet.
NewStreamClient(s) ==
    /\ phase[s] = "none"
    /\ s = 1 \/ s - 1 \in broken
    /\ phase' = [phase EXCEPT ![s] = "opened"]
    /\ done' = s
    /\ UNCHANGED <<written, entryVars, client, ready, flapped, runnerVars>>

\* Run installs the stream and its connection, whatever state that is in.
UpdateClient(s) ==
    /\ phase[s] = "opened"
    /\ phase' = [phase EXCEPT ![s] = "up"]
    /\ client' = s
    /\ \E isReady \in BOOLEAN : ready' = isReady /\ flush(s, isReady)
    /\ UNCHANGED <<written, flapped, done, runnerVars>>

\* Recv reports the end of the stream: Run returns and the manager closes the client.
CloseClient(s) ==
    /\ phase[s] = "up"
    /\ s < MaxLogSessions
    /\ broken' = broken \cup {s}
    /\ phase' = [phase EXCEPT ![s] = "closed"]
    /\ UNCHANGED <<written, buffer, lostLogEntriesCount, reported, sent, client,
                   ready, flapped, done, runnerVars>>

\* The connection becomes Ready, or stops being so.
ConnectionChanges ==
    /\ client # 0
    /\ ready' = ~ready
    /\ UNCHANGED <<written, entryVars, client, flapped, phase, done, runnerVars>>

--------------------------------------------------------------------------------
\* run evaluates b.done again, with the race on SetDone.
Relisten == listening' \in {listening, done}

FlushTick ==
    /\ runner = "on"
    /\ flush(client, ready)
    /\ Relisten
    /\ UNCHANGED <<written, client, ready, flapped, phase, done, runner>>

\* sendLogsKeepalive, which may be the Send that fails.
KeepaliveTick ==
    /\ runner = "on"
    /\ client # 0
    /\ \/ client \notin broken /\ UNCHANGED broken
       \/ broken' = broken \cup {client}
    /\ Relisten
    /\ UNCHANGED <<written, buffer, lostLogEntriesCount, reported, sent, client,
                   ready, flapped, phase, done, runner>>

RunnerStops ==
    /\ runner = "on"
    /\ listening # 0
    /\ phase[listening] = "closed"
    /\ runner' = "gone"
    /\ UNCHANGED <<written, entryVars, client, ready, flapped, phase, done, listening>>

LogNext ==
    \/ write
    \/ \E s \in LogSessions : NewStreamClient(s) \/ UpdateClient(s) \/ CloseClient(s)
    \/ ConnectionChanges
    \/ FlushTick \/ KeepaliveTick \/ RunnerStops

LogSpec == LogInit /\ [][LogNext]_logVars

--------------------------------------------------------------------------------
\* Every entry written was sent, or waits in the buffer, or is counted as lost, or
\* its loss was reported: a flush that breaks off keeps exactly what it did not send.
EntriesAccounted ==
    written = Len(sent) + Len(buffer) + lostLogEntriesCount + reported

\* Entries are lost to a full buffer only, and CloudSecure is told of them before
\* anything else leaves the buffer.
LossMeansFull == lostLogEntriesCount > 0 => Len(buffer) = logMaxBufferSize

\* The syncer's books balance: no entry disappears uncounted, and none is given up
\* while there is room for it.
BooksBalance == LogTypeOK /\ EntriesAccounted /\ LossMeansFull

\* CloudSecure gets the entries in the order they were written, once each, over
\* all streams, unless the connection changed state in the middle of a write.
SentInOrder ==
    ~flapped =>
        \A i, j \in 1..Len(sent \o buffer) :
            i < j => (sent \o buffer)[i] < (sent \o buffer)[j]

--------------------------------------------------------------------------------
(***************************************************************************)
(* The inductive invariant behind BooksBalance and SentInOrder: no entry   *)
(* that was sent or waits is newer than the last one written, so the next  *)
(* one may follow them.                                                    *)
(***************************************************************************)
NoneFromTheFuture ==
    ~flapped => \A i \in 1..Len(sent \o buffer) : (sent \o buffer)[i] <= written

LogIInv == BooksBalance /\ SentInOrder /\ NoneFromTheFuture

--------------------------------------------------------------------------------
\* "run flushes the buffer at the configured interval until Stop is called": while
\* a log stream is installed and works, so does the goroutine that flushes the
\* buffer and sends the keepalives.
FlusherRunsWhileConnected ==
    client # 0 /\ client \notin broken => runner = "on"
================================================================================
