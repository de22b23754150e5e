------------------------------ MODULE ConfigStream -----------------------------
(***************************************************************************)
(* The GetConfigurationUpdates stream, from CloudSecure to the config      *)
(* cache.  A session is one configClient.Run: it collects a snapshot,      *)
(* swaps it into the cache when CloudSecure says it is complete, and then  *)
(* applies mutations one by one.  Sessions break at any point and are      *)
(* replaced by the stream manager.  When one stream stops for good the     *)
(* manager cancels the others and opens a new connection without waiting   *)
(* for them: a cancelled session may still be running when the next one    *)
(* opens (Overlap = "all").                                                *)
(*                                                                         *)
(* A writer of the config cache is a session, so ConfigWriters bounds the  *)
(* number of sessions.  CloudSecure itself is external: it sends what it   *)
(* wants as a snapshot in any order, then every change; it may also break  *)
(* the protocol in the ways the client detects.  UpdateConfiguration       *)
(* messages set the log level and touch nothing here; they are left out.   *)
(***************************************************************************)
EXTENDS ObjectCache, Sequences, Naturals

CONSTANT MaxConfigEdits \* bound on the changes CloudSecure makes

ASSUME ConfigAssumption == MaxConfigEdits \in Nat

VARIABLES
    desired,  \* desired[k]: what CloudSecure wants for k now
    wanted,   \* wanted[k]: all it ever wanted for k (auxiliary)
    edits,    \* the number of changes CloudSecure made
    session,  \* session[s]: "new", "open" or "over"
    unsent,   \* unsent[s]: snapshot objects of s still on the wire
    finished, \* finished[s]: ResourceSnapshotComplete has left the wire
    mutations,\* mutations[s]: mutations still on the wire, in order
    held,     \* held[s]: the message Recv returned, until it is handled
    pending,  \* pending[s]: pendingSnapshot
    complete  \* complete[s]: snapshotComplete

streamVars == <<desired, wanted, edits, session, unsent, finished, mutations,
                held, pending, complete>>
configVars == <<objects, ready, resourceChanged, notifying, cancelled, desired,
                wanted, edits, session, unsent, finished, mutations, held,
                pending, complete>>

\* Messages.  A mutation with no object is a DeleteObject.
Msg(type, k, obj) == [type |-> type, key |-> k, obj |-> obj]
NoMessage         == Msg("none", Nothing, NoObject)
SnapshotComplete  == Msg("complete", Nothing, NoObject)
UnknownMessage    == Msg("unknown", Nothing, NoObject)
Messages == [type : {"data", "mutation"}, key : Keys, obj : Objects]
                \cup {NoMessage, SnapshotComplete, UnknownMessage}
Changes  == [key : Keys, obj : Objects]

\* Type invariant of the config cache and of the sessions of configClient.Run.
ConfigTypeOK ==
    /\ CacheTypeOK
    /\ desired \in Contents
    /\ wanted \in [Keys -> SUBSET Objects]
    /\ edits \in Nat
    /\ session \in [ConfigWriters -> {"new", "open", "over"}]
    /\ unsent \in [ConfigWriters -> Contents]
    /\ finished \in [ConfigWriters -> BOOLEAN]
    /\ mutations \in [ConfigWriters -> Seq(Changes)]
    /\ held \in [ConfigWriters -> Messages]
    /\ pending \in [ConfigWriters -> Contents]
    /\ complete \in [ConfigWriters -> BOOLEAN]

StreamInit ==
    /\ desired \in Contents
    /\ wanted = [k \in Keys |-> {desired[k]}]
    /\ edits = 0
    /\ session = [s \in ConfigWriters |-> "new"]
    /\ unsent = [s \in ConfigWriters |-> Empty]
    /\ finished = [s \in ConfigWriters |-> FALSE]
    /\ mutations = [s \in ConfigWriters |-> << >>]
    /\ held = [s \in ConfigWriters |-> NoMessage]
    /\ pending = [s \in ConfigWriters |-> Empty]
    /\ complete = [s \in ConfigWriters |-> FALSE]

--------------------------------------------------------------------------------
(***************************************************************************)
(* CloudSecure.                                                            *)
(***************************************************************************)
CloudSecureEdits(k, obj) ==
    /\ edits < MaxConfigEdits
    /\ edits' = edits + 1
    /\ desired[k] # obj
    /\ desired' = [desired EXCEPT ![k] = obj]
    /\ wanted' = [wanted EXCEPT ![k] = @ \cup {obj}]
    /\ mutations' = [s \in ConfigWriters |->
                        IF session[s] = "open"
                        THEN Append(mutations[s], [key |-> k, obj |-> obj])
                        ELSE mutations[s]]
    /\ UNCHANGED <<session, unsent, finished, held, pending, complete>>
    /\ UNCHANGED cacheVars

\* The session waits in Recv: nothing held, no cache call in progress.
Receiving(s) ==
    /\ session[s] = "open"
    /\ held[s] = NoMessage
    /\ notifying[s] = Nothing

\* Sessions end only while another can follow: the last one is never cut, so
\* that the effect of the last snapshot can be observed.
SessionLeft == \E s \in ConfigWriters : session[s] = "new"

\* Messages that are wrong now, and that handleConfigUpdate must refuse.
OutOfPhase(s) ==
    {UnknownMessage} \cup
    (IF complete[s]
     THEN {SnapshotComplete} \cup
          {Msg("data", k, v) : k \in Keys, v \in Values}
     ELSE {Msg("mutation", k, obj) : k \in Keys, obj \in Objects})

CloudSecureMisbehaves(s) ==
    /\ Receiving(s)
    /\ ~cancelled[s]
    /\ SessionLeft
    /\ \E m \in OutOfPhase(s) : held' = [held EXCEPT ![s] = m]
    /\ UNCHANGED <<desired, wanted, edits, session, unsent, finished, mutations,
                   pending, complete>>
    /\ UNCHANGED cacheVars

--------------------------------------------------------------------------------
(***************************************************************************)
(* The client: NewStreamClient and Run.                                    *)
(***************************************************************************)
OpenConfigStream(s) ==
    /\ session[s] = "new"
    /\ \A u \in ConfigWriters :
          session[u] = "open" => Overlap = "all" /\ cancelled[u]
    /\ session' = [session EXCEPT ![s] = "open"]
    /\ unsent' = [unsent EXCEPT ![s] = desired]
    /\ UNCHANGED <<desired, wanted, edits, finished, mutations, held, pending,
                   complete>>
    /\ UNCHANGED cacheVars

Recv(s) ==
    /\ Receiving(s)
    /\ ~cancelled[s]
    /\ \/ \E k \in Keys :
            /\ unsent[s][k] # NoObject
            /\ held' = [held EXCEPT ![s] = Msg("data", k, unsent[s][k])]
            /\ unsent' = [unsent EXCEPT ![s][k] = NoObject]
            /\ UNCHANGED <<finished, mutations>>
       \/ /\ unsent[s] = Empty /\ ~finished[s]
          /\ held' = [held EXCEPT ![s] = SnapshotComplete]
          /\ finished' = [finished EXCEPT ![s] = TRUE]
          /\ UNCHANGED <<unsent, mutations>>
       \/ /\ finished[s] /\ mutations[s] # << >>
          /\ held' = [held EXCEPT ![s] =
                Msg("mutation", Head(mutations[s]).key, Head(mutations[s]).obj)]
          /\ mutations' = [mutations EXCEPT ![s] = Tail(@)]
          /\ UNCHANGED <<unsent, finished>>
    /\ UNCHANGED <<desired, wanted, edits, session, pending, complete>>
    /\ UNCHANGED cacheVars

\* Run returns: its locals are gone, and what was on the wire with them.
RunReturns(s) ==
    /\ session' = [session EXCEPT ![s] = "over"]
    /\ unsent' = [unsent EXCEPT ![s] = Empty]
    /\ finished' = [finished EXCEPT ![s] = FALSE]
    /\ mutations' = [mutations EXCEPT ![s] = << >>]
    /\ held' = [held EXCEPT ![s] = NoMessage]
    /\ pending' = [pending EXCEPT ![s] = Empty]
    /\ complete' = [complete EXCEPT ![s] = FALSE]
    /\ UNCHANGED <<desired, wanted, edits>>

Handled(s) == held' = [held EXCEPT ![s] = NoMessage]

\* Handling a message of the given type: it is in hand and the previous cache
\* call has returned.
Handling(s, type) ==
    /\ session[s] = "open"
    /\ notifying[s] = Nothing
    /\ held[s].type = type

\* Mutant of ConfigStreamBreaks: what was collected is swapped in at the end.
BreaksFlushing(s) ==
    /\ Receiving(s)
    /\ SessionLeft
    /\ ReplaceAll(s, pending[s])
    /\ RunReturns(s)

\* EOF, a Recv error, or a done context noticed between two messages.
ConfigStreamBreaks(s) ==
    /\ Receiving(s)
    /\ cancelled[s] \/ SessionLeft
    /\ RunReturns(s)
    /\ UNCHANGED cacheVars

\* Mutants of HandleResourceData: unsupported kinds are kept; they are errors.
KeepsUnsupported(s) ==
    /\ Handling(s, "data")
    /\ ~complete[s]
    /\ pending' = [pending EXCEPT ![s][held[s].key] = held[s].obj]
    /\ Handled(s)
    /\ UNCHANGED <<desired, wanted, edits, session, unsent, finished, mutations,
                   complete>>
    /\ UNCHANGED cacheVars

RefusesUnsupported(s) ==
    \/ KeepsUnsupported(s) /\ held[s].key \in Supported
    \/ /\ Handling(s, "data") /\ ~complete[s] /\ held[s].key \notin Supported
       /\ RunReturns(s)
       /\ UNCHANGED cacheVars

HandleResourceData(s) ==
    /\ Handling(s, "data")
    /\ ~complete[s]
    /\ pending' = IF held[s].key \in Supported
                  THEN [pending EXCEPT ![s][held[s].key] = held[s].obj]
                  ELSE pending
    /\ Handled(s)
    /\ UNCHANGED <<desired, wanted, edits, session, unsent, finished, mutations,
                   complete>>
    /\ UNCHANGED cacheVars

\* The pending map becomes the cache's own and is not used again.
HandleSnapshotComplete(s) ==
    /\ Handling(s, "complete")
    /\ ~complete[s]
    /\ \/ /\ ReplaceAll(s, pending[s])
          /\ complete' = [complete EXCEPT ![s] = TRUE]
          /\ pending' = [pending EXCEPT ![s] = Empty]
          /\ Handled(s)
          /\ UNCHANGED <<desired, wanted, edits, session, unsent, finished,
                         mutations>>
       \/ ReplaceAllFails(s, pending[s]) /\ RunReturns(s)

\* Mutant of HandleResourceMutation: deletes are skipped.
SkipsDeletes(s) ==
    /\ Handling(s, "mutation")
    /\ complete[s]
    /\ \/ /\ held[s].obj # NoObject /\ held[s].key \in Supported
          /\ Insert(s, held[s].key, held[s].obj)
       \/ /\ held[s].obj = NoObject \/ held[s].key \notin Supported
          /\ UNCHANGED cacheVars
    /\ Handled(s)
    /\ UNCHANGED <<desired, wanted, edits, session, unsent, finished, mutations,
                   pending, complete>>

HandleResourceMutation(s) ==
    /\ Handling(s, "mutation")
    /\ complete[s]
    /\ \/ /\ held[s].obj # NoObject /\ held[s].key \in Supported
          /\ Insert(s, held[s].key, held[s].obj)
       \/ /\ held[s].obj # NoObject /\ held[s].key \notin Supported
          /\ UNCHANGED cacheVars
       \/ held[s].obj = NoObject /\ Delete(s, held[s].key)
    /\ Handled(s)
    /\ UNCHANGED <<desired, wanted, edits, session, unsent, finished, mutations,
                   pending, complete>>

RefuseMessage(s) ==
    /\ \/ Handling(s, "data") /\ complete[s]
       \/ Handling(s, "complete") /\ complete[s]
       \/ Handling(s, "mutation") /\ ~complete[s]
       \/ Handling(s, "unknown")
    /\ RunReturns(s)
    /\ UNCHANGED cacheVars

\* The rest of a cache call that handleConfigUpdate made.
NotifyConfig(s) ==
    \/ (SendNote(s) \/ DrainNote(s)) /\ UNCHANGED streamVars
    \/ GiveUpNote(s) /\ RunReturns(s)

\* A failed keepalive, or the end of the authenticated connection.
CancelConfigStream(s) ==
    /\ session[s] = "open"
    /\ SessionLeft
    /\ Cancel(s)
    /\ UNCHANGED streamVars

HandleConfigUpdate(s) ==
    \/ HandleResourceData(s)
    \/ HandleSnapshotComplete(s)
    \/ HandleResourceMutation(s)
    \/ RefuseMessage(s)

ConfigClientStep(s) ==
    \/ Recv(s)
    \/ HandleConfigUpdate(s)
    \/ NotifyConfig(s)

ConfigSessionStep(s) ==
    \/ OpenConfigStream(s)
    \/ ConfigClientStep(s)
    \/ ConfigStreamBreaks(s)
    \/ CancelConfigStream(s)
    \/ CloudSecureMisbehaves(s)

ConfigStep ==
    \/ \E k \in Keys, obj \in Objects : CloudSecureEdits(k, obj)
    \/ \E s \in ConfigWriters : ConfigSessionStep(s)

\* On its own: the reconciler takes notes of the config cache, in the end.
ConfigInit == NewObjectCache /\ StreamInit

ReconcilerTakes == TakeNote("config") /\ UNCHANGED streamVars

ConfigNext == ConfigStep \/ ReconcilerTakes

ConfigFairness ==
    /\ WF_configVars(ReconcilerTakes)
    /\ \A s \in ConfigWriters :
          /\ WF_configVars(OpenConfigStream(s))
          /\ WF_configVars(HandleConfigUpdate(s))
          /\ WF_configVars(NotifyConfig(s))
          /\ WF_configVars(Recv(s))
          /\ WF_configVars(cancelled[s] /\ ConfigStreamBreaks(s))

ConfigSpec == ConfigInit /\ [][ConfigNext]_configVars /\ ConfigFairness

--------------------------------------------------------------------------------
\* The config cache never shows the reconciler anything CloudSecure did not
\* want: a partial snapshot, an object of an aborted session or a refused
\* message never gets in, so a missing key really was unwanted at some time.
ConfigCacheIsWanted ==
    ready["config"] =>
        \A k \in Supported : objects["config"][k] \in wanted[k]

\* Kinds the operator does not support are never cached, so never reconciled.
UnsupportedNeverCached ==
    \A k \in Keys \ Supported : objects["config"][k] = NoObject

\* Unless an old session writes after a newer one (Overlap), a session that
\* has nothing left to apply leaves the cache equal to what CloudSecure wants.
CaughtUp(s) ==
    /\ complete[s] /\ Receiving(s)
    /\ mutations[s] = << >>
CaughtUpMeansEqual ==
    \A s \in ConfigWriters :
        CaughtUp(s) => \A k \in Supported : objects["config"][k] = desired[k]

\* CloudSecure's wishes reach the cache once sessions stop breaking.
EventuallyEqual ==
    <>[](\A k \in Supported : objects["config"][k] = desired[k])

--------------------------------------------------------------------------------
(***************************************************************************)
(* The inductive invariant behind ConfigCacheIsWanted.  While a snapshot   *)
(* is on its way, what it will hold for k is on the wire, in hand or       *)
(* collected, in this order; it is what CloudSecure wanted when the        *)
(* session opened, so swapping it in is right whenever that happens.       *)
(***************************************************************************)
Collected(s, k) ==
    IF unsent[s][k] # NoObject THEN unsent[s][k]
    ELSE IF held[s].type = "data" /\ held[s].key = k THEN held[s].obj
    ELSE pending[s][k]

Fresh(s) ==
    /\ ~finished[s] /\ ~complete[s]
    /\ held[s] = NoMessage
    /\ pending[s] = Empty
    /\ mutations[s] = << >>

SnapshotUnderWay(s) ==
    /\ ~complete[s]
    /\ held[s].type # "complete"
    /\ \A k \in Supported : Collected(s, k) \in wanted[k]

SnapshotArrived(s) ==
    /\ held[s].type = "complete"
    /\ \A k \in Supported : pending[s][k] \in wanted[k]

SessionOK(s) ==
    /\ session[s] # "open" => Fresh(s)
    /\ session[s] = "open" /\ ~finished[s] => SnapshotUnderWay(s)
    /\ session[s] = "open" /\ finished[s] /\ ~complete[s] => SnapshotArrived(s)
    /\ complete[s] /\ held[s].type = "mutation" =>
          held[s].obj \in wanted[held[s].key]
    /\ \A i \in 1..Len(mutations[s]) :
          mutations[s][i].obj \in wanted[mutations[s][i].key]
    /\ \A k \in Keys \ Supported : pending[s][k] = NoObject

ConfigIInv ==
    /\ ConfigTypeOK
    /\ \A k \in Keys : desired[k] \in wanted[k]
    /\ \A s \in ConfigWriters : SessionOK(s)
    /\ ConfigCacheIsWanted
    /\ UnsupportedNeverCached

(***************************************************************************)
(* The inductive invariant behind CaughtUpMeansEqual, where sessions do    *)
(* not overlap.  What the cache will hold for k when all that has been     *)
(* received is handled is due for k; the last mutation on the wire, or     *)
(* else what is due, is what CloudSecure wants now.                        *)
(***************************************************************************)
Due(s, k) ==
    IF ~complete[s] THEN Collected(s, k)
    ELSE IF held[s].type = "mutation" /\ held[s].key = k THEN held[s].obj
    ELSE objects["config"][k]

LastFor(s, k, i) ==
    /\ mutations[s][i].key = k
    /\ \A j \in 1..Len(mutations[s]) : j > i => mutations[s][j].key # k

Arrives(s, k) ==
    /\ \A i \in 1..Len(mutations[s]) :
          LastFor(s, k, i) => mutations[s][i].obj = desired[k]
    /\ (\A i \in 1..Len(mutations[s]) : mutations[s][i].key # k) => Due(s, k) = desired[k]

CatchUpIInv ==
    /\ \A s, u \in ConfigWriters : session[s] = "open" /\ session[u] = "open" => s = u
    /\ \A s \in ConfigWriters : finished[s] => unsent[s] = Empty
    /\ \A s \in ConfigWriters : session[s] = "open" => \A k \in Supported : Arrives(s, k)
================================================================================
