----------------------------- MODULE AuditTrail -----------------------------
(***************************************************************************)
(* The audit log (apps/gateway-server/src/server.ts): an event goes to the *)
(* database, or to memory when that fails, then to the sinks: a webhook    *)
(* with retries, and the file of dead letters for what it never took.      *)
(* scripts/replay-dead-letter-audit.cjs sends the letters again.  An admin *)
(* reads the log page by page (GET /api/audit).                            *)
(*                                                                         *)
(* The handler that logs awaits all of it.  The files do not fail.         *)
(***************************************************************************)
EXTENDS Naturals, Sequences, SequencesExt

CONSTANTS
  Events,       \* bound: the events that are logged
  Strangers,    \* those whose user the database does not know
  MaxRetries,   \* webhookMaxRetries
  Cap,          \* MAX_MEMORY_EVENTS
  Earlier,      \* sequence: events in the database from before, newest first
  Limit,        \* events on a page
  None

\* The database has an event once; a page has at least one (server.ts:4486).
AuditAssumption ==
  /\ MaxRetries \in Nat /\ Cap \in Nat \ {0} /\ Limit \in Nat \ {0}
  /\ Earlier \in Seq(ToSet(Earlier)) /\ IsInjective(Earlier)
  /\ ToSet(Earlier) \cap Events = {}
  /\ None \notin Events \cup ToSet(Earlier)

VARIABLES
  at,           \* event -> how far log() is with it
  stored,       \* sequence: events in the database, newest first
  memory,       \* AuditStore.memory
  tries,        \* event -> posts that failed
  accepted,     \* events the webhook's receiver has taken
  letters,      \* the dead-letter file
  replay,       \* the script: [at, compact, read, todo, failed]
  overwritten,  \* history: letters a replay cut off that it had not read
  reader        \* an admin at the log: [at, cursor, seen], and what was there when
                \* he began (had)

vars == <<at, stored, memory, tries, accepted, letters, replay, overwritten, reader>>

NoReplay == [at |-> "idle", compact |-> FALSE, read |-> {}, todo |-> {}, failed |-> {}]

Init ==
  /\ at = [e \in Events |-> "new"]
  /\ stored = Earlier /\ memory = <<>>
  /\ tries = [e \in Events |-> 0]
  /\ accepted = {} /\ letters = {}
  /\ replay = NoReplay /\ overwritten = {}
  /\ reader = [at |-> "idle", cursor |-> None, seen |-> <<>>, had |-> {}]

Moves(e, from, to) == at[e] = from /\ at' = [at EXCEPT ![e] = to]

-----------------------------------------------------------------------------
(***************************************************************************)
(* AuditStore.log                                                          *)
(***************************************************************************)

Log(e) ==
  /\ Moves(e, "new", "storing")
  /\ UNCHANGED <<stored, memory, tries, accepted, letters, replay, overwritten, reader>>

\* A user the database does not know breaks a foreign key: once more, without.
\* Its place among the others depends on the clock, and for equal times on its id.
Stored(e) ==
  /\ \/ e \notin Strangers /\ Moves(e, "storing", "posting")
     \/ Moves(e, "anonymous", "posting")
  /\ \E i \in 1..(Len(stored) + 1) : stored' = InsertAt(stored, i, e)
  /\ UNCHANGED <<memory, tries, accepted, letters, replay, overwritten, reader>>

UserUnknown(e) ==
  /\ e \in Strangers /\ Moves(e, "storing", "anonymous")
  /\ UNCHANGED <<stored, memory, tries, accepted, letters, replay, overwritten, reader>>

\* The oldest events go first.
PushMemory(e) ==
  LET all == Append(memory, e)
  IN IF Len(all) > Cap THEN Tail(all) ELSE all

StoreFails(e) ==
  /\ Moves(e, "storing", "posting") \/ Moves(e, "anonymous", "posting")
  /\ memory' = PushMemory(e)
  /\ UNCHANGED <<stored, tries, accepted, letters, replay, overwritten, reader>>

-----------------------------------------------------------------------------
(***************************************************************************)
(* AuditSink.emit, the webhook.                                            *)
(***************************************************************************)

\* The receiver takes the event; its answer may be lost or come too late.
Receives(e) ==
  /\ at[e] = "posting" /\ e \notin accepted
  /\ accepted' = accepted \cup {e}
  /\ UNCHANGED <<at, stored, memory, tries, letters, replay, overwritten, reader>>

PostSucceeds(e) ==
  /\ e \in accepted /\ Moves(e, "posting", "logged")
  /\ UNCHANGED <<stored, memory, tries, accepted, letters, replay, overwritten, reader>>

LastTry(e) == tries[e] + 1 > MaxRetries

PostFails(e) ==
  /\ tries' = [tries EXCEPT ![e] = @ + 1]
  /\ Moves(e, "posting", IF LastTry(e) THEN "burying" ELSE "waiting")
  /\ UNCHANGED <<stored, memory, accepted, letters, replay, overwritten, reader>>

\* The backoff is over; what it is does not matter here.
Backoff(e) ==
  /\ Moves(e, "waiting", "posting")
  /\ UNCHANGED <<stored, memory, tries, accepted, letters, replay, overwritten, reader>>

DeadLetter(e) ==
  /\ Moves(e, "burying", "logged")
  /\ letters' = letters \cup {e}
  /\ UNCHANGED <<stored, memory, tries, accepted, replay, overwritten, reader>>

\* The gateway ends: what was under way is nowhere else, and memory is gone.
Crash ==
  /\ memory' = <<>>
  /\ at' = [e \in Events |-> IF at[e] \in {"new", "logged"} THEN at[e] ELSE "lost"]
  /\ at' # at \/ memory # <<>>
  /\ UNCHANGED <<stored, tries, accepted, letters, replay, overwritten, reader>>

-----------------------------------------------------------------------------
(***************************************************************************)
(* replay-dead-letter-audit.cjs: reads the file, sends each letter with    *)
(* retries of its own, then writes back the ones that failed.              *)
(***************************************************************************)

ReplayReads(compact) ==
  /\ replay.at = "idle" /\ letters # {}
  /\ replay' = [at |-> "sending", compact |-> compact, read |-> letters, todo |-> letters,
                failed |-> {}]
  /\ UNCHANGED <<at, stored, memory, tries, accepted, letters, overwritten, reader>>

ReplayDelivers(e) ==
  /\ e \in replay.todo
  /\ replay' = [replay EXCEPT !.todo = @ \ {e}]
  /\ accepted' = accepted \cup {e}
  /\ UNCHANGED <<at, stored, memory, tries, letters, overwritten, reader>>

\* mutant of ReplayFails: a letter that failed again is not kept
ReplayFailsMutant(e) ==
  /\ e \in replay.todo
  /\ replay' = [replay EXCEPT !.todo = @ \ {e}]
  /\ UNCHANGED <<at, stored, memory, tries, accepted, letters, overwritten, reader>>

ReplayFails(e) ==
  /\ e \in replay.todo
  /\ replay' = [replay EXCEPT !.todo = @ \ {e}, !.failed = @ \cup {e}]
  /\ UNCHANGED <<at, stored, memory, tries, accepted, letters, overwritten, reader>>

ReplayEnds ==
  /\ replay.at = "sending" /\ replay.todo = {}
  /\ letters' = IF replay.compact THEN replay.failed ELSE letters
  /\ overwritten' = overwritten \cup (letters \ (letters' \cup replay.read))
  /\ replay' = NoReplay
  /\ UNCHANGED <<at, stored, memory, tries, accepted, reader>>

\* The script is killed: the file is as it was.
ReplayKilled ==
  /\ replay.at = "sending"
  /\ replay' = NoReplay
  /\ UNCHANGED <<at, stored, memory, tries, accepted, letters, overwritten, reader>>

-----------------------------------------------------------------------------
(***************************************************************************)
(* AuditStore.query and GET /api/audit: the events in the database; those  *)
(* that are in memory are not asked for.                                   *)
(***************************************************************************)

\* mutant of Rest: pages are counted, the cursor is not looked up
RestMutant == SubSeq(stored, Len(reader.seen) + 1, Len(stored))

\* What comes after the cursor.
Rest ==
  IF reader.cursor = None THEN stored
  ELSE LET i == SelectInSeq(stored, LAMBDA e : e = reader.cursor)
       IN SubSeq(stored, i + 1, Len(stored))

AuditPage ==
  /\ reader.at # "done"
  /\ LET page == SubSeq(Rest, 1, IF Len(Rest) < Limit THEN Len(Rest) ELSE Limit)
         more == Len(Rest) > Limit
     IN reader' = [at |-> IF more THEN "reading" ELSE "done",
                   cursor |-> IF more THEN Last(page) ELSE None,
                   seen |-> reader.seen \o page,
                   had |-> IF reader.at = "idle" THEN ToSet(stored) ELSE reader.had]
  /\ UNCHANGED <<at, stored, memory, tries, accepted, letters, replay, overwritten>>

-----------------------------------------------------------------------------
Next ==
  \/ \E e \in Events :
       \/ Log(e) \/ Stored(e) \/ UserUnknown(e) \/ StoreFails(e)
       \/ Receives(e) \/ PostSucceeds(e) \/ PostFails(e) \/ Backoff(e) \/ DeadLetter(e)
       \/ ReplayDelivers(e) \/ ReplayFails(e)
  \/ Crash
  \/ \E compact \in BOOLEAN : ReplayReads(compact)
  \/ ReplayEnds \/ ReplayKilled \/ AuditPage

Spec == Init /\ [][Next]_vars

-----------------------------------------------------------------------------
TypeOK ==
  /\ at \in [Events -> {"new", "storing", "anonymous", "posting", "waiting", "burying",
                        "logged", "lost"}]
  /\ stored \in Seq(Events \cup ToSet(Earlier)) /\ accepted \subseteq Events /\ letters \subseteq Events
  /\ memory \in Seq(Events) /\ Len(memory) <= Cap
  /\ tries \in [Events -> 0..(MaxRetries + 1)]
  /\ replay \in [at : {"idle", "sending"}, compact : BOOLEAN, read : SUBSET Events,
                 todo : SUBSET Events, failed : SUBSET Events]
  /\ overwritten \subseteq Events
  /\ reader.at \in {"idle", "reading", "done"}
  /\ reader.cursor \in {None} \cup ToSet(stored)

(***************************************************************************)
(* An event that log() is done with is not lost: the webhook took it, or   *)
(* it was tried as often as configured and is in the dead-letter file --   *)
(* unless a replay wrote over a letter that came after it had read the     *)
(* file.  And a logged event is in the database, or in memory until newer  *)
(* ones push it out or the process ends.                                   *)
(***************************************************************************)
EventsKept ==
  /\ \A e \in Events : at[e] = "logged" =>
       \/ e \in accepted
       \/ tries[e] = MaxRetries + 1 /\ e \in letters \cup overwritten
  /\ \A e \in Events : at[e] \in {"posting", "waiting", "burying"} =>
       \/ e \in ToSet(stored) \cup ToSet(memory)
       \/ Len(memory) = Cap /\ memory[Cap] # e

(***************************************************************************)
(* Who reads the log to its end, page after page, while events are being   *)
(* logged, has seen each event that was there when he began, and none      *)
(* twice.                                                                  *)
(***************************************************************************)
PagesComplete ==
  /\ IsInjective(reader.seen)
  /\ reader.at = "done" => reader.had \subseteq ToSet(reader.seen)

(***************************************************************************)
(* "so the audit event is never lost" (server.ts:715): what was logged can *)
(* be read while the gateway runs.                                         *)
(***************************************************************************)
LoggedIsReadable == \A e \in Events : at[e] = "logged" => e \in ToSet(stored)

(***************************************************************************)
(* "Webhook export with retry and dead-letter options"                     *)
(* (docs/FEATURES_SECURITY.md:112): while the gateway runs, an event the   *)
(* webhook did not take is in the dead-letter file.                        *)
(***************************************************************************)
NoLetterLost ==
  \A e \in Events : at[e] = "logged" => e \in accepted \cup letters
=============================================================================
