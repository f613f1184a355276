------------------------------- MODULE History -------------------------------
(***************************************************************************)
(* Recordings of past attempts and their removal: OpenRecording and Close  *)
(* of internal/recorder/cast.go, Delete, remove and Prune of               *)
(* internal/attempt, and the replay of internal/api/history.go.            *)
(*                                                                         *)
(* A recording is a row and a file.  The row goes with the row of its      *)
(* attempt (ON DELETE CASCADE) and cannot be added without it; the file is *)
(* named after the attempt, the node and the tab, so that a tab that is    *)
(* opened again writes over it.  Here every attempt has one node and tab,  *)
(* and thus one file.  The server prunes on a schedule, "nsl prune" does   *)
(* it in a process of its own, and an admin deletes single attempts.       *)
(***************************************************************************)
EXTENDS Naturals, FiniteSets

CONSTANTS
    Past,        \* attempts
    Casts,       \* recordings
    Pruners,     \* processes that prune
    PruneBatch,  \* pruneBatch
    MaxPrunes    \* bound on the calls of Prune and Delete

ASSUME HistoryAssumption == PruneBatch \in Nat \ {0}

Admin == "admin"
Sweepers == Pruners \cup {Admin}
NoCast == "no-cast"

VARIABLES
    rows,       \* of attempts: "running", "ended" or "gone"
    recordings, \* rows of recordings
    files,      \* attempts with a file
    tape,       \* for each recording its attempt and how far it is
    sweeper,    \* for each remover: what its cutoff covers, its batch, the one it removes
    replay,     \* the reader of a recording
    prunes

historyVars == <<rows, recordings, files, tape, sweeper, replay, prunes>>

InitHistory ==
    /\ rows = [a \in Past |-> "running"]
    /\ recordings = {}
    /\ files = {}
    /\ tape \in [Casts -> [of : Past, pc : {"new"}]]
    /\ sweeper = [s \in Sweepers |->
          [pc |-> "idle", cutoff |-> {}, batch |-> {}, full |-> FALSE, at |-> NoCast]]
    /\ replay = [pc |-> "idle", cast |-> NoCast]
    /\ prunes = 0

\* Service.end, as far as this module needs it.
Ends(a) ==
    /\ rows[a] = "running"
    /\ rows' = [rows EXCEPT ![a] = "ended"]
    /\ UNCHANGED <<recordings, files, tape, sweeper, replay, prunes>>

-----------------------------------------------------------------------------
(* A terminal records.                                                      *)

TapeGoes(c, from, to) ==
    /\ tape[c].pc = from
    /\ tape' = [tape EXCEPT ![c].pc = to]

\* The terminal handler asks for a running attempt, once.
Tape(c) ==
    /\ rows[tape[c].of] = "running"
    /\ TapeGoes(c, "new", "create")
    /\ UNCHANGED <<rows, recordings, files, sweeper, replay, prunes>>

CreateFile(c) ==
    /\ TapeGoes(c, "create", "insert")
    /\ files' = files \cup {tape[c].of}
    /\ UNCHANGED <<rows, recordings, sweeper, replay, prunes>>

\* The row needs that of the attempt; without it the file stays.
CreateRecording(c) ==
    /\ TapeGoes(c, "insert", IF rows[tape[c].of] = "gone" THEN "closed" ELSE "open")
    /\ recordings' = recordings \cup {c : r \in {rows[tape[c].of]} \ {"gone"}}
    /\ UNCHANGED <<rows, files, sweeper, replay, prunes>>

\* No directory, file or row can be made, the recording is closed, or the process
\* is gone.  SetEnded has an effect on the size that is listed only.
TapeEnds(c) ==
    /\ tape[c].pc \in {"create", "insert", "open"}
    /\ TapeGoes(c, tape[c].pc, "closed")
    /\ UNCHANGED <<rows, recordings, files, sweeper, replay, prunes>>

-----------------------------------------------------------------------------
(* Delete and Prune                                                         *)

Idle(s) == sweeper[s].pc \in {"idle", "done", "failed"} /\ prunes < MaxPrunes

\* Delete looks at the status, before anything is removed.
DeleteAttempt(a) ==
    /\ Idle(Admin)
    /\ rows[a] = "ended"
    /\ prunes' = prunes + 1
    /\ sweeper' = [sweeper EXCEPT ![Admin] =
          [pc |-> "next", cutoff |-> {}, batch |-> {a}, full |-> FALSE, at |-> NoCast]]
    /\ UNCHANGED <<rows, recordings, files, tape, replay>>

\* Prune: the cutoff is set once, and what ended before it is fixed with it.
StartPrune(s, old) ==
    /\ Idle(s)
    /\ \A a \in old : rows[a] = "ended"
    /\ prunes' = prunes + 1
    /\ sweeper' = [sweeper EXCEPT ![s] =
          [pc |-> "list", cutoff |-> old, batch |-> {}, full |-> FALSE, at |-> NoCast]]
    /\ UNCHANGED <<rows, recordings, files, tape, replay>>

\* A batch of what is left; the oldest first, which is of no importance here.
ListBatch(s) ==
    LET left == {a \in sweeper[s].cutoff : rows[a] # "gone"} IN
    /\ sweeper[s].pc = "list"
    /\ \E batch \in SUBSET left :
         /\ batch = left \/ Cardinality(batch) = PruneBatch
         /\ Cardinality(batch) <= PruneBatch
         /\ sweeper' = [sweeper EXCEPT ![s].pc = "next", ![s].batch = batch,
                                       ![s].full = Cardinality(batch) = PruneBatch]
    /\ UNCHANGED <<rows, recordings, files, tape, replay, prunes>>

\* Mutant: the files go first, and the store may fail after them.
DeleteRowLast(s, a) ==
    /\ sweeper[s].pc = "next" /\ a \in sweeper[s].batch
    /\ files' = files \ {a}
    /\ \/ /\ rows' = [rows EXCEPT ![a] = "gone"]
          /\ recordings' = {c \in recordings : tape[c].of # a}
          /\ sweeper' = [sweeper EXCEPT ![s].batch = @ \ {a}]
       \/ /\ sweeper' = [sweeper EXCEPT ![s].pc = "failed"]
          /\ UNCHANGED <<rows, recordings>>
    /\ UNCHANGED <<tape, replay, prunes>>

\* remove: the row, and with it the rows of its recordings.  When somebody else was
\* faster Prune goes on with the next one, and Delete has none.
DeleteRow(s, a) ==
    /\ sweeper[s].pc = "next" /\ a \in sweeper[s].batch
    /\ rows' = [rows EXCEPT ![a] = "gone"]
    /\ recordings' = {c \in recordings : tape[c].of # a}
    /\ sweeper' = [sweeper EXCEPT ![s].batch = @ \ {a},
                                  ![s].pc = IF rows[a] = "gone" THEN "next" ELSE "files",
                                  ![s].at = a]
    /\ UNCHANGED <<files, tape, replay, prunes>>

\* remove: the directory of the attempt.
RemoveFiles(s) ==
    /\ sweeper[s].pc = "files"
    /\ files' = files \ {sweeper[s].at}
    /\ sweeper' = [sweeper EXCEPT ![s].pc = "next"]
    /\ UNCHANGED <<rows, recordings, tape, replay, prunes>>

\* A batch that was full may not have been the last.
BatchEnds(s) ==
    /\ sweeper[s].pc = "next" /\ sweeper[s].batch = {}
    /\ sweeper' = [sweeper EXCEPT ![s].pc = IF sweeper[s].full THEN "list" ELSE "done"]
    /\ UNCHANGED <<rows, recordings, files, tape, replay, prunes>>

\* The store or the file system fails, or the process is gone.
SweepFails(s) ==
    /\ sweeper[s].pc \in {"list", "next", "files"}
    /\ sweeper' = [sweeper EXCEPT ![s].pc = "failed"]
    /\ UNCHANGED <<rows, recordings, files, tape, replay, prunes>>

-----------------------------------------------------------------------------
(* attemptCast.  The owner may read at any time, an admin after the end.    *)

ListRecordings(c) ==
    /\ replay.pc # "open"
    /\ c \in recordings
    /\ replay' = [pc |-> "open", cast |-> c]
    /\ UNCHANGED <<rows, recordings, files, tape, sweeper, prunes>>

OpenCast ==
    /\ replay.pc = "open"
    /\ replay' = [replay EXCEPT !.pc =
          IF tape[replay.cast].of \in files THEN "served" ELSE "missing"]
    /\ UNCHANGED <<rows, recordings, files, tape, sweeper, prunes>>

NextHistory ==
    \/ \E a \in Past : Ends(a) \/ DeleteAttempt(a)
    \/ \E c \in Casts : Tape(c) \/ CreateFile(c) \/ CreateRecording(c) \/ TapeEnds(c)
                        \/ ListRecordings(c)
    \/ \E s \in Pruners, old \in SUBSET Past : StartPrune(s, old)
    \/ \E s \in Sweepers :
          \/ ListBatch(s) \/ RemoveFiles(s) \/ BatchEnds(s) \/ SweepFails(s)
          \/ \E a \in Past : DeleteRow(s, a)
    \/ OpenCast

-----------------------------------------------------------------------------
\* However removals, failures and terminals meet: a recording that is listed is on
\* disk, so that a replay finds its file missing only when the attempt was removed
\* meanwhile, and a Prune that reports no error has left none of the attempts that
\* ended before its cutoff, whoever else removed some of them (remove, Prune,
\* OpenRecording, attemptCast).
HistoryIsWhole ==
    /\ \A c \in recordings : tape[c].of \in files /\ rows[tape[c].of] # "gone"
    /\ replay.pc = "missing" => rows[tape[replay.cast].of] = "gone"
    /\ \A s \in Pruners : sweeper[s].pc = "done" =>
          \A a \in sweeper[s].cutoff : rows[a] = "gone"

=============================================================================
