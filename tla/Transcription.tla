---------------------------- MODULE Transcription ----------------------------
(***************************************************************************)
(* The transcription of salons: the launcher that starts a bot per room    *)
(* (internal/transcription/launcher.go), the bots that record              *)
(* (cmd/transcriber) and the batch that transcribes what they recorded     *)
(* (batch.go).                                                             *)
(*                                                                         *)
(* The drainer hands room events to the launcher, one at a time; a         *)
(* goroutine per bot waits for its end and then runs the batch.  LiveKit   *)
(* is outside: any event may come for any room at any moment, late ones    *)
(* included, and a bot is disconnected when LiveKit pleases.  All bots     *)
(* write to one directory: one manifest, and a file per speaker.  A file   *)
(* that is there is written on from its end, with a header that counts the *)
(* new samples only, so that a reader hears a beginning of the file.       *)
(* Transcripts and their bots are numbered as they are created.            *)
(***************************************************************************)
EXTENDS Naturals, Sequences, FiniteSets

CONSTANTS
    Rooms,
    Speakers,
    MaxBots,     \* bound on the transcripts of a run
    MaxMishaps,  \* bound on crashes and failing statements
    None         \* no bot, no room, no manifest

ASSUME TranscriptionAssumption ==
    /\ MaxBots \in Nat
    /\ MaxMishaps \in Nat
    /\ None \notin Rooms \cup Speakers \cup Nat

VARIABLES
    running,   \* Launcher.running: the bot of each room, or None
    pc,        \* next step of the launcher
    room,      \* room of each bot, None if not created
    process,   \* the process of each bot
    waiter,    \* the goroutine of each bot
    left,      \* tracks its batch has still to transcribe
    tracks,    \* tracks its batch has found in the manifest
    status,    \* transcript.status, "absent" without a row
    words,     \* <<bot, speaker>> recorded whose words each transcript holds
    heard,     \* speakers each bot has recorded
    manifest,  \* manifest.json: the speakers of the bot that wrote it last, or None
    audio,     \* the file of each speaker: the bots recorded in it, in order
    mishaps,   \* crashes and failing statements so far
    alone,     \* ghost: bots that found no recording and met no other bot
    forgotten  \* ghost: bots that record and whose entry was removed

launcher == <<running, pc>>
bots == <<room, process, heard>>
batch == <<waiter, left, tracks>>
rows == <<status, words>>
files == <<manifest, audio>>
ghosts == <<alone, forgotten>>
vars == <<launcher, bots, batch, rows, files, ghosts, mishaps>>

Bots == 1 .. MaxBots
Statuses == {"absent", "pending", "transcribing", "done", "failed"}

Init ==
    /\ running = [r \in Rooms |-> None]
    /\ pc = "idle"
    /\ room = [b \in Bots |-> None]
    /\ process = [b \in Bots |-> "none"]
    /\ waiter = [b \in Bots |-> "none"]
    /\ left = [b \in Bots |-> {}]
    /\ tracks = [b \in Bots |-> {}]
    /\ status = [b \in Bots |-> "absent"]
    /\ words = [b \in Bots |-> {}]
    /\ heard = [b \in Bots |-> {}]
    /\ manifest = None
    /\ audio = [s \in Speakers |-> <<>>]
    /\ mishaps = 0
    /\ alone = {}
    /\ forgotten = {}

Mishap ==
    /\ mishaps < MaxMishaps
    /\ mishaps' = mishaps + 1

Created == {b \in Bots : room[b] # None}
Recording == {b \in Bots : process[b] = "recording"}

\* Bots that may still touch the files, by their process or their batch.
Alive == Recording \cup {b \in Bots : waiter[b] \notin {"none", "over"}}

\* The entry of r is deleted, whosever it is by now.
Delete(r) ==
    /\ running' = [running EXCEPT ![r] = None]
    /\ forgotten' = forgotten \cup ({running[r]} \cap Recording)

-----------------------------------------------------------------------------
(* The launcher.                                                           *)

Newest == Cardinality(Created)

\* CreateTranscript, which gives the bot its number.
CreateTranscript(b, r) ==
    /\ b = Newest + 1
    /\ room' = [room EXCEPT ![b] = r]
    /\ status' = [status EXCEPT ![b] = "pending"]

\* Mutant: the map is not looked up.
HandleStartAnyway(b, r) ==
    /\ pc = "idle"
    /\ CreateTranscript(b, r)
    /\ pc' = "spawn"
    /\ UNCHANGED <<running, process, heard, batch, words, files, ghosts, mishaps>>

\* handleStart: as far as the map says no bot runs for the room, and ShouldTranscribe
\* agrees.  Nothing that others do between the look and the insertion matters to it,
\* and the event has no effect if either fails.
HandleStart(b, r) ==
    /\ pc = "idle"
    /\ running[r] = None
    /\ CreateTranscript(b, r)
    /\ pc' = "spawn"
    /\ UNCHANGED <<running, process, heard, batch, words, files, ghosts, mishaps>>

Undisturbed(b) ==
    IF Alive = {} /\ \A s \in Speakers : audio[s] = <<>>
    THEN alone \cup {b}
    ELSE alone \ Alive

Spawn ==
    /\ pc = "spawn"
    /\ process' = [process EXCEPT ![Newest] = "recording"]
    /\ alone' = Undisturbed(Newest)
    /\ pc' = "register"
    /\ UNCHANGED <<running, room, heard, batch, rows, files, forgotten, mishaps>>

\* The process cannot be started.
SpawnFails ==
    /\ pc = "spawn"
    /\ status' = [status EXCEPT ![Newest] = "failed"]
    /\ pc' = "idle"
    /\ UNCHANGED <<running, bots, batch, words, files, ghosts, mishaps>>

\* The entry, and then the goroutine that waits for the bot.
Register ==
    /\ pc = "register"
    /\ running' = [running EXCEPT ![room[Newest]] = Newest]
    /\ waiter' = [waiter EXCEPT ![Newest] = "wait"]
    /\ pc' = "idle"
    /\ UNCHANGED <<bots, left, tracks, rows, files, ghosts, mishaps>>

\* handleFinished.
HandleFinished(r) ==
    /\ pc = "idle"
    /\ running[r] # None
    /\ Delete(r)
    /\ UNCHANGED <<pc, bots, batch, rows, files, alone, mishaps>>

Launch ==
    \/ Spawn
    \/ SpawnFails
    \/ Register

-----------------------------------------------------------------------------
(* A bot.                                                                  *)

\* The file of a speaker is opened at its end.
NewWAVWriter(b, s) == audio' = [audio EXCEPT ![s] = Append(@, b)]

WriteManifest(b) == manifest' = heard[b]

\* onTrack: the first track of a speaker.
OnTrack(b, s) ==
    /\ b \in Recording
    /\ s \notin heard[b]
    /\ heard' = [heard EXCEPT ![b] = @ \cup {s}]
    /\ NewWAVWriter(b, s)
    /\ UNCHANGED <<launcher, room, process, batch, rows, manifest, ghosts, mishaps>>

\* shutdown: the bot, disconnected, writes its manifest over what was there ...
Shutdown(b) ==
    /\ b \in Recording
    /\ process' = [process EXCEPT ![b] = "written"]
    /\ WriteManifest(b)
    /\ forgotten' = forgotten \ {b}
    /\ UNCHANGED <<launcher, room, heard, batch, rows, audio, alone, mishaps>>

\* ... or ends without one: it refuses its arguments, cannot connect, is killed.
Die(b) ==
    /\ b \in Recording
    /\ process' = [process EXCEPT ![b] = "silent"]
    /\ forgotten' = forgotten \ {b}
    /\ UNCHANGED <<launcher, room, heard, batch, rows, files, alone, mishaps>>

-----------------------------------------------------------------------------
(* The goroutine of a bot, and the batch.                                  *)

\* stop() returns; the entry of the room is deleted.
BotEnded(b) ==
    /\ waiter[b] = "wait"
    /\ b \notin Recording
    /\ waiter' = [waiter EXCEPT ![b] = "read"]
    /\ Delete(room[b])
    /\ UNCHANGED <<pc, bots, left, tracks, rows, files, alone, mishaps>>

Put(b, s) == status' = [status EXCEPT ![b] = s]

Over(b) ==
    /\ waiter' = [waiter EXCEPT ![b] = "over"]
    /\ left' = [left EXCEPT ![b] = {}]
    /\ tracks' = [tracks EXCEPT ![b] = {}]

\* Transcribe reads the manifest and says 'transcribing'.
ReadManifest(b) ==
    /\ waiter[b] = "read"
    /\ manifest # None
    /\ tracks' = [tracks EXCEPT ![b] = manifest]
    /\ left' = [left EXCEPT ![b] = manifest]
    /\ waiter' = [waiter EXCEPT ![b] = "transcribe"]
    /\ Put(b, "transcribing")
    /\ UNCHANGED <<launcher, bots, words, files, ghosts, mishaps>>

\* There is no manifest: Transcribe returns, and nobody writes a status.
NoManifest(b) ==
    /\ waiter[b] = "read"
    /\ manifest = None
    /\ Over(b)
    /\ UNCHANGED <<launcher, bots, rows, files, ghosts, mishaps>>

\* The segments of the first n recordings in the file of s.
AddSegments(b, s, n) == words' = [words EXCEPT ![b] = @ \cup {<<audio[s][i], s>> : i \in 1 .. n}]

\* Mutant: whisper's output is not there, and the track is passed over.
TranscribeOrSkip(b, s) ==
    /\ waiter[b] = "transcribe"
    /\ s \in left[b]
    /\ left' = [left EXCEPT ![b] = @ \ {s}]
    /\ \E n \in 0 .. Len(audio[s]) : AddSegments(b, s, n)
    /\ UNCHANGED <<launcher, bots, waiter, tracks, status, files, ghosts, mishaps>>

\* Whisper hears a beginning of the file, and the segments are added.
TranscribeTrack(b, s) ==
    /\ waiter[b] = "transcribe"
    /\ s \in left[b]
    /\ left' = [left EXCEPT ![b] = @ \ {s}]
    /\ \E n \in 1 .. Len(audio[s]) : AddSegments(b, s, n)
    /\ UNCHANGED <<launcher, bots, waiter, tracks, status, files, ghosts, mishaps>>

\* Mutant: the error is returned, as at the manifest.
TrackFailsSilently(b, s) ==
    /\ waiter[b] = "transcribe"
    /\ s \in left[b]
    /\ Over(b)
    /\ UNCHANGED <<launcher, bots, rows, files, ghosts, mishaps>>

\* Mutant: the files are removed however the batch ends.
TrackFailsPurged(b, s) ==
    /\ waiter[b] = "transcribe"
    /\ s \in left[b]
    /\ Put(b, "failed")
    /\ Over(b)
    /\ audio' = [t \in Speakers |-> IF t \in tracks[b] THEN <<>> ELSE audio[t]]
    /\ UNCHANGED <<launcher, bots, words, manifest, ghosts, mishaps>>

\* Whisper fails (at the latest on a file that is gone), or a segment cannot be
\* added: 'failed', and the files stay.
TrackFails(b, s) ==
    /\ waiter[b] = "transcribe"
    /\ s \in left[b]
    /\ Put(b, "failed")
    /\ Over(b)
    /\ UNCHANGED <<launcher, bots, words, files, ghosts, mishaps>>

\* All the tracks are there: 'done' ...
AllTranscribed(b) ==
    /\ waiter[b] = "transcribe"
    /\ left[b] = {}
    /\ Put(b, "done")
    /\ waiter' = [waiter EXCEPT ![b] = "purge"]
    /\ UNCHANGED <<launcher, bots, left, tracks, words, files, ghosts, mishaps>>

\* ... and the files are removed. The manifest is not.
Purge(b) ==
    /\ waiter[b] = "purge"
    /\ Over(b)
    /\ audio' = [s \in Speakers |-> IF s \in tracks[b] THEN <<>> ELSE audio[s]]
    /\ UNCHANGED <<launcher, bots, rows, manifest, ghosts, mishaps>>

\* SetStatus of 'transcribing' or 'done' fails, or the UPDATE to 'failed' does:
\* Transcribe returns.
SetStatusFails(b) ==
    /\ Mishap
    /\ waiter[b] \in {"read", "transcribe"}
    /\ Over(b)
    /\ UNCHANGED <<launcher, bots, rows, files, ghosts>>

Wait(b) ==
    \/ BotEnded(b)
    \/ ReadManifest(b)
    \/ NoManifest(b)
    \/ \E s \in Speakers : TranscribeTrack(b, s) \/ TrackFails(b, s)
    \/ AllTranscribed(b)
    \/ Purge(b)
    \/ SetStatusFails(b)

-----------------------------------------------------------------------------

\* The server dies with its goroutines; the bots go on.
Crash ==
    /\ Mishap
    /\ running' = [r \in Rooms |-> None]
    /\ pc' = "idle"
    /\ waiter' = [b \in Bots |-> IF waiter[b] = "none" THEN "none" ELSE "over"]
    /\ left' = [b \in Bots |-> {}]
    /\ tracks' = [b \in Bots |-> {}]
    /\ forgotten' = forgotten \cup Recording
    /\ UNCHANGED <<bots, rows, files, alone>>

Next ==
    \/ \E r \in Rooms : HandleFinished(r) \/ \E b \in Bots : HandleStart(b, r)
    \/ Launch
    \/ \E b \in Bots :
          \/ \E s \in Speakers : OnTrack(b, s)
          \/ Shutdown(b)
          \/ Die(b)
          \/ Wait(b)
    \/ Crash

Spec == Init /\ [][Next]_vars

\* The launcher and the goroutines go on, and a room ends one day for its bot.
FairSpec ==
    /\ Spec
    /\ WF_vars(Launch)
    /\ \A b \in Bots : WF_vars(Wait(b)) /\ WF_vars(Shutdown(b) \/ Die(b))

-----------------------------------------------------------------------------
(* Properties.                                                             *)

TypeOK ==
    /\ running \in [Rooms -> Bots \cup {None}]
    /\ pc \in {"idle", "spawn", "register"}
    /\ room \in [Bots -> Rooms \cup {None}]
    /\ process \in [Bots -> {"none", "recording", "written", "silent"}]
    /\ waiter \in [Bots -> {"none", "wait", "read", "transcribe", "purge", "over"}]
    /\ left \in [Bots -> SUBSET Speakers]
    /\ tracks \in [Bots -> SUBSET Speakers]
    /\ status \in [Bots -> Statuses]
    /\ words \in [Bots -> SUBSET (Bots \X Speakers)]
    /\ heard \in [Bots -> SUBSET Speakers]
    /\ manifest \in {None} \cup SUBSET Speakers
    /\ audio \in [Speakers -> Seq(Bots)]
    /\ mishaps \in 0 .. MaxMishaps
    /\ alone \subseteq Bots
    /\ forgotten \subseteq Bots

\* handleStart: 'si un bot tourne déjà pour ce slug, ne pas en lancer un second'. Of
\* two bots that record one room, the older one was forgotten: room_finished, the end
\* of another bot or a restart of the server removed its entry.
OneBotUnlessForgotten ==
    \A b, c \in Recording : b < c /\ room[b] = room[c] => b \in forgotten

\* A transcript that is done, of a bot that was alone with its files, holds the words
\* of all it recorded and of nobody else.
OwnWords ==
    \A b \in alone :
        status[b] = "done" /\ process[b] = "written" => words[b] = {b} \X heard[b]

\* Transcribe: 'les WAV sont conservés pour diagnostic'. Whatever stopped its batch or the
\* server, the recordings of a bot that was alone with its files are there, whole and
\* unmixed, until its transcript is done, or until the next bot starts, whose batch may
\* remove them.
RecordingsAreKept ==
    \A b \in alone :
        status[b] # "done" /\ (\A c \in Bots : b < c => process[c] = "none") =>
            \A s \in heard[b] : audio[s] = <<b>>

\* The status of b will not change any more: there was no manifest to read, or the
\* server died or could not write.
Lost(b) == (process[b] = "silent" /\ waiter[b] = "over") \/ mishaps > 0

\* A transcript created is in the end done or failed, but for those whose bot left no
\* manifest, which stay 'pending'.
TranscriptSettles ==
    \A b \in Bots : status[b] = "pending" ~> status[b] \in {"done", "failed"} \/ Lost(b)
=============================================================================
