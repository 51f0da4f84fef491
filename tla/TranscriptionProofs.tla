-------------------------- MODULE TranscriptionProofs --------------------------
(***************************************************************************)
(* Proofs about Transcription, for any rooms, speakers, numbers of bots    *)
(* and mishaps.                                                            *)
(*                                                                         *)
(* A bot that records and was not forgotten holds the entry of its room,   *)
(* or is about to (EntryInv): from there, no second bot.  A bot that was   *)
(* alone keeps the files for itself as long as its process or its batch    *)
(* may touch them (FilesInv), so that its batch adds its words and no      *)
(* others (WordsInv); and nobody else's batch removes what it recorded     *)
(* before the next bot starts (KeptInv).                                   *)
(***************************************************************************)
EXTENDS Transcription, FiniteSetTheorems, TLAPS

\* Bots are numbered in order; those without a process have left no trace.
BotsInv ==
    /\ Created = 1 .. Cardinality(Created)
    /\ \A b \in Bots \ Created : process[b] = "none" /\ waiter[b] = "none"
    /\ \A b \in Bots : process[b] = "none" =>
          heard[b] = {} /\ words[b] = {} /\ b \notin alone

\* The launcher is at a bot that it has created last, for a room without an entry.
LauncherInv ==
    pc # "idle" =>
        /\ Newest \in Bots
        /\ Newest \in Created
        /\ running[room[Newest]] = None
        /\ waiter[Newest] = "none"
        /\ pc = "spawn" <=> process[Newest] = "none"

\* The entry of a bot that records is its own, unless it was removed, or is not made yet.
EntryInv ==
    \A b \in Recording :
        \/ b \in forgotten
        \/ running[room[b]] = b
        \/ pc = "register" /\ b = Newest

\* The batch of a bot comes after its process.
BatchInv ==
    \A b \in Bots :
        /\ waiter[b] # "none" => process[b] # "none"
        /\ waiter[b] \in {"read", "transcribe", "purge"} => process[b] \in {"written", "silent"}
        /\ waiter[b] \in {"none", "wait", "read"} => words[b] = {}
        /\ status[b] = "done" =>
              waiter[b] \in {"purge", "over"} /\ process[b] \in {"written", "silent"}

\* Bots that touch the files, or will when the launcher has made their entry.
Active(b) == b \in Alive \/ (pc = "register" /\ b = Newest)

FilesInv ==
    \A b \in alone : Active(b) =>
        /\ \A c \in Bots : Active(c) => c = b
        /\ audio = [s \in Speakers |-> IF s \in heard[b] THEN <<b>> ELSE <<>>]
        /\ process[b] = "written" => manifest = heard[b]

\* What its batch has added so far, if the bot was alone and wrote its manifest.
WordsInv ==
    \A b \in alone : process[b] = "written" =>
        /\ waiter[b] = "transcribe" =>
              /\ tracks[b] = heard[b] /\ left[b] \subseteq heard[b]
              /\ words[b] = {b} \X (heard[b] \ left[b])
        /\ waiter[b] = "purge" => words[b] = {b} \X heard[b]

\* No older bot touches the files of a bot that was alone, and a batch that removes files
\* is done.
KeptInv ==
    /\ \A b \in alone, c \in Bots : c < b => c \notin Alive
    /\ \A b \in Bots : waiter[b] = "purge" => status[b] = "done"

IInv ==
    /\ TypeOK
    /\ BotsInv
    /\ LauncherInv
    /\ EntryInv
    /\ BatchInv
    /\ FilesInv
    /\ WordsInv
    /\ OneBotUnlessForgotten
    /\ OwnWords
    /\ KeptInv
    /\ RecordingsAreKept

-----------------------------------------------------------------------------
(* Numbers, types and traces.                                              *)

LEMMA Numbers ==
    ASSUME TypeOK, BotsInv
    PROVE  /\ IsFiniteSet(Created) /\ Newest \in Nat
           /\ Newest + 1 \notin Created
           /\ \A b \in Created : b \in Bots /\ b <= Newest
<1>1. IsFiniteSet(Bots)
  BY TranscriptionAssumption, FS_Interval DEF Bots
<1>2. IsFiniteSet(Created) /\ Newest \in Nat
  BY <1>1, FS_Subset, FS_CardinalityType DEF Created, Newest
<1>3. Created = 1 .. Newest
  BY DEF BotsInv, Newest
<1> QED
  BY <1>2, <1>3 DEF Created

\* The number of the newest bot depends on the rooms only.
LEMMA SameRooms == room' = room => Created' = Created /\ Newest' = Newest
  BY DEF Created, Newest

LEMMA NewBot ==
    ASSUME TypeOK, BotsInv, NEW b \in Bots, NEW r \in Rooms, CreateTranscript(b, r)
    PROVE  /\ b \notin Created /\ Created' = Created \cup {b} /\ Newest' = b
           /\ b \in Nat /\ b = Newest + 1
<1>1. b \notin Created /\ IsFiniteSet(Created) /\ Newest \in Nat /\ b = Newest + 1
  BY Numbers DEF CreateTranscript
<1>2. Created' = Created \cup {b}
  BY TranscriptionAssumption DEF CreateTranscript, Created, TypeOK
<1>3. Cardinality(Created \cup {b}) = Cardinality(Created) + 1
  BY <1>1, FS_AddElement
<1> QED
  BY <1>1, <1>2, <1>3 DEF Newest

LEMMA InitIInv == Init => IInv
<1> SUFFICES ASSUME Init PROVE IInv
  OBVIOUS
<1> USE TranscriptionAssumption DEF Init
<1>1. TypeOK
  BY DEF TypeOK, Statuses
<1>2. Created = {} /\ Recording = {} /\ alone = {}
  BY DEF Created, Recording
<1>3. BotsInv
  <2>1. Cardinality(Created) = 0
    BY <1>2, FS_EmptySet
  <2> QED
    BY <1>2, <2>1 DEF BotsInv
<1>4. LauncherInv /\ EntryInv /\ BatchInv
  BY <1>2 DEF LauncherInv, EntryInv, BatchInv
<1>5. FilesInv /\ WordsInv /\ OneBotUnlessForgotten /\ OwnWords
  BY <1>2 DEF FilesInv, WordsInv, OneBotUnlessForgotten, OwnWords
<1>6. KeptInv /\ RecordingsAreKept
  BY <1>2 DEF KeptInv, RecordingsAreKept
<1> QED
  BY <1>1, <1>3, <1>4, <1>5, <1>6 DEF IInv

\* The steps, the launcher's and the goroutines' spelt out.
LEMMA NextCases ==
    ASSUME [Next]_vars
    PROVE  \/ \E r \in Rooms : HandleFinished(r)
           \/ \E r \in Rooms, b \in Bots : HandleStart(b, r)
           \/ Spawn \/ SpawnFails \/ Register
           \/ \E b \in Bots, s \in Speakers : OnTrack(b, s)
           \/ \E b \in Bots : Shutdown(b) \/ Die(b)
           \/ \E b \in Bots : BotEnded(b) \/ ReadManifest(b) \/ AllTranscribed(b)
           \/ \E b \in Bots : NoManifest(b) \/ SetStatusFails(b) \/ Purge(b)
           \/ \E b \in Bots, s \in Speakers : TranscribeTrack(b, s) \/ TrackFails(b, s)
           \/ Crash
           \/ UNCHANGED vars
  BY DEF Next, Launch, Wait

LEMMA StepTypeOK == IInv /\ [Next]_vars => TypeOK'
<1> SUFFICES ASSUME IInv, [Next]_vars PROVE TypeOK'
  OBVIOUS
<1>t. TypeOK /\ BotsInv /\ LauncherInv
  BY DEF IInv
<1> USE <1>t, TranscriptionAssumption
    DEF TypeOK, Statuses, launcher, bots, batch, rows, files, ghosts, Delete, Over, Put, Mishap
<1>1. ASSUME NEW r \in Rooms, HandleFinished(r) PROVE TypeOK'
  BY <1>1 DEF HandleFinished, Recording
<1>2. ASSUME NEW r \in Rooms, NEW b \in Bots, HandleStart(b, r) PROVE TypeOK'
  BY <1>2 DEF HandleStart, CreateTranscript
<1>3. CASE Spawn
  <2>1. alone' \subseteq Bots
    BY <1>3 DEF Spawn, Undisturbed, LauncherInv
  <2> QED
    BY <1>3, <2>1 DEF Spawn
<1>4. CASE SpawnFails \/ Register
  <2>1. CASE SpawnFails
    BY <2>1 DEF SpawnFails
  <2>2. CASE Register
    BY <2>2 DEF Register, LauncherInv
  <2> QED
    BY <1>4, <2>1, <2>2
<1>5. ASSUME NEW b \in Bots, NEW s \in Speakers, OnTrack(b, s) PROVE TypeOK'
  <2>1. Append(audio[s], b) \in Seq(Bots)
    OBVIOUS
  <2> QED
    BY <1>5, <2>1 DEF OnTrack, NewWAVWriter
<1>6. ASSUME NEW b \in Bots, Shutdown(b) \/ Die(b) PROVE TypeOK'
  BY <1>6 DEF Shutdown, Die, WriteManifest
<1>7. ASSUME NEW b \in Bots, BotEnded(b) \/ ReadManifest(b) \/ AllTranscribed(b) PROVE TypeOK'
  <2>1. CASE BotEnded(b)
    BY <2>1 DEF BotEnded, Recording
  <2>2. CASE ReadManifest(b)
    BY <2>2 DEF ReadManifest
  <2>3. CASE AllTranscribed(b)
    BY <2>3 DEF AllTranscribed
  <2> QED
    BY <1>7, <2>1, <2>2, <2>3
<1>8. ASSUME NEW b \in Bots, NoManifest(b) \/ SetStatusFails(b) PROVE TypeOK'
  <2>1. CASE NoManifest(b)
    BY <2>1 DEF NoManifest
  <2>2. CASE SetStatusFails(b)
    BY <2>2 DEF SetStatusFails
  <2> QED
    BY <1>8, <2>1, <2>2
<1>9. ASSUME NEW b \in Bots, Purge(b) PROVE TypeOK'
  <2>1. audio' \in [Speakers -> Seq(Bots)]
    BY <1>9 DEF Purge
  <2> QED
    BY <1>9, <2>1 DEF Purge
<1>10. ASSUME NEW b \in Bots, NEW s \in Speakers, TranscribeTrack(b, s) PROVE TypeOK'
  <2>1. PICK n \in 1 .. Len(audio[s]) : AddSegments(b, s, n)
    BY <1>10 DEF TranscribeTrack
  <2>2. \A i \in 1 .. n : audio[s][i] \in Bots
    OBVIOUS
  <2>3. words' \in [Bots -> SUBSET (Bots \X Speakers)]
    BY <2>1, <2>2 DEF AddSegments
  <2> QED
    BY <1>10, <2>3 DEF TranscribeTrack
<1>11. ASSUME NEW b \in Bots, NEW s \in Speakers, TrackFails(b, s) PROVE TypeOK'
  BY <1>11 DEF TrackFails
<1>12. CASE Crash
  BY <1>12 DEF Crash, Recording
<1>13. CASE UNCHANGED vars
  BY <1>13 DEF vars
<1> HIDE DEF TypeOK
<1> QED
  BY <1>1, <1>2, <1>3, <1>4, <1>5, <1>6, <1>7, <1>8, <1>9, <1>10, <1>11, <1>12, <1>13, NextCases

\* A bot the steps are about has been created, and bots keep their traces to themselves.
LEMMA StepBots == IInv /\ [Next]_vars => BotsInv'
<1> SUFFICES ASSUME IInv, [Next]_vars PROVE BotsInv'
  OBVIOUS
<1>t. TypeOK /\ BotsInv /\ LauncherInv /\ BatchInv
  BY DEF IInv
<1> USE <1>t, TranscriptionAssumption
    DEF TypeOK, launcher, bots, batch, rows, files, ghosts, Delete, Over
<1> DEFINE Untraced(b) == heard[b] = {} /\ words[b] = {} /\ b \notin alone
\* No bot is created, and only created ones are touched.
<1>1. ASSUME room' = room,
             \A b \in Bots \ Created : process'[b] = "none" /\ waiter'[b] = "none",
             \A b \in Bots : process'[b] = "none" => Untraced(b)'
      PROVE  BotsInv'
  BY <1>1, SameRooms DEF BotsInv
<1>2. ASSUME NEW r \in Rooms, NEW b \in Bots, HandleStart(b, r) PROVE BotsInv'
  <2>1. Created' = Created \cup {b} /\ b = Newest + 1 /\ Newest' = b /\ Newest \in Nat
    BY <1>2, NewBot, Numbers DEF HandleStart
  <2>2. Created = 1 .. Newest
    BY DEF BotsInv, Newest
  <2>3. Created' = 1 .. Newest'
    BY <2>1, <2>2
  <2> QED
    BY <1>2, <2>1, <2>3 DEF HandleStart, BotsInv, Newest
<1>3. CASE Spawn
  <2>1. Newest \in Created /\ alone' \subseteq alone \cup {Newest}
    BY <1>3 DEF Spawn, Undisturbed, LauncherInv
  <2> QED
    BY <1>1, <1>3, <2>1 DEF Spawn, BotsInv, Created
<1>4. CASE Register
  <2>1. Newest \in Created
    BY <1>4 DEF Register, LauncherInv
  <2> QED
    BY <1>1, <1>4, <2>1 DEF Register, BotsInv
<1>5. ASSUME NEW b \in Bots, NEW s \in Speakers, OnTrack(b, s) PROVE BotsInv'
  <2>1. process[b] # "none"
    BY <1>5 DEF OnTrack, Recording
  <2> QED
    BY <1>1, <1>5, <2>1 DEF OnTrack, BotsInv
<1>6. ASSUME NEW b \in Bots, Shutdown(b) \/ Die(b) PROVE BotsInv'
  <2>1. process[b] # "none"
    BY <1>6 DEF Shutdown, Die, Recording
  <2> QED
    BY <1>1, <1>6, <2>1 DEF Shutdown, Die, BotsInv
<1>7. ASSUME NEW b \in Bots, waiter[b] # "none", UNCHANGED bots, alone' = alone,
             \A k \in Bots : k # b => waiter'[k] = waiter[k] /\ words'[k] = words[k]
      PROVE  BotsInv'
  <2>1. process[b] # "none"
    BY <1>7 DEF BatchInv
  <2> QED
    BY <1>1, <1>7, <2>1 DEF BotsInv
<1>8. ASSUME NEW b \in Bots, BotEnded(b) \/ ReadManifest(b) \/ AllTranscribed(b) PROVE BotsInv'
  BY <1>7, <1>8 DEF BotEnded, ReadManifest, AllTranscribed
<1>9. ASSUME NEW b \in Bots, NoManifest(b) \/ SetStatusFails(b) \/ Purge(b) PROVE BotsInv'
  BY <1>7, <1>9 DEF NoManifest, SetStatusFails, Purge
<1>10. ASSUME NEW b \in Bots, NEW s \in Speakers, TranscribeTrack(b, s) PROVE BotsInv'
  <2>1. \A k \in Bots : k # b => words'[k] = words[k]
    BY <1>10 DEF TranscribeTrack, AddSegments
  <2> QED
    BY <1>7, <1>10, <2>1 DEF TranscribeTrack
<1>11. ASSUME NEW b \in Bots, NEW s \in Speakers, TrackFails(b, s) PROVE BotsInv'
  BY <1>7, <1>11 DEF TrackFails
<1>12. CASE Crash
  BY <1>1, <1>12 DEF Crash, BotsInv
<1>13. ASSUME UNCHANGED <<bots, waiter, words, alone>> PROVE BotsInv'
  BY <1>1, <1>13 DEF BotsInv
<1> HIDE DEF TypeOK
<1> QED
  BY <1>2, <1>3, <1>4, <1>5, <1>6, <1>8, <1>9, <1>10, <1>11, <1>12, <1>13, NextCases
  DEF HandleFinished, SpawnFails, vars

LEMMA StepLauncher == IInv /\ [Next]_vars => LauncherInv'
<1> SUFFICES ASSUME IInv, [Next]_vars PROVE LauncherInv'
  OBVIOUS
<1>t. TypeOK /\ BotsInv /\ LauncherInv /\ BatchInv
  BY DEF IInv
<1> USE <1>t, TranscriptionAssumption
    DEF TypeOK, launcher, bots, batch, rows, files, ghosts, Delete, Over
\* The launcher stays where it is, and nothing it relies on moves.
<1>1. ASSUME pc' = pc, room' = room,
             \A r \in Rooms : running'[r] \in {running[r], None},
             \A b \in Bots : waiter[b] = "none" => waiter'[b] = "none",
             \A b \in Bots : process'[b] = "none" <=> process[b] = "none"
      PROVE  LauncherInv'
  <2> SUFFICES ASSUME pc # "idle" PROVE LauncherInv'
    BY <1>1 DEF LauncherInv
  <2>1. /\ Newest \in Bots /\ Newest \in Created /\ running[room[Newest]] = None
        /\ waiter[Newest] = "none" /\ (pc = "spawn" <=> process[Newest] = "none")
    BY DEF LauncherInv
  <2>2. room[Newest] \in Rooms
    BY <2>1 DEF Created
  <2>3. Created' = Created /\ Newest' = Newest
    BY <1>1, SameRooms
  <2> QED
    BY <1>1, <2>1, <2>2, <2>3 DEF LauncherInv
<1>2. ASSUME NEW r \in Rooms, NEW b \in Bots, HandleStart(b, r) PROVE LauncherInv'
  <2>1. b \notin Created /\ Created' = Created \cup {b} /\ Newest' = b
    BY <1>2, NewBot DEF HandleStart
  <2>2. process[b] = "none" /\ waiter[b] = "none"
    BY <2>1 DEF BotsInv
  <2>3. running' = running /\ room'[b] = r /\ running[r] = None
    BY <1>2 DEF HandleStart, CreateTranscript
  <2> QED
    BY <1>2, <2>1, <2>2, <2>3 DEF HandleStart, LauncherInv
<1>3. CASE Spawn
  <2>1. /\ Newest \in Bots /\ Newest \in Created /\ running[room[Newest]] = None
        /\ waiter[Newest] = "none"
    BY <1>3 DEF Spawn, LauncherInv
  <2>2. Created' = Created /\ Newest' = Newest
    BY <1>3, SameRooms DEF Spawn
  <2>3. /\ pc' = "register" /\ UNCHANGED <<running, room, waiter>>
        /\ process'[Newest] = "recording"
    BY <1>3, <2>1 DEF Spawn
  <2> QED
    BY <2>1, <2>2, <2>3 DEF LauncherInv
<1>4. ASSUME pc' = "idle" PROVE LauncherInv'
  BY <1>4 DEF LauncherInv
<1>5. ASSUME NEW b \in Bots, Shutdown(b) \/ Die(b) PROVE LauncherInv'
  BY <1>1, <1>5 DEF Shutdown, Die, Recording
<1>6. ASSUME NEW b \in Bots, BotEnded(b) \/ ReadManifest(b) \/ AllTranscribed(b)
      PROVE  LauncherInv'
  <2>1. CASE BotEnded(b)
    BY <1>1, <2>1 DEF BotEnded
  <2>2. CASE ReadManifest(b) \/ AllTranscribed(b)
    BY <1>1, <2>2 DEF ReadManifest, AllTranscribed
  <2> QED
    BY <1>6, <2>1, <2>2
<1>7. ASSUME NEW b \in Bots, NoManifest(b) \/ SetStatusFails(b) \/ Purge(b) PROVE LauncherInv'
  BY <1>1, <1>7 DEF NoManifest, SetStatusFails, Purge
<1>8. ASSUME NEW b \in Bots, NEW s \in Speakers, TranscribeTrack(b, s) \/ TrackFails(b, s)
      PROVE  LauncherInv'
  BY <1>1, <1>8 DEF TranscribeTrack, TrackFails
<1>9. ASSUME UNCHANGED <<running, pc, room, process, waiter>> PROVE LauncherInv'
  BY <1>1, <1>9
<1> HIDE DEF TypeOK
<1> QED
  BY <1>2, <1>3, <1>4, <1>5, <1>6, <1>7, <1>8, <1>9, NextCases
  DEF HandleFinished, SpawnFails, Register, OnTrack, Crash, vars

-----------------------------------------------------------------------------
(* One bot per room.                                                       *)

LEMMA StepEntry == IInv /\ [Next]_vars => EntryInv'
<1> SUFFICES ASSUME IInv, [Next]_vars PROVE EntryInv'
  OBVIOUS
<1>t. TypeOK /\ BotsInv /\ LauncherInv /\ EntryInv
  BY DEF IInv
<1> USE <1>t, TranscriptionAssumption
    DEF TypeOK, launcher, bots, batch, rows, files, ghosts, Over
<1>n. \A b \in Recording : b \in Bots /\ b \in Created /\ room[b] \in Rooms /\ b # None
  BY DEF Recording, BotsInv, Created, Bots
\* No bot begins to record, and an entry that goes is remembered.
<1>1. ASSUME room' = room, Newest' = Newest, pc' = pc, Recording' \subseteq Recording,
             \A b \in Recording' :
                b \in forgotten \/ running[room[b]] = b =>
                    b \in forgotten' \/ running'[room[b]] = b
      PROVE  EntryInv'
  BY <1>1 DEF EntryInv
<1>2. ASSUME NEW r \in Rooms, Delete(r),
             UNCHANGED <<room, process, pc>>
      PROVE  EntryInv'
  <2>1. Recording' = Recording /\ Newest' = Newest
    BY <1>2, SameRooms DEF Recording
  <2>2. ASSUME NEW b \in Recording, b \in forgotten \/ running[room[b]] = b
        PROVE  b \in forgotten' \/ running'[room[b]] = b
    BY <1>2, <1>n, <2>2 DEF Delete
  <2> QED
    BY <1>1, <1>2, <2>1, <2>2
<1>3. ASSUME NEW r \in Rooms, HandleFinished(r) PROVE EntryInv'
  BY <1>2, <1>3 DEF HandleFinished
<1>4. ASSUME NEW r \in Rooms, NEW b \in Bots, HandleStart(b, r) PROVE EntryInv'
  <2>1. b \notin Created
    BY <1>4, NewBot DEF HandleStart
  <2>2. \A k \in Recording : room'[k] = room[k]
    BY <1>4, <1>n, <2>1 DEF HandleStart, CreateTranscript
  <2>3. Recording' = Recording /\ pc = "idle" /\ running' = running /\ forgotten' = forgotten
    BY <1>4 DEF HandleStart, Recording
  <2> QED
    BY <2>2, <2>3 DEF EntryInv
<1>5. CASE Spawn
  <2>1. Recording' = Recording \cup {Newest} /\ Newest' = Newest
    BY <1>5, SameRooms DEF Spawn, Recording, LauncherInv
  <2>2. /\ pc = "spawn" /\ pc' = "register"
        /\ UNCHANGED <<running, room, forgotten>>
    BY <1>5 DEF Spawn
  <2> QED
    BY <2>1, <2>2 DEF EntryInv
<1>6. CASE SpawnFails
  <2>1. Recording' = Recording /\ UNCHANGED <<running, room, forgotten>> /\ pc = "spawn"
    BY <1>6 DEF SpawnFails, Recording
  <2> QED
    BY <2>1 DEF EntryInv
<1>7. CASE Register
  <2>1. /\ Newest \in Bots /\ room[Newest] \in Rooms /\ running[room[Newest]] = None
    BY <1>7 DEF Register, LauncherInv, Created
  <2>2. Recording' = Recording /\ UNCHANGED <<room, forgotten>>
        /\ running' = [running EXCEPT ![room[Newest]] = Newest]
    BY <1>7 DEF Register, Recording
  <2>3. ASSUME NEW b \in Recording, b \notin forgotten PROVE running'[room[b]] = b
    <3>1. CASE b = Newest
      BY <2>1, <2>2, <3>1
    <3>2. CASE b # Newest
      <4>1. running[room[b]] = b /\ b # None /\ room[b] \in Rooms
        BY <1>n, <2>3, <3>2 DEF EntryInv
      <4> QED
        BY <2>1, <2>2, <4>1
    <3> QED
      BY <3>1, <3>2
  <2> QED
    BY <2>2, <2>3 DEF EntryInv
<1>8. ASSUME NEW b \in Bots, Shutdown(b) \/ Die(b) PROVE EntryInv'
  <2>1. /\ Recording' = Recording \ {b} /\ forgotten' = forgotten \ {b}
        /\ UNCHANGED <<room, pc, running>>
    BY <1>8 DEF Shutdown, Die, Recording
  <2>2. Newest' = Newest
    BY <2>1, SameRooms
  <2> QED
    BY <1>1, <2>1, <2>2
<1>9. ASSUME NEW b \in Bots, BotEnded(b) PROVE EntryInv'
  <2>1. room[b] \in Rooms
    BY <1>9 DEF BotEnded, BotsInv, Created
  <2> QED
    BY <1>2, <1>9, <2>1 DEF BotEnded
<1>10. CASE Crash
  <2>1. Recording' = Recording /\ forgotten' = forgotten \cup Recording
    BY <1>10 DEF Crash, Recording
  <2> QED
    BY <2>1 DEF EntryInv
<1>11. ASSUME UNCHANGED <<running, pc, room, process, forgotten>> PROVE EntryInv'
  <2>1. Recording' = Recording /\ Newest' = Newest
    BY <1>11, SameRooms DEF Recording
  <2> QED
    BY <1>1, <1>11, <2>1
<1> HIDE DEF TypeOK
<1> QED
  BY <1>3, <1>4, <1>5, <1>6, <1>7, <1>8, <1>9, <1>10, <1>11, NextCases
  DEF OnTrack, ReadManifest, AllTranscribed, NoManifest, SetStatusFails, Purge,
      TranscribeTrack, TrackFails, vars

\* A bot that is started finds the older ones of its room forgotten.
LEMMA StepOneBot == IInv /\ [Next]_vars => OneBotUnlessForgotten'
<1> SUFFICES ASSUME IInv, [Next]_vars PROVE OneBotUnlessForgotten'
  OBVIOUS
<1>t. TypeOK /\ BotsInv /\ LauncherInv /\ EntryInv /\ OneBotUnlessForgotten
  BY DEF IInv
<1> USE <1>t, TranscriptionAssumption
    DEF TypeOK, launcher, bots, batch, rows, files, ghosts, Delete, Over
<1>n. \A b \in Recording : b \in Bots /\ b \in Created /\ b # None
  BY DEF Recording, BotsInv, Created, Bots
<1>1. ASSUME \A b \in Recording' : b \in Recording /\ room'[b] = room[b],
             \A b \in Recording' : b \in forgotten => b \in forgotten'
      PROVE  OneBotUnlessForgotten'
  BY <1>1 DEF OneBotUnlessForgotten
<1>2. ASSUME NEW r \in Rooms, NEW b \in Bots, HandleStart(b, r) PROVE OneBotUnlessForgotten'
  <2>1. b \notin Created
    BY <1>2, NewBot DEF HandleStart
  <2>2. Recording' = Recording /\ forgotten' = forgotten
        /\ \A k \in Recording : room'[k] = room[k]
    BY <1>2, <1>n, <2>1 DEF HandleStart, CreateTranscript, Recording
  <2> QED
    BY <1>1, <2>2
<1>3. CASE Spawn
  <2>1. /\ pc = "spawn" /\ Newest \in Bots /\ Newest \in Created
        /\ running[room[Newest]] = None /\ process[Newest] = "none"
    BY <1>3 DEF Spawn, LauncherInv
  <2>2. /\ Recording' = Recording \cup {Newest} /\ Newest \notin Recording
        /\ room' = room /\ forgotten' = forgotten
    BY <1>3, <2>1 DEF Spawn, Recording
  <2>3. ASSUME NEW b \in Recording, room[b] = room[Newest] PROVE b \in forgotten
    BY <1>n, <2>1, <2>3 DEF EntryInv
  <2>4. ASSUME NEW b \in Recording PROVE ~(Newest < b)
    <3>1. b <= Newest /\ b \in Nat /\ Newest \in Nat
      BY <1>n, Numbers DEF Bots
    <3> QED
      BY <3>1
  <2>5. ~(Newest < Newest)
    <3>1. Newest \in Nat
      BY Numbers
    <3> QED
      BY <3>1
  <2>6. ASSUME NEW b \in Recording', NEW c \in Recording', b < c, room[b] = room[c]
        PROVE  b \in forgotten
    <3>1. CASE b = Newest
      BY <2>2, <2>4, <2>5, <2>6, <3>1
    <3>2. CASE b # Newest /\ c = Newest
      BY <2>2, <2>3, <2>6, <3>2
    <3>3. CASE b # Newest /\ c # Newest
      BY <2>2, <2>6, <3>3 DEF OneBotUnlessForgotten
    <3> QED
      BY <3>1, <3>2, <3>3
  <2> QED
    BY <2>2, <2>6 DEF OneBotUnlessForgotten
<1>4. ASSUME NEW b \in Bots, Shutdown(b) \/ Die(b) PROVE OneBotUnlessForgotten'
  <2>1. /\ Recording' = Recording \ {b} /\ forgotten' = forgotten \ {b} /\ room' = room
    BY <1>4 DEF Shutdown, Die, Recording
  <2> QED
    BY <1>1, <2>1
<1>5. ASSUME UNCHANGED <<room, process>>, forgotten \subseteq forgotten'
      PROVE  OneBotUnlessForgotten'
  <2>1. Recording' = Recording
    BY <1>5 DEF Recording
  <2> QED
    BY <1>1, <1>5, <2>1
<1> HIDE DEF TypeOK
<1> QED
  BY <1>2, <1>3, <1>4, <1>5, NextCases
  DEF HandleFinished, SpawnFails, Register, OnTrack, BotEnded, ReadManifest, AllTranscribed,
      NoManifest, SetStatusFails, Purge, TranscribeTrack, TrackFails, Crash, vars

-----------------------------------------------------------------------------
(* What a transcript holds.                                                *)

LEMMA StepBatch == IInv /\ [Next]_vars => BatchInv'
<1> SUFFICES ASSUME IInv, [Next]_vars PROVE BatchInv'
  OBVIOUS
<1>t. TypeOK /\ BotsInv /\ LauncherInv /\ BatchInv
  BY DEF IInv
<1> USE <1>t, TranscriptionAssumption
    DEF TypeOK, launcher, bots, batch, rows, files, ghosts, Over, Put
<1> DEFINE Ordered(b) ==
      /\ waiter[b] # "none" => process[b] # "none"
      /\ waiter[b] \in {"read", "transcribe", "purge"} => process[b] \in {"written", "silent"}
      /\ waiter[b] \in {"none", "wait", "read"} => words[b] = {}
      /\ status[b] = "done" =>
            waiter[b] \in {"purge", "over"} /\ process[b] \in {"written", "silent"}
<1>i. \A b \in Bots : Ordered(b)
  BY DEF BatchInv
<1>g. ASSUME \A b \in Bots : Ordered(b)' PROVE BatchInv'
  BY <1>g DEF BatchInv
\* One bot moves, the others stay where they are.
<1>1. ASSUME NEW b \in Bots, Ordered(b)',
             \A k \in Bots : k # b =>
                 /\ process'[k] = process[k] /\ waiter'[k] = waiter[k]
                 /\ words'[k] = words[k] /\ status'[k] = status[k]
      PROVE  BatchInv'
  BY <1>1, <1>i, <1>g
<1>2. ASSUME NEW r \in Rooms, NEW b \in Bots, HandleStart(b, r) PROVE BatchInv'
  <2>1. b \notin Created
    BY <1>2, NewBot DEF HandleStart
  <2>2. waiter[b] = "none" /\ process[b] = "none" /\ words[b] = {}
    BY <2>1 DEF BotsInv
  <2> QED
    BY <1>1, <1>2, <2>2 DEF HandleStart, CreateTranscript, Statuses
<1>3. CASE Spawn
  <2>1. Newest \in Bots /\ waiter[Newest] = "none" /\ process[Newest] = "none"
    BY <1>3 DEF Spawn, LauncherInv
  <2> QED
    BY <1>1, <1>3, <1>i, <2>1 DEF Spawn
<1>4. CASE SpawnFails
  <2>1. Newest \in Bots
    BY <1>4 DEF SpawnFails, LauncherInv
  <2> QED
    BY <1>1, <1>4, <1>i, <2>1 DEF SpawnFails, Statuses
<1>5. CASE Register
  <2>1. Newest \in Bots /\ waiter[Newest] = "none" /\ process[Newest] # "none"
    BY <1>5 DEF Register, LauncherInv
  <2> QED
    BY <1>1, <1>5, <1>i, <2>1 DEF Register
<1>6. ASSUME NEW b \in Bots, Shutdown(b) \/ Die(b) PROVE BatchInv'
  BY <1>1, <1>6, <1>i DEF Shutdown, Die, Recording
<1>7. ASSUME NEW b \in Bots, BotEnded(b) \/ ReadManifest(b) \/ AllTranscribed(b)
      PROVE  BatchInv'
  <2>1. CASE BotEnded(b)
    BY <1>1, <1>i, <2>1 DEF BotEnded, Recording
  <2>2. CASE ReadManifest(b)
    BY <1>1, <1>i, <2>2 DEF ReadManifest, Statuses
  <2>3. CASE AllTranscribed(b)
    BY <1>1, <1>i, <2>3 DEF AllTranscribed, Statuses
  <2> QED
    BY <1>7, <2>1, <2>2, <2>3
<1>8. ASSUME NEW b \in Bots, NoManifest(b) \/ SetStatusFails(b) \/ Purge(b) PROVE BatchInv'
  BY <1>1, <1>8, <1>i DEF NoManifest, SetStatusFails, Purge
<1>9. ASSUME NEW b \in Bots, NEW s \in Speakers, TranscribeTrack(b, s) PROVE BatchInv'
  <2>1. \A k \in Bots : k # b => words'[k] = words[k]
    BY <1>9 DEF TranscribeTrack, AddSegments
  <2> QED
    BY <1>1, <1>9, <1>i, <2>1 DEF TranscribeTrack
<1>10. ASSUME NEW b \in Bots, NEW s \in Speakers, TrackFails(b, s) PROVE BatchInv'
  BY <1>1, <1>10, <1>i DEF TrackFails, Statuses
<1>11. CASE Crash
  BY <1>11, <1>i, <1>g DEF Crash
<1>12. ASSUME UNCHANGED <<process, waiter, words, status>> PROVE BatchInv'
  BY <1>12, <1>i, <1>g
<1> HIDE DEF TypeOK
<1> QED
  BY <1>2, <1>3, <1>4, <1>5, <1>6, <1>7, <1>8, <1>9, <1>10, <1>11, <1>12, NextCases
  DEF HandleFinished, OnTrack, vars

LEMMA StepFiles == IInv /\ [Next]_vars => FilesInv'
<1> SUFFICES ASSUME IInv, [Next]_vars PROVE FilesInv'
  OBVIOUS
<1>t. TypeOK /\ BotsInv /\ LauncherInv /\ BatchInv /\ FilesInv
  BY DEF IInv
<1> USE <1>t, TranscriptionAssumption
    DEF TypeOK, launcher, bots, batch, rows, files, ghosts, Over, Put
<1> DEFINE Own(b) ==
      /\ \A c \in Bots : Active(c) => c = b
      /\ audio = [s \in Speakers |-> IF s \in heard[b] THEN <<b>> ELSE <<>>]
      /\ process[b] = "written" => manifest = heard[b]
<1>i. \A b \in alone : Active(b) => Own(b)
  BY DEF FilesInv
\* Nobody comes to the files, and they stay as they are.
<1>1. ASSUME \A b \in Bots : Active(b)' => Active(b),
             UNCHANGED <<heard, audio, manifest, alone>>,
             \A b \in Bots : process'[b] = "written" => process[b] = "written"
      PROVE  FilesInv'
  BY <1>1, <1>i DEF FilesInv
<1>2. ASSUME NEW r \in Rooms, NEW b \in Bots, HandleStart(b, r) PROVE FilesInv'
  <2>1. pc = "idle" /\ pc' = "spawn" /\ UNCHANGED <<process, waiter, heard, audio, manifest, alone>>
    BY <1>2 DEF HandleStart
  <2>2. \A k \in Bots : Active(k)' => Active(k)
    BY <2>1 DEF Active, Alive, Recording
  <2> QED
    BY <1>1, <2>1, <2>2
<1>3. CASE Spawn
  <2>1. /\ pc = "spawn" /\ Newest \in Bots /\ process[Newest] = "none"
        /\ Newest \notin alone /\ heard[Newest] = {}
    BY <1>3 DEF Spawn, LauncherInv, BotsInv
  <2>2. Newest' = Newest /\ pc' = "register" /\ UNCHANGED <<waiter, heard, audio, manifest>>
    BY <1>3, SameRooms DEF Spawn
  <2>3. process' = [process EXCEPT ![Newest] = "recording"] /\ alone' = Undisturbed(Newest)
    BY <1>3 DEF Spawn
  <2>4. \A b \in Bots : Active(b)' => b \in Alive \/ b = Newest
    BY <2>1, <2>2, <2>3 DEF Active, Alive, Recording
  <2>5. CASE Alive = {} /\ \A s \in Speakers : audio[s] = <<>>
    <3>1. audio = [s \in Speakers |-> <<>>]
      BY <2>5
    <3>2. audio = [s \in Speakers |-> IF s \in heard[Newest] THEN <<Newest>> ELSE <<>>]
      BY <2>1, <3>1
    <3>3. process'[Newest] # "written"
      BY <2>1, <2>3
    <3>4. \A b \in Bots : Active(b)' => b = Newest
      BY <2>4, <2>5
    <3>5. alone' \subseteq Bots
      BY StepTypeOK
    <3> QED
      BY <2>2, <3>2, <3>3, <3>4, <3>5 DEF FilesInv
  <2>6. CASE ~(Alive = {} /\ \A s \in Speakers : audio[s] = <<>>)
    <3>1. alone' = alone \ Alive
      BY <2>3, <2>6 DEF Undisturbed
    <3>2. \A b \in alone' : ~Active(b)'
      BY <2>1, <2>4, <3>1
    <3> QED
      BY <3>2 DEF FilesInv
  <2> QED
    BY <2>5, <2>6
<1>4. CASE Register
  <2>1. /\ pc = "register" /\ Newest \in Bots
        /\ pc' = "idle" /\ UNCHANGED <<process, heard, audio, manifest, alone>>
        /\ waiter' = [waiter EXCEPT ![Newest] = "wait"]
    BY <1>4 DEF Register, LauncherInv
  <2>2. \A b \in Bots : Active(b)' => Active(b)
    BY <2>1 DEF Active, Alive, Recording
  <2> QED
    BY <1>1, <2>1, <2>2
<1>5. ASSUME NEW c \in Bots, NEW s \in Speakers, OnTrack(c, s) PROVE FilesInv'
  <2>1. /\ process[c] = "recording" /\ s \notin heard[c]
        /\ heard' = [heard EXCEPT ![c] = @ \cup {s}]
        /\ audio' = [audio EXCEPT ![s] = Append(@, c)]
        /\ UNCHANGED <<pc, room, process, waiter, manifest, alone>>
    BY <1>5 DEF OnTrack, NewWAVWriter, Recording
  <2>2. Newest' = Newest
    BY <2>1, SameRooms
  <2>3. \A b \in Bots : Active(b)' <=> Active(b)
    BY <2>1, <2>2 DEF Active, Alive, Recording
  <2>4. Active(c)
    BY <2>1 DEF Active, Alive, Recording
  <2>5. ASSUME NEW b \in alone, Active(b) PROVE Own(b)'
    <3>1. Own(b) /\ c = b
      BY <1>i, <2>4, <2>5
    <3>2. audio[s] = <<>> /\ Append(audio[s], c) = <<b>>
      BY <2>1, <3>1
    <3>3. heard'[b] = heard[b] \cup {s}
      BY <2>1, <3>1
    <3>4. audio' = [t \in Speakers |-> IF t \in heard'[b] THEN <<b>> ELSE <<>>]
      BY <2>1, <3>1, <3>2, <3>3
    <3> QED
      BY <2>1, <2>3, <3>1, <3>4
  <2> QED
    BY <2>1, <2>3, <2>5 DEF FilesInv
<1>6. ASSUME NEW c \in Bots, Shutdown(c) PROVE FilesInv'
  <2>1. /\ process[c] = "recording" /\ process' = [process EXCEPT ![c] = "written"]
        /\ manifest' = heard[c]
        /\ UNCHANGED <<pc, room, waiter, heard, audio, alone>>
    BY <1>6 DEF Shutdown, WriteManifest, Recording
  <2>2. Newest' = Newest
    BY <2>1, SameRooms
  <2>3. \A b \in Bots : Active(b)' => Active(b)
    BY <2>1, <2>2 DEF Active, Alive, Recording
  <2>4. Active(c)
    BY <2>1 DEF Active, Alive, Recording
  <2>5. ASSUME NEW b \in alone, Active(b) PROVE Own(b)'
    <3>1. Own(b) /\ c = b
      BY <1>i, <2>4, <2>5
    <3> QED
      BY <2>1, <2>3, <3>1
  <2> QED
    BY <2>1, <2>3, <2>5 DEF FilesInv
<1>7. ASSUME NEW c \in Bots, Die(c) PROVE FilesInv'
  <2>1. /\ process' = [process EXCEPT ![c] = "silent"]
        /\ UNCHANGED <<pc, room, waiter, heard, audio, manifest, alone>>
    BY <1>7 DEF Die
  <2>2. Newest' = Newest
    BY <2>1, SameRooms
  <2>3. \A b \in Bots : Active(b)' => Active(b)
    BY <2>1, <2>2 DEF Active, Alive, Recording
  <2> QED
    BY <1>1, <2>1, <2>3
\* A goroutine goes on, or ends, and the files stay as they are.
<1>8. ASSUME \A b \in Bots : waiter[b] \in {"none", "over"} => waiter'[b] \in {"none", "over"},
             UNCHANGED <<room, process, heard, audio, manifest, alone>>,
             pc' \in {pc, "idle"}
      PROVE  FilesInv'
  <2>1. Newest' = Newest
    BY <1>8, SameRooms
  <2>2. \A b \in Bots : Active(b)' => Active(b)
    BY <1>8, <2>1 DEF Active, Alive, Recording
  <2> QED
    BY <1>1, <1>8, <2>2
<1>9. ASSUME NEW b \in Bots, BotEnded(b) \/ ReadManifest(b) \/ AllTranscribed(b)
      PROVE  FilesInv'
  <2>1. CASE BotEnded(b)
    BY <1>8, <2>1 DEF BotEnded
  <2>2. CASE ReadManifest(b)
    BY <1>8, <2>2 DEF ReadManifest
  <2>3. CASE AllTranscribed(b)
    BY <1>8, <2>3 DEF AllTranscribed
  <2> QED
    BY <1>9, <2>1, <2>2, <2>3
<1>10. ASSUME NEW b \in Bots, NoManifest(b) \/ SetStatusFails(b) PROVE FilesInv'
  BY <1>8, <1>10 DEF NoManifest, SetStatusFails
<1>11. ASSUME NEW b \in Bots, NEW s \in Speakers, TranscribeTrack(b, s) \/ TrackFails(b, s)
       PROVE  FilesInv'
  BY <1>8, <1>11 DEF TranscribeTrack, TrackFails
<1>12. ASSUME NEW c \in Bots, Purge(c) PROVE FilesInv'
  <2>1. /\ waiter[c] = "purge" /\ waiter' = [waiter EXCEPT ![c] = "over"]
        /\ UNCHANGED <<pc, room, process, alone>>
    BY <1>12 DEF Purge
  <2>2. Newest' = Newest
    BY <2>1, SameRooms
  <2>3. \A b \in Bots : Active(b)' => Active(b)
    BY <2>1, <2>2 DEF Active, Alive, Recording
  <2>4. Active(c) /\ process[c] # "recording"
    BY <2>1 DEF Active, Alive, BatchInv
  <2>5. ~Active(c)'
    BY <2>1, <2>2, <2>4 DEF Active, Alive, Recording, LauncherInv
  <2>6. \A b \in alone : ~Active(b)'
    BY <1>i, <2>3, <2>4, <2>5
  <2> QED
    BY <2>1, <2>6 DEF FilesInv
<1>13. CASE Crash
  BY <1>8, <1>13 DEF Crash
<1>14. ASSUME UNCHANGED <<room, process, waiter, heard, audio, manifest, alone>>,
              pc' \in {pc, "idle"}
       PROVE  FilesInv'
  BY <1>8, <1>14
<1> HIDE DEF TypeOK
<1> QED
  BY <1>2, <1>3, <1>4, <1>5, <1>6, <1>7, <1>9, <1>10, <1>11, <1>12, <1>13, <1>14, NextCases
  DEF HandleFinished, SpawnFails, vars

LEMMA StepWords == IInv /\ [Next]_vars => WordsInv'
<1> SUFFICES ASSUME IInv, [Next]_vars PROVE WordsInv'
  OBVIOUS
<1>t. TypeOK /\ BotsInv /\ LauncherInv /\ BatchInv /\ FilesInv /\ WordsInv
  BY DEF IInv
<1> USE <1>t, TranscriptionAssumption
    DEF TypeOK, launcher, bots, batch, rows, files, ghosts, Over, Put
<1> DEFINE Held(b) ==
      /\ waiter[b] = "transcribe" =>
            /\ tracks[b] = heard[b] /\ left[b] \subseteq heard[b]
            /\ words[b] = {b} \X (heard[b] \ left[b])
      /\ waiter[b] = "purge" => words[b] = {b} \X heard[b]
<1>i. \A b \in alone : process[b] = "written" => Held(b)
  BY DEF WordsInv
<1>g. ASSUME \A b \in alone' : process'[b] = "written" => Held(b)' PROVE WordsInv'
  BY <1>g DEF WordsInv
\* A bot whose batch is about the manifest has kept the files for itself.
<1>f. ASSUME NEW b \in alone, waiter[b] \in {"read", "transcribe"}, process[b] = "written"
      PROVE  /\ manifest = heard[b]
             /\ audio = [s \in Speakers |-> IF s \in heard[b] THEN <<b>> ELSE <<>>]
  BY <1>f DEF FilesInv, Active, Alive
\* The batch of one bot moves on, with what that bot has recorded.
<1>1. ASSUME NEW b \in Bots, UNCHANGED <<process, heard, alone>>,
             \A k \in Bots : k # b =>
                 /\ waiter'[k] = waiter[k] /\ tracks'[k] = tracks[k]
                 /\ left'[k] = left[k] /\ words'[k] = words[k],
             b \in alone /\ process[b] = "written" => Held(b)'
      PROVE  WordsInv'
  BY <1>1, <1>i, <1>g
<1>2. CASE Spawn
  <2>1. /\ Newest \in Bots /\ process'[Newest] = "recording"
        /\ \A b \in Bots : b # Newest => process'[b] = process[b]
        /\ alone' \subseteq alone \cup {Newest}
        /\ UNCHANGED <<waiter, left, tracks, heard, words>>
    BY <1>2 DEF Spawn, Undisturbed, LauncherInv
  <2> QED
    BY <1>g, <1>i, <2>1
<1>3. CASE Register
  <2>1. Newest \in Bots
    BY <1>3 DEF Register, LauncherInv
  <2> QED
    BY <1>1, <1>3, <2>1 DEF Register
<1>4. ASSUME NEW b \in Bots, NEW s \in Speakers, OnTrack(b, s) PROVE WordsInv'
  <2>1. /\ process[b] = "recording" /\ process' = process /\ alone' = alone
        /\ heard' = [heard EXCEPT ![b] = @ \cup {s}]
        /\ UNCHANGED <<waiter, left, tracks, words>>
    BY <1>4 DEF OnTrack, Recording
  <2>2. \A k \in alone : process[k] = "written" => heard'[k] = heard[k]
    BY <2>1
  <2> QED
    BY <1>g, <1>i, <2>1, <2>2
<1>5. ASSUME NEW b \in Bots, Shutdown(b) \/ Die(b) PROVE WordsInv'
  <2>1. waiter[b] \notin {"transcribe", "purge"}
    BY <1>5 DEF Shutdown, Die, Recording, BatchInv
  <2>2. /\ \A k \in Bots : k # b => process'[k] = process[k]
        /\ UNCHANGED <<waiter, left, tracks, heard, words, alone>>
    BY <1>5 DEF Shutdown, Die
  <2> QED
    BY <1>g, <1>i, <2>1, <2>2
<1>6. ASSUME NEW b \in Bots, BotEnded(b) PROVE WordsInv'
  BY <1>1, <1>6 DEF BotEnded
<1>7. ASSUME NEW b \in Bots, ReadManifest(b) PROVE WordsInv'
  <2>1. words[b] = {} /\ waiter[b] = "read"
    BY <1>7 DEF ReadManifest, BatchInv
  <2>2. ASSUME b \in alone, process[b] = "written" PROVE Held(b)'
    <3>1. manifest = heard[b]
      BY <1>f, <2>1, <2>2
    <3>2. /\ waiter'[b] = "transcribe" /\ tracks'[b] = heard[b] /\ left'[b] = heard[b]
          /\ words' = words /\ heard' = heard
      BY <1>7, <3>1 DEF ReadManifest
    <3>3. {b} \X (heard[b] \ heard[b]) = {}
      OBVIOUS
    <3> QED
      BY <2>1, <3>2, <3>3
  <2> QED
    BY <1>1, <1>7, <2>2 DEF ReadManifest
<1>8. ASSUME NEW b \in Bots, AllTranscribed(b) PROVE WordsInv'
  <2>1. ASSUME b \in alone, process[b] = "written" PROVE Held(b)'
    <3>1. words[b] = {b} \X (heard[b] \ left[b]) /\ left[b] = {}
      BY <1>8, <1>i, <2>1 DEF AllTranscribed
    <3>2. words[b] = {b} \X heard[b]
      BY <3>1
    <3> QED
      BY <1>8, <3>2 DEF AllTranscribed
  <2> QED
    BY <1>1, <1>8, <2>1 DEF AllTranscribed
<1>9. ASSUME NEW b \in Bots, NoManifest(b) \/ SetStatusFails(b) \/ Purge(b) PROVE WordsInv'
  BY <1>1, <1>9 DEF NoManifest, SetStatusFails, Purge
<1>10. ASSUME NEW b \in Bots, NEW s \in Speakers, TranscribeTrack(b, s) PROVE WordsInv'
  <2>1. PICK n \in 1 .. Len(audio[s]) : AddSegments(b, s, n)
    BY <1>10 DEF TranscribeTrack
  <2>2. /\ waiter[b] = "transcribe" /\ s \in left[b]
        /\ left' = [left EXCEPT ![b] = @ \ {s}]
        /\ words' = [words EXCEPT ![b] = @ \cup {<<audio[s][i], s>> : i \in 1 .. n}]
        /\ UNCHANGED <<waiter, tracks, process, heard, alone>>
    BY <1>10, <2>1 DEF TranscribeTrack, AddSegments
  <2>3. ASSUME b \in alone, process[b] = "written" PROVE Held(b)'
    <3>1. /\ tracks[b] = heard[b] /\ left[b] \subseteq heard[b]
          /\ words[b] = {b} \X (heard[b] \ left[b])
      BY <1>i, <2>2, <2>3
    <3>2. audio[s] = <<b>>
      BY <1>f, <2>2, <2>3, <3>1
    <3>3. n = 1 /\ {<<audio[s][i], s>> : i \in 1 .. n} = {<<b, s>>}
      BY <2>1, <3>2
    <3>4. words'[b] = ({b} \X (heard[b] \ left[b])) \cup {<<b, s>>}
      BY <2>2, <3>1, <3>3
    <3>5. heard[b] \ left'[b] = (heard[b] \ left[b]) \cup {s} /\ left'[b] \subseteq heard[b]
      BY <2>2, <3>1
    <3>6. words'[b] = {b} \X (heard[b] \ left'[b])
      BY <3>4, <3>5
    <3> QED
      BY <2>2, <3>1, <3>5, <3>6
  <2> QED
    BY <1>1, <2>2, <2>3
<1>11. ASSUME NEW b \in Bots, NEW s \in Speakers, TrackFails(b, s) PROVE WordsInv'
  BY <1>1, <1>11 DEF TrackFails
<1>12. CASE Crash
  <2>1. \A b \in Bots : waiter'[b] \notin {"transcribe", "purge"}
    BY <1>12 DEF Crash
  <2> QED
    BY <1>12, <1>g, <2>1 DEF Crash
<1>13. ASSUME UNCHANGED <<process, batch, heard, words, alone>> PROVE WordsInv'
  BY <1>13, <1>g, <1>i
<1> HIDE DEF TypeOK
<1> QED
  BY <1>2, <1>3, <1>4, <1>5, <1>6, <1>7, <1>8, <1>9, <1>10, <1>11, <1>12, <1>13, NextCases
  DEF HandleFinished, HandleStart, SpawnFails, vars

LEMMA StepOwnWords == IInv /\ [Next]_vars => OwnWords'
<1> SUFFICES ASSUME IInv, [Next]_vars PROVE OwnWords'
  OBVIOUS
<1>t. TypeOK /\ BotsInv /\ LauncherInv /\ BatchInv /\ WordsInv /\ OwnWords
  BY DEF IInv
<1> USE <1>t, TranscriptionAssumption
    DEF TypeOK, Statuses, launcher, bots, batch, rows, files, ghosts, Over, Put
\* A transcript that was done before keeps its words.
<1>1. ASSUME \A b \in alone' : status'[b] = "done" /\ process'[b] = "written" =>
                /\ b \in alone /\ status[b] = "done" /\ process[b] = "written"
                /\ words'[b] = words[b] /\ heard'[b] = heard[b]
      PROVE  OwnWords'
  BY <1>1 DEF OwnWords
<1>2. ASSUME NEW b \in Bots, NEW v \in Statuses \ {"done"},
             status' = [status EXCEPT ![b] = v],
             UNCHANGED <<process, words, heard, alone>>
      PROVE  OwnWords'
  <2>1. \A k \in Bots : status'[k] = "done" => status[k] = "done"
    BY <1>2
  <2> QED
    BY <1>1, <1>2, <2>1
<1>3. ASSUME NEW r \in Rooms, NEW b \in Bots, HandleStart(b, r) PROVE OwnWords'
  BY <1>2, <1>3 DEF HandleStart, CreateTranscript
<1>4. CASE SpawnFails
  <2>1. Newest \in Bots
    BY <1>4 DEF SpawnFails, LauncherInv
  <2> QED
    BY <1>2, <1>4, <2>1 DEF SpawnFails
<1>5. CASE Spawn
  <2>1. /\ Newest \in Bots /\ process'[Newest] = "recording"
        /\ \A b \in Bots : b # Newest => process'[b] = process[b]
        /\ alone' \subseteq alone \cup {Newest}
        /\ UNCHANGED <<status, heard, words>>
    BY <1>5 DEF Spawn, Undisturbed, LauncherInv
  <2> QED
    BY <1>1, <2>1
<1>6. ASSUME NEW b \in Bots, NEW s \in Speakers, OnTrack(b, s) PROVE OwnWords'
  <2>1. /\ process[b] = "recording" /\ heard' = [heard EXCEPT ![b] = @ \cup {s}]
        /\ UNCHANGED <<process, status, words, alone>>
    BY <1>6 DEF OnTrack, Recording
  <2> QED
    BY <1>1, <2>1
<1>7. ASSUME NEW b \in Bots, Shutdown(b) \/ Die(b) PROVE OwnWords'
  <2>1. status[b] # "done"
    BY <1>7 DEF Shutdown, Die, Recording, BatchInv
  <2>2. /\ \A k \in Bots : k # b => process'[k] = process[k]
        /\ UNCHANGED <<status, heard, words, alone>>
    BY <1>7 DEF Shutdown, Die
  <2> QED
    BY <1>1, <2>1, <2>2
<1>8. ASSUME NEW b \in Bots, ReadManifest(b) PROVE OwnWords'
  BY <1>2, <1>8 DEF ReadManifest
<1>9. ASSUME NEW b \in Bots, AllTranscribed(b) PROVE OwnWords'
  <2>1. /\ waiter[b] = "transcribe" /\ left[b] = {}
        /\ \A k \in Bots : k # b => status'[k] = status[k]
        /\ UNCHANGED <<process, heard, words, alone>>
    BY <1>9 DEF AllTranscribed
  <2>2. ASSUME b \in alone, process[b] = "written" PROVE words[b] = {b} \X heard[b]
    <3>1. words[b] = {b} \X (heard[b] \ left[b])
      BY <2>1, <2>2 DEF WordsInv
    <3> QED
      BY <2>1, <3>1
  <2> QED
    BY <2>1, <2>2 DEF OwnWords
<1>10. ASSUME NEW b \in Bots, NEW s \in Speakers, TranscribeTrack(b, s) PROVE OwnWords'
  <2>1. status[b] # "done"
    BY <1>10 DEF TranscribeTrack, BatchInv
  <2>2. /\ \A k \in Bots : k # b => words'[k] = words[k]
        /\ UNCHANGED <<process, heard, status, alone>>
    BY <1>10 DEF TranscribeTrack, AddSegments
  <2> QED
    BY <1>1, <2>1, <2>2
<1>11. ASSUME NEW b \in Bots, NEW s \in Speakers, TrackFails(b, s) PROVE OwnWords'
  BY <1>2, <1>11 DEF TrackFails
<1>12. ASSUME UNCHANGED <<process, heard, rows, alone>> PROVE OwnWords'
  BY <1>1, <1>12
<1> HIDE DEF TypeOK
<1> QED
  BY <1>3, <1>4, <1>5, <1>6, <1>7, <1>8, <1>9, <1>10, <1>11, <1>12, NextCases
  DEF HandleFinished, Register, BotEnded, NoManifest, SetStatusFails, Purge, Crash, vars

LEMMA StepKept == IInv /\ [Next]_vars => KeptInv'
<1> SUFFICES ASSUME IInv, [Next]_vars PROVE KeptInv'
  OBVIOUS
<1>t. TypeOK /\ BotsInv /\ LauncherInv /\ BatchInv /\ KeptInv
  BY DEF IInv
<1> USE <1>t, TranscriptionAssumption
    DEF TypeOK, Statuses, launcher, bots, batch, rows, files, ghosts, Over, Put
\* Nobody comes to the files that was not there.
<1>1. ASSUME alone' \subseteq alone, \A b \in Bots : b \in Alive' => b \in Alive,
             \A b \in Bots : waiter'[b] = "purge" =>
                 status'[b] = "done" \/ (waiter[b] = "purge" /\ status'[b] = status[b])
      PROVE  KeptInv'
  BY <1>1 DEF KeptInv
\* The batch of one bot moves on.
<1>2. ASSUME NEW b \in Bots, waiter[b] # "none", UNCHANGED <<process, alone>>,
             \A k \in Bots : k # b => waiter'[k] = waiter[k] /\ status'[k] = status[k],
             waiter[b] = "over" => waiter'[b] = "over",
             waiter'[b] = "purge" => status'[b] = "done"
      PROVE  KeptInv'
  <2>1. \A k \in Bots : k \in Alive' => k \in Alive
    BY <1>2 DEF Alive, Recording
  <2> QED
    BY <1>1, <1>2, <2>1
<1>3. ASSUME NEW r \in Rooms, NEW b \in Bots, HandleStart(b, r) PROVE KeptInv'
  <2>1. b \notin Created
    BY <1>3, NewBot DEF HandleStart
  <2>2. waiter[b] = "none"
    BY <2>1 DEF BotsInv
  <2>3. UNCHANGED <<process, waiter, alone>> /\ status' = [status EXCEPT ![b] = "pending"]
    BY <1>3 DEF HandleStart, CreateTranscript
  <2>4. Alive' = Alive
    BY <2>3 DEF Alive, Recording
  <2> QED
    BY <1>1, <2>2, <2>3, <2>4
<1>4. CASE Spawn
  <2>1. /\ Newest \in Bots /\ process[Newest] = "none"
        /\ process' = [process EXCEPT ![Newest] = "recording"] /\ alone' = Undisturbed(Newest)
        /\ UNCHANGED <<waiter, status>>
    BY <1>4 DEF Spawn, LauncherInv
  <2>2. \A b \in Bots : b \in Alive' => b \in Alive \/ b = Newest
    BY <2>1 DEF Alive, Recording
  <2>3. \A b \in alone : b < Newest
    <3>1. \A b \in alone : b \in Bots /\ b # Newest /\ process[b] # "none"
      BY <2>1 DEF BotsInv
    <3>2. \A b \in alone : b \in Created
      BY <3>1 DEF BotsInv
    <3> QED
      BY <3>1, <3>2, Numbers DEF Bots
  <2>4. ASSUME NEW b \in alone', NEW c \in Bots, c < b PROVE c \notin Alive'
    <3>1. CASE b \in alone
      <4>1. c # Newest
        BY <2>1, <2>3, <2>4, <3>1 DEF Bots
      <4> QED
        BY <2>2, <2>4, <3>1, <4>1 DEF KeptInv
    <3>2. CASE b \notin alone
      <4>1. Alive = {} /\ b = Newest
        BY <2>1, <2>4, <3>2 DEF Undisturbed
      <4>2. c # Newest
        BY <2>4, <4>1 DEF Bots
      <4> QED
        BY <2>2, <4>1, <4>2
    <3> QED
      BY <3>1, <3>2
  <2> QED
    BY <2>1, <2>4 DEF KeptInv
<1>5. CASE SpawnFails
  <2>1. Newest \in Bots /\ waiter[Newest] = "none"
    BY <1>5 DEF SpawnFails, LauncherInv
  <2>2. UNCHANGED <<process, waiter, alone>> /\ status' = [status EXCEPT ![Newest] = "failed"]
    BY <1>5 DEF SpawnFails
  <2>3. Alive' = Alive
    BY <2>2 DEF Alive, Recording
  <2> QED
    BY <1>1, <2>1, <2>2, <2>3
\* The goroutine comes to the newest bot, and no bot that was alone is newer.
<1>6. CASE Register
  <2>1. /\ Newest \in Bots /\ UNCHANGED <<process, status, alone>>
        /\ waiter' = [waiter EXCEPT ![Newest] = "wait"]
    BY <1>6 DEF Register, LauncherInv
  <2>2. \A b \in Bots : b \in Alive' => b \in Alive \/ b = Newest
    BY <2>1 DEF Alive, Recording
  <2>3. \A b \in alone : b \in Bots /\ b <= Newest
    BY Numbers DEF BotsInv
  <2>4. ASSUME NEW b \in alone, NEW c \in Bots, c < b PROVE c \notin Alive'
    <3>1. c # Newest
      BY <2>1, <2>3, <2>4 DEF Bots
    <3> QED
      BY <2>2, <2>4, <3>1 DEF KeptInv
  <2> QED
    BY <2>1, <2>4 DEF KeptInv
<1>7. ASSUME NEW b \in Bots, Shutdown(b) \/ Die(b) PROVE KeptInv'
  <2>1. /\ process'[b] # "recording" /\ \A k \in Bots : k # b => process'[k] = process[k]
        /\ UNCHANGED <<waiter, status, alone>>
    BY <1>7 DEF Shutdown, Die
  <2>2. \A k \in Bots : k \in Alive' => k \in Alive
    BY <2>1 DEF Alive, Recording
  <2> QED
    BY <1>1, <2>1, <2>2
<1>8. ASSUME NEW b \in Bots, BotEnded(b) \/ ReadManifest(b) \/ AllTranscribed(b) PROVE KeptInv'
  BY <1>2, <1>8 DEF BotEnded, ReadManifest, AllTranscribed
<1>9. ASSUME NEW b \in Bots, NoManifest(b) \/ SetStatusFails(b) \/ Purge(b) PROVE KeptInv'
  BY <1>2, <1>9 DEF NoManifest, SetStatusFails, Purge
<1>10. ASSUME NEW b \in Bots, NEW s \in Speakers, TrackFails(b, s) PROVE KeptInv'
  BY <1>2, <1>10 DEF TrackFails
<1>11. CASE Crash
  <2>1. \A b \in Bots : waiter'[b] \in {"none", "over"} /\ UNCHANGED <<process, alone>>
    BY <1>11 DEF Crash
  <2>2. \A k \in Bots : k \in Alive' => k \in Alive
    BY <1>11, <2>1 DEF Crash, Alive, Recording
  <2> QED
    BY <1>1, <1>11, <2>1, <2>2 DEF Crash
<1>12. ASSUME UNCHANGED <<process, waiter, status, alone>> PROVE KeptInv'
  <2>1. Alive' = Alive
    BY <1>12 DEF Alive, Recording
  <2> QED
    BY <1>1, <1>12, <2>1
<1> HIDE DEF TypeOK
<1> QED
  BY <1>3, <1>4, <1>5, <1>6, <1>7, <1>8, <1>9, <1>10, <1>11, <1>12, NextCases
  DEF HandleFinished, OnTrack, TranscribeTrack, vars

LEMMA StepRecordings == IInv /\ [Next]_vars => RecordingsAreKept'
<1> SUFFICES ASSUME IInv, [Next]_vars PROVE RecordingsAreKept'
  OBVIOUS
<1>t. /\ TypeOK /\ BotsInv /\ LauncherInv /\ BatchInv /\ FilesInv /\ KeptInv
      /\ RecordingsAreKept
  BY DEF IInv
<1> USE <1>t, TranscriptionAssumption
    DEF TypeOK, Statuses, launcher, bots, batch, rows, files, ghosts, Over, Put
<1> DEFINE Last(b) == \A c \in Bots : b < c => process[c] = "none"
           Kept(b) == \A s \in heard[b] : audio[s] = <<b>>
<1>i. \A b \in alone : status[b] # "done" /\ Last(b) => Kept(b)
  BY DEF RecordingsAreKept
<1>g. ASSUME \A b \in alone' : status'[b] # "done" /\ Last(b)' => Kept(b)'
      PROVE  RecordingsAreKept'
  BY <1>g DEF RecordingsAreKept
\* The files stay, and no transcript that was done is reopened.
<1>1. ASSUME UNCHANGED <<heard, audio>>, alone' \subseteq alone,
             \A b \in Bots : process'[b] = "none" => process[b] = "none",
             \A b \in alone : status[b] = "done" => status'[b] = "done"
      PROVE  RecordingsAreKept'
  BY <1>1, <1>g, <1>i
<1>2. ASSUME NEW r \in Rooms, NEW b \in Bots, HandleStart(b, r) PROVE RecordingsAreKept'
  <2>1. b \notin Created
    BY <1>2, NewBot DEF HandleStart
  <2>2. b \notin alone
    BY <2>1 DEF BotsInv
  <2> QED
    BY <1>1, <1>2, <2>2 DEF HandleStart, CreateTranscript
<1>3. CASE Spawn
  <2>1. /\ Newest \in Bots /\ heard[Newest] = {}
        /\ process' = [process EXCEPT ![Newest] = "recording"]
        /\ alone' \subseteq alone \cup {Newest} /\ UNCHANGED <<heard, audio, status>>
    BY <1>3 DEF Spawn, LauncherInv, BotsInv, Undisturbed
  <2>2. \A b \in Bots : process'[b] = "none" => process[b] = "none"
    BY <2>1
  <2> QED
    BY <1>g, <1>i, <2>1, <2>2
<1>4. CASE SpawnFails
  <2>1. Newest \in Bots /\ Newest \notin alone
    BY <1>4 DEF SpawnFails, LauncherInv, BotsInv
  <2> QED
    BY <1>1, <1>4, <2>1 DEF SpawnFails
\* A bot that records after one that was alone is the newer of the two.
<1>5. ASSUME NEW c \in Bots, NEW s \in Speakers, OnTrack(c, s) PROVE RecordingsAreKept'
  <2>1. /\ process[c] = "recording" /\ s \notin heard[c]
        /\ heard' = [heard EXCEPT ![c] = @ \cup {s}]
        /\ audio' = [audio EXCEPT ![s] = Append(@, c)]
        /\ UNCHANGED <<process, status, alone>>
    BY <1>5 DEF OnTrack, NewWAVWriter, Recording
  <2>2. ASSUME NEW b \in alone, Last(b) PROVE b = c
    <3>1. ~(b < c) /\ ~(c < b)
      BY <2>1, <2>2 DEF KeptInv, Alive, Recording
    <3>2. b \in 1 .. MaxBots /\ c \in 1 .. MaxBots
      BY DEF Bots
    <3> QED
      BY <3>1, <3>2
  <2>3. ASSUME c \in alone PROVE Kept(c)'
    <3>1. audio = [t \in Speakers |-> IF t \in heard[c] THEN <<c>> ELSE <<>>]
      BY <2>1, <2>3 DEF FilesInv, Active, Alive, Recording
    <3>2. Append(audio[s], c) = <<c>>
      BY <2>1, <3>1
    <3> QED
      BY <2>1, <3>1, <3>2
  <2> QED
    BY <1>g, <2>1, <2>2, <2>3
<1>6. ASSUME NEW b \in Bots, Shutdown(b) \/ Die(b) PROVE RecordingsAreKept'
  <2>1. process[b] # "none"
    BY <1>6 DEF Shutdown, Die, Recording
  <2> QED
    BY <1>1, <1>6, <2>1 DEF Shutdown, Die
<1>7. ASSUME NEW b \in Bots, ReadManifest(b) PROVE RecordingsAreKept'
  <2>1. status[b] # "done"
    BY <1>7 DEF ReadManifest, BatchInv
  <2> QED
    BY <1>1, <1>7, <2>1 DEF ReadManifest
<1>8. ASSUME NEW b \in Bots, AllTranscribed(b) PROVE RecordingsAreKept'
  BY <1>1, <1>8 DEF AllTranscribed
<1>9. ASSUME NEW b \in Bots, NEW s \in Speakers, TrackFails(b, s) PROVE RecordingsAreKept'
  <2>1. status[b] # "done"
    BY <1>9 DEF TrackFails, BatchInv
  <2> QED
    BY <1>1, <1>9, <2>1 DEF TrackFails
\* The batch that removes files is of a bot that is done, or not the last.
<1>10. ASSUME NEW c \in Bots, Purge(c) PROVE RecordingsAreKept'
  <2>1. waiter[c] = "purge" /\ UNCHANGED <<process, heard, status, alone>>
    BY <1>10 DEF Purge
  <2>2. c \in Alive /\ process[c] # "none" /\ status[c] = "done"
    BY <2>1 DEF Alive, BatchInv, KeptInv
  <2>3. ASSUME NEW b \in alone, Last(b) PROVE b = c
    <3>1. ~(b < c) /\ ~(c < b)
      BY <2>2, <2>3 DEF KeptInv
    <3>2. b \in 1 .. MaxBots /\ c \in 1 .. MaxBots
      BY DEF Bots
    <3> QED
      BY <3>1, <3>2
  <2> QED
    BY <1>g, <2>1, <2>2, <2>3
<1>11. ASSUME UNCHANGED <<process, heard, status, audio, alone>> PROVE RecordingsAreKept'
  BY <1>1, <1>11
<1> HIDE DEF TypeOK
<1> QED
  BY <1>2, <1>3, <1>4, <1>5, <1>6, <1>7, <1>8, <1>9, <1>10, <1>11, NextCases
  DEF HandleFinished, Register, BotEnded, NoManifest, SetStatusFails, TranscribeTrack, Crash, vars

-----------------------------------------------------------------------------
(* The theorems.                                                           *)

LEMMA Invariance == Spec => []IInv
<1>1. IInv /\ [Next]_vars => IInv'
  BY StepTypeOK, StepBots, StepLauncher, StepEntry, StepBatch, StepFiles, StepWords, StepOneBot,
     StepOwnWords, StepKept, StepRecordings DEF IInv
<1> QED
  BY <1>1, InitIInv, PTL DEF Spec

\* The launcher, the bots, their batches, the rows and the files keep their types.
THEOREM TypeCorrect == Spec => []TypeOK
<1>1. IInv => TypeOK
  BY DEF IInv
<1> QED
  BY <1>1, Invariance, PTL

\* However the events of the rooms come, a second bot records in a room only if the entry
\* of the first was removed before its end.
THEOREM OneBot == Spec => []OneBotUnlessForgotten
<1>1. IInv => OneBotUnlessForgotten
  BY DEF IInv
<1> QED
  BY <1>1, Invariance, PTL

\* The transcript of a bot that was alone with its files is done with all it recorded and
\* nothing else, through crashes of the server and failing statements.
THEOREM OwnWordsOnly == Spec => []OwnWords
<1>1. IInv => OwnWords
  BY DEF IInv
<1> QED
  BY <1>1, Invariance, PTL

\* What a bot that was alone recorded stays for diagnosis, wherever its batch or the server
\* stopped, until its transcript is done or the next bot starts.
THEOREM RecordingsStay == Spec => []RecordingsAreKept
<1>1. IInv => RecordingsAreKept
  BY DEF IInv
<1> QED
  BY <1>1, Invariance, PTL
=============================================================================
