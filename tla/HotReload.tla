------------------------------ MODULE HotReload ------------------------------
(***************************************************************************)
(* How edits of the configuration file and of the secret files become the  *)
(* active runtime (cmd/gemgate/main.go watchConfig, internal/config Load,  *)
(* internal/gateway/runtime.go Reload).  The watcher reads the files one   *)
(* after another while the operator goes on editing, so a candidate may be *)
(* a mixture that was never on disk as a whole; it is validated and either *)
(* dropped or swapped in whole.                                            *)
(*                                                                         *)
(* Clients are numbered in the order of the file; every client and the     *)
(* operations listener's token name a secret file.                         *)
(***************************************************************************)
EXTENDS Integers, FiniteSets

CONSTANTS
  NumClients,  \* clients in the configuration file
  Secrets,     \* contents of a secret file
  NoSecret,    \* a secret file that is not there, or is empty
  Settings,    \* what is fixed when the process starts: listen, the server's timeouts,
               \* rate_limit, telemetry
  Values,      \* what each of them may be set to
  Startups,    \* the combinations of these that the files may hold
  MaxEdits     \* bound: edits of the files

ASSUME NumClientsAssumption == NumClients \in Nat \ {0}
ASSUME StartupsAssumption == Startups \subseteq [Settings -> Values]
ASSUME NoSecretAssumption == NoSecret \notin Secrets
ASSUME MaxEditsAssumption == MaxEdits \in Nat

VARIABLES
  disk,     \* the files
  edits,    \* bound: edits so far
  process,  \* what the listener, the limiter and the exporter were built with
  active,   \* Gateway.runtime
  watcher   \* watchConfig, in Load: the files read so far

watchVars == <<disk, edits, process, active, watcher>>

Clients == 1 .. NumClients
Operations == NumClients + 1
Slots == 1 .. Operations

\* The configuration file: broken, or one that parses and whose providers, CORS, ...
\* are valid.
Broken == [sound |-> FALSE]
Sound ==
  [sound     : {TRUE},
   startup   : Startups,
   enabled   : SUBSET Clients,
   dedicated : BOOLEAN]          \* operations.token_file is set
Configs == Sound \union {Broken}
Contents == [config : Configs, secrets : [Slots -> Secrets \union {NoSecret}]]

Waiting == [stage |-> "waiting"]

\* Load on files that rest: the operations token is read only if it is configured.
Loaded(files) ==
  [files EXCEPT !.secrets[Operations] = IF files.config.dedicated THEN @ ELSE NoSecret]

Read(files, slot) == slot \in Clients \/ files.config.dedicated

\* Every file that is read has a secret, those of disabled clients included.
Readable(files) ==
  /\ files.config.sound
  /\ \A slot \in Slots : Read(files, slot) => files.secrets[slot] # NoSecret

\* Mutant of Valid: the operations token is not compared with the clients'.
ValidClients(files) ==
  /\ files.config.enabled # {}
  /\ \A c, d \in files.config.enabled : files.secrets[c] = files.secrets[d] => c = d

\* validate: an enabled client, and no token with two meanings.
Valid(files) ==
  /\ files.config.enabled # {}
  /\ \A c, d \in files.config.enabled : files.secrets[c] = files.secrets[d] => c = d
  /\ files.config.dedicated =>
       \A c \in files.config.enabled : files.secrets[c] # files.secrets[Operations]

\* Mutant of Compatible: one of the settings is not compared.
CompatibleButOne(files) ==
  \A s \in Settings \ {CHOOSE s \in Settings : TRUE} :
    files.config.startup[s] = active.config.startup[s]

\* validateHotReload: the candidate is compared, setting by setting, with the snapshot
\* that is active, not with what the process was built from.
Compatible(files) ==
  \A s \in Settings : files.config.startup[s] = active.config.startup[s]

WatchInit ==
  /\ disk \in {files \in Contents : Readable(files) /\ Valid(files)}
  /\ edits = 0
  /\ process = disk.config.startup
  /\ active = Loaded(disk)
  /\ watcher = Waiting

-----------------------------------------------------------------------------
\* The operator replaces a file.
EditConfig ==
  /\ edits < MaxEdits /\ edits' = edits + 1
  /\ \E config \in Configs \ {disk.config} : disk' = [disk EXCEPT !.config = config]
  /\ UNCHANGED <<process, active, watcher>>

EditSecret ==
  /\ edits < MaxEdits /\ edits' = edits + 1
  /\ \E slot \in Slots :
       \E secret \in (Secrets \union {NoSecret}) \ {disk.secrets[slot]} :
         disk' = [disk EXCEPT !.secrets[slot] = secret]
  /\ UNCHANGED <<process, active, watcher>>

-----------------------------------------------------------------------------
Watches(next) == watcher' = next /\ UNCHANGED <<disk, edits, process>>

\* A tick of the watcher: Load reads the file, and fails if it does not parse.
ReadConfig ==
  /\ watcher.stage = "waiting"
  /\ IF disk.config.sound
     THEN Watches([stage |-> "reading", next |-> 1,
                   files |-> [config  |-> disk.config,
                              secrets |-> [slot \in Slots |-> NoSecret]]])
     ELSE Watches(Waiting)
  /\ UNCHANGED active

\* resolveSecretFiles, one file at a time.
ReadSecret ==
  /\ watcher.stage = "reading" /\ watcher.next \in Slots
  /\ Read(watcher.files, watcher.next)
  /\ disk.secrets[watcher.next] # NoSecret
  /\ Watches([watcher EXCEPT !.next = @ + 1,
                             !.files.secrets[watcher.next] = disk.secrets[watcher.next]])
  /\ UNCHANGED active

SkipSecret ==
  /\ watcher.stage = "reading" /\ watcher.next \in Slots
  /\ ~Read(watcher.files, watcher.next)
  /\ Watches([watcher EXCEPT !.next = @ + 1])
  /\ UNCHANGED active

\* The failure is logged and the next tick tries again.
FailSecret ==
  /\ watcher.stage = "reading" /\ watcher.next \in Slots
  /\ Read(watcher.files, watcher.next)
  /\ disk.secrets[watcher.next] = NoSecret
  /\ Watches(Waiting)
  /\ UNCHANGED active

HasRead == watcher.stage = "reading" /\ watcher.next > Operations

\* validate or validateHotReload refuses the candidate, or nothing changed.
DropCandidate ==
  /\ HasRead
  /\ Valid(watcher.files) => (watcher.files = active \/ ~Compatible(watcher.files))
  /\ Watches(Waiting)
  /\ UNCHANGED active

\* Mutant of SwapCandidate: only the configuration file is compared.
SwapIfFileChanged ==
  /\ HasRead
  /\ Valid(watcher.files) /\ watcher.files # active /\ Compatible(watcher.files)
  /\ Watches(Waiting)
  /\ active' = IF watcher.files.config = active.config THEN active ELSE watcher.files

\* buildRuntimeSnapshot and the swap.
SwapCandidate ==
  /\ HasRead
  /\ Valid(watcher.files) /\ watcher.files # active /\ Compatible(watcher.files)
  /\ Watches(Waiting)
  /\ active' = watcher.files

-----------------------------------------------------------------------------
Edit == EditConfig \/ EditSecret
Watch ==
  \/ ReadConfig \/ ReadSecret \/ SkipSecret \/ FailSecret
  \/ DropCandidate \/ SwapCandidate

WatchNext == Edit \/ Watch
WatchSpec == WatchInit /\ [][WatchNext]_watchVars

\* The ticker ticks and the watcher's goroutine runs; nobody has to edit.
FairWatchSpec == WatchSpec /\ WF_watchVars(Watch)

-----------------------------------------------------------------------------
Candidates ==
  {Waiting} \union
  [stage : {"reading"}, next : Nat \ {0}, files : Contents]

WatchTypeOK ==
  /\ disk \in Contents
  /\ edits \in Nat
  /\ process \in Startups
  /\ active \in Contents
  /\ watcher \in Candidates

\* However the files were edited while they were read, what serves requests is a
\* complete, valid configuration: every secret it reads is there, every token means
\* one client, and with a dedicated operations token none of them opens the
\* operations endpoints (config.go:341-392, 482-508; runtime.go:113-134).
ServesValid ==
  LET Meanings == active.config.enabled
                    \union {s \in Slots : s = Operations /\ active.config.dedicated}
  IN /\ active.config.enabled # {}
     /\ \A s \in Slots : Read(active, s) => active.secrets[s] # NoSecret
     /\ \A s, t \in Meanings : active.secrets[s] = active.secrets[t] => s = t

\* "A reload attempting to change restart-only fields is rejected rather than
\* partially applied" (docs/ARCHITECTURE.md:122).  Each reload is compared only with
\* the one before it, and a comparison that forgets a setting would drift: however
\* many reloads were applied or refused, the configuration that is served and shown
\* is in step with the listener and the limiter the process was built with
\* (runtime.go:121, 156-176).
ServesWhatRuns == active.config.startup = process

Acceptable == Readable(disk) /\ Valid(disk) /\ Compatible(disk)

\* The watcher gets over mixtures and refusals: if the files come to rest in an
\* acceptable state, exactly they become active (main.go:186-210).
Converges == <>[]Acceptable => <>[](Acceptable /\ active = Loaded(disk))
=============================================================================
