----------------------------- MODULE BotSettings -----------------------------
(***************************************************************************)
(* What startBot draws on: the settings of a bot (PendingConfig) and its   *)
(* provider rows (BotProviders). It applies what is pending, removes the   *)
(* old container, looks up the primary key for the proxy registration, and *)
(* the runtime configuration once more by itself, and creates a container  *)
(* with all of it. Every lookup is a query of its own.                     *)
(***************************************************************************)
EXTENDS BotProviders

CONSTANTS
  Fields, Values,
  EnvFields,    \* fields whose column is part of the container's environment
  Users         \* requests that have to do with settings

ASSUME BotSettingsAssumption == EnvFields \subseteq Fields /\ None \notin Values

VARIABLES
  row, pending, creq, want,   \* see PendingConfig
  run,          \* what a startBot under way has read
  box           \* the container: None, or what it was created with

Config == INSTANCE PendingConfig WITH Reqs <- Users, req <- creq,
            serial <- Serial, faults <- Faults

settings == <<row, pending, creq, want>>
all == <<vars, settings, run, box>>

Waiting == [pc |-> "idle", conf |-> None, link |-> None, key |-> None, vendor |-> None]
Running(r, pc) == run[r].pc = pc
Step(r, q) == run' = [run EXCEPT ![r] = q]

\* startBot that goes on with the row it read before it applied what is pending.
KeepFirstRead(r) ==
  /\ world.settings /\ (Serial => Quiet)
  /\ Config!Step(r)
  /\ run' = IF creq'[r].op = "start" /\ creq[r].op # "start"
              THEN [run EXCEPT ![r] = [Waiting EXCEPT !.pc = "remove", !.conf = row]]
              ELSE IF creq'[r].op = "none" THEN [run EXCEPT ![r] = Waiting] ELSE run
  /\ UNCHANGED <<vars, box>>

\* The row as startBot last read it: after applyPendingConfig when it called it.
SettingsStep(r) ==
  /\ world.settings /\ (Serial => Quiet)
  /\ Config!Step(r)
  /\ run' = IF creq'[r].pc = "started" /\ creq[r].pc # "started"
              THEN [run EXCEPT ![r] = [Waiting EXCEPT !.pc = "remove", !.conf = row]]
              ELSE run
  /\ UNCHANGED <<vars, box>>

ProvidersStep ==
  /\ Next /\ (Serial => Config!Quiet)
  /\ UNCHANGED <<settings, run, box>>

RemoveOld(r) ==
  /\ creq[r].pc = "started" /\ Running(r, "remove")
  /\ box' = None /\ Step(r, [run[r] EXCEPT !.pc = "primary"])
  /\ UNCHANGED <<vars, settings>>

SomePrimary == IF Primaries = {} THEN {None} ELSE Primaries

FindPrimary(r) ==
  /\ Running(r, "primary")
  /\ \E k \in SomePrimary : Step(r, [run[r] EXCEPT !.pc = "key", !.link = k])
  /\ UNCHANGED <<vars, settings, box>>

\* The key registerBot is given. A failing query only costs the key.
FindKey(r) ==
  /\ Running(r, "key")
  /\ \E k \in {run[r].link} \cup (IF Faults THEN {None} ELSE {}) :
       Step(r, [run[r] EXCEPT !.pc = "resolve", !.key = IF k \in keys THEN k ELSE None])
  /\ UNCHANGED <<vars, settings, box>>

\* getBotRuntimeConfig that looks at any row.
FindAnyRow(r) ==
  /\ Running(r, "resolve")
  /\ \E k \in IF Linked # {} THEN Linked ELSE {None} :
       Step(r, [run[r] EXCEPT !.pc = "vendor", !.link = k])
  /\ UNCHANGED <<vars, settings, box>>

\* getBotRuntimeConfig: the primary, or any row when there is none,
FindRuntime(r) ==
  /\ Running(r, "resolve")
  /\ \E k \in IF Primaries # {} THEN Primaries ELSE IF Linked # {} THEN Linked ELSE {None} :
       Step(r, [run[r] EXCEPT !.pc = "vendor", !.link = k])
  /\ UNCHANGED <<vars, settings, box>>

\* and the vendor of its key.
ResolveVendor(r) ==
  /\ Running(r, "vendor")
  /\ Step(r, [run[r] EXCEPT !.pc = "create",
                !.vendor = IF run[r].link \in keys THEN Vendor[run[r].link] ELSE None])
  /\ UNCHANGED <<vars, settings, box>>

CreateContainer(r) ==
  /\ Running(r, "create")
  /\ box' = [conf |-> [f \in EnvFields |-> run[r].conf[f]], key |-> run[r].key,
             vendor |-> run[r].vendor]
  /\ Step(r, Waiting) /\ creq' = [creq EXCEPT ![r] = Config!Idle]
  /\ UNCHANGED <<vars, row, pending, want>>

\* A start that is tried again from its reading of the row when something fails.
RetryStart(r) ==
  /\ Faults /\ creq[r].pc = "started"
  /\ Step(r, Waiting) /\ creq' = [creq EXCEPT ![r].pc = "reload"]
  /\ UNCHANGED <<vars, row, pending, want, box>>

\* A query or a Docker call fails, or the process crashes.
FailStart(r) ==
  /\ Faults /\ creq[r].pc = "started"
  /\ Step(r, Waiting) /\ creq' = [creq EXCEPT ![r] = Config!Idle]
  /\ UNCHANGED <<vars, row, pending, want, box>>

SettingsInit ==
  /\ Init /\ Config!Init /\ box = None /\ run = [r \in Users |-> Waiting]

SettingsNext ==
  \/ ProvidersStep
  \/ \E r \in Users :
       \/ SettingsStep(r) \/ RemoveOld(r) \/ FindPrimary(r) \/ FindKey(r) \/ FindRuntime(r)
       \/ ResolveVendor(r) \/ CreateContainer(r) \/ FailStart(r)

SettingsSpec == SettingsInit /\ [][SettingsNext /\ UNCHANGED world]_<<all, world>>

-----------------------------------------------------------------------------
\* Every variable keeps its type.
SettingsTypeOK ==
  /\ TypeOK /\ Config!TypeOK
  /\ \A r \in Users :
       /\ run[r].conf \in [Fields -> Values] \cup {None}
       /\ {run[r].link, run[r].key} \subseteq Keys \cup {None}
       /\ Running(r, "idle") = (creq[r].pc # "started")
  /\ box # None => box.conf \in [EnvFields -> Values]

\* The primary provider of a bot is the key last made primary, and there is
\* never a second one, although unsetting and setting are separate queries that
\* may fail one by one.
PrimaryIsNewest == SettingsTypeOK /\ NewestPrimaryWins /\ AtMostOnePrimary

\* What the rest of startBot, the provider requests, failures and crashes do
\* leaves the settings of a bot to the requests of PendingConfig.
KeepsToConfig == Config!Spec

NoUpdateLost == Config!NoUpdateLost

\* "Stored in pendingConfig, takes effect after a restart": a container that
\* startBot creates has everything the user saved and did not discard, and the
\* key of the provider last made primary, whatever failed or crashed before.
StartUsesSettings ==
  [][Serial /\ box' \notin {box, None} =>
       /\ \A f \in EnvFields : box'.conf[f] = want[f]
       /\ ~Faults => box'.key = IF asked \in keys THEN asked ELSE None]_all

\* The vendor whose URL the container is given is the vendor its key is of,
\* though startBot looks the two up one after the other: the proxy refuses a
\* token that is used under another vendor's URL.
ContainerAsksItsVendor ==
  Serial /\ box # None /\ box.key # None => box.vendor = Vendor[box.key]
=============================================================================
