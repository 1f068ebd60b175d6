------------------------------ MODULE Settings ------------------------------
(***************************************************************************)
(* The settings (infra/settings): a Config in memory, built at the start    *)
(* from settings.json and the environment, changed by PUT /api/config,      *)
(* which saves a snapshot after it has given the mutex back, and re-read by *)
(* every scan and repair.  Next to it the folders that are made and the     *)
(* legacy folders that are emptied into their successors.                   *)
(***************************************************************************)
EXTENDS Integers, Sequences, FiniteSets, SequencesExt, ReplaceFile

CONSTANTS
  Updaters,      \* goroutines of PUT /api/config
  Scans,         \* goroutines that call ReloadFromDisk
  Languages,     \* what a language field may hold, "EN" and garbage
  OutputDirs,    \* output folders
  Denylists,     \* the name lists, as sequences
  LegacyNames,   \* names of files in the legacy blocked_files folder
  MaxPuts, MaxReloads, MaxFaults  \* bounds

ASSUME UpdatersAssumption == IsFiniteSet(Updaters)
ASSUME OutputsAssumption == OutputDirs \subseteq STRING /\ "" \notin OutputDirs
ASSUME DenylistAssumption == Denylists \subseteq Seq(STRING)

VARIABLES
  env,       \* SYSTEM_LANGUAGE and PDF_OUTPUT_DIR; "" when unset
  conf,      \* Store.cfg
  json,      \* settings.json and its temp file
  updater,   \* per PUT: where it is, its snapshot and its descriptor
  scanConf,  \* per reload: what it has read
  legacy, parked,   \* name -> the file in blocked_files, in .blocked_files
  moving,    \* the migration: names left to do, and the one copied
  puts, reloads, faults,
  saved,     \* history: the Config of the last PUT that was answered with 200
  mixed,     \* history: two writers of conf or of the file have overlapped
  half,      \* history: the last PUT changed conf and not the file
  cutOff     \* history: a copy over settings.json has begun and no save has
             \* ended since

settingsVars == <<env, conf, json, updater, scanConf, legacy, parked, moving,
                  puts, reloads, faults, saved, mixed, half, cutOff>>

Nothing  == [lang |-> "", out |-> "", names |-> <<>>]
AtRest   == [pc |-> "idle", snap |-> Nothing, fd |-> 0]
NoReload == [pc |-> "idle", read |-> Nothing]
NoMove   == [pc |-> "idle", left |-> {}, at |-> ""]

\* Mutant: what the file says is stored as it is.
TrustedLanguage(lang) == lang

SanitizeLanguage(lang) == IF lang = "EN" THEN "EN" ELSE "FR"
FirstNonEmpty(a, b) == IF a # "" THEN a ELSE b

\* The JSON text of a Config, and back; a text that cannot be read has no field.
TextOf(c) == <<c.lang, c.out>> \o c.names
FieldsOf(fs) ==
  IF ~FileExists(fs) \/ ~FileParses(fs) \/ Len(FileList(fs)) < 2 THEN Nothing
  ELSE [lang |-> FileList(fs)[1], out |-> FileList(fs)[2],
        names |-> SubSeq(FileList(fs), 3, Len(FileList(fs)))]

\* Mutant: the environment before settings.json.
BuildConfigEnvFirst(custom, vars) ==
  [lang  |-> SanitizeLanguage(FirstNonEmpty(vars.lang, custom.lang)),
   out   |-> FirstNonEmpty(vars.out, FirstNonEmpty(custom.out, "organized")),
   names |-> custom.names]

\* buildConfig: settings.json before the environment before the default.
BuildConfig(custom, vars) ==
  [lang  |-> SanitizeLanguage(FirstNonEmpty(custom.lang, vars.lang)),
   out   |-> FirstNonEmpty(custom.out, FirstNonEmpty(vars.out, "organized")),
   names |-> custom.names]

\* ReloadFromDisk: the language and the names are reset, the folder stays when
\* the file has none.
Reloaded(c, custom) ==
  [lang |-> SanitizeLanguage(custom.lang), out |-> FirstNonEmpty(custom.out, c.out),
   names |-> custom.names]

Environments == [lang : {"", "EN"}, out : {""} \cup OutputDirs]

SettingsInit ==
  /\ env \in Environments
  /\ json = NoFiles(1..Cardinality(Updaters) + 2)
  /\ conf = BuildConfig(Nothing, env)
  /\ updater = [u \in Updaters |-> AtRest]
  /\ scanConf = [s \in Scans |-> NoReload]
  /\ legacy \in [LegacyNames -> {"none", "old"}]
  /\ parked \in [LegacyNames -> {"none", "new"}]
  /\ moving = NoMove
  /\ puts = 0 /\ reloads = 0 /\ faults = 0
  /\ saved = Nothing /\ mixed = FALSE /\ half = FALSE /\ cutOff = FALSE

Fds == {updater[u].fd : u \in Updaters}
Putting == {u \in Updaters : updater[u].pc # "idle"}
Reloading == {s \in Scans : scanConf[s].pc # "idle"}

\* UpdateConfig under the mutex: an omitted or empty field stays.
Put(u, lang, out, names) ==
  /\ updater[u].pc = "idle" /\ puts < MaxPuts
  /\ puts' = puts + 1
  /\ conf' = [lang  |-> IF lang = "" THEN conf.lang ELSE SanitizeLanguage(lang),
              out   |-> FirstNonEmpty(out, conf.out), names |-> names]
  /\ updater' = [updater EXCEPT ![u] = [pc |-> "open", snap |-> conf', fd |-> 0]]
  /\ mixed' = (mixed \/ Putting # {} \/ Reloading # {})
  /\ UNCHANGED <<env, json, scanConf, legacy, parked, moving, reloads, faults, saved, half, cutOff>>

\* Mutant: settings.json is opened and emptied itself.
OpenJsonInPlace(u) ==
  /\ updater[u].pc = "open"
  /\ json' = FileOpened(json, Fds, 0)
  /\ updater' = [updater EXCEPT ![u].pc = "write", ![u].fd = json'.file]
  /\ UNCHANGED <<env, conf, scanConf, legacy, parked, moving, puts, reloads, faults, saved, mixed, half, cutOff>>

\* writeFileAtomic, after the mutex was given back.
OpenJson(u) ==
  /\ updater[u].pc = "open"
  /\ json' = TmpOpened(json, Fds, 0)
  /\ updater' = [updater EXCEPT ![u].pc = "write", ![u].fd = json'.tmp]
  /\ UNCHANGED <<env, conf, scanConf, legacy, parked, moving, puts, reloads, faults, saved, mixed, half, cutOff>>

WriteJson(u) ==
  /\ updater[u].pc = "write"
  /\ json' = Written(json, updater[u].fd, TextOf(updater[u].snap), 0)
  /\ updater' = [updater EXCEPT ![u].pc = "rename", ![u].fd = 0]
  /\ UNCHANGED <<env, conf, scanConf, legacy, parked, moving, puts, reloads, faults, saved, mixed, half, cutOff>>

\* The rename; the PUT goes on to the folders and is answered.  It fails when
\* another PUT has renamed the shared temp file away.
Renamed(u) ==
  /\ updater[u].pc = "rename"
  /\ IF json.tmp = 0
     THEN half' = TRUE /\ UNCHANGED <<json, saved, cutOff>>
     ELSE /\ json' = TmpRenamed(json) /\ saved' = updater[u].snap
          /\ half' = FALSE /\ cutOff' = FALSE
  /\ updater' = [updater EXCEPT ![u] = AtRest]
  /\ UNCHANGED <<env, conf, scanConf, legacy, parked, moving, puts, reloads, faults, mixed>>

\* The rename is refused for want of permission or because the file is busy:
\* copyFile opens the temp file, then empties settings.json in place, ...
JsonRenameRefused(u) ==
  /\ updater[u].pc = "rename" /\ json.tmp # 0 /\ faults < MaxFaults
  /\ faults' = faults + 1
  /\ json' = FileOpened(json, Fds, 0) /\ cutOff' = TRUE
  /\ updater' = [updater EXCEPT ![u].pc = "copy"]
  /\ UNCHANGED <<env, conf, scanConf, legacy, parked, moving, puts, reloads, saved, mixed, half>>

\* ... and copies: the PUT is answered as after a rename.
CopyJson(u) ==
  /\ updater[u].pc = "copy"
  /\ IF json.tmp = 0
     THEN half' = TRUE /\ UNCHANGED <<json, saved, cutOff>>
     ELSE /\ json' = TmpCopied(json, 0) /\ saved' = updater[u].snap
          /\ half' = FALSE /\ cutOff' = FALSE
  /\ updater' = [updater EXCEPT ![u] = AtRest]
  /\ UNCHANGED <<env, conf, scanConf, legacy, parked, moving, puts, reloads, faults, mixed>>

\* The temp file cannot be written, the rename fails for another reason, or the
\* copy breaks off and leaves what it had written: 400, and the Config in
\* memory keeps the change.
SaveFails(u) ==
  /\ updater[u].pc \in {"open", "rename", "copy"} /\ faults < MaxFaults
  /\ faults' = faults + 1 /\ half' = TRUE
  /\ updater' = [updater EXCEPT ![u] = AtRest]
  /\ UNCHANGED <<env, conf, json, scanConf, legacy, parked, moving, puts, reloads, saved, mixed, cutOff>>

\* ReloadFromDisk: the file first, the mutex afterwards.
ReloadRead(s) ==
  /\ scanConf[s].pc = "idle" /\ reloads < MaxReloads
  /\ reloads' = reloads + 1
  /\ scanConf' = [scanConf EXCEPT ![s] = [pc |-> "read", read |-> FieldsOf(json)]]
  /\ mixed' = (mixed \/ Putting # {})
  /\ UNCHANGED <<env, conf, json, updater, legacy, parked, moving, puts, faults, saved, half, cutOff>>

ReloadApply(s) ==
  /\ scanConf[s].pc = "read"
  /\ conf' = Reloaded(conf, scanConf[s].read)
  /\ scanConf' = [scanConf EXCEPT ![s] = NoReload]
  /\ half' = FALSE
  /\ UNCHANGED <<env, json, updater, legacy, parked, moving, puts, reloads, faults, saved, mixed, cutOff>>

\* The process dies, or is stopped, and starts again in another environment.
SettingsRestart ==
  /\ faults < MaxFaults /\ faults' = faults + 1
  /\ env' \in Environments
  /\ conf' = BuildConfig(FieldsOf(json), env')
  /\ updater' = [u \in Updaters |-> AtRest]
  /\ scanConf' = [s \in Scans |-> NoReload]
  /\ moving' = NoMove
  /\ half' = FALSE
  /\ UNCHANGED <<json, legacy, parked, puts, reloads, saved, mixed, cutOff>>

\* EnsureDirectoriesExist: every file of the legacy folder is renamed into its
\* successor, over a file of that name, ...
MigrateStart ==
  /\ moving.pc = "idle"
  /\ LET there == {n \in LegacyNames : legacy[n] # "none"}
     IN  there # {} /\ moving' = [pc |-> "next", left |-> there, at |-> ""]
  /\ UNCHANGED <<env, conf, json, updater, scanConf, legacy, parked, puts, reloads, faults, saved, mixed, half, cutOff>>

MigrateRename(n) ==
  /\ moving.pc = "next" /\ n \in moving.left
  /\ parked' = [parked EXCEPT ![n] = legacy[n]]
  /\ legacy' = [legacy EXCEPT ![n] = "none"]
  /\ moving' = IF moving.left = {n} THEN NoMove ELSE [moving EXCEPT !.left = @ \ {n}]
  /\ UNCHANGED <<env, conf, json, updater, scanConf, puts, reloads, faults, saved, mixed, half, cutOff>>

\* ... or copied and removed; os.Create empties the target first, and a copy
\* that breaks off leaves the file where it was.
MigrateCopy(n) ==
  /\ moving.pc = "next" /\ n \in moving.left /\ faults < MaxFaults
  /\ faults' = faults + 1
  /\ parked' = [parked EXCEPT ![n] = "part"]
  /\ moving' = [moving EXCEPT !.pc = "copy", !.at = n]
  /\ UNCHANGED <<env, conf, json, updater, scanConf, legacy, puts, reloads, saved, mixed, half, cutOff>>

\* Mutant: the file is removed whether it was copied or not.
MigrateCopiedBlind ==
  /\ moving.pc = "copy"
  /\ \/ parked' = [parked EXCEPT ![moving.at] = legacy[moving.at]]
     \/ UNCHANGED parked
  /\ legacy' = [legacy EXCEPT ![moving.at] = "none"]
  /\ moving' = IF moving.left = {moving.at} THEN NoMove
               ELSE [pc |-> "next", left |-> moving.left \ {moving.at}, at |-> ""]
  /\ UNCHANGED <<env, conf, json, updater, scanConf, puts, reloads, faults, saved, mixed, half, cutOff>>

MigrateCopied ==
  /\ moving.pc = "copy"
  /\ LET n == moving.at
     IN  \/ /\ parked' = [parked EXCEPT ![n] = legacy[n]]
            /\ legacy' = [legacy EXCEPT ![n] = "none"]
         \/ UNCHANGED <<parked, legacy>>
  /\ moving' = IF moving.left = {moving.at} THEN NoMove
               ELSE [pc |-> "next", left |-> moving.left \ {moving.at}, at |-> ""]
  /\ UNCHANGED <<env, conf, json, updater, scanConf, puts, reloads, faults, saved, mixed, half, cutOff>>

SettingsNext ==
  \/ \E u \in Updaters :
       \/ \E lang \in Languages \cup {""}, out \in OutputDirs \cup {""}, names \in Denylists : Put(u, lang, out, names)
       \/ OpenJson(u) \/ WriteJson(u) \/ Renamed(u) \/ JsonRenameRefused(u) \/ CopyJson(u) \/ SaveFails(u)
  \/ \E s \in Scans : ReloadRead(s) \/ ReloadApply(s)
  \/ SettingsRestart
  \/ MigrateStart \/ MigrateCopied
  \/ \E n \in LegacyNames : MigrateRename(n) \/ MigrateCopy(n)

SettingsSpec == SettingsInit /\ [][SettingsNext]_settingsVars

-----------------------------------------------------------------------------
\* A Config that PUT /api/config confirmed is the Config, after any number of
\* reloads, crashes and restarts in any environment, unless the last PUT reached
\* only the memory, two writers have overlapped, or the copy that stands in for
\* a refused rename was cut off and nothing was saved since.
ConfirmedSettingsStay ==
  Putting = {} /\ Reloading = {} /\ ~mixed /\ ~half /\ ~cutOff /\ saved # Nothing => conf = saved

\* settings.json is absent or one whole text at every moment, crashes
\* included, but for that copy, from its first byte to the end of the next
\* save, and for two PUTs that overlap on the temp file.
SettingsParse == mixed \/ cutOff \/ FileParses(json)

\* Every file of the legacy folder is, whole, in it or in its successor, at
\* every moment of the migration, failed copies and crashes included.
LegacyFilesKept ==
  \A n \in LegacyNames : legacy[n] # "none" \/ parked[n] \in {"none", "old", "new"}

SettingsTypeOK ==
  /\ conf.lang \in {"EN", "FR"} /\ conf.out # ""
  /\ json.file \in DOMAIN json.node \cup {0}
  /\ \A u \in Updaters : updater[u].snap.lang \in {"EN", "FR", ""}

(* What the settings promise, taken together: a setting a page was told is  *)
(* saved stays, settings.json can be read at every moment unless a copy in  *)
(* place was cut off, and moving the folders of an older version loses no   *)
(* file of theirs.                                                          *)
SettingsKept == SettingsTypeOK /\ ConfirmedSettingsStay /\ SettingsParse /\ LegacyFilesKept
=============================================================================
