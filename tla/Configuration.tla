--------------------------- MODULE Configuration ---------------------------
(***************************************************************************)
(* app-config.json, the map ConfigManager keeps of it, and the three       *)
(* parties that touch them: the GUI thread (the settings page saves one    *)
(* field), the ConfigFileWatcher thread (polls the file's mtime, reloads)  *)
(* and whoever edits the file by hand.  The process may crash and start    *)
(* again.  No front end constructs the watcher yet: it is modelled as its  *)
(* header says it is to be used, started some time after Bootstrap.        *)
(*                                                                         *)
(* Abstractions: a document is its language, its palette and whether the   *)
(* other settings are in range; a torn document is one a parser rejects.   *)
(* Every write gives the file an mtime of its own.                         *)
(***************************************************************************)
EXTENDS Naturals

CONSTANTS
    MaxEdits,      \* bound: writes by an outside editor
    MaxSaves,      \* bound: fields saved from the settings page
    MaxSaveFaults, \* bound: failing system calls of a save
    MaxBoots       \* bound: starts of the process

ASSUME ConfigurationAssumption ==
    /\ {MaxEdits, MaxSaves, MaxSaveFaults} \subseteq Nat /\ MaxBoots \in Nat \ {0}

Languages == {"auto", "de"}
Palettes  == {"", "paper"}
Absent    == [is |-> "absent"]
Torn      == [is |-> "torn"]
Document(l, p, inRange) == [is |-> "json", language |-> l, palette |-> p, inRange |-> inRange]
Documents == {Document(l, p, r) : l \in Languages, p \in Palettes, r \in BOOLEAN}

NoSave == [at |-> "none"]
Asleep == [at |-> "asleep"]
Off    == [at |-> "off"]

VARIABLES
    file,      \* the file: its body and its mtime (0: there is no file)
    clock,     \* mtimes given so far
    process,   \* "down", "up" or "refused" (a startup error)
    config,    \* ConfigManager::config_
    locale,    \* the language gettext translates to
    save,      \* persistStringField() on the GUI thread
    rebuild,   \* languages of the rebuilds queued as idle callbacks
    watcher,   \* the watcher thread
    lastSeenMtime,
    drift,     \* a failed save or a late watcher left memory and file apart
    edits, saves, saveFaults, boots

watcherVars == <<watcher, lastSeenMtime>>
configVars  == <<file, clock, process, config, locale, save, rebuild, watcherVars, drift, edits,
                saves, saveFaults, boots>>

\* ConfigValidator::validate() on what loadConfig() and flatten() make of the text.
validate(doc) == doc.is = "json" /\ doc.inRange

\* readMtime(): the minimum when there is no file.
readMtime == IF file.body = Absent THEN 0 ELSE file.mtime

\* "auto": the language of the shell, which sets LANG, also after another was forced.
propagateLangToLanguage == "shell"

\* initI18n(): anything but "auto" is forced.
initI18n(language) == IF language = "auto" THEN propagateLangToLanguage ELSE language

ConfigurationInit ==
    /\ \E doc \in Documents : file = [body |-> doc, mtime |-> 1]
    /\ clock = 1 /\ process = "down" /\ config = Absent /\ locale = "shell"
    /\ save = NoSave /\ rebuild = {} /\ watcher = Off /\ lastSeenMtime = 0 /\ drift = FALSE
    /\ edits = 0 /\ saves = 0 /\ saveFaults = 0 /\ boots = 0

-----------------------------------------------------------------------------
(* The process.                                                            *)

\* loadConfig(): the map the getters read becomes what the file says.
loadConfig == config' = file.body

\* Bootstrap::run(): no file or one that does not parse or validate is a
\* startup error.
BootstrapRun ==
    /\ process \in {"down", "refused"} /\ boots < MaxBoots /\ boots' = boots + 1
    /\ IF validate(file.body)
       THEN process' = "up" /\ loadConfig /\ locale' = initI18n(file.body.language)
       ELSE process' = "refused" /\ UNCHANGED <<config, locale>>
    /\ drift' = FALSE
    /\ UNCHANGED <<file, clock, save, rebuild, watcher, lastSeenMtime, edits, saves, saveFaults>>

\* The watcher's constructor and start(): an edit made since Bootstrap read the
\* file is taken for seen.
WatcherStart ==
    /\ process = "up" /\ watcher = Off /\ watcher' = Asleep
    /\ lastSeenMtime' = readMtime /\ drift' = (drift \/ config # file.body)
    /\ UNCHANGED <<file, clock, process, config, locale, save, rebuild, edits, saves, saveFaults,
                   boots>>

\* stop(): joins, so a poll in progress is over.
WatcherStop ==
    /\ watcher = Asleep /\ watcher' = Off
    /\ UNCHANGED <<file, clock, process, config, locale, save, rebuild, lastSeenMtime, drift, edits,
                   saves, saveFaults, boots>>

\* The process dies, also in the middle of a save.
ProcessDies ==
    /\ process = "up" /\ process' = "down"
    /\ save' = NoSave /\ rebuild' = {} /\ watcher' = Off /\ locale' = "shell"
    /\ UNCHANGED <<file, clock, config, lastSeenMtime, drift, edits, saves, saveFaults, boots>>

-----------------------------------------------------------------------------
(* The file.                                                               *)

Put(body) == file' = [body |-> body, mtime |-> clock + 1] /\ clock' = clock + 1

\* Somebody edits the file: a complete document at once, or a torn one first.
EditFile ==
    /\ edits < MaxEdits /\ edits' = edits + 1
    /\ \E body \in Documents \cup {Torn} : body # file.body /\ Put(body)
    /\ UNCHANGED <<process, config, locale, save, rebuild, watcher, lastSeenMtime, drift, saves,
                   saveFaults, boots>>

-----------------------------------------------------------------------------
(* Saving one field, on the GUI thread.                                    *)

\* setLanguage(), setPalette(): the map first, under the lock; the settings page
\* does not call them for the value it has.
SetField ==
    /\ process = "up" /\ save = NoSave /\ saves < MaxSaves /\ saves' = saves + 1
    /\ \/ \E l \in Languages \ {config.language} :
            /\ config' = [config EXCEPT !.language = l]
            /\ save' = [at |-> "read", field |-> "language", value |-> l]
       \/ \E p \in Palettes \ {config.palette} :
            /\ config' = [config EXCEPT !.palette = p]
            /\ save' = [at |-> "read", field |-> "palette", value |-> p]
    /\ UNCHANGED <<file, clock, process, locale, rebuild, watcher, lastSeenMtime, drift, edits,
                   saveFaults, boots>>

SaveFails == save' = NoSave /\ drift' = TRUE

\* persistStringField() reads the text and replaces the field in it; a torn
\* text is edited as text, or has no brace to insert after.
SaveRead ==
    /\ save.at = "read"
    /\ \/ /\ file.body.is = "json"
          /\ save' = [at |-> "write", field |-> save.field, value |-> save.value,
                      text |-> [file.body EXCEPT ![save.field] = save.value]]
          /\ UNCHANGED drift
       \/ /\ file.body = Torn /\ UNCHANGED drift
          /\ save' = [at |-> "write", field |-> save.field, value |-> save.value, text |-> Torn]
       \/ /\ file.body \in {Torn, Absent} /\ SaveFails
    /\ UNCHANGED <<file, clock, process, config, locale, rebuild, watcher, lastSeenMtime, edits,
                   saves, saveFaults, boots>>

\* The temporary file is written, or cannot be.
SaveWrite ==
    /\ save.at = "write"
    /\ \/ save' = [save EXCEPT !.at = "remove"] /\ UNCHANGED <<drift, saveFaults>>
       \/ /\ saveFaults < MaxSaveFaults /\ saveFaults' = saveFaults + 1 /\ SaveFails
    /\ UNCHANGED <<file, clock, process, config, locale, rebuild, watcher, lastSeenMtime, edits,
                   saves, boots>>

\* std::remove: until the rename there is no configuration file.
SaveRemove ==
    /\ save.at = "remove" /\ save' = [save EXCEPT !.at = "rename"]
    /\ file' = [body |-> Absent, mtime |-> 0]
    /\ UNCHANGED <<clock, process, config, locale, rebuild, watcher, lastSeenMtime, drift, edits,
                   saves, saveFaults, boots>>

\* std::rename; a saved language asks for a rebuild, a failed one does not.
SaveRename ==
    /\ save.at = "rename"
    /\ \/ /\ Put(save.text) /\ save' = NoSave
          /\ rebuild' = IF save.field = "language" THEN rebuild \cup {save.value} ELSE rebuild
          /\ UNCHANGED <<drift, saveFaults>>
       \/ /\ saveFaults < MaxSaveFaults /\ saveFaults' = saveFaults + 1 /\ SaveFails
          /\ UNCHANGED <<file, clock, rebuild>>
    /\ UNCHANGED <<process, config, locale, watcher, lastSeenMtime, edits, saves, boots>>

\* rebuildPages(lang): the language chosen when the rebuild was queued.
RebuildInLanguage ==
    /\ process = "up" /\ save = NoSave
    /\ \E l \in rebuild : rebuild' = rebuild \ {l} /\ locale' = initI18n(l)
    /\ UNCHANGED <<file, clock, process, config, save, watcher, lastSeenMtime, drift, edits, saves,
                   saveFaults, boots>>

-----------------------------------------------------------------------------
(* The watcher thread.                                                     *)

\* pollOnce() up to the reload: a changed mtime is remembered before reload()
\* reads the file, so a write in between is seen by the next poll.
pollOnce ==
    /\ readMtime # lastSeenMtime
    /\ watcher' = [at |-> "reload"] /\ lastSeenMtime' = readMtime

Poll ==
    /\ watcher = Asleep /\ pollOnce
    /\ UNCHANGED <<file, clock, process, config, locale, save, rebuild, drift, edits, saves,
                   saveFaults, boots>>

\* reloadLocked(): the file must open, parse and validate.
reloadAccepts(doc) == validate(doc)

\* reload(): the swap under the lock; after it the listeners are called.
reload ==
    /\ watcher.at = "reload"
    /\ IF reloadAccepts(file.body)
       THEN config' = file.body /\ drift' = FALSE /\ watcher' = [at |-> "notify"]
       ELSE UNCHANGED <<config, drift>> /\ watcher' = Asleep
    /\ UNCHANGED <<file, clock, process, locale, save, rebuild, lastSeenMtime, edits, saves,
                   saveFaults, boots>>

\* The listener Bootstrap registered reads the language under the lock ...
ListenerReads ==
    /\ watcher.at = "notify" /\ watcher' = [at |-> "apply", language |-> config.language]
    /\ UNCHANGED <<file, clock, process, config, locale, save, rebuild, lastSeenMtime, drift, edits,
                   saves, saveFaults, boots>>

\* The mtime is remembered when the reload is over.
ListenerAppliesThenRemember ==
    /\ watcher.at = "apply" /\ locale' = initI18n(watcher.language) /\ watcher' = Asleep
    /\ lastSeenMtime' = readMtime
    /\ UNCHANGED <<file, clock, process, config, save, rebuild, drift, edits, saves, saveFaults, boots>>

\* ... and applies it after the unlock.
ListenerApplies ==
    /\ watcher.at = "apply" /\ locale' = initI18n(watcher.language) /\ watcher' = Asleep
    /\ UNCHANGED <<file, clock, process, config, save, rebuild, lastSeenMtime, drift, edits, saves,
                   saveFaults, boots>>

ConfigurationNext ==
    \/ BootstrapRun \/ WatcherStart \/ WatcherStop \/ ProcessDies \/ EditFile
    \/ SetField \/ SaveRead \/ SaveWrite \/ SaveRemove \/ SaveRename \/ RebuildInLanguage
    \/ Poll \/ reload \/ ListenerReads \/ ListenerApplies

-----------------------------------------------------------------------------
(* Properties.                                                             *)

\* When the watcher sleeps with nothing left to notice, no save is under way and
\* the file is one the validator accepts, memory holds what the file holds -
\* whatever writes, torn files, removals and saves the polls fell between -
\* unless a save failed or the file changed before the watcher was there.
\* ConfigFileWatcher::pollOnce, ConfigManager::reload, persistStringField.
ConfigFollowsFile ==
    (/\ process = "up" /\ watcher = Asleep /\ lastSeenMtime = readMtime
     /\ save = NoSave /\ validate(file.body) /\ ~drift)
        => config = file.body

\* A running process never works with settings the validator rejects, whatever
\* is in the file.  ConfigManager::reloadLocked, Bootstrap::run.
ConfigAlwaysValid == process = "up" => validate(config)

\* An edit of the language takes effect: with everything quiet gettext uses the
\* language of the map.  ConfigManager.h says so of the reload listener; a
\* rebuild queued before the edit overrules it.
LocaleFollowsConfig ==
    (/\ process = "up" /\ watcher = Asleep /\ lastSeenMtime = readMtime
     /\ save = NoSave /\ rebuild = {} /\ ~drift)
        => locale = initI18n(config.language)
=============================================================================
