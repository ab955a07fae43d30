-------------------------- MODULE WorkbenchProofs --------------------------
(***************************************************************************)
(* Proofs about the parts of Workbench, for every bound on what happens to *)
(* them: each has an inductive invariant of its own, and a step of the     *)
(* workbench is a step of one part.                                        *)
(***************************************************************************)
EXTENDS Workbench, SequenceTheorems, FiniteSetTheorems, TLAPS

\* Each part moves by its own actions, or rests.
LEMMA PartSteps ==
  ASSUME [Next]_workbenchVars
  PROVE  /\ HistorianNext \/ UNCHANGED historyVars
         /\ StationsNext \/ UNCHANGED stationVars
         /\ ProductsNext \/ UNCHANGED productVars
         /\ ConfigurationNext \/ UNCHANGED configVars
         /\ DashboardNext \/ UNCHANGED dashVars
         /\ ShellNext \/ UNCHANGED shellVars
  BY DEF Next, workbenchVars

-----------------------------------------------------------------------------
(* Configuration.                                                          *)

Values    == Languages \cup Palettes
JsonTexts == [is : {"json"}, language : Values, palette : Values, inRange : BOOLEAN]
Saves ==
  {NoSave}
    \cup [at : {"read"}, field : {"language", "palette"}, value : Values]
    \cup [at : {"write", "remove", "rename"}, field : {"language", "palette"}, value : Values,
          text : JsonTexts \cup {Torn}]
Files == [body : JsonTexts \cup {Torn, Absent}, mtime : 0 .. clock]

\* Types of the file and of a save; mtimes are given out in order.
MtimesInv ==
  /\ clock \in Nat /\ lastSeenMtime \in 0 .. clock
  /\ file \in Files /\ save \in Saves

\* Only a running process has a watcher or a save.
RunningInv == process # "up" => watcher = Off /\ save = NoSave

\* Once the watcher has reloaded the file it last looked at, memory is the file
\* until one of the two changes.
FollowInv ==
  (/\ watcher.at \in {"asleep", "notify", "apply"} /\ lastSeenMtime = readMtime
   /\ save = NoSave /\ validate(file.body) /\ ~drift)
     => config = file.body

ConfigInv == MtimesInv /\ RunningInv /\ FollowInv

LEMMA Bodies ==
  /\ Documents \subseteq JsonTexts
  /\ \A body \in JsonTexts \cup {Torn} : body # Absent
  /\ \A body \in JsonTexts \cup {Torn, Absent} : body.is = "json" => body \in JsonTexts
  /\ NoSave.at = "none" /\ Off.at = "off" /\ Asleep.at = "asleep"
  <1>1. Documents \subseteq JsonTexts
    BY DEF Documents, Document, JsonTexts, Values
  <1>2. Torn.is = "torn" /\ Absent.is = "absent" /\ \A body \in JsonTexts : body.is = "json"
    BY DEF Torn, Absent, JsonTexts
  <1>3. QED
    BY <1>1, <1>2 DEF NoSave, Off, Asleep

LEMMA SaveParts ==
  ASSUME NEW s \in Saves
  PROVE  /\ s.at \in {"none", "read", "write", "remove", "rename"}
         /\ s.at # "none" => s.field \in {"language", "palette"} /\ s.value \in Values /\ s # NoSave
         /\ s.at \in {"write", "remove", "rename"} =>
              /\ s \in [at : {"write", "remove", "rename"}, field : {"language", "palette"},
                        value : Values, text : JsonTexts \cup {Torn}]
              /\ s.text \in JsonTexts \cup {Torn}
  BY DEF Saves, NoSave

LEMMA ConfigInit == ConfigurationInit => ConfigInv
  <1> SUFFICES ASSUME ConfigurationInit PROVE ConfigInv
    OBVIOUS
  <1>1. PICK doc \in Documents : file = [body |-> doc, mtime |-> 1]
    BY DEF ConfigurationInit
  <1>2. clock = 1 /\ lastSeenMtime = 0 /\ save = NoSave /\ watcher = Off
    BY DEF ConfigurationInit
  <1>3. file \in Files
    BY <1>1, <1>2, Bodies DEF Files
  <1>4. QED
    BY <1>2, <1>3, Bodies DEF ConfigInv, MtimesInv, RunningInv, FollowInv, Saves

LEMMA FilesGrow ==
  ASSUME clock \in Nat, file \in Files
  PROVE  /\ clock' = clock /\ file' = file => file' \in Files'
         /\ clock' = clock + 1 /\ lastSeenMtime \in 0 .. clock => lastSeenMtime \in 0 .. clock'
         /\ \A body \in JsonTexts \cup {Torn} : Put(body) => file' \in Files' /\ clock' = clock + 1
         /\ file.mtime \in 0 .. clock /\ file.body \in JsonTexts \cup {Torn, Absent}
  BY DEF Files, Put

LEMMA MtimesStep ==
  ASSUME ConfigInv, ConfigurationNext
  PROVE  MtimesInv'
  <1> USE DEF ConfigInv, MtimesInv
  <1>1. CASE BootstrapRun \/ WatcherStop \/ RebuildInLanguage \/ reload \/ ListenerReads
             \/ ListenerApplies \/ ProcessDies
    BY <1>1, FilesGrow DEF BootstrapRun, WatcherStop, RebuildInLanguage, reload, ListenerReads,
                           ListenerApplies, ProcessDies, Saves
  <1>2. CASE WatcherStart \/ Poll
    BY <1>2, FilesGrow DEF WatcherStart, Poll, pollOnce, readMtime
  <1>3. CASE EditFile
    BY <1>3, FilesGrow, Bodies DEF EditFile
  <1>4. CASE SetField
    <2>1. /\ UNCHANGED <<file, clock, lastSeenMtime>>
          /\ \E v \in Values, f \in {"language", "palette"} :
               save' = [at |-> "read", field |-> f, value |-> v]
      BY <1>4 DEF SetField, Values
    <2>2. QED
      BY <2>1, FilesGrow DEF Saves
  <1>5. CASE SaveRead
    <2>1. UNCHANGED <<file, clock, lastSeenMtime>> /\ file' \in Files'
      BY <1>5, FilesGrow DEF SaveRead
    <2>2. save.field \in {"language", "palette"} /\ save.value \in Values
      BY <1>5, SaveParts DEF SaveRead
    <2>3. CASE save' = NoSave
      BY <2>1, <2>3 DEF Saves
    <2>4. CASE \E text \in JsonTexts \cup {Torn} :
                 save' = [at |-> "write", field |-> save.field, value |-> save.value, text |-> text]
      BY <2>1, <2>2, <2>4 DEF Saves
    <2>5. file.body.is = "json" => [file.body EXCEPT ![save.field] = save.value] \in JsonTexts
      <3>1. ASSUME NEW body \in JsonTexts, NEW v \in Values
            PROVE  /\ [body EXCEPT !["language"] = v] \in JsonTexts
                   /\ [body EXCEPT !["palette"] = v] \in JsonTexts
        BY DEF JsonTexts
      <3>2. QED
        BY <2>2, <3>1, FilesGrow, Bodies
    <2>6. QED
      BY <1>5, <2>3, <2>4, <2>5 DEF SaveRead, SaveFails
  <1>6. CASE SaveWrite \/ SaveRemove
    <2>1. UNCHANGED <<clock, lastSeenMtime>> /\ save.at \in {"write", "remove"}
      BY <1>6 DEF SaveWrite, SaveRemove
    <2>2. file' \in Files'
      <3>1. CASE SaveWrite
        BY <3>1, FilesGrow DEF SaveWrite
      <3>2. CASE SaveRemove
        BY <2>1, <3>2 DEF SaveRemove, Files
      <3>3. QED
        BY <1>6, <3>1, <3>2
    <2>3. \/ save' = NoSave
          \/ \E at \in {"remove", "rename"} : save' = [save EXCEPT !.at = at]
      BY <1>6 DEF SaveWrite, SaveRemove, SaveFails
    <2>4. \A at \in {"remove", "rename"} : [save EXCEPT !.at = at] \in Saves
      <3>1. save \in [at : {"write", "remove", "rename"}, field : {"language", "palette"},
                      value : Values, text : JsonTexts \cup {Torn}]
        BY <2>1, SaveParts
      <3>2. QED
        BY <3>1 DEF Saves
    <2>5. NoSave \in Saves
      BY DEF Saves
    <2>6. QED
      BY <2>1, <2>2, <2>3, <2>4, <2>5
  <1>7. CASE SaveRename
    <2>1. save' = NoSave /\ lastSeenMtime' = lastSeenMtime /\ save' \in Saves
      BY <1>7 DEF SaveRename, SaveFails, Saves
    <2>2. Put(save.text) \/ UNCHANGED <<file, clock>>
      BY <1>7 DEF SaveRename
    <2>3. save.text \in JsonTexts \cup {Torn}
      BY <1>7, SaveParts DEF SaveRename
    <2>4. QED
      BY <2>1, <2>2, <2>3, FilesGrow
  <1>8. QED
    BY <1>1, <1>2, <1>3, <1>4, <1>5, <1>6, <1>7 DEF ConfigurationNext

LEMMA RunningStep ==
  ASSUME ConfigInv, ConfigurationNext
  PROVE  RunningInv'
  BY SaveParts, Bodies
  DEF ConfigInv, MtimesInv, RunningInv, ConfigurationNext, BootstrapRun, WatcherStart, WatcherStop,
      ProcessDies, EditFile, SetField, SaveRead, SaveWrite, SaveRemove, SaveRename, SaveFails,
      RebuildInLanguage, Poll, pollOnce, reload, ListenerReads, ListenerApplies

\* A new mtime is one the watcher has not seen.
LEMMA PutUnseen ==
  ASSUME MtimesInv, NEW body \in JsonTexts \cup {Torn}, Put(body)
  PROVE  readMtime' = clock + 1 /\ lastSeenMtime # readMtime'
  BY Bodies DEF MtimesInv, Put, readMtime

LEMMA FollowStep ==
  ASSUME ConfigInv, ConfigurationNext
  PROVE  FollowInv'
  <1> USE DEF ConfigInv, FollowInv
  <1>1. CASE BootstrapRun
    BY <1>1, Bodies DEF BootstrapRun, RunningInv
  <1>2. CASE WatcherStart
    BY <1>2 DEF WatcherStart
  <1>3. CASE WatcherStop \/ ProcessDies
    BY <1>3, Bodies DEF WatcherStop, ProcessDies
  <1>4. CASE EditFile
    BY <1>4, PutUnseen, Bodies DEF EditFile
  <1>5. CASE SetField
    BY <1>5, Bodies DEF SetField
  <1>6. CASE SaveRead \/ SaveWrite \/ SaveRemove
    <2>1. save' # NoSave \/ drift' = TRUE
      BY <1>6, Bodies, SaveParts DEF SaveRead, SaveWrite, SaveRemove, SaveFails, MtimesInv
    <2>2. QED
      BY <2>1
  <1>7. CASE SaveRename
    <2>1. CASE Put(save.text) /\ lastSeenMtime' = lastSeenMtime
      BY <1>7, <2>1, PutUnseen, SaveParts DEF SaveRename, MtimesInv
    <2>2. CASE SaveFails
      BY <2>2 DEF SaveFails
    <2>3. QED
      BY <1>7, <2>1, <2>2 DEF SaveRename
  <1>8. CASE RebuildInLanguage
    BY <1>8 DEF RebuildInLanguage, readMtime
  <1>9. CASE Poll
    BY <1>9 DEF Poll, pollOnce
  <1>10. CASE reload
    BY <1>10 DEF reload, reloadAccepts, readMtime
  <1>11. CASE ListenerReads
    BY <1>11 DEF ListenerReads, readMtime
  <1>12. CASE ListenerApplies
    BY <1>12 DEF ListenerApplies, readMtime
  <1>13. QED
    BY <1>1, <1>2, <1>3, <1>4, <1>5, <1>6, <1>7, <1>8, <1>9, <1>10, <1>11, <1>12
    DEF ConfigurationNext

LEMMA ConfigStep ==
  ASSUME ConfigInv, ConfigurationNext \/ UNCHANGED configVars
  PROVE  ConfigInv'
  <1>1. CASE UNCHANGED configVars
    BY <1>1 DEF configVars, watcherVars, ConfigInv, MtimesInv, Files, RunningInv, FollowInv, readMtime
  <1>2. QED
    BY <1>1, MtimesStep, RunningStep, FollowStep DEF ConfigInv

\* Memory follows the file: whatever writes, torn texts, removals and saves the
\* watcher's polls fell between, the map is the accepted file when the watcher
\* has nothing left to notice (ConfigFileWatcher::pollOnce, ConfigManager::reload).
THEOREM ConfigFollows == Spec => []ConfigFollowsFile
  <1>1. Init => ConfigInv
    BY ConfigInit DEF Init
  <1>2. ConfigInv /\ [Next]_workbenchVars => ConfigInv'
    BY ConfigStep, PartSteps
  <1>3. ConfigInv => ConfigFollowsFile
    BY Bodies DEF ConfigInv, FollowInv, ConfigFollowsFile
  <1>4. QED
    BY <1>1, <1>2, <1>3, PTL DEF Spec

ValidInv == process = "up" => config \in JsonTexts /\ config.inRange

LEMMA ValidStep ==
  ASSUME ConfigInv, ValidInv, ConfigurationNext \/ UNCHANGED configVars
  PROVE  ValidInv'
  <1>1. validate(file.body) => file.body \in JsonTexts /\ file.body.inRange
    BY FilesGrow, Bodies DEF ConfigInv, MtimesInv, validate
  <1>2. CASE BootstrapRun
    BY <1>1, <1>2 DEF BootstrapRun, loadConfig, ValidInv
  <1>3. CASE SetField
    <2>1. config \in JsonTexts /\ config.inRange
      BY <1>3 DEF SetField, ValidInv
    <2>2. \E v \in Values :
            config' = [config EXCEPT !.language = v] \/ config' = [config EXCEPT !.palette = v]
      BY <1>3 DEF SetField, Values
    <2>3. QED
      BY <2>1, <2>2 DEF JsonTexts, ValidInv
  <1>4. CASE reload
    BY <1>1, <1>4 DEF reload, reloadAccepts, ValidInv
  <1>5. CASE process' = "up" => UNCHANGED <<process, config>>
    BY <1>5 DEF ValidInv
  <1>6. QED
    BY <1>2, <1>3, <1>4, <1>5
    DEF ConfigurationNext, WatcherStart, WatcherStop, ProcessDies, EditFile, SaveRead, SaveWrite,
        SaveRemove, SaveRename, RebuildInLanguage, Poll, ListenerReads, ListenerApplies, configVars

\* A running process works with settings the validator accepted, whatever is in
\* the file (ConfigManager::reloadLocked, Bootstrap::run).
THEOREM ConfigStaysValid == Spec => []ConfigAlwaysValid
  <1>1. Init => ConfigInv /\ ValidInv
    BY ConfigInit DEF Init, ConfigurationInit, ValidInv
  <1>2. ConfigInv /\ ValidInv /\ [Next]_workbenchVars => ConfigInv' /\ ValidInv'
    BY ConfigStep, ValidStep, PartSteps
  <1>3. ValidInv => ConfigAlwaysValid
    BY DEF ValidInv, ConfigAlwaysValid, validate, JsonTexts
  <1>4. QED
    BY <1>1, <1>2, <1>3, PTL DEF Spec

-----------------------------------------------------------------------------
(* Dashboard.                                                              *)

Lit == line \notin {"Offline", "Error"}

\* A view model of the line as it is now, or the write it will be built after,
\* is on its way to the page.
LinePending ==
  \/ \E i \in 1 .. Len(dashIdles) : dashIdles[i].kind = "equipment" /\ dashIdles[i].enabled = Lit
  \/ \E b \in Backends :
       \/ backend[b].at = "line"
       \/ backend[b].at = "post" /\ backend[b].vm.kind = "equipment" /\ backend[b].vm.enabled = Lit

ViewModels == [kind : {"equipment"}, enabled : BOOLEAN] \cup [kind : {"panel"}, on : SUBSET Buttons]
Rests      == {NoThread, Cycle}
Threads    == Rests \cup [at : {"line"}] \cup [at : {"state"}, after : {"start", "stop"}]
                \cup [at : {"post"}, vm : ViewModels, next : Rests]

MachineStates == {"IDLE", "RUNNING", "ERROR", "CALIBRATION"}

\* A switch that does not show the line will be told.
DashInv ==
  /\ machine \in MachineStates /\ question \in Buttons \cup {"none"} /\ lit \subseteq Buttons
  /\ dashIdles \in Seq(ViewModels) /\ backend \in [Backends -> Threads]
  /\ switch = Lit \/ LinePending

ButtonsInv == lit \subseteq Allowed(role) /\ (question \in Buttons => question \in Allowed(role))

LEMMA ModelsTyped ==
  /\ \A status : EquipmentVM(status) \in ViewModels /\ EquipmentVM(status).kind = "equipment"
                 /\ EquipmentVM(status).enabled = (status \notin {"Offline", "Error"})
  /\ \A s \in MachineStates : PanelVM(s) \in ViewModels /\ PanelVM(s).kind = "panel"
  <1>1. \A status : EquipmentVM(status) \in ViewModels /\ EquipmentVM(status).kind = "equipment"
                    /\ EquipmentVM(status).enabled = (status \notin {"Offline", "Error"})
    BY DEF EquipmentVM, ViewModels
  <1>2. ASSUME NEW s \in MachineStates
        PROVE  PanelVM(s) \in ViewModels /\ PanelVM(s).kind = "panel"
    BY <1>2 DEF MachineStates, PanelVM, ViewModels, Buttons, Guarded
  <1>3. QED
    BY <1>1, <1>2

LEMMA AfterTyped ==
  ASSUME NEW s \in MachineStates, NEW c \in Buttons
  PROVE  After(s, c) \in MachineStates
  BY DEF After, MachineStates, Buttons, Guarded

LEMMA DashInitInv == DashboardInit => DashInv /\ ButtonsInv
  <1> SUFFICES ASSUME DashboardInit PROVE DashInv /\ ButtonsInv
    OBVIOUS
  <1>1. machine \in MachineStates /\ question = "none" /\ lit = Allowed(role) /\ lit \subseteq Buttons
    BY DEF DashboardInit, NewPageFor, Allowed, MachineStates, Buttons, Guarded
  <1>2. dashIdles \in Seq(ViewModels) /\ Len(dashIdles) = 2 /\ dashIdles[1] = EquipmentVM(line)
    <2>1. EquipmentVM(line) \in ViewModels /\ PanelVM(machine) \in ViewModels
      BY <1>1, ModelsTyped
    <2>2. dashIdles = <<EquipmentVM(line), PanelVM(machine)>>
      BY DEF DashboardInit
    <2>3. QED
      BY <2>1, <2>2
  <1>3. LinePending
    BY <1>2, ModelsTyped DEF LinePending, Lit
  <1>4. backend \in [Backends -> Threads]
    BY DEF DashboardInit, Threads, Rests
  <1>5. ButtonsInv
    BY <1>1 DEF ButtonsInv, Buttons, Guarded
  <1>6. QED
    BY <1>1, <1>2, <1>3, <1>4, <1>5 DEF DashInv

\* Another view model behind what waits takes nothing away.
LEMMA AppendKeepsPending ==
  ASSUME dashIdles \in Seq(ViewModels), NEW vm \in ViewModels,
         dashIdles' = Append(dashIdles, vm) \/ dashIdles' = dashIdles, Lit' = Lit,
         UNCHANGED backend, LinePending
  PROVE  LinePending'
  <1>1. Len(dashIdles) \in Nat
    BY LenProperties
  <1>2. \A i \in 1 .. Len(dashIdles) : i \in 1 .. Len(dashIdles') /\ dashIdles'[i] = dashIdles[i]
    BY <1>1, AppendProperties
  <1>3. QED
    BY <1>2 DEF LinePending

LEMMA CommandKeeps ==
  ASSUME DashInv, NEW c \in Buttons, Command(c), UNCHANGED <<switch, backend>>
  PROVE  /\ machine' \in MachineStates /\ dashIdles' \in Seq(ViewModels)
         /\ (switch = Lit \/ LinePending)'
  <1>1. machine \in MachineStates /\ dashIdles \in Seq(ViewModels)
    BY DEF DashInv
  <1>2. CASE UNCHANGED <<line, machine, dashIdles>>
    BY <1>1, <1>2 DEF DashInv, LinePending, Lit
  <1>3. ASSUME NEW told, machine' = After(machine, c),
               told = dashIdles \/ told = Append(dashIdles, PanelVM(After(machine, c))),
               \/ UNCHANGED line /\ dashIdles' = told
               \/ line' = "Processing" /\ dashIdles' = Append(told, EquipmentVM("Processing"))
        PROVE  /\ machine' \in MachineStates /\ dashIdles' \in Seq(ViewModels)
               /\ (switch = Lit \/ LinePending)'
    <2>1. machine' \in MachineStates
      BY <1>1, <1>3, AfterTyped
    <2>2. PICK vm \in ViewModels : vm = PanelVM(machine')
      BY <2>1, ModelsTyped
    <2>3. told \in Seq(ViewModels)
      BY <1>1, <1>3, <2>2, AppendProperties
    <2>4. CASE UNCHANGED line /\ dashIdles' = told
      <3>1. Lit' = Lit
        BY <2>4 DEF Lit
      <3>2. LinePending => LinePending'
        BY <1>1, <1>3, <2>2, <2>4, <3>1, AppendKeepsPending
      <3>3. QED
        BY <2>1, <2>3, <2>4, <3>1, <3>2 DEF DashInv
    <2>5. CASE line' = "Processing" /\ dashIdles' = Append(told, EquipmentVM("Processing"))
      <3>a. "Processing" \notin {"Offline", "Error"}
        OBVIOUS
      <3>b. /\ EquipmentVM("Processing") \in ViewModels /\ EquipmentVM("Processing").kind = "equipment"
            /\ EquipmentVM("Processing").enabled = TRUE
        BY <3>a, ModelsTyped
      <3>1. PICK last \in ViewModels : /\ last = EquipmentVM("Processing") /\ last.kind = "equipment"
                                       /\ last.enabled = TRUE
        BY <3>b
      <3>2. /\ dashIdles' \in Seq(ViewModels) /\ Len(told) + 1 \in 1 .. Len(dashIdles')
            /\ dashIdles'[Len(told) + 1] = last
        BY <2>3, <2>5, <3>1, AppendProperties, LenProperties
      <3>3. Lit' = TRUE
        BY <2>5 DEF Lit
      <3>4. LinePending'
        BY <3>1, <3>2, <3>3 DEF LinePending
      <3>5. QED
        BY <2>1, <3>2, <3>4
    <2>6. QED
      BY <1>3, <2>4, <2>5
  <1>4. QED
    BY <1>2, <1>3 DEF Command

LEMMA ThreadParts ==
  ASSUME NEW t \in Threads
  PROVE  /\ t.at \in {"idle", "line", "state", "cycle", "post"}
         /\ t.at = "post" => t.vm \in ViewModels /\ t.next \in Rests
  BY DEF Threads, Rests, NoThread, Cycle

\* A thread that ends where no view model is on its way.
LEMMA RestsAt ==
  \A t \in Rests : t \in Threads /\ t.at \in {"idle", "cycle"}
  BY DEF Threads, Rests, NoThread, Cycle

LEMMA BackendsKeep ==
  ASSUME DashInv, NEW b \in Backends, BackendWrites(b) \/ BackendBuilds(b) \/ BackendPosts(b) \/ BackendCycles(b)
  PROVE  DashInv'
  <1>1. /\ machine \in MachineStates /\ dashIdles \in Seq(ViewModels) /\ backend \in [Backends -> Threads]
        /\ UNCHANGED <<switch, lit, question>> /\ backend[b] \in Threads
    BY DEF DashInv, BackendWrites, BackendBuilds, BackendPosts, BackendCycles
  <1>2. CASE BackendWrites(b)
    <2>1. UNCHANGED dashIdles
      BY <1>2 DEF BackendWrites
    <2>2. CASE machine' = machine /\ backend' = [backend EXCEPT ![b] = [at |-> "line"]]
      <3>1. backend' \in [Backends -> Threads] /\ backend'[b].at = "line"
        BY <1>1, <2>2 DEF Threads
      <3>2. LinePending'
        BY <3>1 DEF LinePending
      <3>3. QED
        BY <1>1, <2>1, <2>2, <3>1, <3>2 DEF DashInv
    <2>3. CASE \E c \in {"start", "stop"} :
                  /\ machine' = After(machine, c) /\ UNCHANGED line
                  /\ To(b, [at |-> "state", after |-> c]) \/ To(b, Cycle)
      <3>1. PICK t \in Threads : backend' = [backend EXCEPT ![b] = t]
        BY <2>3 DEF Threads, Rests, To
      <3>2. backend' \in [Backends -> Threads] /\ machine' \in MachineStates
        BY <1>1, <2>3, <3>1, AfterTyped DEF Buttons
      <3>3. backend[b].at = "idle" /\ Lit' = Lit
        BY <1>2, <2>3 DEF BackendWrites, NoThread, Lit
      <3>4. LinePending => LinePending'
        BY <1>1, <2>1, <3>1, <3>3 DEF LinePending
      <3>5. QED
        BY <1>1, <2>1, <3>2, <3>3, <3>4 DEF DashInv
    <2>4. QED
      BY <1>2, <2>2, <2>3 DEF BackendWrites, To
  <1>3. CASE BackendBuilds(b)
    <2> DEFINE vm == IF backend[b].at = "line" THEN EquipmentVM(line) ELSE PanelVM(machine)
    <2>1. /\ UNCHANGED <<dashIdles, line, machine>> /\ backend[b].at \in {"line", "state"}
          /\ \E r \in Rests : backend' = [backend EXCEPT ![b] = [at |-> "post", vm |-> vm, next |-> r]]
      BY <1>3 DEF BackendBuilds, Rests, To
    <2>2. vm \in ViewModels
      BY <1>1, ModelsTyped
    <2>3. backend[b].at = "line" => vm.kind = "equipment" /\ vm.enabled = Lit
      BY ModelsTyped DEF Lit
    <2> HIDE DEF vm
    <2>4. PICK t \in Threads : t.at = "post" /\ t.vm = vm /\ backend' = [backend EXCEPT ![b] = t]
      BY <2>1, <2>2 DEF Threads
    <2>5. /\ backend' \in [Backends -> Threads] /\ backend'[b].at = "post" /\ backend'[b].vm = vm
          /\ \A u \in Backends \ {b} : backend'[u] = backend[u]
      BY <1>1, <2>1, <2>4
    <2>6. Lit' = Lit
      BY <2>1 DEF Lit
    <2>7. LinePending => LinePending'
      BY <2>1, <2>3, <2>5, <2>6 DEF LinePending
    <2>8. QED
      BY <1>1, <2>1, <2>5, <2>6, <2>7 DEF DashInv
  <1>4. CASE BackendPosts(b)
    <2> DEFINE vm == backend[b].vm
    <2>1. /\ UNCHANGED <<line, machine>> /\ backend[b].at = "post"
          /\ backend' = [backend EXCEPT ![b] = backend[b].next] /\ dashIdles' = Append(dashIdles, vm)
      BY <1>4 DEF BackendPosts, To
    <2>2. vm \in ViewModels /\ backend[b].next \in Rests /\ Lit' = Lit
      BY <1>1, <2>1, ThreadParts DEF Lit
    <2>3. /\ backend' \in [Backends -> Threads]
          /\ \A u \in Backends \ {b} : backend'[u] = backend[u]
      BY <1>1, <2>1, <2>2, RestsAt
    <2>4. /\ dashIdles' \in Seq(ViewModels) /\ Len(dashIdles) \in Nat
          /\ Len(dashIdles) + 1 \in 1 .. Len(dashIdles') /\ dashIdles'[Len(dashIdles) + 1] = vm
          /\ \A i \in 1 .. Len(dashIdles) : i \in 1 .. Len(dashIdles') /\ dashIdles'[i] = dashIdles[i]
      BY <1>1, <2>1, <2>2, AppendProperties, LenProperties
    <2>5. LinePending => LinePending'
      BY <2>1, <2>2, <2>3, <2>4 DEF LinePending
    <2>6. QED
      BY <1>1, <2>1, <2>2, <2>3, <2>4, <2>5 DEF DashInv
  <1>5. CASE BackendCycles(b)
    <2>1. UNCHANGED <<dashIdles, machine>> /\ backend[b].at = "cycle"
      BY <1>5 DEF BackendCycles, Cycle
    <2>2. CASE backend' = [backend EXCEPT ![b] = [at |-> "line"]]
      <3>1. backend' \in [Backends -> Threads] /\ backend'[b].at = "line"
        BY <1>1, <2>2 DEF Threads
      <3>2. LinePending'
        BY <3>1 DEF LinePending
      <3>3. QED
        BY <1>1, <2>1, <3>1, <3>2 DEF DashInv
    <2>3. CASE UNCHANGED line /\ backend' = [backend EXCEPT ![b] = NoThread]
      <3>1. /\ backend' \in [Backends -> Threads]
            /\ \A u \in Backends \ {b} : backend'[u] = backend[u]
        BY <1>1, <2>3 DEF Threads, Rests
      <3>2. Lit' = Lit
        BY <2>3 DEF Lit
      <3>3. LinePending => LinePending'
        BY <2>1, <3>1, <3>2 DEF LinePending
      <3>4. QED
        BY <1>1, <2>1, <3>1, <3>2, <3>3 DEF DashInv
    <2>4. QED
      BY <1>5, <2>2, <2>3 DEF BackendCycles, To
  <1>6. QED
    BY <1>2, <1>3, <1>4, <1>5

LEMMA RenderKeeps ==
  ASSUME DashInv, Render
  PROVE  DashInv'
  <1> DEFINE vm == Head(dashIdles)
  <1>1. /\ machine \in MachineStates /\ dashIdles \in Seq(ViewModels) /\ backend \in [Backends -> Threads]
        /\ UNCHANGED <<machine, question, backend>> /\ dashIdles # <<>>
    BY DEF DashInv, Render
  <1>2. /\ vm = dashIdles[1] /\ vm \in ViewModels /\ Len(dashIdles) \in Nat
        /\ Tail(dashIdles) \in Seq(ViewModels) /\ Len(Tail(dashIdles)) = Len(dashIdles) - 1
        /\ \A i \in 1 .. Len(dashIdles) - 1 : Tail(dashIdles)[i] = dashIdles[i + 1]
    BY <1>1, HeadTailProperties, LenProperties
  <1>3. vm.kind = "equipment" => vm.enabled \in BOOLEAN
    BY <1>2 DEF ViewModels
  <1>4. lit' \subseteq Buttons
    BY DEF Render, updateControlPanel, Allowed, DashInv, Buttons
  \* What waits behind the head still waits.
  <1>5. ASSUME dashIdles' = Tail(dashIdles), UNCHANGED line, LinePending,
               vm.kind = "equipment" => vm.enabled # Lit
        PROVE  LinePending'
    <2>1. Lit' = Lit
      BY <1>5 DEF Lit
    <2>2. CASE \E i \in 1 .. Len(dashIdles) : dashIdles[i].kind = "equipment" /\ dashIdles[i].enabled = Lit
      <3>1. PICK i \in 1 .. Len(dashIdles) : dashIdles[i].kind = "equipment" /\ dashIdles[i].enabled = Lit
        BY <2>2
      <3>2. i # 1
        BY <1>2, <1>5, <3>1
      <3>3. i - 1 \in 1 .. Len(dashIdles') /\ dashIdles'[i - 1] = dashIdles[i]
        BY <1>2, <1>5, <3>2
      <3>4. QED
        BY <2>1, <3>1, <3>3 DEF LinePending
    <2>3. QED
      BY <1>1, <1>5, <2>1, <2>2 DEF LinePending
  <1>6. CASE /\ vm.kind = "equipment" /\ vm.enabled # switch
             /\ switch' = vm.enabled /\ line' = (IF vm.enabled THEN "Online" ELSE "Offline")
             /\ dashIdles' = Append(Tail(dashIdles), EquipmentVM(line'))
    <2>1. Lit' = vm.enabled
      BY <1>3, <1>6 DEF Lit
    <2>2. dashIdles' \in Seq(ViewModels)
      BY <1>2, <1>6, ModelsTyped, AppendProperties
    <2>3. QED
      BY <1>1, <1>4, <1>6, <2>1, <2>2 DEF DashInv
  <1>7. CASE /\ vm.kind = "panel" \/ vm.enabled = switch
             /\ dashIdles' = Tail(dashIdles) /\ UNCHANGED <<line, switch>>
    <2>1. CASE switch = Lit
      BY <1>1, <1>2, <1>4, <1>7, <2>1 DEF DashInv, Lit
    <2>2. CASE switch # Lit
      <3>1. LinePending'
        BY <1>5, <1>7, <2>2 DEF DashInv
      <3>2. QED
        BY <1>1, <1>2, <1>4, <1>7, <3>1 DEF DashInv
    <2>3. QED
      BY <2>1, <2>2
  <1>8. QED
    BY <1>6, <1>7 DEF Render, updateEquipmentCard, Toggled

LEMMA DashStep ==
  ASSUME DashInv, DashboardNext \/ UNCHANGED dashVars
  PROVE  DashInv'
  <1>1. CASE UNCHANGED dashVars
    BY <1>1 DEF dashVars, DashInv, LinePending, Lit
  <1>2. CASE ClickButton
    <2>1. UNCHANGED <<switch, backend, lit>>
      BY <1>2 DEF ClickButton
    <2>2. PICK c \in lit :
            IF c \in Guarded THEN question' = c /\ UNCHANGED <<line, machine, dashIdles>>
            ELSE Command(c) /\ UNCHANGED question
      BY <1>2 DEF ClickButton
    <2>3. c \in Buttons
      BY DEF DashInv
    <2>4. CASE c \in Guarded
      BY <2>1, <2>2, <2>3, <2>4 DEF DashInv, LinePending, Lit
    <2>5. CASE c \notin Guarded
      BY <2>1, <2>2, <2>3, <2>5, CommandKeeps DEF DashInv
    <2>6. QED
      BY <2>4, <2>5
  <1>3. CASE AnswerQuestion
    <2>1. UNCHANGED <<switch, backend, lit>> /\ question \in Buttons /\ question' = "none"
      BY <1>3 DEF AnswerQuestion, DashInv
    <2>2. CASE Command(question)
      BY <2>1, <2>2, CommandKeeps DEF DashInv
    <2>3. CASE UNCHANGED <<line, machine, dashIdles>>
      BY <2>1, <2>3 DEF DashInv, LinePending, Lit
    <2>4. QED
      BY <1>3, <2>2, <2>3 DEF AnswerQuestion
  <1>4. CASE ClickSwitch
    <2>1. /\ UNCHANGED <<machine, backend, lit, question>> /\ switch' = ~switch
          /\ line' = (IF ~switch THEN "Online" ELSE "Offline")
          /\ dashIdles' = Append(dashIdles, EquipmentVM(line'))
      BY <1>4 DEF ClickSwitch, Toggled
    <2>2. switch' = Lit'
      BY <2>1 DEF Lit
    <2>3. dashIdles' \in Seq(ViewModels)
      BY <2>1, ModelsTyped, AppendProperties DEF DashInv
    <2>4. QED
      BY <2>1, <2>2, <2>3 DEF DashInv
  <1>5. QED
    BY <1>1, <1>2, <1>3, <1>4, RenderKeeps, BackendsKeep DEF DashboardNext

LEMMA ButtonsStep ==
  ASSUME ButtonsInv, DashboardNext \/ UNCHANGED dashVars
  PROVE  ButtonsInv'
  <1>1. role' = role
    BY DEF DashboardNext, ClickButton, AnswerQuestion, ClickSwitch, Render, BackendWrites,
           BackendBuilds, BackendPosts, BackendCycles, dashVars
  <1>2. CASE ClickButton
    BY <1>1, <1>2 DEF ClickButton, ButtonsInv
  <1>3. CASE AnswerQuestion
    BY <1>1, <1>3 DEF AnswerQuestion, ButtonsInv, Buttons, Guarded
  <1>4. CASE Render
    BY <1>1, <1>4 DEF Render, updateControlPanel, ButtonsInv
  <1>5. QED
    BY <1>1, <1>2, <1>3, <1>4
    DEF DashboardNext, ClickSwitch, BackendWrites, BackendBuilds, BackendPosts, BackendCycles, dashVars,
        ButtonsInv

\* The quiet page shows whether the line is on, in whatever order the view models
\* of several threads arrived, and offers a role nothing it may not do.
THEOREM DashboardTells == Spec => []DashboardTellsLine
  <1>1. Init => DashInv /\ ButtonsInv
    BY DashInitInv DEF Init
  <1>2. DashInv /\ ButtonsInv /\ [Next]_workbenchVars => DashInv' /\ ButtonsInv'
    BY DashStep, ButtonsStep, PartSteps
  <1>3. DashInv => SwitchTellsLine
    BY DEF DashInv, LinePending, Lit, SwitchTellsLine, DashboardQuiet, NoThread
  <1>4. ButtonsInv => RoleHoldsButtons
    BY DEF ButtonsInv, RoleHoldsButtons
  <1>5. QED
    BY <1>1, <1>2, <1>3, <1>4, PTL DEF Spec, DashboardTellsLine

-----------------------------------------------------------------------------
(* Shell: the settings page and the timers.                                *)

Windows == [full : BOOLEAN, auto : BOOLEAN, verbose : BOOLEAN, ms : Nat]
Themes  == [dark : BOOLEAN, palette : UiPalettes]
Pages   == [full : BOOLEAN, dark : BOOLEAN, auto : BOOLEAN, logs : BOOLEAN, ms : Nat,
            card : UiPalettes, lock : {"light", "dark", "none"}, logsVisible : BOOLEAN]
UiIdles == [kind : {"rebuild"}]
             \cup [kind : {"palette"}, id : UiPalettes, needsRelayout : BOOLEAN]

ShellTypes ==
  /\ uiPalette \in UiPalettes /\ window \in Windows /\ theme \in Themes /\ settings \in Pages
  /\ uiIdles \in Seq(UiIdles)

\* The log switch is there only where the tail runs for the user alone.
TailsInv ==
  /\ tails \in {0, 1}
  /\ window.verbose => tails = 1
  /\ ~window.verbose /\ ~LogButton(layout) => tails = 0
  /\ ~window.verbose /\ settings.logsVisible => tails = 0

\* Before the start delay is over the timer may run already, never twice.
TicksInv ==
  /\ ticks \in {<<>>, <<window.ms>>}
  /\ ~window.auto => ticks = <<>>
  /\ startPending \/ (window.auto => ticks = <<window.ms>>)

ForceInv == ShellTypes /\ SettingsMatchRuntime /\ TailsInv /\ TicksInv

LEMMA OneTimer ==
  ASSUME NEW m, NEW timers \in {<<>>, <<m>>}, NEW w
  PROVE  /\ Disconnected(timers) = <<>> /\ Disconnected(Disconnected(timers)) = <<>>
         /\ applyAutoRefresh(timers, w) = (IF w.auto THEN <<w.ms>> ELSE <<>>)
         /\ applyAutoRefresh(Disconnected(timers), w) = (IF w.auto THEN <<w.ms>> ELSE <<>>)
  <1>1. Front(<<m>>) = <<>>
    BY DEF Front
  <1>2. <<m>> # <<>>
    OBVIOUS
  <1>3. Disconnected(timers) = <<>> /\ Disconnected(<<>>) = <<>>
    BY <1>1, <1>2 DEF Disconnected
  <1>4. Append(<<>>, w.ms) = <<w.ms>>
    OBVIOUS
  <1>5. QED
    BY <1>3, <1>4 DEF applyAutoRefresh

\* The settings page as it is built, and as it is brought up to date.
LEMMA NewPageParts ==
  ASSUME NEW p \in UiPalettes, NEW w \in Windows, NEW t \in Themes
  PROVE  /\ NewPage(p, w, t) \in Pages
         /\ NewPage(p, w, t).full = w.full /\ NewPage(p, w, t).dark = t.dark
         /\ NewPage(p, w, t).auto = w.auto /\ NewPage(p, w, t).logs = w.verbose
         /\ NewPage(p, w, t).logsVisible = (p # "blueprint")
         /\ NewPage(p, w, t).lock = (IF LightOnly(p) THEN "light" ELSE IF DarkOnly(p) THEN "dark" ELSE "none")
  BY DEF NewPage, Pages, Windows, Themes, kAutoRefreshIntervalMs

LEMMA SyncedParts ==
  ASSUME NEW page \in Pages, NEW w \in Windows, NEW t \in Themes
  PROVE  /\ Synced(page, w, t) \in Pages
         /\ Synced(page, w, t).full = w.full /\ Synced(page, w, t).dark = t.dark
         /\ Synced(page, w, t).auto = w.auto /\ Synced(page, w, t).logs = w.verbose
         /\ Synced(page, w, t).logsVisible = page.logsVisible /\ Synced(page, w, t).lock = page.lock
  BY DEF Synced, Pages, Windows, Themes

LEMMA WindowParts ==
  ASSUME NEW p \in UiPalettes, NEW t \in Themes
  PROVE  LET new == NewWindow(p, t) IN
         /\ new.layout = chooseMainWindowUI(p) /\ new.window \in Windows /\ new.settings \in Pages
         /\ new.window.full = new.settings.full /\ new.window.auto = new.settings.auto
         /\ new.window.verbose = new.settings.logs /\ new.settings.dark = t.dark
         /\ new.window.verbose = LogButton(new.layout)
         /\ new.tails = (IF LogButton(new.layout) THEN 1 ELSE 0)
         /\ new.settings.logsVisible = (p # "blueprint")
         /\ new.settings.lock = (IF LightOnly(p) THEN "light" ELSE IF DarkOnly(p) THEN "dark" ELSE "none")
  <1> DEFINE ui == chooseMainWindowUI(p)
  <1> DEFINE w == [full |-> TRUE, auto |-> TRUE, verbose |-> LogButton(ui), ms |-> kAutoRefreshIntervalMs]
  <1>1. w \in Windows /\ w.full = TRUE /\ w.auto = TRUE /\ w.verbose = LogButton(ui)
    BY DEF Windows, LogButton, kAutoRefreshIntervalMs
  <1> DEFINE page == NewPage(p, w, t)
  <1>2. NewWindow(p, t) = [layout |-> ui, window |-> w, settings |-> page,
                           tails |-> IF LogButton(ui) THEN 1 ELSE 0]
    BY DEF NewWindow
  <1> HIDE DEF ui, w
  <1>3. /\ page \in Pages /\ page.full = w.full /\ page.dark = t.dark /\ page.auto = w.auto
        /\ page.logs = w.verbose /\ page.logsVisible = (p # "blueprint")
        /\ page.lock = (IF LightOnly(p) THEN "light" ELSE IF DarkOnly(p) THEN "dark" ELSE "none")
    BY <1>1, NewPageParts
  <1> HIDE DEF page
  <1>4. QED
    BY <1>1, <1>2, <1>3 DEF ui

LEMMA ForceInit == ShellInit => ForceInv
  <1> SUFFICES ASSUME ShellInit PROVE ForceInv
    OBVIOUS
  <1> DEFINE new == NewWindow(uiPalette, theme)
  <1>1. /\ uiPalette \in UiPalettes /\ theme \in Themes
        /\ layout = new.layout /\ window = new.window /\ settings = new.settings /\ tails = new.tails
        /\ ticks = <<>> /\ startPending = TRUE /\ uiIdles = <<>>
    BY DEF ShellInit, Themes
  <1>2. /\ new.layout = chooseMainWindowUI(uiPalette) /\ new.window \in Windows /\ new.settings \in Pages
        /\ new.window.full = new.settings.full /\ new.window.auto = new.settings.auto
        /\ new.window.verbose = new.settings.logs /\ new.settings.dark = theme.dark
        /\ new.window.verbose = LogButton(new.layout)
        /\ new.tails = (IF LogButton(new.layout) THEN 1 ELSE 0)
    BY <1>1, WindowParts
  <1> HIDE DEF new
  <1>3. ShellTypes
    BY <1>1, <1>2 DEF ShellTypes
  <1>4. SettingsMatchRuntime
    BY <1>1, <1>2 DEF SettingsMatchRuntime
  <1>5. TailsInv
    <2>1. window.verbose => tails = 1
      BY <1>1, <1>2
    <2>2. ~window.verbose => tails = 0
      BY <1>1, <1>2
    <2>3. tails \in {0, 1}
      BY <1>1, <1>2
    <2>4. QED
      BY <2>1, <2>2, <2>3 DEF TailsInv
  <1>6. TicksInv
    BY <1>1, Zenon DEF TicksInv
  <1>7. QED
    BY <1>3, <1>4, <1>5, <1>6 DEF ForceInv

\* What a mode or a palette does to the theme.
LEMMA ThemeUpdates ==
  ASSUME NEW t \in Themes
  PROVE  /\ \A b \in BOOLEAN : /\ setTheme(t, b) \in Themes /\ setTheme(t, b).dark = b
                               /\ setTheme(t, b).palette = t.palette
         /\ \A p \in UiPalettes : /\ setPalette(t, p) \in Themes /\ setPalette(t, p).dark = t.dark
                                  /\ setPalette(t, p).palette = p
         /\ t.dark \in BOOLEAN
  BY DEF Themes, setTheme, setPalette

\* When the tail and the timers stay as they are, and when the timers are set.
LEMMA TailsKept ==
  ASSUME TailsInv, tails' = tails, layout' = layout, window'.verbose = window.verbose,
         settings'.logsVisible = settings.logsVisible
  PROVE  TailsInv'
  BY DEF TailsInv

LEMMA TicksKept ==
  ASSUME TicksInv, ticks' = ticks, startPending' = startPending, window'.ms = window.ms,
         window'.auto = window.auto
  PROVE  TicksInv'
  BY Zenon DEF TicksInv

LEMMA TicksSet ==
  ASSUME window'.auto \in BOOLEAN, ticks' = (IF window'.auto THEN <<window'.ms>> ELSE <<>>)
  PROVE  TicksInv'
  <1>1. CASE window'.auto
    BY <1>1, Zenon DEF TicksInv
  <1>2. CASE ~window'.auto
    BY <1>2, Zenon DEF TicksInv
  <1>3. QED
    BY <1>1, <1>2

\* The handlers that change a flag and neither a timer nor a page.
LEMMA FlagSteps ==
  ASSUME ForceInv, onDisplayModeSelected \/ onKeyPressed \/ onThemeSelected
  PROVE  ForceInv'
  <1>1. /\ uiPalette \in UiPalettes /\ window \in Windows /\ theme \in Themes /\ settings \in Pages
        /\ uiIdles \in Seq(UiIdles) /\ SettingsMatchRuntime /\ TailsInv /\ TicksInv
    BY DEF ForceInv, ShellTypes
  <1>2. UNCHANGED <<uiPalette, layout, ticks, tails, startPending, uiIdles>>
    BY DEF onDisplayModeSelected, onKeyPressed, onThemeSelected
  <1> DEFINE Goal == /\ window' \in Windows /\ theme' \in Themes /\ settings' \in Pages
                     /\ window'.auto = window.auto /\ window'.verbose = window.verbose
                     /\ window'.ms = window.ms /\ settings'.logsVisible = settings.logsVisible
                     /\ settings'.full = window'.full /\ settings'.dark = theme'.dark
                     /\ settings'.auto = window'.auto /\ settings'.logs = window'.verbose
  <1>3. ASSUME onDisplayModeSelected PROVE Goal
    <2>1. window' = [window EXCEPT !.full = ~window.full] /\ theme' = theme
          /\ settings' = [settings EXCEPT !.full = ~settings.full]
      BY <1>3 DEF onDisplayModeSelected
    <2>2. PICK b \in BOOLEAN : b = ~window.full /\ b = ~settings.full
      BY <1>1 DEF SettingsMatchRuntime
    <2>. window' = [window EXCEPT !.full = b] /\ settings' = [settings EXCEPT !.full = b]
      BY <2>1, <2>2
    <2>3. /\ window' \in Windows /\ window'.full = b /\ window'.auto = window.auto
          /\ window'.verbose = window.verbose /\ window'.ms = window.ms
      BY <1>1 DEF Windows
    <2>4. /\ settings' \in Pages /\ settings'.full = b /\ settings'.auto = settings.auto
          /\ settings'.dark = settings.dark /\ settings'.logs = settings.logs
          /\ settings'.logsVisible = settings.logsVisible
      BY <1>1 DEF Pages
    <2>5. Goal
      BY <1>1, <2>1, <2>2, <2>3, <2>4 DEF SettingsMatchRuntime
    <2>6. QED
      BY <2>5
  <1>4. ASSUME onKeyPressed PROVE Goal
    <2>1. window' = [window EXCEPT !.full = ~window.full] /\ theme' = theme
          /\ settings' = Synced(settings, window', theme)
      BY <1>4 DEF onKeyPressed, toggleFullscreen
    <2>2. PICK b \in BOOLEAN : b = ~window.full
      BY <1>1
    <2>. window' = [window EXCEPT !.full = b]
      BY <2>1, <2>2
    <2>3. /\ window' \in Windows /\ window'.auto = window.auto
          /\ window'.verbose = window.verbose /\ window'.ms = window.ms
      BY <1>1 DEF Windows
    <2>4. /\ settings' \in Pages /\ settings'.full = window'.full /\ settings'.auto = window'.auto
          /\ settings'.dark = theme.dark /\ settings'.logs = window'.verbose
          /\ settings'.logsVisible = settings.logsVisible
      BY <1>1, <2>1, <2>3 DEF Synced, Pages, Windows, Themes
    <2>5. QED
      BY <1>1, <2>1, <2>3, <2>4
  <1>5. ASSUME onThemeSelected PROVE Goal
    <2>1. theme' = setTheme(theme, ~theme.dark) /\ window' = window
          /\ settings' = [settings EXCEPT !.dark = ~settings.dark]
      BY <1>5 DEF onThemeSelected
    <2>2. PICK b \in BOOLEAN : b = ~theme.dark /\ b = ~settings.dark
      BY <1>1 DEF SettingsMatchRuntime
    <2>. theme' = setTheme(theme, b) /\ settings' = [settings EXCEPT !.dark = b]
      BY <2>1, <2>2
    <2>3. theme' \in Themes /\ theme'.dark = b
      BY <1>1, ThemeUpdates, Zenon
    <2>4. /\ settings' \in Pages /\ settings'.full = settings.full /\ settings'.auto = settings.auto
          /\ settings'.dark = b /\ settings'.logs = settings.logs
          /\ settings'.logsVisible = settings.logsVisible
      BY <1>1 DEF Pages
    <2>5. QED
      BY <1>1, <2>1, <2>2, <2>3, <2>4 DEF SettingsMatchRuntime
  <1>6. Goal
    BY <1>3, <1>4, <1>5
  <1>7. ShellTypes' /\ SettingsMatchRuntime'
    BY <1>1, <1>2, <1>6 DEF ShellTypes, SettingsMatchRuntime
  <1>8. TailsInv'
    BY <1>1, <1>2, <1>6, TailsKept
  <1>9. TicksInv'
    BY <1>1, <1>2, <1>6, TicksKept
  <1>10. QED
    BY <1>7, <1>8, <1>9 DEF ForceInv

\* The handlers that start, stop or replace the timer, and the start delay.
LEMMA TimerSteps ==
  ASSUME ForceInv, onAutoRefreshToggled \/ onRefreshIntervalChanged \/ StartDelayOver
  PROVE  ForceInv'
  <1>1. /\ uiPalette \in UiPalettes /\ window \in Windows /\ theme \in Themes /\ settings \in Pages
        /\ uiIdles \in Seq(UiIdles) /\ SettingsMatchRuntime /\ TailsInv /\ TicksInv
    BY DEF ForceInv, ShellTypes
  <1>2. UNCHANGED <<uiPalette, theme, layout, tails, uiIdles>>
    BY DEF onAutoRefreshToggled, onRefreshIntervalChanged, StartDelayOver
  <1>3. ticks \in {<<>>, <<window.ms>>} /\ (~window.auto => ticks = <<>>) /\ window.auto \in BOOLEAN
    BY <1>1 DEF TicksInv, Windows
  <1> DEFINE Shown == /\ window' \in Windows /\ settings' \in Pages /\ window'.verbose = window.verbose
                      /\ settings'.logsVisible = settings.logsVisible
                      /\ settings'.full = window'.full /\ settings'.dark = theme'.dark
                      /\ settings'.auto = window'.auto /\ settings'.logs = window'.verbose
  <1>4. ASSUME onAutoRefreshToggled PROVE Shown /\ TicksInv'
    <2>1. /\ window' = [window EXCEPT !.auto = ~window.auto] /\ theme' = theme
          /\ settings' = [settings EXCEPT !.auto = ~settings.auto]
          /\ ticks' = applyAutoRefresh(ticks, window')
      BY <1>4 DEF onAutoRefreshToggled
    <2>2. PICK b \in BOOLEAN : b = ~window.auto /\ b = ~settings.auto
      BY <1>1 DEF SettingsMatchRuntime
    <2>3. window' = [window EXCEPT !.auto = b] /\ settings' = [settings EXCEPT !.auto = b]
      BY <2>1, <2>2
    <2>4. /\ window' \in Windows /\ window'.auto = b /\ window'.full = window.full
          /\ window'.verbose = window.verbose /\ window'.ms = window.ms
      BY <1>1, <2>3 DEF Windows
    <2>5. /\ settings' \in Pages /\ settings'.auto = b /\ settings'.full = settings.full
          /\ settings'.dark = settings.dark /\ settings'.logs = settings.logs
          /\ settings'.logsVisible = settings.logsVisible
      BY <1>1, <2>3 DEF Pages
    <2>6. Shown
      BY <1>1, <2>1, <2>4, <2>5 DEF SettingsMatchRuntime
    <2>7. ticks' = (IF window'.auto THEN <<window'.ms>> ELSE <<>>)
      BY <1>3, <2>1, OneTimer
    <2>8. QED
      BY <2>4, <2>6, <2>7, TicksSet
  <1>5. ASSUME onRefreshIntervalChanged PROVE Shown /\ TicksInv'
    <2>1. PICK ms \in Intervals :
             /\ window' = [window EXCEPT !.ms = ms] /\ settings' = [settings EXCEPT !.ms = ms]
             /\ ticks' = IF window.auto THEN applyAutoRefresh(ticks, window') ELSE ticks
      BY <1>5 DEF onRefreshIntervalChanged
    <2>2. theme' = theme /\ ms \in Nat
      BY <1>5, <2>1 DEF onRefreshIntervalChanged, Intervals, kAutoRefreshIntervalMs
    <2>3. /\ window' \in Windows /\ window'.auto = window.auto /\ window'.full = window.full
          /\ window'.verbose = window.verbose
      BY <1>1, <2>1, <2>2 DEF Windows
    <2>4. /\ settings' \in Pages /\ settings'.auto = settings.auto /\ settings'.full = settings.full
          /\ settings'.dark = settings.dark /\ settings'.logs = settings.logs
          /\ settings'.logsVisible = settings.logsVisible
      BY <1>1, <2>1, <2>2 DEF Pages
    <2>5. Shown
      BY <1>1, <2>2, <2>3, <2>4 DEF SettingsMatchRuntime
    <2>6. applyAutoRefresh(ticks, window') = (IF window'.auto THEN <<window'.ms>> ELSE <<>>)
      BY <1>3, OneTimer
    <2>7. ticks' = (IF window'.auto THEN <<window'.ms>> ELSE <<>>)
      BY <1>3, <2>1, <2>3, <2>6
    <2>8. QED
      BY <1>3, <2>3, <2>5, <2>7, TicksSet
  <1>6. ASSUME StartDelayOver PROVE Shown /\ TicksInv'
    <2>1. /\ UNCHANGED <<window, settings, theme>>
          /\ ticks' = IF window.auto THEN applyAutoRefresh(ticks, window) ELSE ticks
      BY <1>6 DEF StartDelayOver
    <2>2. Shown
      BY <1>1, <2>1 DEF SettingsMatchRuntime
    <2>3. applyAutoRefresh(ticks, window) = (IF window.auto THEN <<window.ms>> ELSE <<>>)
      BY <1>3, OneTimer
    <2>4. ticks' = (IF window'.auto THEN <<window'.ms>> ELSE <<>>)
      BY <1>3, <2>1, <2>3
    <2>5. QED
      BY <1>3, <2>1, <2>2, <2>4, TicksSet
  <1>7. Shown /\ TicksInv'
    BY <1>4, <1>5, <1>6
  <1>8. ShellTypes' /\ SettingsMatchRuntime'
    BY <1>1, <1>2, <1>7 DEF ShellTypes, SettingsMatchRuntime
  <1>9. TailsInv'
    BY <1>1, <1>2, <1>7, TailsKept
  <1>10. QED
    BY <1>7, <1>8, <1>9 DEF ForceInv

\* The log switch, the language box and the palette cards.
LEMMA RequestSteps ==
  ASSUME ForceInv, onShowLogsToggled \/ onLanguageSelected \/ PaletteClicked
  PROVE  ForceInv'
  <1>1. /\ uiPalette \in UiPalettes /\ window \in Windows /\ theme \in Themes /\ settings \in Pages
        /\ uiIdles \in Seq(UiIdles) /\ SettingsMatchRuntime /\ TailsInv /\ TicksInv
    BY DEF ForceInv, ShellTypes
  <1>2. UNCHANGED <<theme, layout, ticks, startPending>>
    BY DEF onShowLogsToggled, onLanguageSelected, PaletteClicked
  <1>3. ASSUME onShowLogsToggled PROVE ForceInv'
    <2>1. /\ window' = [window EXCEPT !.verbose = ~window.verbose]
          /\ settings' = [settings EXCEPT !.logs = ~settings.logs]
          /\ tails' = IF window'.verbose THEN tails + 1 ELSE IF tails = 0 THEN 0 ELSE tails - 1
          /\ settings.logsVisible /\ UNCHANGED <<uiPalette, uiIdles>>
      BY <1>3 DEF onShowLogsToggled
    <2>2. PICK b \in BOOLEAN : b = ~window.verbose /\ b = ~settings.logs
      BY <1>1 DEF SettingsMatchRuntime
    <2>3. window' = [window EXCEPT !.verbose = b] /\ settings' = [settings EXCEPT !.logs = b]
      BY <2>1, <2>2
    <2>4. /\ window' \in Windows /\ window'.verbose = b /\ window'.full = window.full
          /\ window'.auto = window.auto /\ window'.ms = window.ms
      BY <1>1, <2>3 DEF Windows
    <2>5. /\ settings' \in Pages /\ settings'.logs = b /\ settings'.full = settings.full
          /\ settings'.dark = settings.dark /\ settings'.auto = settings.auto
      BY <1>1, <2>3 DEF Pages
    <2>6. ShellTypes' /\ SettingsMatchRuntime'
      BY <1>1, <1>2, <2>1, <2>4, <2>5 DEF ShellTypes, SettingsMatchRuntime
    <2>7. tails \in {0, 1} /\ (window.verbose => tails = 1) /\ (~window.verbose => tails = 0)
      BY <1>1, <2>1 DEF TailsInv
    <2>8. tails' = IF window'.verbose THEN 1 ELSE 0
      <3>1. CASE window.verbose
        <4>1. ~window'.verbose /\ tails = 1
          BY <2>2, <2>4, <2>7, <3>1
        <4>2. QED
          BY <2>1, <4>1
      <3>2. CASE ~window.verbose
        <4>1. window'.verbose /\ tails = 0
          BY <2>2, <2>4, <2>7, <3>2
        <4>2. QED
          BY <2>1, <4>1
      <3>3. QED
        BY <3>1, <3>2
    <2>9. TailsInv'
      BY <2>8 DEF TailsInv
    <2>10. TicksInv'
      BY <1>1, <1>2, <2>4, TicksKept
    <2>11. QED
      BY <2>6, <2>9, <2>10 DEF ForceInv
  <1>4. ASSUME onLanguageSelected PROVE ForceInv'
    <2>1. /\ uiIdles' = Append(uiIdles, [kind |-> "rebuild"])
          /\ UNCHANGED <<uiPalette, window, tails, settings>>
      BY <1>4 DEF onLanguageSelected
    <2>2. uiIdles' \in Seq(UiIdles)
      <3>1. [kind |-> "rebuild"] \in UiIdles
        BY DEF UiIdles
      <3>2. QED
        BY <1>1, <2>1, <3>1
    <2>3. ShellTypes' /\ SettingsMatchRuntime'
      BY <1>1, <1>2, <2>1, <2>2 DEF ShellTypes, SettingsMatchRuntime
    <2>4. TailsInv' /\ TicksInv'
      BY <1>1, <1>2, <2>1, TailsKept, TicksKept
    <2>5. QED
      BY <2>3, <2>4 DEF ForceInv
  <1>5. ASSUME PaletteClicked PROVE ForceInv'
    <2>1. PICK p \in UiPalettes :
             /\ uiPalette' = p
             /\ settings' = [settings EXCEPT !.card = p, !.lock = NewPage(p, window, theme).lock]
             /\ uiIdles' = Append(uiIdles, [kind |-> "palette", id |-> p,
                                            needsRelayout |-> chooseMainWindowUI(p) # layout])
      BY <1>5 DEF PaletteClicked
    <2>2. UNCHANGED <<window, tails>>
      BY <1>5 DEF PaletteClicked
    <2>3. uiIdles' \in Seq(UiIdles)
      <3>1. [kind |-> "palette", id |-> p, needsRelayout |-> chooseMainWindowUI(p) # layout] \in UiIdles
        BY DEF UiIdles
      <3>2. QED
        BY <1>1, <2>1, <3>1
    <2>4. NewPage(p, window, theme).lock \in {"light", "dark", "none"}
      BY <1>1, NewPageParts
    <2>5. /\ settings' \in Pages /\ settings'.logs = settings.logs /\ settings'.full = settings.full
          /\ settings'.dark = settings.dark /\ settings'.auto = settings.auto
          /\ settings'.logsVisible = settings.logsVisible
      BY <1>1, <2>1, <2>4 DEF Pages
    <2>6. ShellTypes' /\ SettingsMatchRuntime'
      BY <1>1, <1>2, <2>1, <2>2, <2>3, <2>5 DEF ShellTypes, SettingsMatchRuntime
    <2>7. TailsInv' /\ TicksInv'
      BY <1>1, <1>2, <2>2, <2>5, TailsKept, TicksKept
    <2>8. QED
      BY <2>6, <2>7 DEF ForceInv
  <1>6. QED
    BY <1>3, <1>4, <1>5

\* What every page built or brought up to date has in common.
Fresh(page, w, t) ==
  /\ page \in Pages /\ page.full = w.full /\ page.dark = t.dark
  /\ page.auto = w.auto /\ page.logs = w.verbose

LEMMA BuiltPage ==
  ASSUME NEW p \in UiPalettes, NEW w \in Windows, NEW t \in Themes
  PROVE  LET page == Synced(NewPage(p, w, t), w, t)
         IN  /\ Fresh(page, w, t) /\ page.logsVisible = (p # "blueprint")
             /\ page.lock = (IF LightOnly(p) THEN "light" ELSE IF DarkOnly(p) THEN "dark" ELSE "none")
  <1> DEFINE new == NewPage(p, w, t)
  <1> DEFINE page == Synced(new, w, t)
  <1>1. /\ new \in Pages /\ new.logsVisible = (p # "blueprint")
        /\ new.lock = (IF LightOnly(p) THEN "light" ELSE IF DarkOnly(p) THEN "dark" ELSE "none")
    BY NewPageParts
  <1> HIDE DEF new
  <1>2. /\ page \in Pages /\ page.full = w.full /\ page.dark = t.dark
        /\ page.auto = w.auto /\ page.logs = w.verbose
        /\ page.logsVisible = new.logsVisible /\ page.lock = new.lock
    BY <1>1, SyncedParts
  <1> HIDE DEF page
  <1>3. Fresh(page, w, t) /\ page.logsVisible = (p # "blueprint")
        /\ page.lock = (IF LightOnly(p) THEN "light" ELSE IF DarkOnly(p) THEN "dark" ELSE "none")
    BY <1>1, <1>2 DEF Fresh
  <1>4. QED
    BY <1>3 DEF page, new

\* The theme a palette brings along, whatever the theme was.
LEMMA ThemeOfPalette ==
  ASSUME theme \in Themes, NEW id \in UiPalettes
  PROVE  /\ themeForPalette(id) \in Themes /\ themeForPalette(id).palette = id
         /\ (LightOnly(id) => ~themeForPalette(id).dark) /\ (DarkOnly(id) => themeForPalette(id).dark)
  BY DEF themeForPalette, setTheme, setPalette, Themes, LightOnly, DarkOnly

\* The first callback is one of the two kinds.
LEMMA HeadIdle ==
  ASSUME uiIdles \in Seq(UiIdles), uiIdles # <<>>
  PROVE  /\ Head(uiIdles) \in UiIdles /\ Tail(uiIdles) \in Seq(UiIdles)
         /\ Head(uiIdles).kind = "palette" =>
               Head(uiIdles).id \in UiPalettes /\ Head(uiIdles).needsRelayout \in BOOLEAN
  <1>1. Head(uiIdles) \in UiIdles /\ Tail(uiIdles) \in Seq(UiIdles)
    OBVIOUS
  <1>2. QED
    BY <1>1 DEF UiIdles

\* What a callback does to the page, to the timer and to the log tail.
LEMMA IdleEffects ==
  ASSUME ForceInv, RunUiIdle
  PROVE  /\ theme' \in Themes /\ Fresh(settings', window, theme') /\ TicksInv' /\ TailsInv'
  <1>1. /\ uiPalette \in UiPalettes /\ window \in Windows /\ theme \in Themes /\ settings \in Pages
        /\ uiIdles \in Seq(UiIdles) /\ SettingsMatchRuntime /\ TailsInv /\ TicksInv
    BY DEF ForceInv, ShellTypes
  <1>2. UNCHANGED <<uiPalette, window, startPending>> /\ uiIdles # <<>>
    BY DEF RunUiIdle
  <1>3. ticks \in {<<>>, <<window.ms>>} /\ window.auto \in BOOLEAN /\ window.verbose \in BOOLEAN
    BY <1>1 DEF TicksInv, Windows
  <1>4. /\ applyAutoRefresh(Disconnected(ticks), window) = (IF window.auto THEN <<window.ms>> ELSE <<>>)
        /\ Disconnected(ticks) = <<>>
    BY <1>3, OneTimer
  <1>5. ASSUME rebuildPages PROVE theme' \in Themes /\ Fresh(settings', window, theme') /\ TicksInv' /\ TailsInv'
    <2>1. /\ settings' = Synced(NewPage(uiPalette, window, theme), window, theme)
          /\ ticks' = (IF window.auto THEN <<window.ms>> ELSE <<>>)
          /\ tails' = (IF tails = 0 THEN 0 ELSE tails - 1) + (IF window.verbose THEN 1 ELSE 0)
          /\ theme' = theme /\ layout' = layout
      BY <1>4, <1>5 DEF rebuildPages
    <2>2. Fresh(settings', window, theme')
      BY <1>1, <2>1, BuiltPage
    <2>3. TicksInv'
      BY <1>2, <1>3, <2>1, TicksSet
    <2>4. tails \in {0, 1}
      BY <1>1 DEF TailsInv
    <2>5. tails' = IF window.verbose THEN 1 ELSE 0
      BY <2>1, <2>4
    <2>6. TailsInv'
      BY <1>2, <1>3, <2>5 DEF TailsInv
    <2>7. QED
      BY <1>1, <2>1, <2>2, <2>3, <2>6
  <1>6. ASSUME Head(uiIdles).kind = "palette", paletteIdle(Head(uiIdles))
        PROVE  theme' \in Themes /\ Fresh(settings', window, theme') /\ TicksInv' /\ TailsInv'
    <2>1. PICK id \in UiPalettes : theme' = themeForPalette(id) /\ id = Head(uiIdles).id
      BY <1>1, <1>2, <1>6, HeadIdle DEF paletteIdle
    <2>2. theme' \in Themes
      BY <1>1, <2>1, ThemeOfPalette
    <2>3. CASE Head(uiIdles).needsRelayout
      <3>1. /\ settings' = Synced(NewPage(uiPalette, window, theme'), window, theme')
            /\ ticks' = (IF window.auto THEN <<window.ms>> ELSE <<>>)
            /\ tails' = (IF tails = 0 THEN 0 ELSE tails - 1)
                        + (IF window.verbose \/ LogButton(layout') THEN 1 ELSE 0)
            /\ layout' = chooseMainWindowUI(uiPalette)
        BY <1>4, <1>6, <2>3 DEF paletteIdle, reloadLayout, layoutToLoad
      <3>2. Fresh(settings', window, theme') /\ settings'.logsVisible = (uiPalette # "blueprint")
        BY <1>1, <2>2, <3>1, BuiltPage
      <3>3. TicksInv'
        BY <1>2, <1>3, <3>1, TicksSet
      <3>4. tails \in {0, 1}
        BY <1>1 DEF TailsInv
      <3>5. tails' = IF window.verbose \/ LogButton(layout') THEN 1 ELSE 0
        BY <3>1, <3>4
      <3>6. LogButton(layout') <=> uiPalette = "blueprint"
        BY <1>1, <3>1 DEF LogButton, chooseMainWindowUI
      <3>7. TailsInv'
        BY <1>2, <1>3, <3>2, <3>5, <3>6 DEF TailsInv
      <3>8. QED
        BY <2>2, <3>2, <3>3, <3>7
    <2>4. CASE ~Head(uiIdles).needsRelayout
      <3>1. settings' = Synced(settings, window, theme') /\ UNCHANGED <<layout, ticks, tails>>
        BY <1>6, <2>4 DEF paletteIdle
      <3>2. Fresh(settings', window, theme') /\ settings'.logsVisible = settings.logsVisible
        BY <1>1, <2>2, <3>1, SyncedParts DEF Fresh
      <3>3. TailsInv' /\ TicksInv'
        BY <1>1, <1>2, <3>1, <3>2, TailsKept, TicksKept
      <3>4. QED
        BY <2>2, <3>2, <3>3
    <2>5. QED
      BY <2>3, <2>4
  <1>7. QED
    BY <1>5, <1>6 DEF RunUiIdle

\* The callbacks, and the window that a sign-in builds.
LEMMA BuildSteps ==
  ASSUME ForceInv, RunUiIdle \/ SignOut \/ SignInAgain \/ QuitShell
  PROVE  ForceInv'
  <1>1. /\ uiPalette \in UiPalettes /\ window \in Windows /\ theme \in Themes /\ settings \in Pages
        /\ uiIdles \in Seq(UiIdles) /\ SettingsMatchRuntime /\ TailsInv /\ TicksInv
    BY DEF ForceInv, ShellTypes
  <1>2. ASSUME RunUiIdle PROVE ForceInv'
    <2>1. UNCHANGED <<uiPalette, window>> /\ uiIdles # <<>> /\ uiIdles' = Tail(uiIdles)
      BY <1>2 DEF RunUiIdle
    <2>2. theme' \in Themes /\ Fresh(settings', window, theme') /\ TicksInv' /\ TailsInv'
      BY <1>2, IdleEffects
    <2>3. uiIdles' \in Seq(UiIdles)
      BY <1>1, <2>1, HeadIdle
    <2>4. ShellTypes' /\ SettingsMatchRuntime'
      BY <1>1, <2>1, <2>2, <2>3 DEF ShellTypes, SettingsMatchRuntime, Fresh
    <2>5. QED
      BY <2>2, <2>4 DEF ForceInv
  <1>3. ASSUME SignInAgain PROVE ForceInv'
    <2> DEFINE new == NewWindow(uiPalette, theme)
    <2>1. /\ layout' = new.layout /\ window' = new.window /\ settings' = new.settings /\ tails' = new.tails
          /\ ticks' = <<>> /\ startPending' = TRUE /\ UNCHANGED <<uiPalette, theme, uiIdles>>
      BY <1>3 DEF SignInAgain
    <2>2. /\ new.window \in Windows /\ new.settings \in Pages
          /\ new.window.full = new.settings.full /\ new.window.auto = new.settings.auto
          /\ new.window.verbose = new.settings.logs /\ new.settings.dark = theme.dark
          /\ new.window.verbose = LogButton(new.layout)
          /\ new.tails = (IF LogButton(new.layout) THEN 1 ELSE 0)
      BY <1>1, WindowParts
    <2> HIDE DEF new
    <2>3. ShellTypes' /\ SettingsMatchRuntime'
      BY <1>1, <2>1, <2>2 DEF ShellTypes, SettingsMatchRuntime
    <2>4. /\ window'.verbose => tails' = 1
          /\ ~window'.verbose => tails' = 0
          /\ tails' \in {0, 1}
      BY <2>1, <2>2
    <2>5. TailsInv'
      BY <2>4 DEF TailsInv
    <2>6. TicksInv'
      BY <2>1, Zenon DEF TicksInv
    <2>7. QED
      BY <2>3, <2>5, <2>6 DEF ForceInv
  <1>4. ASSUME SignOut \/ QuitShell PROVE ForceInv'
    <2>1. UNCHANGED <<uiPalette, theme, window, layout, ticks, tails, settings, startPending, uiIdles>>
      BY <1>4 DEF SignOut, QuitShell
    <2>2. TailsInv' /\ TicksInv'
      BY <1>1, <2>1, TailsKept, TicksKept
    <2>3. QED
      BY <1>1, <2>1, <2>2 DEF ForceInv, ShellTypes, SettingsMatchRuntime
  <1>5. QED
    BY <1>2, <1>3, <1>4

LEMMA ForceStep == ForceInv /\ [ShellNext]_shellVars => ForceInv'
  <1> SUFFICES ASSUME ForceInv, [ShellNext]_shellVars PROVE ForceInv'
    OBVIOUS
  <1>1. CASE ShellNext
    BY <1>1, FlagSteps, TimerSteps, RequestSteps, BuildSteps DEF ShellNext
  <1>2. CASE UNCHANGED shellVars
    <2>1. UNCHANGED <<uiPalette, theme, window, layout, ticks, tails, settings, startPending, uiIdles>>
      BY <1>2 DEF shellVars
    <2>2. TailsInv' /\ TicksInv'
      BY <2>1, TailsKept, TicksKept DEF ForceInv
    <2>3. QED
      BY <2>1, <2>2 DEF ForceInv, ShellTypes, SettingsMatchRuntime
  <1>3. QED
    BY <1>1, <1>2

LEMMA NewPageInterval ==
  ASSUME NEW p, NEW w, NEW t PROVE NewPage(p, w, t).ms = kAutoRefreshIntervalMs
  BY DEF NewPage

LEMMA SyncedInterval ==
  ASSUME NEW page \in Pages, NEW w, NEW t PROVE Synced(page, w, t).ms = page.ms
  BY DEF Synced, Pages

\* The interval shown is the one chosen, or the default on a page built since.
LEMMA IntervalStep == ForceInv /\ IntervalShown /\ [ShellNext]_shellVars => IntervalShown'
  <1> SUFFICES ASSUME ForceInv, IntervalShown, [ShellNext]_shellVars PROVE IntervalShown'
    OBVIOUS
  <1>1. /\ window \in Windows /\ theme \in Themes /\ settings \in Pages /\ uiPalette \in UiPalettes
        /\ Head(uiIdles).kind = "palette" /\ uiIdles # <<>> => Head(uiIdles).id \in UiPalettes
    <2>1. uiIdles # <<>> => Head(uiIdles) \in UiIdles
      BY DEF ForceInv, ShellTypes
    <2>2. QED
      BY <2>1 DEF ForceInv, ShellTypes, UiIdles
  <1>2. CASE window'.ms = window.ms /\ settings'.ms = settings.ms /\ replaced' = replaced
    BY <1>2 DEF IntervalShown
  <1>3. CASE onDisplayModeSelected \/ onAutoRefreshToggled \/ onShowLogsToggled
    <2>1. /\ \E b, c : \/ window' = [window EXCEPT !.full = b] /\ settings' = [settings EXCEPT !.full = c]
                       \/ window' = [window EXCEPT !.auto = b] /\ settings' = [settings EXCEPT !.auto = c]
                       \/ window' = [window EXCEPT !.verbose = b] /\ settings' = [settings EXCEPT !.logs = c]
          /\ replaced' = replaced
      BY <1>3 DEF onDisplayModeSelected, onAutoRefreshToggled, onShowLogsToggled
    <2>2. window'.ms = window.ms /\ settings'.ms = settings.ms
      BY <1>1, <2>1 DEF Windows, Pages
    <2>3. QED
      BY <1>2, <2>1, <2>2
  <1>4. CASE onKeyPressed
    <2>1. /\ window' = [window EXCEPT !.full = ~window.full] /\ replaced' = replaced
          /\ settings' = Synced(settings, window', theme)
      BY <1>4 DEF onKeyPressed, toggleFullscreen
    <2>2. window'.ms = window.ms
      BY <1>1, <2>1 DEF Windows
    <2>3. QED
      BY <1>1, <1>2, <2>1, <2>2, SyncedInterval
  <1>5. CASE onThemeSelected \/ PaletteClicked
    <2>1. /\ window' = window /\ replaced' = replaced
          /\ \E b, c : \/ settings' = [settings EXCEPT !.dark = b]
                       \/ settings' = [settings EXCEPT !.card = b, !.lock = c]
      BY <1>5 DEF onThemeSelected, PaletteClicked
    <2>2. settings'.ms = settings.ms
      BY <1>1, <2>1 DEF Pages
    <2>3. QED
      BY <1>2, <2>1, <2>2
  <1>6. CASE onRefreshIntervalChanged
    <2>1. PICK ms \in Intervals : /\ window' = [window EXCEPT !.ms = ms]
                                  /\ settings' = [settings EXCEPT !.ms = ms]
      BY <1>6 DEF onRefreshIntervalChanged
    <2>2. replaced' = FALSE
      BY <1>6 DEF onRefreshIntervalChanged
    <2>3. window'.ms = ms /\ settings'.ms = ms
      BY <1>1, <2>1 DEF Windows, Pages
    <2>4. QED
      BY <2>2, <2>3 DEF IntervalShown
  <1>7. CASE RunUiIdle
    <2>1. window' = window
      BY <1>7 DEF RunUiIdle
    <2>2. CASE rebuildPages
      <3>1. /\ replaced' = TRUE
            /\ settings' = Synced(NewPage(uiPalette, window, theme), window, theme)
        BY <2>2 DEF rebuildPages
      <3>2. settings'.ms = kAutoRefreshIntervalMs
        BY <1>1, <3>1, NewPageParts, NewPageInterval, SyncedInterval
      <3>3. QED
        BY <3>1, <3>2 DEF IntervalShown
    <2>3. CASE uiIdles # <<>> /\ Head(uiIdles).kind = "palette" /\ paletteIdle(Head(uiIdles))
      <3>1. theme' = themeForPalette(Head(uiIdles).id) /\ Head(uiIdles).id \in UiPalettes
        BY <1>1, <2>3 DEF paletteIdle
      <3>2. theme' \in Themes
        BY <1>1, <3>1, ThemeUpdates DEF themeForPalette
      <3>3. CASE Head(uiIdles).needsRelayout
        <4>1. /\ replaced' = TRUE
              /\ settings' = Synced(NewPage(uiPalette, window, theme'), window, theme')
          BY <2>3, <3>3 DEF paletteIdle, reloadLayout
        <4>2. settings'.ms = kAutoRefreshIntervalMs
          BY <1>1, <3>2, <4>1, NewPageParts, NewPageInterval, SyncedInterval
        <4>3. QED
          BY <4>1, <4>2 DEF IntervalShown
      <3>4. CASE ~Head(uiIdles).needsRelayout
        <4>1. replaced' = replaced /\ settings' = Synced(settings, window, theme')
          BY <2>3, <3>4 DEF paletteIdle
        <4>2. QED
          BY <1>1, <1>2, <2>1, <4>1, SyncedInterval
      <3>5. QED
        BY <3>3, <3>4
    <2>4. QED
      BY <1>7, <2>2, <2>3 DEF RunUiIdle
  <1>8. CASE SignInAgain
    <2> DEFINE new == NewWindow(uiPalette, theme)
    <2>1. window' = new.window /\ settings' = new.settings /\ replaced' = FALSE
      BY <1>8 DEF SignInAgain
    <2>2. /\ new.window.ms = kAutoRefreshIntervalMs
          /\ new.settings.ms = kAutoRefreshIntervalMs
      BY NewPageInterval DEF NewWindow
    <2>3. QED
      BY <2>1, <2>2 DEF IntervalShown
  <1>9. CASE onLanguageSelected \/ StartDelayOver \/ SignOut \/ QuitShell \/ UNCHANGED shellVars
    BY <1>2, <1>9 DEF onLanguageSelected, StartDelayOver, SignOut, QuitShell, shellVars
  <1>10. QED
    BY <1>3, <1>4, <1>5, <1>6, <1>7, <1>8, <1>9 DEF ShellNext

\* What the radios and checkboxes show is what runs: one timer at the interval
\* chosen last, one log tail, whatever toggles, rebuilds and sign-ins came in
\* between.  The interval itself is shown until a rebuild, the default after one.
THEOREM SettingsAreInForce == Spec => []SettingsInForce
  <1>1. Init => ForceInv /\ IntervalShown
    <2>1. Init => ForceInv
      BY ForceInit DEF Init
    <2>2. ASSUME ShellInit PROVE IntervalShown
      <3> DEFINE new == NewWindow(uiPalette, theme)
      <3>1. window = new.window /\ settings = new.settings /\ replaced = FALSE
        BY <2>2 DEF ShellInit
      <3>2. new.window.ms = kAutoRefreshIntervalMs /\ new.settings.ms = kAutoRefreshIntervalMs
        BY NewPageInterval DEF NewWindow
      <3>3. QED
        BY <3>1, <3>2 DEF IntervalShown
    <2>3. QED
      BY <2>1, <2>2 DEF Init
  <1>2. ForceInv /\ IntervalShown /\ [Next]_workbenchVars => ForceInv' /\ IntervalShown'
    BY ForceStep, IntervalStep, PartSteps
  <1>3. ForceInv /\ IntervalShown => SettingsInForce
    <2> SUFFICES ASSUME ForceInv, IntervalShown PROVE SettingsInForce
      OBVIOUS
    <2>1. ~startPending => ticks = IF window.auto THEN <<window.ms>> ELSE <<>>
      <3>1. window.auto \in BOOLEAN
        BY DEF ForceInv, ShellTypes, Windows
      <3>2. /\ ~window.auto => ticks = <<>>
            /\ startPending \/ (window.auto => ticks = <<window.ms>>)
        BY Zenon DEF ForceInv, TicksInv
      <3>3. QED
        BY <3>1, <3>2, Zenon
    <2>2. Len(ticks) <= 1
      <3>1. ticks = <<>> \/ ticks = <<window.ms>>
        BY Zenon DEF ForceInv, TicksInv
      <3>2. Len(<<>>) <= 1 /\ Len(<<window.ms>>) <= 1
        OBVIOUS
      <3>3. QED
        BY <3>1, <3>2
    <2>3. /\ tails <= 1 /\ (window.verbose => tails = 1)
          /\ (~window.verbose /\ ~LogButton(layout)) => tails = 0
      BY DEF ForceInv, TailsInv
    <2>4. TimersMatchSettings
      BY <2>1, <2>2, <2>3, Zenon DEF TimersMatchSettings
    <2>5. QED
      BY <2>4, Zenon DEF ForceInv, SettingsInForce
  <1>4. QED
    BY <1>1, <1>2, <1>3, PTL DEF Spec

-----------------------------------------------------------------------------
(* Shell: the palette, the layout and the mode.                            *)

LockOf(p) == IF LightOnly(p) THEN "light" ELSE IF DarkOnly(p) THEN "dark" ELSE "none"
ModeFits(t, p) == (LightOnly(p) => ~t.dark) /\ (DarkOnly(p) => t.dark)

\* A layout other than the configured palette's has a callback coming for it.
LayoutInv ==
  \/ layout = chooseMainWindowUI(uiPalette)
  \/ \E i \in 1 .. Len(uiIdles) : uiIdles[i].kind = "palette" /\ uiIdles[i].needsRelayout

\* Either the theme has the configured palette and no palette waits, or the last
\* palette that waits is the configured one.
ColoursInv ==
  \/ /\ theme.palette = uiPalette
     /\ chosen => ModeFits(theme, uiPalette)
     /\ \A i \in 1 .. Len(uiIdles) : uiIdles[i].kind = "rebuild"
  \/ \E i \in 1 .. Len(uiIdles) :
        /\ uiIdles[i].kind = "palette" /\ uiIdles[i].id = uiPalette
        /\ \A j \in (i + 1) .. Len(uiIdles) : uiIdles[j].kind = "rebuild"

PaletteInv == settings.lock = LockOf(uiPalette) /\ LayoutInv /\ ColoursInv

LEMMA PaletteInit == ShellInit => PaletteInv
  <1> SUFFICES ASSUME ShellInit PROVE PaletteInv
    OBVIOUS
  <1> DEFINE new == NewWindow(uiPalette, theme)
  <1>1. /\ uiPalette \in UiPalettes /\ theme = [dark |-> TRUE, palette |-> uiPalette]
        /\ layout = new.layout /\ settings = new.settings /\ uiIdles = <<>> /\ chosen = FALSE
    BY DEF ShellInit
  <1>2. theme \in Themes /\ theme.palette = uiPalette
    BY <1>1 DEF Themes
  <1>3. new.layout = chooseMainWindowUI(uiPalette) /\ new.settings.lock = LockOf(uiPalette)
    BY <1>1, <1>2, WindowParts DEF LockOf
  <1> HIDE DEF new
  <1>4. LayoutInv
    BY <1>1, <1>3 DEF LayoutInv
  <1>5. \A i \in 1 .. Len(uiIdles) : uiIdles[i].kind = "rebuild"
    BY <1>1
  <1>6. ColoursInv
    BY <1>1, <1>2, <1>5 DEF ColoursInv
  <1>7. QED
    BY <1>1, <1>3, <1>4, <1>6 DEF PaletteInv

\* The steps that leave the palette, the layout and the callbacks alone.
LEMMA PaletteKept ==
  ASSUME PaletteInv, UNCHANGED <<uiPalette, layout, uiIdles, chosen>>, settings'.lock = settings.lock,
         theme' = theme
  PROVE  PaletteInv'
  BY DEF PaletteInv, LayoutInv, ColoursInv, ModeFits

\* The mode the configured palette excludes cannot be chosen.
LEMMA ThemePaletteStep ==
  ASSUME ForceInv, PaletteInv, onThemeSelected
  PROVE  PaletteInv'
  <1>1. /\ theme \in Themes /\ settings \in Pages /\ uiPalette \in UiPalettes
        /\ SettingsMatchRuntime
    BY DEF ForceInv, ShellTypes
  <1>2. /\ theme' = setTheme(theme, ~theme.dark) /\ settings' = [settings EXCEPT !.dark = ~settings.dark]
        /\ settings.lock # (IF theme.dark THEN "dark" ELSE "light")
        /\ UNCHANGED <<uiPalette, layout, uiIdles, chosen>>
    BY DEF onThemeSelected
  <1>3. PICK b \in BOOLEAN : b = ~theme.dark
    BY <1>1 DEF Themes
  <1>4. theme' = setTheme(theme, b)
    BY <1>2, <1>3
  <1>5. theme'.dark = b /\ theme'.palette = theme.palette
    BY <1>1, <1>4, ThemeUpdates, Zenon
  <1>6. settings'.lock = settings.lock
    BY <1>1, <1>2 DEF Pages
  <1>7. settings.lock = LockOf(uiPalette)
    BY DEF PaletteInv
  <1>8. ModeFits(theme, uiPalette) => ModeFits(theme', uiPalette)
    BY <1>1, <1>2, <1>3, <1>5, <1>7 DEF ModeFits, LockOf, LightOnly, DarkOnly
  <1>9. ColoursInv'
    <2>1. ColoursInv
      BY DEF PaletteInv
    <2>2. QED
      BY <1>2, <1>5, <1>8, <2>1 DEF ColoursInv
  <1>10. LayoutInv'
    BY <1>2 DEF PaletteInv, LayoutInv
  <1>11. QED
    BY <1>2, <1>6, <1>7, <1>9, <1>10 DEF PaletteInv

\* The positions of a sequence after an Append and after a Tail.
LEMMA AppendedIdle ==
  ASSUME uiIdles \in Seq(UiIdles), NEW e \in UiIdles, uiIdles' = Append(uiIdles, e)
  PROVE  /\ Len(uiIdles) \in Nat /\ Len(uiIdles') = Len(uiIdles) + 1 /\ uiIdles'[Len(uiIdles) + 1] = e
         /\ \A i \in 1 .. Len(uiIdles) : uiIdles'[i] = uiIdles[i]
  OBVIOUS

LEMMA TailedIdle ==
  ASSUME uiIdles \in Seq(UiIdles), uiIdles # <<>>, uiIdles' = Tail(uiIdles)
  PROVE  /\ Len(uiIdles) \in Nat \ {0} /\ Len(uiIdles') = Len(uiIdles) - 1 /\ Head(uiIdles) = uiIdles[1]
         /\ \A i \in 1 .. Len(uiIdles') : uiIdles'[i] = uiIdles[i + 1]
  OBVIOUS

\* A click on a card is the last palette to come.
LEMMA ClickPaletteStep ==
  ASSUME ForceInv, PaletteInv, PaletteClicked
  PROVE  PaletteInv'
  <1>1. /\ uiPalette \in UiPalettes /\ window \in Windows /\ theme \in Themes /\ settings \in Pages
        /\ uiIdles \in Seq(UiIdles)
    BY DEF ForceInv, ShellTypes
  <1>2. PICK p \in UiPalettes :
           /\ uiPalette' = p
           /\ settings' = [settings EXCEPT !.card = p, !.lock = NewPage(p, window, theme).lock]
           /\ uiIdles' = Append(uiIdles, [kind |-> "palette", id |-> p,
                                          needsRelayout |-> chooseMainWindowUI(p) # layout])
    BY DEF PaletteClicked
  <1>3. layout' = layout
    BY DEF PaletteClicked
  <1> DEFINE e == [kind |-> "palette", id |-> p, needsRelayout |-> chooseMainWindowUI(p) # layout]
  <1>4. /\ e \in UiIdles /\ e.kind = "palette" /\ e.id = p
        /\ e.needsRelayout = (chooseMainWindowUI(p) # layout)
    BY DEF UiIdles
  <1>5. uiIdles' = Append(uiIdles, e)
    BY <1>2
  <1> HIDE DEF e
  <1>6. /\ Len(uiIdles) \in Nat /\ Len(uiIdles') = Len(uiIdles) + 1 /\ uiIdles'[Len(uiIdles) + 1] = e
    BY <1>1, <1>4, <1>5, AppendedIdle
  <1>7. settings'.lock = LockOf(uiPalette')
    <2>1. NewPage(p, window, theme).lock = LockOf(p)
      BY <1>1, NewPageParts DEF LockOf
    <2>2. QED
      BY <1>1, <1>2, <2>1 DEF Pages
  <1>8. LayoutInv'
    <2>1. CASE layout = chooseMainWindowUI(p)
      BY <1>2, <1>3, <2>1 DEF LayoutInv
    <2>2. CASE layout # chooseMainWindowUI(p)
      <3>1. e.needsRelayout
        BY <1>4, <2>2
      <3>2. Len(uiIdles) + 1 \in 1 .. Len(uiIdles') /\ uiIdles'[Len(uiIdles) + 1].kind = "palette"
            /\ uiIdles'[Len(uiIdles) + 1].needsRelayout
        BY <1>4, <1>6, <3>1
      <3>3. QED
        BY <3>2 DEF LayoutInv
    <2>3. QED
      BY <2>1, <2>2
  <1>9. ColoursInv'
    <2>1. Len(uiIdles') \in 1 .. Len(uiIdles') /\ uiIdles'[Len(uiIdles')] = e
      BY <1>6
    <2>2. \A j \in (Len(uiIdles') + 1) .. Len(uiIdles') : uiIdles'[j].kind = "rebuild"
      BY <1>6
    <2>3. QED
      BY <1>2, <1>4, <2>1, <2>2 DEF ColoursInv
  <1>10. QED
    BY <1>7, <1>8, <1>9 DEF PaletteInv

LEMMA LanguagePaletteStep ==
  ASSUME ForceInv, PaletteInv, onLanguageSelected
  PROVE  PaletteInv'
  <1>1. uiIdles \in Seq(UiIdles)
    BY DEF ForceInv, ShellTypes
  <1> DEFINE e == [kind |-> "rebuild"]
  <1>2. e \in UiIdles /\ e.kind = "rebuild"
    BY DEF UiIdles
  <1>3. uiIdles' = Append(uiIdles, e) /\ UNCHANGED <<uiPalette, theme, layout, settings, chosen>>
    BY DEF onLanguageSelected
  <1> HIDE DEF e
  <1>4. /\ Len(uiIdles) \in Nat /\ Len(uiIdles') = Len(uiIdles) + 1 /\ uiIdles'[Len(uiIdles) + 1] = e
        /\ \A i \in 1 .. Len(uiIdles) : uiIdles'[i] = uiIdles[i]
    BY <1>1, <1>2, <1>3, AppendedIdle
  <1>5. LayoutInv'
    BY <1>3, <1>4 DEF PaletteInv, LayoutInv
  <1>6. ColoursInv'
    <2>1. CASE /\ theme.palette = uiPalette /\ (chosen => ModeFits(theme, uiPalette))
               /\ \A i \in 1 .. Len(uiIdles) : uiIdles[i].kind = "rebuild"
      <3>1. \A i \in 1 .. Len(uiIdles') : uiIdles'[i].kind = "rebuild"
        BY <1>2, <1>4, <2>1
      <3>2. QED
        BY <1>3, <2>1, <3>1 DEF ColoursInv, ModeFits
    <2>2. ASSUME NEW i \in 1 .. Len(uiIdles), uiIdles[i].kind = "palette", uiIdles[i].id = uiPalette,
                 \A j \in (i + 1) .. Len(uiIdles) : uiIdles[j].kind = "rebuild"
          PROVE  ColoursInv'
      <3>1. \A j \in (i + 1) .. Len(uiIdles') : uiIdles'[j].kind = "rebuild"
        BY <1>2, <1>4, <2>2
      <3>2. i \in 1 .. Len(uiIdles') /\ uiIdles'[i].kind = "palette" /\ uiIdles'[i].id = uiPalette'
        BY <1>3, <1>4, <2>2
      <3>3. QED
        BY <3>1, <3>2 DEF ColoursInv
    <2>3. QED
      BY <2>1, <2>2 DEF PaletteInv, ColoursInv
  <1>7. QED
    BY <1>3, <1>5, <1>6 DEF PaletteInv

\* A callback that is not the last palette leaves that one waiting.
LEMMA IdlePaletteStep ==
  ASSUME ForceInv, PaletteInv, RunUiIdle
  PROVE  PaletteInv'
  <1>1. /\ uiPalette \in UiPalettes /\ window \in Windows /\ theme \in Themes /\ settings \in Pages
        /\ uiIdles \in Seq(UiIdles)
    BY DEF ForceInv, ShellTypes
  <1>2. /\ UNCHANGED <<uiPalette, window, chosen>> /\ uiIdles # <<>> /\ uiIdles' = Tail(uiIdles)
        /\ \/ Head(uiIdles).kind = "rebuild" /\ rebuildPages
           \/ Head(uiIdles).kind = "palette" /\ paletteIdle(Head(uiIdles))
    BY DEF RunUiIdle
  <1>3. /\ Len(uiIdles) \in Nat \ {0} /\ Len(uiIdles') = Len(uiIdles) - 1 /\ Head(uiIdles) = uiIdles[1]
        /\ \A i \in 1 .. Len(uiIdles') : uiIdles'[i] = uiIdles[i + 1]
    BY <1>1, <1>2, TailedIdle
  <1>4. ASSUME Head(uiIdles).kind = "palette", paletteIdle(Head(uiIdles))
        PROVE  /\ Head(uiIdles).id \in UiPalettes /\ theme' = themeForPalette(Head(uiIdles).id)
               /\ theme' \in Themes
    <2>1. Head(uiIdles).id \in UiPalettes /\ theme' = themeForPalette(Head(uiIdles).id)
      BY <1>1, <1>2, <1>4, HeadIdle DEF paletteIdle
    <2>2. QED
      BY <1>1, <2>1, ThemeOfPalette
  <1>5. settings'.lock = LockOf(uiPalette')
    <2>1. settings.lock = LockOf(uiPalette)
      BY DEF PaletteInv
    <2>2. CASE rebuildPages
      <3>1. settings' = Synced(NewPage(uiPalette, window, theme), window, theme)
        BY <2>2 DEF rebuildPages
      <3>2. QED
        BY <1>1, <1>2, <3>1, BuiltPage DEF LockOf
    <2>3. CASE Head(uiIdles).kind = "palette" /\ paletteIdle(Head(uiIdles))
      <3>1. theme' \in Themes
        BY <1>4, <2>3
      <3>2. CASE Head(uiIdles).needsRelayout
        <4>1. settings' = Synced(NewPage(uiPalette, window, theme'), window, theme')
          BY <2>3, <3>2 DEF paletteIdle, reloadLayout
        <4>2. QED
          BY <1>1, <1>2, <3>1, <4>1, BuiltPage DEF LockOf
      <3>3. CASE ~Head(uiIdles).needsRelayout
        <4>1. settings' = Synced(settings, window, theme')
          BY <2>3, <3>3 DEF paletteIdle
        <4>2. settings'.lock = settings.lock
          BY <1>1, <3>1, <4>1, SyncedParts
        <4>3. QED
          BY <1>2, <2>1, <4>2
      <3>4. QED
        BY <3>2, <3>3
    <2>4. QED
      BY <1>2, <2>2, <2>3
  <1>6. LayoutInv'
    <2>1. CASE Head(uiIdles).kind = "palette" /\ paletteIdle(Head(uiIdles)) /\ Head(uiIdles).needsRelayout
      BY <1>2, <2>1 DEF paletteIdle, reloadLayout, layoutToLoad, LayoutInv
    <2>2. CASE ~(Head(uiIdles).kind = "palette" /\ Head(uiIdles).needsRelayout)
      <3>1. layout' = layout
        BY <1>2, <2>2 DEF rebuildPages, paletteIdle
      <3>2. ASSUME NEW i \in 1 .. Len(uiIdles), uiIdles[i].kind = "palette", uiIdles[i].needsRelayout
            PROVE  LayoutInv'
        <4>1. i # 1
          BY <1>3, <2>2, <3>2
        <4>2. i - 1 \in 1 .. Len(uiIdles') /\ uiIdles'[i - 1] = uiIdles[i]
          BY <1>3, <4>1
        <4>3. QED
          BY <3>2, <4>2 DEF LayoutInv
      <3>3. CASE layout = chooseMainWindowUI(uiPalette)
        BY <1>2, <3>1, <3>3 DEF LayoutInv
      <3>4. QED
        BY <3>2, <3>3 DEF PaletteInv, LayoutInv
    <2>3. QED
      BY <1>2, <2>1, <2>2
  <1>7. ColoursInv'
    <2>1. CASE /\ theme.palette = uiPalette /\ (chosen => ModeFits(theme, uiPalette))
               /\ \A i \in 1 .. Len(uiIdles) : uiIdles[i].kind = "rebuild"
      <3>1. Head(uiIdles).kind = "rebuild"
        BY <1>3, <2>1
      <3>2. theme' = theme
        BY <1>2, <3>1 DEF rebuildPages
      <3>3. \A i \in 1 .. Len(uiIdles') : uiIdles'[i].kind = "rebuild"
        BY <1>3, <2>1
      <3>4. QED
        BY <1>2, <2>1, <3>2, <3>3 DEF ColoursInv, ModeFits
    <2>2. ASSUME NEW i \in 1 .. Len(uiIdles), uiIdles[i].kind = "palette", uiIdles[i].id = uiPalette,
                 \A j \in (i + 1) .. Len(uiIdles) : uiIdles[j].kind = "rebuild"
          PROVE  ColoursInv'
      <3>1. CASE i = 1
        <4>1. Head(uiIdles).kind = "palette" /\ Head(uiIdles).id = uiPalette
          BY <1>3, <2>2, <3>1
        <4>2. theme' = themeForPalette(uiPalette)
          BY <1>2, <1>4, <4>1
        <4>3. theme'.palette = uiPalette /\ ModeFits(theme', uiPalette)
          BY <1>1, <4>2, ThemeOfPalette DEF ModeFits
        <4>4. \A j \in 1 .. Len(uiIdles') : uiIdles'[j].kind = "rebuild"
          BY <1>3, <2>2, <3>1
        <4>5. QED
          BY <1>2, <4>3, <4>4 DEF ColoursInv
      <3>2. CASE i # 1
        <4>1. i - 1 \in 1 .. Len(uiIdles') /\ uiIdles'[i - 1] = uiIdles[i]
          BY <1>3, <3>2
        <4>2. \A j \in i .. Len(uiIdles') : uiIdles'[j].kind = "rebuild"
          BY <1>3, <2>2
        <4>3. (i - 1) + 1 = i
          OBVIOUS
        <4>4. QED
          BY <1>2, <2>2, <4>1, <4>2, <4>3 DEF ColoursInv
      <3>3. QED
        BY <3>1, <3>2
    <2>3. QED
      BY <2>1, <2>2 DEF PaletteInv, ColoursInv
  <1>8. QED
    BY <1>5, <1>6, <1>7 DEF PaletteInv

LEMMA PaletteStep == ForceInv /\ PaletteInv /\ [ShellNext]_shellVars => PaletteInv'
  <1> SUFFICES ASSUME ForceInv, PaletteInv, [ShellNext]_shellVars PROVE PaletteInv'
    OBVIOUS
  <1>1. /\ uiPalette \in UiPalettes /\ window \in Windows /\ theme \in Themes /\ settings \in Pages
    BY DEF ForceInv, ShellTypes
  <1>2. CASE onDisplayModeSelected \/ onKeyPressed \/ onAutoRefreshToggled \/ onRefreshIntervalChanged
             \/ onShowLogsToggled \/ StartDelayOver \/ SignOut \/ QuitShell \/ UNCHANGED shellVars
    <2>1. UNCHANGED <<uiPalette, layout, uiIdles, chosen>> /\ theme' = theme
      BY <1>2 DEF onDisplayModeSelected, onKeyPressed, onAutoRefreshToggled, onRefreshIntervalChanged,
         onShowLogsToggled, StartDelayOver, SignOut, QuitShell, shellVars
    <2>2. settings'.lock = settings.lock
      BY <1>1, <1>2 DEF onDisplayModeSelected, onKeyPressed, onAutoRefreshToggled,
         onRefreshIntervalChanged, onShowLogsToggled, StartDelayOver, SignOut, QuitShell, shellVars,
         toggleFullscreen, Synced, Pages
    <2>3. QED
      BY <2>1, <2>2, PaletteKept
  <1>3. CASE onThemeSelected \/ onLanguageSelected \/ PaletteClicked \/ RunUiIdle
    BY <1>3, ThemePaletteStep, LanguagePaletteStep, ClickPaletteStep, IdlePaletteStep
  <1>4. CASE SignInAgain
    <2> DEFINE new == NewWindow(uiPalette, theme)
    <2>1. /\ layout' = new.layout /\ settings' = new.settings /\ uiIdles = <<>>
          /\ UNCHANGED <<uiPalette, theme, uiIdles, chosen>>
      BY <1>4 DEF SignInAgain
    <2>2. new.layout = chooseMainWindowUI(uiPalette) /\ new.settings.lock = LockOf(uiPalette)
      BY <1>1, WindowParts DEF LockOf
    <2> HIDE DEF new
    <2>3. ColoursInv'
      BY <2>1 DEF PaletteInv, ColoursInv, ModeFits
    <2>4. QED
      BY <2>1, <2>2, <2>3 DEF PaletteInv, LayoutInv
  <1>5. QED
    BY <1>2, <1>3, <1>4 DEF ShellNext

\* With no callback waiting the screen has the configured palette, also after
\* clicks that overtook the callbacks of earlier ones.
THEOREM PaletteIsShown == Spec => []PaletteShown
  <1>1. Init => ForceInv /\ PaletteInv
    BY ForceInit, PaletteInit DEF Init
  <1>2. ForceInv /\ PaletteInv /\ [Next]_workbenchVars => ForceInv' /\ PaletteInv'
    BY ForceStep, PaletteStep, PartSteps
  <1>3. PaletteInv => PaletteShown
    <2> SUFFICES ASSUME PaletteInv, uiIdles = <<>>
                 PROVE  /\ layout = chooseMainWindowUI(uiPalette) /\ theme.palette = uiPalette
                        /\ chosen => applyPalette(theme) = uiPalette
      BY DEF PaletteShown
    <2>1. 1 .. Len(uiIdles) = {}
      OBVIOUS
    <2>2. layout = chooseMainWindowUI(uiPalette)
      BY <2>1 DEF PaletteInv, LayoutInv
    <2>3. theme.palette = uiPalette /\ (chosen => ModeFits(theme, uiPalette))
      BY <2>1 DEF PaletteInv, ColoursInv
    <2>4. QED
      BY <2>2, <2>3 DEF applyPalette, ModeFits
  <1>4. QED
    BY <1>1, <1>2, <1>3, PTL DEF Spec

-----------------------------------------------------------------------------
(* Stations.                                                               *)

Steps     == {"notify", "telemetry", "bridge", "mirror", "observe"}
Listeners == {"telemetry", "bridge"}
Calls ==
  [at : {"idle"}, signal : {"none"}, value : Int, list : SUBSET Listeners]
    \cup [at : Steps, signal : Signals, value : Int, list : SUBSET Listeners]
Levels == LevelMin .. LevelMax

StationTypes ==
  /\ primary \in [Signals -> Levels] /\ mirror \in [Signals -> Int] /\ shown \in [Signals -> Int]
  /\ published \in [Signals -> Int] /\ callbacks \subseteq Listeners
  /\ writer \in [Writers -> Calls] /\ undisturbed \subseteq Signals

\* Every call for an undisturbed signal carries the primary's value and leaves
\* it behind at every listener it has passed.
OnItsWay(call, s) ==
  /\ call.at \in {"telemetry", "bridge", "mirror", "observe"} =>
        call.list = Listeners /\ call.value = primary[s]
  /\ call.at \in {"bridge", "mirror", "observe"} => published[s] = primary[s]
  /\ call.at = "observe" => mirror[s] = primary[s]

\* What a call delivers never takes the primary's value away from a listener.
DoesNoHarm(s) ==
  /\ mirror[s] = primary[s] => mirror'[s] = primary[s]
  /\ published[s] = primary[s] => published'[s] = primary[s]

Settled(s) == mirror[s] = primary[s] /\ shown[s] = primary[s] /\ published[s] = primary[s]

SignalInv ==
  \A s \in undisturbed :
    /\ bridgeRunning /\ callbacks = Listeners
    /\ \A t \in Writers : writer[t].signal = s => OnItsWay(writer[t], s)
    /\ (\A t \in Writers : writer[t].signal # s) => Settled(s)

StationsInv == StationTypes /\ SignalInv

\* A call that moves on for its own signal keeps every undisturbed signal in order.
LEMMA CallMoves ==
  ASSUME StationsInv, NEW t \in Writers, NEW call \in Calls, writer' = [writer EXCEPT ![t] = call],
         NEW sig \in Signals, writer[t].signal = sig, call.signal \in {sig, "none"},
         UNCHANGED <<primary, callbacks, bridgeRunning, undisturbed>>,
         mirror' \in [Signals -> Int], shown' \in [Signals -> Int], published' \in [Signals -> Int],
         \A s \in Signals \ {sig} :
            mirror'[s] = mirror[s] /\ shown'[s] = shown[s] /\ published'[s] = published[s],
         OnItsWay(writer[t], sig) /\ bridgeRunning /\ callbacks = Listeners =>
            DoesNoHarm(sig) /\ IF call.signal = "none" THEN Settled(sig)' ELSE OnItsWay(call, sig)'
  PROVE  StationsInv'
  <1>1. StationTypes /\ SignalInv
    BY DEF StationsInv
  <1>2. writer' \in [Writers -> Calls] /\ writer'[t] = call
        /\ \A u \in Writers \ {t} : writer'[u] = writer[u]
    BY <1>1 DEF StationTypes
  <1>3. StationTypes'
    BY <1>1, <1>2 DEF StationTypes
  <1>4. "none" \notin Signals
    BY StationsAssumption
  <1>5. SUFFICES ASSUME NEW s \in undisturbed
                 PROVE  /\ \A u \in Writers : writer'[u].signal = s => OnItsWay(writer[u], s)'
                        /\ (\A u \in Writers : writer'[u].signal # s) => Settled(s)'
    BY <1>1, <1>3 DEF StationsInv, SignalInv
  <1>6. /\ s \in Signals /\ bridgeRunning /\ callbacks = Listeners
        /\ \A u \in Writers : writer[u].signal = s => OnItsWay(writer[u], s)
        /\ (\A u \in Writers : writer[u].signal # s) => Settled(s)
    BY <1>1 DEF SignalInv, StationTypes
  <1>7. \A u \in Writers : writer'[u].signal = s => writer[u].signal = s
    BY <1>2, <1>4, <1>6
  <1>8. CASE writer[t].signal = s
    <2>a. DoesNoHarm(s)
      BY <1>6, <1>8
    <2>1. ASSUME NEW u \in Writers \ {t}, writer'[u].signal = s PROVE OnItsWay(writer[u], s)'
      <3>1. writer'[u] = writer[u] /\ OnItsWay(writer[u], s)
        BY <1>2, <1>6, <2>1
      <3>2. QED
        BY <2>a, <3>1 DEF OnItsWay, DoesNoHarm
    <2>2. IF call.signal = "none" THEN Settled(s)' ELSE OnItsWay(call, s)'
      BY <1>6, <1>8
    <2>3. call.signal = s \/ call.signal = "none"
      BY <1>8
    <2>4. CASE call.signal = "none"
      BY <1>2, <1>4, <1>6, <2>1, <2>2, <2>4
    <2>5. CASE call.signal = s
      <3>1. OnItsWay(call, s)'
        BY <1>4, <1>6, <2>2, <2>5
      <3>2. OnItsWay(writer[t], s)'
        BY <1>2, <3>1
      <3>3. QED
        BY <1>2, <2>1, <2>5, <3>2
    <2>6. QED
      BY <2>3, <2>4, <2>5
  <1>9. CASE writer[t].signal # s
    <2>1. mirror'[s] = mirror[s] /\ shown'[s] = shown[s] /\ published'[s] = published[s]
      BY <1>6, <1>9
    <2>2. ASSUME NEW u \in Writers, writer'[u].signal = s PROVE OnItsWay(writer[u], s)'
      <3>1. u # t /\ writer[u].signal = s
        BY <1>7, <1>9, <2>2
      <3>2. writer'[u] = writer[u] /\ OnItsWay(writer[u], s)
        BY <1>2, <1>6, <3>1
      <3>3. QED
        BY <2>1, <3>2 DEF OnItsWay
    <2>3. ASSUME \A u \in Writers : writer'[u].signal # s PROVE Settled(s)'
      <3>1. \A u \in Writers : writer[u].signal # s
        BY <1>2, <1>9, <2>3
      <3>2. QED
        BY <1>6, <2>1, <3>1 DEF Settled
    <2>4. QED
      BY <2>2, <2>3
  <1>10. QED
    BY <1>8, <1>9

LEMMA StationsInitInv == StationsInit => StationsInv
  <1> SUFFICES ASSUME StationsInit PROVE StationsInv
    OBVIOUS
  <1>1. Idle \in Calls /\ LevelMax \in Levels /\ LevelMax \in Int
    BY DEF Idle, Calls, Levels, LevelMin, LevelMax
  <1>2. StationTypes
    BY <1>1 DEF StationsInit, StationTypes, Listeners
  <1>3. SignalInv
    BY DEF StationsInit, SignalInv
  <1>4. QED
    BY <1>2, <1>3 DEF StationsInv

\* A call that begins, with a write or without one.  It is in order when it
\* starts alone, or when the signal was undisturbed and it writes nothing.
LEMMA BeginStep ==
  ASSUME StationsInv, NEW t \in Writers, NEW s \in Signals, writer[t].at = "idle", Begins(t, s),
         primary' \in [Signals -> Levels], \A z \in Signals \ {s} : primary'[z] = primary[z],
         UNCHANGED <<mirror, shown, published, callbacks, bridgeRunning>>,
         undisturbed' \subseteq undisturbed \cup {s},
         s \in undisturbed' => Alone(s) \/ (s \in undisturbed /\ primary' = primary)
  PROVE  StationsInv'
  <1> DEFINE call == [Idle EXCEPT !.at = "notify", !.signal = s]
  <1>1. StationTypes /\ SignalInv /\ "none" \notin Signals
    BY StationsAssumption DEF StationsInv
  <1>2. writer' = [writer EXCEPT ![t] = call]
    BY DEF Begins
  <1>3. call \in Calls /\ call.at = "notify" /\ call.signal = s
    <2>1. Idle \in [at : {"idle"}, signal : {"none"}, value : Int, list : SUBSET Listeners]
      BY DEF Idle
    <2>2. QED
      BY <2>1 DEF Calls, Steps
  <1> HIDE DEF call
  <1>4. /\ writer' \in [Writers -> Calls] /\ writer'[t] = call
        /\ \A u \in Writers \ {t} : writer'[u] = writer[u]
    BY <1>1, <1>2, <1>3 DEF StationTypes
  <1>5. writer[t].signal = "none"
    BY <1>1 DEF StationTypes, Calls, Steps
  <1>6. StationTypes'
    BY <1>1, <1>4 DEF StationTypes
  <1>7. SUFFICES ASSUME NEW z \in undisturbed'
                 PROVE  /\ bridgeRunning' /\ callbacks' = Listeners
                        /\ \A u \in Writers : writer'[u].signal = z => OnItsWay(writer[u], z)'
                        /\ (\A u \in Writers : writer'[u].signal # z) => Settled(z)'
    BY <1>6 DEF StationsInv, SignalInv
  <1>8. OnItsWay(writer[t], s)' /\ writer'[t].signal = s
    BY <1>3, <1>4 DEF OnItsWay
  <1>9. CASE z = s /\ Alone(s)
    <2>1. bridgeRunning /\ callbacks = Listeners /\ \A u \in Writers : writer[u].signal # s
      BY <1>9 DEF Alone, Listeners
    <2>2. \A u \in Writers \ {t} : writer'[u].signal # s
      BY <1>4, <2>1
    <2>3. QED
      BY <1>8, <1>9, <2>1, <2>2
  <1>10. CASE ~(z = s /\ Alone(s))
    <2>1. z \in undisturbed /\ z \in Signals
      BY <1>1, <1>10 DEF StationTypes
    <2>2. /\ bridgeRunning /\ callbacks = Listeners
          /\ \A u \in Writers : writer[u].signal = z => OnItsWay(writer[u], z)
          /\ (\A u \in Writers : writer[u].signal # z) => Settled(z)
      BY <1>1, <2>1 DEF SignalInv
    <2>3. primary'[z] = primary[z]
      BY <1>10, <2>1
    <2>4. ASSUME NEW u \in Writers, writer'[u].signal = z PROVE OnItsWay(writer[u], z)'
      <3>1. CASE u = t
        <4>1. z = s
          BY <1>8, <2>4, <3>1
        <4>2. QED
          BY <1>8, <3>1, <4>1
      <3>2. CASE u # t
        <4>1. writer'[u] = writer[u] /\ OnItsWay(writer[u], z)
          BY <1>4, <2>2, <2>4, <3>2
        <4>2. QED
          BY <2>3, <4>1 DEF OnItsWay
      <3>3. QED
        BY <3>1, <3>2
    <2>5. ASSUME \A u \in Writers : writer'[u].signal # z PROVE Settled(z)'
      <3>1. \A u \in Writers : writer[u].signal # z
        BY <1>1, <1>4, <1>5, <2>1, <2>5
      <3>2. QED
        BY <2>2, <2>3, <3>1 DEF Settled
    <2>6. QED
      BY <2>2, <2>4, <2>5
  <1>11. QED
    BY <1>9, <1>10

LEMMA SetStep ==
  ASSUME StationsInv, NEW t \in Writers, NEW s \in Signals, NEW v \in Offered, SetPrimary(t, s, v)
  PROVE  StationsInv'
  <1>1. /\ primary' = [primary EXCEPT ![s] = Clamp(v)] /\ Begins(t, s)
        /\ undisturbed' = (IF Alone(s) THEN undisturbed \cup {s} ELSE undisturbed \ {s})
        /\ UNCHANGED <<mirror, shown, published, callbacks, bridgeRunning>> /\ writer[t].at = "idle"
    BY DEF SetPrimary, At
  <1>2. Clamp(v) \in Levels /\ primary \in [Signals -> Levels]
    BY DEF Clamp, Offered, Levels, LevelMin, LevelMax, StationsInv, StationTypes
  <1>3. primary' \in [Signals -> Levels] /\ \A z \in Signals \ {s} : primary'[z] = primary[z]
    BY <1>1, <1>2
  <1>4. undisturbed' \subseteq undisturbed \cup {s} /\ (s \in undisturbed' => Alone(s))
    BY <1>1
  <1>5. QED
    BY <1>1, <1>3, <1>4, BeginStep

LEMMA AgainStep ==
  ASSUME StationsInv, NEW t \in Writers, NEW s \in Signals, NotifyAgain(t, s)
  PROVE  StationsInv'
  <1>1. /\ Begins(t, s) /\ undisturbed' = (IF Alone(s) THEN undisturbed \cup {s} ELSE undisturbed)
        /\ UNCHANGED <<primary, mirror, shown, published, callbacks, bridgeRunning>>
        /\ writer[t].at = "idle"
    BY DEF NotifyAgain, At
  <1>2. primary' \in [Signals -> Levels] /\ \A z \in Signals \ {s} : primary'[z] = primary[z]
    BY <1>1 DEF StationsInv, StationTypes
  <1>3. /\ undisturbed' \subseteq undisturbed \cup {s}
        /\ s \in undisturbed' => Alone(s) \/ (s \in undisturbed /\ primary' = primary)
    BY <1>1
  <1>4. QED
    BY <1>1, <1>2, <1>3, BeginStep

\* The steps of a call, from the copy of the value to the mirror's observers.
LEMMA CallSteps ==
  ASSUME StationsInv, NEW t \in Writers,
         Notify(t) \/ publishEquipment(t) \/ onMasterEvent(t) \/ ForwardToMirror(t) \/ MirrorObservers(t)
  PROVE  StationsInv'
  <1>1. StationTypes /\ SignalInv /\ "none" \notin Signals
    BY StationsAssumption DEF StationsInv
  <1>2. writer[t] \in Calls /\ writer[t].at \in Steps
    BY <1>1 DEF StationTypes, Notify, publishEquipment, onMasterEvent, ForwardToMirror, MirrorObservers,
       At, Steps
  <1>3. PICK sig \in Signals : writer[t].signal = sig
    BY <1>2 DEF Calls, Steps
  <1>4. /\ writer[t].value \in Int /\ writer[t].list \subseteq Listeners
        /\ primary[sig] \in Levels /\ primary[sig] \in Int /\ callbacks \subseteq Listeners
        /\ mirror \in [Signals -> Int] /\ shown \in [Signals -> Int] /\ published \in [Signals -> Int]
        /\ writer \in [Writers -> Calls]
    BY <1>1, <1>2 DEF StationTypes, Calls, Levels, LevelMin, LevelMax
  <1>5. Idle \in Calls /\ Idle.signal = "none"
    BY DEF Idle, Calls
  <1>6. CASE Notify(t)
    <2> DEFINE next == [writer[t] EXCEPT !.at = "telemetry", !.list = callbacks, !.value = primary[sig]]
    <2>a. /\ next \in Calls /\ next.at = "telemetry" /\ next.signal = sig /\ next.list = callbacks
          /\ next.value = primary[sig]
      BY <1>2, <1>3, <1>4 DEF Calls, Steps
    <2>1. PICK call \in Calls :
             /\ call = next /\ call.at = "telemetry" /\ call.signal = sig /\ call.list = callbacks
             /\ call.value = primary[sig]
      BY <2>a
    <2>2. writer' = [writer EXCEPT ![t] = call]
      BY <1>3, <1>4, <1>6, <2>1 DEF Notify
    <2>3. UNCHANGED <<primary, mirror, shown, published, callbacks, bridgeRunning, undisturbed>>
      BY <1>6 DEF Notify
    <2> HIDE DEF next
    <2>4. DoesNoHarm(sig) /\ (callbacks = Listeners => OnItsWay(call, sig)')
      BY <2>1, <2>3 DEF OnItsWay, DoesNoHarm
    <2>5. QED
      BY <1>1, <1>3, <1>4, <2>1, <2>2, <2>3, <2>4, CallMoves
  <1>7. CASE publishEquipment(t)
    <2> DEFINE next == [writer[t] EXCEPT !.at = "bridge"]
    <2>a. /\ next \in Calls /\ next.at = "bridge" /\ next.signal = sig /\ next.list = writer[t].list
          /\ next.value = writer[t].value
      BY <1>2, <1>3, <1>4 DEF Calls, Steps
    <2>1. PICK call \in Calls :
             /\ call = next /\ call.at = "bridge" /\ call.signal = sig /\ call.list = writer[t].list
             /\ call.value = writer[t].value
      BY <2>a
    <2>2. writer' = [writer EXCEPT ![t] = call]
      BY <1>4, <1>7, <2>1 DEF publishEquipment, Goto
    <2>3. /\ UNCHANGED <<primary, mirror, shown, callbacks, bridgeRunning, undisturbed>>
          /\ writer[t].at = "telemetry"
          /\ published' = IF "telemetry" \in writer[t].list
                          THEN [published EXCEPT ![sig] = writer[t].value] ELSE published
      BY <1>3, <1>7 DEF publishEquipment, At
    <2>4. published' \in [Signals -> Int] /\ \A s \in Signals \ {sig} : published'[s] = published[s]
      BY <1>4, <2>3
    <2> HIDE DEF next
    <2>5. OnItsWay(writer[t], sig) => DoesNoHarm(sig) /\ OnItsWay(call, sig)'
      <3> SUFFICES ASSUME OnItsWay(writer[t], sig) PROVE DoesNoHarm(sig) /\ OnItsWay(call, sig)'
        OBVIOUS
      <3>1. writer[t].list = Listeners /\ writer[t].value = primary[sig]
        BY <2>3 DEF OnItsWay
      <3>2. published'[sig] = primary[sig]
        BY <1>4, <2>3, <3>1 DEF Listeners
      <3>3. QED
        BY <2>1, <2>3, <3>1, <3>2 DEF OnItsWay, DoesNoHarm
    <2>6. QED
      BY <1>1, <1>3, <1>4, <2>1, <2>2, <2>3, <2>4, <2>5, CallMoves
  <1>8. CASE onMasterEvent(t)
    <2>1. /\ UNCHANGED <<primary, mirror, shown, published, callbacks, bridgeRunning, undisturbed>>
          /\ writer[t].at = "bridge"
      BY <1>8 DEF onMasterEvent, At
    <2>2. CASE "bridge" \in writer[t].list /\ bridgeRunning
      <3> DEFINE next == [writer[t] EXCEPT !.at = "mirror"]
      <3>a. /\ next \in Calls /\ next.at = "mirror" /\ next.signal = sig /\ next.list = writer[t].list
            /\ next.value = writer[t].value
        BY <1>2, <1>3, <1>4 DEF Calls, Steps
      <3>1. PICK call \in Calls :
               /\ call = next /\ call.at = "mirror" /\ call.signal = sig /\ call.list = writer[t].list
            /\ call.value = writer[t].value
        BY <3>a
      <3>2. writer' = [writer EXCEPT ![t] = call]
        BY <1>4, <1>8, <2>2, <3>1 DEF onMasterEvent, Goto
      <3> HIDE DEF next
      <3>3. OnItsWay(writer[t], sig) => DoesNoHarm(sig) /\ OnItsWay(call, sig)'
        BY <2>1, <3>1 DEF OnItsWay, DoesNoHarm
      <3>4. QED
        BY <1>1, <1>3, <1>4, <2>1, <3>1, <3>2, <3>3, CallMoves
    <2>3. CASE ~("bridge" \in writer[t].list /\ bridgeRunning)
      <3>1. writer' = [writer EXCEPT ![t] = Idle]
        BY <1>8, <2>3 DEF onMasterEvent, Finished
      <3>2. ~(OnItsWay(writer[t], sig) /\ bridgeRunning)
        BY <2>1, <2>3 DEF OnItsWay, Listeners
      <3>3. QED
        BY <1>1, <1>3, <1>4, <1>5, <2>1, <3>1, <3>2, CallMoves
    <2>4. QED
      BY <2>2, <2>3
  <1>9. CASE ForwardToMirror(t)
    <2>1. /\ UNCHANGED <<primary, shown, published, callbacks, bridgeRunning, undisturbed>>
          /\ writer[t].at = "mirror" /\ mirror' = [mirror EXCEPT ![sig] = Clamp(writer[t].value)]
          /\ writer' = [writer EXCEPT ![t].at = "observe", ![t].value = mirror'[sig]]
      BY <1>3, <1>9 DEF ForwardToMirror, MirrorSetter, At
    <2>2. Clamp(writer[t].value) \in Int /\ (writer[t].value \in Levels => Clamp(writer[t].value) = writer[t].value)
      BY <1>4 DEF Clamp, Levels, LevelMin, LevelMax
    <2>3. /\ mirror' \in [Signals -> Int] /\ mirror'[sig] = Clamp(writer[t].value)
          /\ \A s \in Signals \ {sig} : mirror'[s] = mirror[s]
      BY <1>4, <2>1, <2>2
    <2> DEFINE next == [writer[t] EXCEPT !.at = "observe", !.value = Clamp(writer[t].value)]
    <2>a. /\ next \in Calls /\ next.at = "observe" /\ next.signal = sig /\ next.list = writer[t].list
          /\ next.value = Clamp(writer[t].value)
      BY <1>2, <1>3, <1>4, <2>2 DEF Calls, Steps
    <2>4. PICK call \in Calls :
             /\ call = next /\ call.at = "observe" /\ call.signal = sig /\ call.list = writer[t].list
             /\ call.value = Clamp(writer[t].value)
      BY <2>a
    <2>5. writer' = [writer EXCEPT ![t] = call]
      BY <1>4, <2>1, <2>3, <2>4
    <2> HIDE DEF next
    <2>6. OnItsWay(writer[t], sig) => DoesNoHarm(sig) /\ OnItsWay(call, sig)'
      <3> SUFFICES ASSUME OnItsWay(writer[t], sig) PROVE DoesNoHarm(sig) /\ OnItsWay(call, sig)'
        OBVIOUS
      <3>1. /\ writer[t].list = Listeners /\ writer[t].value = primary[sig]
            /\ published[sig] = primary[sig]
        BY <2>1 DEF OnItsWay
      <3>2. Clamp(writer[t].value) = primary[sig]
        BY <1>4, <2>2, <3>1
      <3>3. QED
        BY <2>1, <2>3, <2>4, <3>1, <3>2 DEF OnItsWay, DoesNoHarm
    <2>7. UNCHANGED <<primary, shown, published, callbacks, bridgeRunning, undisturbed>>
      BY <2>1
    <2>8. /\ call.signal \in {sig, "none"} /\ call.signal # "none" /\ mirror' \in [Signals -> Int]
          /\ shown' \in [Signals -> Int] /\ published' \in [Signals -> Int]
          /\ \A s \in Signals \ {sig} :
                mirror'[s] = mirror[s] /\ shown'[s] = shown[s] /\ published'[s] = published[s]
      BY <1>1, <1>4, <2>3, <2>4, <2>7
    <2>9. QED
      BY <1>3, <2>5, <2>6, <2>7, <2>8, CallMoves
  <1>10. CASE MirrorObservers(t)
    <2>1. /\ UNCHANGED <<primary, mirror, published, callbacks, bridgeRunning, undisturbed>>
          /\ writer[t].at = "observe" /\ shown' = [shown EXCEPT ![sig] = writer[t].value]
          /\ writer' = [writer EXCEPT ![t] = Idle]
      BY <1>3, <1>10 DEF MirrorObservers, Finished, At
    <2>2. /\ shown' \in [Signals -> Int] /\ shown'[sig] = writer[t].value
          /\ \A s \in Signals \ {sig} : shown'[s] = shown[s]
      BY <1>4, <2>1
    <2>3. OnItsWay(writer[t], sig) => DoesNoHarm(sig) /\ Settled(sig)'
      BY <2>1, <2>2 DEF OnItsWay, Settled, DoesNoHarm
    <2>4. QED
      BY <1>1, <1>3, <1>4, <1>5, <2>1, <2>2, <2>3, CallMoves
  <1>11. QED
    BY <1>6, <1>7, <1>8, <1>9, <1>10

LEMMA StationsStep ==
  ASSUME StationsInv, StationsNext \/ UNCHANGED stationVars
  PROVE  StationsInv'
  <1>1. StationTypes /\ SignalInv
    BY DEF StationsInv
  <1>2. CASE dropCallbacks
    <2>1. StationTypes' /\ undisturbed' = {}
      BY <1>1, <1>2 DEF dropCallbacks, StationTypes
    <2>2. QED
      BY <2>1 DEF StationsInv, SignalInv
  <1>3. CASE bridgeStop
    <2>1. StationTypes' /\ undisturbed' = {}
      BY <1>1, <1>3 DEF bridgeStop, StationTypes
    <2>2. QED
      BY <2>1 DEF StationsInv, SignalInv
  <1>4. CASE bridgeStart
    <2>1. undisturbed = {}
      BY <1>1, <1>4 DEF bridgeStart, SignalInv
    <2>2. StationTypes' /\ undisturbed' = {}
      BY <1>1, <1>4, <2>1 DEF bridgeStart, StationTypes, Listeners
    <2>3. QED
      BY <2>2 DEF StationsInv, SignalInv
  <1>5. CASE (\E s \in States : publishSystemStateChange(s)) \/ UNCHANGED stationVars
    <2>1. UNCHANGED <<primary, mirror, shown, published, callbacks, bridgeRunning, writer, undisturbed>>
      BY <1>5 DEF publishSystemStateChange, stationVars, mirrorVars, bridgeVars
    <2>2. QED
      BY <1>1, <2>1 DEF StationsInv, StationTypes, SignalInv, OnItsWay, Settled
  <1>6. QED
    BY <1>2, <1>3, <1>4, <1>5, SetStep, AgainStep, CallSteps DEF StationsNext

\* After a call for a signal that started alone, writing or only notifying, and
\* until a write overlaps another call, the bridge is stopped or the window is
\* rebuilt, the broker, the mirror and its observers have the primary's value when
\* no call is under way, however many notifications overlapped: for any number of
\* threads and signals.
THEOREM StationsAgree == Spec => []StationsAgreeWhenQuiet
  <1>1. Init => StationsInv
    BY StationsInitInv DEF Init
  <1>2. StationsInv /\ [Next]_workbenchVars => StationsInv'
    BY StationsStep, PartSteps
  <1>3. StationsInv => StationsAgreeWhenQuiet
    BY DEF StationsInv, SignalInv, Settled, StationsAgreeWhenQuiet
  <1>4. QED
    BY <1>1, <1>2, <1>3, PTL DEF Spec

-----------------------------------------------------------------------------
(* Products: the types, and the recipe's transaction.                      *)

Tables    == [RowIds -> [code : Codes \cup {"none"}, name : Texts \cup {"none"}, deleted : BOOLEAN]]
Views     == {ViewOf(table, q) : table \in Tables, q \in Queries}
IoResults == [kind : {"result"}, page : Nat, nr : Nat, ok : BOOLEAN, reloads : BOOLEAN]
PageIdles == [kind : {"list"}, page : Nat, view : Views] \cup [kind : {"detail"}, page : Nat] \cup IoResults
IoOps     == [kind : {"add"}, code : Codes, name : Texts, nr : Nat, page : Nat]
               \cup [kind : {"update"}, id : RowIds, name : Texts, nr : Nat, page : Nat]
               \cup [kind : {"delete"}, id : RowIds, nr : Nat, page : Nat]
               \cup [kind : {"export"}, nr : Nat, page : Nat]
Forms     == {NoForm} \cup [kind : {"add"}, id : {0}] \cup [kind : {"update", "delete", "recipe"}, id : RowIds]
Recipes   == [head : Nat, targets : Int]
RecipeSaves == [kind : {"head", "delete", "insert", "end"}, ok : BOOLEAN, version : Nat]
OpenTxs   == [on : {TRUE}, rows : Tables, recipe : Recipes]

ProductTypes ==
  /\ rows \in Tables /\ filter \in Queries /\ entry \in Queries /\ form \in Forms
  /\ idles \in Seq(PageIdles) /\ queue \in Seq(IoOps) /\ executing \in IoResults \cup {NoResult}
  /\ pageNo \in Nat /\ answers \in Seq(Nat)

\* A save has its BEGIN and remembers a whole recipe; its statements bring the
\* head row and the targets to one version, in this order.
TransactionInv ==
  /\ recipe \in Recipes
  /\ \/ saving = NoResult /\ tx = NoTx /\ recipe.head = recipe.targets
     \/ /\ saving \in RecipeSaves /\ tx \in OpenTxs /\ tx.recipe.head = tx.recipe.targets
        /\ saving.kind \in {"delete", "insert"} => recipe.head = saving.version
        /\ saving.kind = "end" /\ saving.ok => recipe.head = recipe.targets

\* What is appended to a queue, and what is left of it.
LEMMA Appended ==
  ASSUME NEW S, NEW s \in Seq(S), NEW e \in S
  PROVE  /\ Append(s, e) \in Seq(S) /\ Len(s) \in Nat /\ Len(Append(s, e)) = Len(s) + 1
         /\ Append(s, e)[Len(s) + 1] = e /\ \A i \in 1 .. Len(s) : Append(s, e)[i] = s[i]
  OBVIOUS

LEMMA Taken ==
  ASSUME NEW S, NEW s \in Seq(S), s # <<>>
  PROVE  /\ Head(s) \in S /\ Tail(s) \in Seq(S) /\ Len(s) \in Nat \ {0} /\ Len(Tail(s)) = Len(s) - 1
         /\ Head(s) = s[1] /\ \A i \in 1 .. Len(Tail(s)) : Tail(s)[i] = s[i + 1]
  OBVIOUS

LEMMA ListIdleType ==
  ASSUME rows \in Tables, NEW q \in Queries, NEW p \in Nat
  PROVE  /\ ListIdle(q, p) \in PageIdles /\ ListIdle(q, p).kind = "list" /\ ListIdle(q, p).page = p
         /\ ListIdle(q, p).view = ViewOf(rows, q)
  <1>1. ViewOf(rows, q) \in Views
    BY DEF Views
  <1>2. QED
    BY <1>1 DEF ListIdle, PageIdles

\* An operation, if the queue takes it, with the next number.
PostedOk ==
  \/ UNCHANGED <<queue, answers>>
  \/ /\ answers' = Append(answers, 0)
     /\ \E op \in IoOps : op.nr = NextNr /\ queue' = Append(queue, op)

LEMMA PostStep ==
  ASSUME ProductTypes, SubmitForm \/ onExportCsvClicked
  PROVE  PostedOk
  <1>1. NextNr \in Nat /\ pageNo \in Nat /\ form \in Forms
    BY DEF ProductTypes, NextNr
  <1>2. ASSUME NEW op \in IoOps, op.nr = NextNr, Post(op) PROVE PostedOk
    <2>1. CASE pendingOps >= kMaxPendingOperations
      BY <1>2, <2>1 DEF Post, PostedOk
    <2>2. CASE ~(pendingOps >= kMaxPendingOperations)
      BY <1>2, <2>2 DEF Post, PostedOk
    <2>3. QED
      BY <2>1, <2>2
  <1>3. CASE SubmitForm /\ submitAdd
    <2>1. PICK c \in Codes, n \in Texts :
             Post([kind |-> "add", code |-> c, name |-> n, nr |-> NextNr, page |-> pageNo])
      BY <1>3 DEF submitAdd
    <2> DEFINE op == [kind |-> "add", code |-> c, name |-> n, nr |-> NextNr, page |-> pageNo]
    <2>2. op \in IoOps /\ op.nr = NextNr
      BY <1>1 DEF IoOps
    <2>3. QED
      BY <1>2, <2>1, <2>2
  <1>4. CASE SubmitForm /\ submitEdit
    <2>1. form.kind = "update"
      BY <1>4 DEF submitEdit
    <2>2. form.id \in RowIds
      BY <1>1, <2>1 DEF Forms, NoForm
    <2>3. PICK n \in Texts :
             Post([kind |-> "update", id |-> form.id, name |-> n, nr |-> NextNr, page |-> pageNo])
      BY <1>4 DEF submitEdit
    <2> DEFINE op == [kind |-> "update", id |-> form.id, name |-> n, nr |-> NextNr, page |-> pageNo]
    <2>4. op \in IoOps /\ op.nr = NextNr
      BY <1>1, <2>2 DEF IoOps
    <2>5. QED
      BY <1>2, <2>3, <2>4
  <1>5. CASE SubmitForm /\ submitDelete
    <2>1. form.kind = "delete"
      BY <1>5 DEF submitDelete
    <2>2. form.id \in RowIds
      BY <1>1, <2>1 DEF Forms, NoForm
    <2> DEFINE op == [kind |-> "delete", id |-> form.id, nr |-> NextNr, page |-> pageNo]
    <2>3. Post(op)
      BY <1>5 DEF submitDelete
    <2>4. op \in IoOps /\ op.nr = NextNr
      BY <1>1, <2>2 DEF IoOps
    <2>5. QED
      BY <1>2, <2>3, <2>4
  <1>6. CASE onExportCsvClicked
    <2> DEFINE op == [kind |-> "export", nr |-> NextNr, page |-> pageNo]
    <2>1. Post(op)
      BY <1>6 DEF onExportCsvClicked
    <2>2. op \in IoOps /\ op.nr = NextNr
      BY <1>1 DEF IoOps
    <2>3. QED
      BY <1>2, <2>1, <2>2
  <1>7. QED
    BY <1>3, <1>4, <1>5, <1>6 DEF SubmitForm

\* The statement of an operation; rows that change are a success that reloads.
LEMMA ExecuteStep ==
  ASSUME ProductTypes, IoExecute
  PROVE  /\ rows' \in Tables /\ executing' \in IoResults /\ executing'.nr = Head(queue).nr
         /\ rows' # rows => executing'.ok /\ executing'.reloads
  <1>1. Head(queue) \in IoOps /\ rows \in Tables
    BY DEF ProductTypes, IoExecute
  <1> DEFINE op == Head(queue)
  <1>2. /\ Execute(op)
        /\ executing' = [kind |-> "result", page |-> op.page, nr |-> op.nr,
                         ok |-> op.kind # "add" \/ rows' # rows, reloads |-> op.kind # "export"]
    BY DEF IoExecute
  <1> HIDE DEF op
  <1>3. op \in IoOps
    BY <1>1 DEF op
  <1>4. op.kind \in {"add", "update", "delete", "export"} /\ op.nr \in Nat /\ op.page \in Nat
    BY <1>3 DEF IoOps
  <1>5. rows' \in Tables /\ (op.kind = "export" => rows' = rows)
    <2>1. CASE op.kind = "add"
      <3>1. addProduct(op) /\ op.code \in Codes /\ op.name \in Texts
        BY <1>2, <1>3, <2>1 DEF Execute, IoOps
      <3>2. rows' = rows \/ \E c : rows' = [rows EXCEPT ![c] = [code |-> op.code, name |-> op.name, deleted |-> FALSE]]
        BY <3>1 DEF addProduct
      <3>3. CASE rows' = rows
        BY <1>1, <2>1, <3>3
      <3>4. ASSUME NEW c, rows' = [rows EXCEPT ![c] = [code |-> op.code, name |-> op.name, deleted |-> FALSE]]
            PROVE  rows' \in Tables
        BY <1>1, <3>1, <3>4 DEF Tables
      <3>5. QED
        BY <2>1, <3>2, <3>3, <3>4
    <2>2. CASE op.kind = "update"
      <3>1. updateProduct(op) /\ op.name \in Texts /\ op.id \in RowIds
        BY <1>2, <1>3, <2>2 DEF Execute, IoOps
      <3>2. QED
        BY <1>1, <2>2, <3>1 DEF updateProduct, Tables
    <2>3. CASE op.kind = "delete"
      <3>1. deleteProduct(op) /\ op.id \in RowIds
        BY <1>2, <1>3, <2>3 DEF Execute, IoOps
      <3>2. QED
        BY <1>1, <2>3, <3>1 DEF deleteProduct, Tables
    <2>4. CASE op.kind = "export"
      BY <1>1, <1>2, <2>4 DEF Execute
    <2>5. QED
      BY <1>4, <2>1, <2>2, <2>3, <2>4
  <1>6. executing' \in IoResults /\ executing'.nr = op.nr
    BY <1>2, <1>4 DEF IoResults
  <1>7. rows' # rows => executing'.ok /\ executing'.reloads
    BY <1>2, <1>5
  <1>8. QED
    BY <1>5, <1>6, <1>7 DEF op

LEMMA ProductTypesInit == ProductsInit => ProductTypes /\ TransactionInv
  <1> SUFFICES ASSUME ProductsInit PROVE ProductTypes /\ TransactionInv
    OBVIOUS
  <1>1. rows \in Tables
    BY DEF ProductsInit, Tables, NoProduct, Codes, Texts
  <1>2. ListIdle(NoText, 1) \in PageIdles
    BY <1>1, ListIdleType DEF Queries
  <1>3. idles = <<ListIdle(NoText, 1)>>
    BY DEF ProductsInit, ListIdle
  <1>4. idles \in Seq(PageIdles)
    BY <1>2, <1>3
  <1>5. ProductTypes
    BY <1>1, <1>4 DEF ProductsInit, ProductTypes, Queries, Forms
  <1>6. TransactionInv
    BY DEF ProductsInit, TransactionInv, Recipes
  <1>7. QED
    BY <1>5, <1>6

\* The callback at the head of the queue.
LEMMA RunIdleTypes ==
  ASSUME ProductTypes, RunIdle
  PROVE  idles' \in Seq(PageIdles) /\ filter' \in Queries /\ answers' \in Seq(Nat)
  <1>1. /\ rows \in Tables /\ filter \in Queries /\ idles \in Seq(PageIdles) /\ pageNo \in Nat
        /\ answers \in Seq(Nat)
    BY DEF ProductTypes
  <1>2. idles # <<>> /\ Head(idles) \in PageIdles /\ Tail(idles) \in Seq(PageIdles)
    BY <1>1 DEF RunIdle
  <1>3. \/ idles' = Tail(idles) /\ filter' = filter
        \/ filter' = NoText /\ idles' = Append(Tail(idles), ListIdle(NoText, pageNo))
    BY DEF RunIdle, ResultArrives, LoadInto
  <1>4. ListIdle(NoText, pageNo) \in PageIdles
    BY <1>1, ListIdleType DEF Queries
  <1>5. answers' = answers \/ answers' = [answers EXCEPT ![Head(idles).nr] = answers[Head(idles).nr] + 1]
    BY DEF RunIdle
  <1>6. answers' \in Seq(Nat)
    BY <1>1, <1>5
  <1>7. idles' \in Seq(PageIdles)
    BY <1>2, <1>3, <1>4
  <1>8. filter' \in Queries
    BY <1>1, <1>3 DEF Queries
  <1>9. QED
    BY <1>6, <1>7, <1>8

LEMMA ProductTypesStep ==
  ASSUME ProductTypes, TransactionInv, ProductsNext \/ UNCHANGED productVars
  PROVE  ProductTypes'
  <1>1. /\ rows \in Tables /\ filter \in Queries /\ entry \in Queries /\ form \in Forms
        /\ idles \in Seq(PageIdles) /\ queue \in Seq(IoOps) /\ executing \in IoResults \cup {NoResult}
        /\ pageNo \in Nat /\ answers \in Seq(Nat) /\ NoText \in Queries
    BY DEF ProductTypes, Queries
  <1>2. \A q \in Queries, p \in Nat : ListIdle(q, p) \in PageIdles
    BY <1>1, ListIdleType
  <1>3. CASE TypeSearch
    BY <1>1, <1>3 DEF TypeSearch, ProductTypes, dbVars, ioVars
  <1>4. CASE onSearchChanged
    <2>1. idles' \in Seq(PageIdles) /\ filter' \in Queries
      BY <1>1, <1>2, <1>4 DEF onSearchChanged
    <2>2. QED
      BY <1>1, <1>4, <2>1 DEF onSearchChanged, ProductTypes, dbVars, ioVars
  <1>5. CASE onRefreshClicked
    <2>1. idles' \in Seq(PageIdles) /\ filter' \in Queries /\ entry' \in Queries
      BY <1>1, <1>2, <1>5 DEF onRefreshClicked, LoadInto
    <2>2. QED
      BY <1>1, <1>5, <2>1 DEF onRefreshClicked, ProductTypes, dbVars, ioVars
  <1>6. CASE OpenForm
    <2>1. form' \in Forms
      BY <1>6 DEF OpenForm, Forms, Live
    <2>2. QED
      BY <1>1, <1>6, <2>1 DEF OpenForm, ProductTypes, dbVars, ioVars
  <1>7. CASE CancelForm
    BY <1>1, <1>7 DEF CancelForm, ProductTypes, dbVars, ioVars, Forms
  <1>8. CASE SubmitForm \/ onExportCsvClicked
    <2>1. PostedOk
      BY <1>8, PostStep
    <2>2. queue' \in Seq(IoOps) /\ answers' \in Seq(Nat)
      <3>1. CASE UNCHANGED <<queue, answers>>
        BY <1>1, <3>1
      <3>2. ASSUME NEW op \in IoOps, queue' = Append(queue, op), answers' = Append(answers, 0)
            PROVE  queue' \in Seq(IoOps) /\ answers' \in Seq(Nat)
        BY <1>1, <3>2
      <3>3. QED
        BY <2>1, <3>1, <3>2 DEF PostedOk
    <2>3. form' \in Forms /\ UNCHANGED <<rows, executing, idles, filter, entry, pageNo>>
      BY <1>1, <1>8 DEF SubmitForm, onExportCsvClicked, dbVars, viewVars, presenterVars, pageVars, Forms
    <2>4. QED
      BY <1>1, <2>2, <2>3 DEF ProductTypes
  <1>9. CASE viewProduct
    <2>1. [kind |-> "detail", page |-> pageNo] \in PageIdles
      BY <1>1 DEF PageIdles
    <2>2. idles' \in Seq(PageIdles)
      BY <1>1, <1>9, <2>1 DEF viewProduct
    <2>3. QED
      BY <1>1, <1>9, <2>2 DEF viewProduct, ProductTypes, dbVars, ioVars, viewVars, presenterVars, pageVars
  <1>10. CASE loadRecipe
    BY <1>1, <1>10 DEF loadRecipe, ProductTypes, dbVars, ioVars
  <1>11. CASE StopIo
    <2>1. queue' \in Seq(IoOps)
      BY <1>11 DEF StopIo
    <2>2. QED
      BY <1>1, <1>11, <2>1 DEF StopIo, ProductTypes, dbVars, ioVars, viewVars, presenterVars, pageVars
  <1>12. CASE RebuildPage
    <2> DEFINE e == ListIdle(NoText, pageNo + 1)
    <2>1. e \in PageIdles /\ pageNo + 1 \in Nat
      BY <1>1, <1>2
    <2>2. idles' = idles \o <<e, e>>
      BY <1>12 DEF RebuildPage
    <2> HIDE DEF e
    <2>3. idles' \in Seq(PageIdles)
      BY <1>1, <2>1, <2>2
    <2>4. QED
      BY <1>1, <1>12, <2>1, <2>3 DEF RebuildPage, ProductTypes, dbVars, ioVars, Forms
  <1>13. CASE SaveRecipe
    BY <1>1, <1>13 DEF SaveRecipe, recipeAccepted, ProductTypes, ioVars, Forms
  <1>14. CASE RecipeStatement
    BY <1>1, <1>14 DEF RecipeStatement, ProductTypes, ioVars, viewVars, presenterVars, pageVars
  <1>15. CASE RecipeEnd
    <2>1. saving # NoResult
      BY <1>15 DEF RecipeEnd, NoResult
    <2>2. tx.rows \in Tables
      BY <2>1 DEF TransactionInv, OpenTxs
    <2>3. rows' \in Tables
      BY <1>1, <1>15, <2>2 DEF RecipeEnd, EndOfTransaction
    <2>4. QED
      BY <1>1, <1>15, <2>3 DEF RecipeEnd, ProductTypes, ioVars, viewVars, presenterVars, pageVars
  <1>16. CASE IoExecute
    <2>1. rows' \in Tables /\ executing' \in IoResults
      BY <1>16, ExecuteStep
    <2>2. queue' \in Seq(IoOps)
      BY <1>1, <1>16 DEF IoExecute
    <2>3. QED
      BY <1>1, <1>16, <2>1, <2>2 DEF IoExecute, ProductTypes, viewVars, presenterVars, pageVars
  <1>17. CASE IoPost
    <2>1. executing \in PageIdles
      BY <1>1, <1>17 DEF IoPost, PageIdles
    <2>2. idles' \in Seq(PageIdles) /\ executing' = NoResult
      BY <1>1, <1>17, <2>1 DEF IoPost, IoHandOver
    <2>3. QED
      BY <1>1, <1>17, <2>2 DEF IoPost, ProductTypes, dbVars, viewVars, presenterVars, pageVars
  <1>18. CASE RunIdle
    <2>1. idles' \in Seq(PageIdles) /\ filter' \in Queries /\ answers' \in Seq(Nat)
      BY <1>18, RunIdleTypes
    <2>2. QED
      BY <1>1, <1>18, <2>1 DEF RunIdle, ProductTypes, dbVars, ioVars
  <1>19. CASE UNCHANGED productVars
    BY <1>1, <1>19 DEF productVars, ProductTypes, dbVars, ioVars, viewVars, presenterVars, pageVars
  <1>20. QED
    BY <1>3, <1>4, <1>5, <1>6, <1>7, <1>8, <1>9, <1>10, <1>11, <1>12, <1>13, <1>14, <1>15, <1>16, <1>17,
       <1>18, <1>19 DEF ProductsNext, ProductsGui

\* BEGIN, the three statements and the end of a save.
LEMMA TransactionStep ==
  ASSUME ProductTypes, TransactionInv, ProductsNext \/ UNCHANGED productVars
  PROVE  TransactionInv'
  <1>1. recipe \in Recipes /\ rows \in Tables
    BY DEF TransactionInv, ProductTypes
  <1>2. CASE UNCHANGED <<recipe, tx, saving>>
    BY <1>2 DEF TransactionInv
  <1>3. CASE SaveRecipe
    <2>1. saving = NoResult /\ tx = NoTx /\ recipe.head = recipe.targets
      BY <1>3 DEF SaveRecipe, GuiFree, TransactionInv, RecipeSaves, NoResult
    <2>2. /\ tx' = [on |-> TRUE, rows |-> rows, recipe |-> recipe] /\ recipe' = recipe
          /\ saving' = [kind |-> "head", ok |-> TRUE, version |-> recipe.head + 1]
      BY <1>3, <2>1 DEF SaveRecipe, NoTx
    <2>3. saving' \in RecipeSaves /\ saving'.kind = "head" /\ tx' \in OpenTxs
          /\ tx'.recipe.head = tx'.recipe.targets
      BY <1>1, <2>1, <2>2 DEF RecipeSaves, OpenTxs, Recipes
    <2>4. QED
      BY <1>1, <2>2, <2>3 DEF TransactionInv
  <1>4. CASE RecipeStatement
    <2>1. saving # NoResult
      BY <1>4 DEF RecipeStatement, NextStatement, NoResult
    <2>2. /\ saving \in RecipeSaves /\ tx \in OpenTxs /\ tx.recipe.head = tx.recipe.targets
          /\ saving.kind \in {"delete", "insert"} => recipe.head = saving.version
      BY <2>1 DEF TransactionInv
    <2>3. tx' = tx /\ saving.kind \in {"head", "delete", "insert"}
      BY <1>4 DEF RecipeStatement, NextStatement
    <2>4. CASE saving' = [saving EXCEPT !.kind = "end", !.ok = FALSE] /\ recipe' = recipe
      <3>1. saving' \in RecipeSaves /\ saving'.kind = "end" /\ saving'.ok = FALSE
        BY <2>2, <2>4 DEF RecipeSaves
      <3>2. QED
        BY <1>1, <2>2, <2>3, <2>4, <3>1 DEF TransactionInv
    <2>5. CASE /\ saving' = [saving EXCEPT !.kind = NextStatement[saving.kind]]
               /\ recipe' = CASE saving.kind = "head"   -> [recipe EXCEPT !.head = saving.version]
                              [] saving.kind = "delete" -> [recipe EXCEPT !.targets = -1]
                              [] saving.kind = "insert" -> [recipe EXCEPT !.targets = saving.version]
      <3>1. CASE saving.kind = "head"
        <4>1. saving' = [saving EXCEPT !.kind = "delete"] /\ recipe' = [recipe EXCEPT !.head = saving.version]
          BY <2>5, <3>1 DEF NextStatement
        <4>2. saving' \in RecipeSaves /\ saving'.kind = "delete" /\ saving'.version = saving.version
              /\ recipe' \in Recipes /\ recipe'.head = saving.version
          BY <1>1, <2>2, <4>1 DEF RecipeSaves, Recipes
        <4>3. QED
          BY <2>2, <2>3, <4>2 DEF TransactionInv
      <3>2. CASE saving.kind = "delete"
        <4>1. saving' = [saving EXCEPT !.kind = "insert"] /\ recipe' = [recipe EXCEPT !.targets = -1]
          BY <2>5, <3>2 DEF NextStatement
        <4>2. saving' \in RecipeSaves /\ saving'.kind = "insert" /\ saving'.version = saving.version
              /\ recipe' \in Recipes /\ recipe'.head = recipe.head
          BY <1>1, <2>2, <4>1 DEF RecipeSaves, Recipes
        <4>3. QED
          BY <2>2, <2>3, <3>2, <4>2 DEF TransactionInv
      <3>3. CASE saving.kind = "insert"
        <4>1. saving' = [saving EXCEPT !.kind = "end"] /\ recipe' = [recipe EXCEPT !.targets = saving.version]
          BY <2>5, <3>3 DEF NextStatement
        <4>2. saving' \in RecipeSaves /\ saving'.kind = "end" /\ recipe' \in Recipes
              /\ recipe'.head = recipe.head /\ recipe'.targets = saving.version
          BY <1>1, <2>2, <4>1 DEF RecipeSaves, Recipes
        <4>3. QED
          BY <2>2, <2>3, <3>3, <4>2 DEF TransactionInv
      <3>4. QED
        BY <2>3, <3>1, <3>2, <3>3
    <2>6. QED
      BY <1>4, <2>4, <2>5 DEF RecipeStatement
  <1>5. CASE RecipeEnd
    <2>1. saving # NoResult /\ saving.kind = "end"
      BY <1>5 DEF RecipeEnd, NoResult
    <2>2. /\ saving \in RecipeSaves /\ tx \in OpenTxs /\ tx.recipe.head = tx.recipe.targets
          /\ saving.ok => recipe.head = recipe.targets
      BY <2>1 DEF TransactionInv
    <2>3. recipe' \in Recipes /\ recipe'.head = recipe'.targets
      BY <1>1, <1>5, <2>2 DEF RecipeEnd, EndOfTransaction, OpenTxs
    <2>4. QED
      BY <1>5, <2>3 DEF RecipeEnd, TransactionInv
  <1>6. QED
    BY <1>2, <1>3, <1>4, <1>5 DEF ProductsNext, ProductsGui, TypeSearch, onSearchChanged, onRefreshClicked,
       OpenForm, CancelForm, SubmitForm, onExportCsvClicked, viewProduct, loadRecipe, StopIo, RebuildPage,
       IoExecute, IoPost, RunIdle, productVars, dbVars

-----------------------------------------------------------------------------
(* Products: the list on the page.                                         *)

Reloading(r)   == r.kind = "result" /\ r.ok /\ r.reloads
PageList(idle) == idle.kind = "list" /\ idle.page = pageNo

\* A result on its way to the GUI thread will load the products again.
ReloadComing == Reloading(executing) \/ \E i \in 1 .. Len(idles) : Reloading(idles[i])

\* The last list this page will paint is the current one.
ListComing ==
  \E i \in 1 .. Len(idles) :
    /\ PageList(idles[i]) /\ idles[i].view = ViewOf(rows, filter)
    /\ \A j \in (i + 1) .. Len(idles) : ~PageList(idles[j])

Painted == listed = ViewOf(rows, filter) /\ \A i \in 1 .. Len(idles) : ~PageList(idles[i])

ListedInv == orphaned = TRUE \/ ReloadComing \/ ListComing \/ Painted

\* What a ROLLBACK may take back was done by an operation whose result is waiting.
RollbackInv == saving # NoResult => tx.rows = rows \/ ReloadComing

LEMMA ListedInit == ProductsInit => ListedInv /\ RollbackInv
  <1> SUFFICES ASSUME ProductsInit PROVE ListedInv /\ RollbackInv
    OBVIOUS
  <1>1. idles = <<[kind |-> "list", page |-> 1, view |-> ViewOf(rows, NoText)]>> /\ pageNo = 1
        /\ filter = NoText /\ saving = NoResult
    BY DEF ProductsInit
  <1>2. /\ Len(idles) = 1 /\ idles[1].kind = "list" /\ idles[1].page = 1
        /\ idles[1].view = ViewOf(rows, NoText)
    BY <1>1
  <1>3. 1 \in 1 .. Len(idles) /\ \A j \in (1 + 1) .. Len(idles) : FALSE
    BY <1>2
  <1>4. ListComing
    BY <1>1, <1>2, <1>3 DEF ListComing, PageList
  <1>5. QED
    BY <1>1, <1>4 DEF ListedInv, RollbackInv

\* A list of the current rows, put last, is what the page will show.
LEMMA ListPutLast ==
  ASSUME NEW s \in Seq(PageIdles), NEW e \in PageIdles, idles' = Append(s, e),
         e.kind = "list", e.page = pageNo', e.view = ViewOf(rows', filter')
  PROVE  ListComing'
  <1>1. Len(s) \in Nat /\ Len(idles') = Len(s) + 1 /\ idles'[Len(s) + 1] = e
    BY Appended
  <1>2. /\ Len(s) + 1 \in 1 .. Len(idles') /\ PageList(idles[Len(s) + 1])'
        /\ idles'[Len(s) + 1].view = ViewOf(rows', filter')
    BY <1>1 DEF PageList
  <1>3. \A j \in (Len(s) + 1 + 1) .. Len(idles') : FALSE
    BY <1>1
  <1>4. QED
    BY <1>1, <1>2, <1>3 DEF ListComing, PageList

\* Another callback that is no list.
LEMMA OtherPutLast ==
  ASSUME ListedInv, idles \in Seq(PageIdles), NEW e \in PageIdles, idles' = Append(idles, e),
         e.kind # "list", UNCHANGED <<rows, filter, pageNo, listed, orphaned>>,
         Reloading(executing) => Reloading(executing') \/ Reloading(e)
  PROVE  ListedInv' /\ (ReloadComing => ReloadComing')
  <1>1. /\ Len(idles) \in Nat /\ Len(idles') = Len(idles) + 1 /\ idles'[Len(idles) + 1] = e
        /\ \A i \in 1 .. Len(idles) : idles'[i] = idles[i]
    BY Appended
  <1>2. ReloadComing => ReloadComing'
    <2>1. ASSUME NEW i \in 1 .. Len(idles), Reloading(idles[i]) PROVE ReloadComing'
      <3>1. i \in 1 .. Len(idles') /\ Reloading(idles'[i])
        BY <1>1, <2>1
      <3>2. QED
        BY <3>1 DEF ReloadComing, Reloading
    <2>2. CASE Reloading(e)
      <3>1. Len(idles) + 1 \in 1 .. Len(idles') /\ Reloading(idles'[Len(idles) + 1])
        BY <1>1, <2>2
      <3>2. QED
        BY <3>1 DEF ReloadComing, Reloading
    <2>3. CASE Reloading(executing')
      BY <2>3 DEF ReloadComing, Reloading
    <2>4. QED
      BY <2>1, <2>2, <2>3 DEF ReloadComing
  <1>3. ListComing => ListComing'
    <2> SUFFICES ASSUME NEW i \in 1 .. Len(idles), PageList(idles[i]), idles[i].view = ViewOf(rows, filter),
                        \A j \in (i + 1) .. Len(idles) : ~PageList(idles[j])
                 PROVE  ListComing'
      BY DEF ListComing
    <2>1. i \in 1 .. Len(idles') /\ PageList(idles[i])' /\ idles'[i].view = ViewOf(rows', filter')
      BY <1>1 DEF PageList, ViewOf, Found
    <2>2. \A j \in (i + 1) .. Len(idles') : ~PageList(idles[j])'
      BY <1>1 DEF PageList
    <2>3. QED
      BY <2>1, <2>2 DEF ListComing, PageList
  <1>4. Painted => Painted'
    BY <1>1 DEF Painted, PageList, ViewOf, Found
  <1>5. QED
    BY <1>2, <1>3, <1>4 DEF ListedInv

\* A callback that has run and was not the one waited for.
LEMMA OtherTaken ==
  ASSUME ListedInv, idles \in Seq(PageIdles), idles # <<>>, idles' = Tail(idles),
         UNCHANGED <<rows, filter, pageNo, orphaned, executing>>, ~Reloading(Head(idles)),
         IF PageList(Head(idles)) THEN listed' = Head(idles).view ELSE listed' = listed
  PROVE  ListedInv'
  <1>1. /\ Len(idles) \in Nat \ {0} /\ Len(idles') = Len(idles) - 1 /\ Head(idles) = idles[1]
        /\ \A i \in 1 .. Len(idles') : idles'[i] = idles[i + 1]
    BY Taken
  <1>2. ReloadComing => ReloadComing'
    <2>1. ASSUME NEW i \in 1 .. Len(idles), Reloading(idles[i]) PROVE ReloadComing'
      <3>1. i # 1
        BY <1>1, <2>1
      <3>2. i - 1 \in 1 .. Len(idles') /\ Reloading(idles'[i - 1])
        BY <1>1, <2>1, <3>1
      <3>3. QED
        BY <3>2 DEF ReloadComing, Reloading
    <2>2. CASE Reloading(executing)
      BY <2>2 DEF ReloadComing, Reloading
    <2>3. QED
      BY <2>1, <2>2 DEF ReloadComing
  <1>3. ListComing => ListComing' \/ Painted'
    <2> SUFFICES ASSUME NEW i \in 1 .. Len(idles), PageList(idles[i]), idles[i].view = ViewOf(rows, filter),
                        \A j \in (i + 1) .. Len(idles) : ~PageList(idles[j])
                 PROVE  ListComing' \/ Painted'
      BY DEF ListComing
    <2>1. CASE i = 1
      <3>1. listed' = ViewOf(rows', filter')
        BY <1>1, <2>1 DEF ViewOf, Found
      <3>2. \A j \in 1 .. Len(idles') : ~PageList(idles[j])'
        BY <1>1, <2>1 DEF PageList
      <3>3. QED
        BY <3>1, <3>2 DEF Painted, PageList
    <2>2. CASE i # 1
      <3>1. /\ i - 1 \in 1 .. Len(idles') /\ PageList(idles[i - 1])'
            /\ idles'[i - 1].view = ViewOf(rows', filter')
        BY <1>1, <2>2 DEF PageList, ViewOf, Found
      <3>2. \A j \in (i - 1 + 1) .. Len(idles') : ~PageList(idles[j])'
        BY <1>1 DEF PageList
      <3>3. QED
        BY <3>1, <3>2 DEF ListComing, PageList
    <2>3. QED
      BY <2>1, <2>2
  <1>4. Painted => Painted'
    <2> SUFFICES ASSUME Painted PROVE Painted'
      OBVIOUS
    <2>1. ~PageList(Head(idles))
      BY <1>1 DEF Painted
    <2>2. \A i \in 1 .. Len(idles') : ~PageList(idles[i])'
      BY <1>1 DEF Painted, PageList
    <2>3. QED
      BY <2>1, <2>2 DEF Painted, PageList, ViewOf, Found
  <1>5. QED
    BY <1>2, <1>3, <1>4 DEF ListedInv

\* The steps that touch neither the list, nor its callbacks, nor the rows.
LEMMA ListedKept ==
  ASSUME ListedInv, UNCHANGED <<rows, filter, pageNo, listed, idles, executing, orphaned>>
  PROVE  ListedInv' /\ (ReloadComing => ReloadComing')
  BY DEF ListedInv, ReloadComing, ListComing, Painted, PageList, Reloading, ViewOf, Found

\* The GUI thread outside a save.
LEMMA ListedGuiSteps ==
  ASSUME ProductTypes, TransactionInv, ListedInv, RollbackInv,
         \/ TypeSearch \/ onSearchChanged \/ onRefreshClicked \/ OpenForm \/ CancelForm \/ SubmitForm
         \/ onExportCsvClicked \/ viewProduct \/ loadRecipe \/ StopIo \/ RebuildPage
  PROVE  ListedInv' /\ RollbackInv'
  <1>1. saving = NoResult /\ saving' = saving
    BY DEF TypeSearch, onSearchChanged, onRefreshClicked, OpenForm, CancelForm, SubmitForm,
       onExportCsvClicked, viewProduct, loadRecipe, StopIo, RebuildPage, Act, GuiFree
  <1>2. RollbackInv'
    BY <1>1 DEF RollbackInv
  <1>3. /\ rows \in Tables /\ filter \in Queries /\ entry \in Queries /\ pageNo \in Nat
        /\ idles \in Seq(PageIdles) /\ NoText \in Queries
    BY DEF ProductTypes, Queries
  <1>4. CASE TypeSearch \/ OpenForm \/ CancelForm \/ SubmitForm \/ onExportCsvClicked \/ loadRecipe \/ StopIo
    <2>1. UNCHANGED <<rows, filter, pageNo, listed, idles, executing, orphaned>>
      BY <1>4 DEF TypeSearch, OpenForm, CancelForm, SubmitForm, onExportCsvClicked, loadRecipe, StopIo,
         dbVars, ioVars, viewVars, presenterVars, pageVars
    <2>2. QED
      BY <1>2, <2>1, ListedKept
  <1>5. CASE onSearchChanged \/ onRefreshClicked
    <2>1. PICK q \in Queries : filter' = q /\ idles' = Append(idles, ListIdle(q, pageNo))
      BY <1>3, <1>5 DEF onSearchChanged, onRefreshClicked, LoadInto
    <2>2. rows' = rows /\ pageNo' = pageNo
      BY <1>5 DEF onSearchChanged, onRefreshClicked, dbVars
    <2>3. /\ ListIdle(q, pageNo) \in PageIdles /\ ListIdle(q, pageNo).kind = "list"
          /\ ListIdle(q, pageNo).page = pageNo /\ ListIdle(q, pageNo).view = ViewOf(rows, q)
      BY <1>3, ListIdleType
    <2>4. ListComing'
      BY <1>3, <2>1, <2>2, <2>3, ListPutLast
    <2>5. QED
      BY <1>2, <2>4 DEF ListedInv
  <1>6. CASE viewProduct
    <2> DEFINE e == [kind |-> "detail", page |-> pageNo]
    <2>1. e \in PageIdles /\ e.kind # "list"
      BY <1>3 DEF PageIdles
    <2>2. idles' = Append(idles, e) /\ UNCHANGED <<rows, filter, pageNo, listed, orphaned, executing>>
      BY <1>6 DEF viewProduct, dbVars, ioVars, viewVars, presenterVars, pageVars
    <2> HIDE DEF e
    <2>3. Reloading(executing) => Reloading(executing') \/ Reloading(e)
      BY <2>2 DEF Reloading
    <2>4. QED
      BY <1>2, <1>3, <2>1, <2>2, <2>3, OtherPutLast
  <1>7. CASE RebuildPage
    <2> DEFINE e == ListIdle(NoText, pageNo + 1)
    <2>1. /\ e \in PageIdles /\ e.kind = "list" /\ e.page = pageNo + 1 /\ e.view = ViewOf(rows, NoText)
      BY <1>3, ListIdleType
    <2>2. /\ idles' = idles \o <<e, e>> /\ filter' = NoText /\ pageNo' = pageNo + 1 /\ rows' = rows
      BY <1>7 DEF RebuildPage, dbVars
    <2> HIDE DEF e
    <2>3. idles \o <<e, e>> = Append(Append(idles, e), e) /\ Append(idles, e) \in Seq(PageIdles)
      BY <1>3, <2>1
    <2>4. ListComing'
      BY <2>1, <2>2, <2>3, ListPutLast
    <2>5. QED
      BY <1>2, <2>4 DEF ListedInv
  <1>8. QED
    BY <1>4, <1>5, <1>6, <1>7

\* A save, and the I/O thread that runs beside it.
LEMMA ListedIoSteps ==
  ASSUME ProductTypes, TransactionInv, ListedInv, RollbackInv,
         SaveRecipe \/ RecipeStatement \/ RecipeEnd \/ IoExecute \/ IoPost
  PROVE  ListedInv' /\ RollbackInv'
  <1>1. /\ rows \in Tables /\ idles \in Seq(PageIdles) /\ executing \in IoResults \cup {NoResult}
    BY DEF ProductTypes
  <1>2. CASE SaveRecipe
    <2>1. UNCHANGED <<rows, filter, pageNo, listed, idles, executing, orphaned>>
      BY <1>2 DEF SaveRecipe, ioVars
    <2>2. saving = NoResult /\ tx = NoTx
      BY <1>2 DEF SaveRecipe, GuiFree, TransactionInv, RecipeSaves, NoResult
    <2>3. tx' = [on |-> TRUE, rows |-> rows, recipe |-> recipe]
      BY <1>2, <2>2 DEF SaveRecipe, NoTx
    <2>4. RollbackInv'
      BY <2>1, <2>3 DEF RollbackInv
    <2>5. QED
      BY <2>1, <2>4, ListedKept
  <1>3. CASE RecipeStatement
    <2>1. UNCHANGED <<rows, filter, pageNo, listed, idles, executing, orphaned, tx>> /\ saving # NoResult
      BY <1>3 DEF RecipeStatement, ioVars, viewVars, presenterVars, pageVars, NextStatement, NoResult
    <2>2. ListedInv' /\ (ReloadComing => ReloadComing')
      BY <2>1, ListedKept
    <2>3. QED
      BY <2>1, <2>2 DEF RollbackInv
  <1>4. CASE RecipeEnd
    <2>1. UNCHANGED <<filter, pageNo, listed, idles, executing, orphaned>> /\ saving' = NoResult
      BY <1>4 DEF RecipeEnd, ioVars, viewVars, presenterVars, pageVars
    <2>2. rows' = rows \/ rows' = tx.rows
      BY <1>4 DEF RecipeEnd, EndOfTransaction
    <2>3. saving # NoResult
      BY <1>4 DEF RecipeEnd, NoResult
    <2>4. CASE rows' = rows
      BY <2>1, <2>4, ListedKept DEF RollbackInv
    <2>5. CASE rows' # rows
      <3>1. ReloadComing
        BY <2>2, <2>3, <2>5 DEF RollbackInv
      <3>2. ReloadComing'
        BY <2>1, <3>1 DEF ReloadComing, Reloading
      <3>3. QED
        BY <2>1, <3>2 DEF ListedInv, RollbackInv
    <2>6. QED
      BY <2>4, <2>5
  <1>5. CASE IoExecute
    <2>1. /\ UNCHANGED <<filter, pageNo, listed, idles, orphaned, tx, saving>> /\ executing = NoResult
      BY <1>5 DEF IoExecute, viewVars, presenterVars, pageVars
    <2>2. executing' \in IoResults /\ (rows' # rows => executing'.ok /\ executing'.reloads)
      BY <1>5, ExecuteStep
    <2>3. rows' # rows => ReloadComing'
      BY <2>2 DEF ReloadComing, Reloading, IoResults
    <2>4. ReloadComing => ReloadComing'
      BY <2>1 DEF ReloadComing, Reloading, NoResult
    <2>5. rows' = rows => (ListComing => ListComing') /\ (Painted => Painted')
      BY <2>1 DEF ListComing, Painted, PageList, ViewOf, Found
    <2>6. ListedInv'
      BY <2>1, <2>3, <2>4, <2>5 DEF ListedInv
    <2>7. RollbackInv'
      BY <2>1, <2>3, <2>4 DEF RollbackInv
    <2>8. QED
      BY <2>6, <2>7
  <1>6. CASE IoPost
    <2>1. /\ UNCHANGED <<rows, filter, pageNo, listed, orphaned, tx, saving>>
          /\ executing # NoResult /\ idles' = Append(idles, executing)
      BY <1>6 DEF IoPost, IoHandOver, dbVars, viewVars, presenterVars, pageVars
    <2>2. executing \in PageIdles /\ executing.kind # "list"
      BY <1>1, <2>1 DEF PageIdles, IoResults
    <2>3. ListedInv' /\ (ReloadComing => ReloadComing')
      BY <1>1, <2>1, <2>2, OtherPutLast
    <2>4. RollbackInv'
      BY <2>1, <2>3 DEF RollbackInv
    <2>5. QED
      BY <2>3, <2>4
  <1>7. QED
    BY <1>2, <1>3, <1>4, <1>5, <1>6

LEMMA ListedRunStep ==
  ASSUME ProductTypes, ListedInv, RollbackInv, RunIdle
  PROVE  ListedInv' /\ RollbackInv'
  <1>1. /\ rows \in Tables /\ pageNo \in Nat /\ idles \in Seq(PageIdles) /\ NoText \in Queries
    BY DEF ProductTypes, Queries
  <1>2. /\ saving = NoResult /\ saving' = saving /\ idles # <<>>
        /\ UNCHANGED <<rows, executing, pageNo>>
    BY DEF RunIdle, GuiFree, dbVars, ioVars
  <1>3. RollbackInv'
    BY <1>2 DEF RollbackInv
  <1>4. Head(idles) \in PageIdles /\ Tail(idles) \in Seq(PageIdles)
    BY <1>1, <1>2, Taken
  <1>5. CASE Head(idles).page # pageNo
    <2>1. orphaned' = TRUE
      BY <1>5 DEF RunIdle
    <2>2. QED
      BY <1>3, <2>1 DEF ListedInv
  <1>6. CASE Head(idles).page = pageNo /\ Reloading(Head(idles))
    <2>1. filter' = NoText /\ idles' = Append(Tail(idles), ListIdle(NoText, pageNo))
      BY <1>6 DEF RunIdle, ResultArrives, LoadInto, Reloading
    <2>2. /\ ListIdle(NoText, pageNo) \in PageIdles /\ ListIdle(NoText, pageNo).kind = "list"
          /\ ListIdle(NoText, pageNo).page = pageNo
          /\ ListIdle(NoText, pageNo).view = ViewOf(rows, NoText)
      BY <1>1, ListIdleType
    <2>3. ListComing'
      BY <1>2, <1>4, <2>1, <2>2, ListPutLast
    <2>4. QED
      BY <1>3, <2>3 DEF ListedInv
  <1>7. CASE Head(idles).page = pageNo /\ ~Reloading(Head(idles))
    <2>1. idles' = Tail(idles) /\ UNCHANGED <<filter, orphaned>>
      BY <1>7 DEF RunIdle, ResultArrives, Reloading
    <2>2. IF PageList(Head(idles)) THEN listed' = Head(idles).view ELSE listed' = listed
      BY <1>7 DEF RunIdle, PageList, updateProductsList
    <2>3. QED
      BY <1>1, <1>2, <1>3, <1>7, <2>1, <2>2, OtherTaken
  <1>8. QED
    BY <1>5, <1>6, <1>7

LEMMA ListedStep ==
  ASSUME ProductTypes, TransactionInv, ListedInv, RollbackInv, ProductsNext \/ UNCHANGED productVars
  PROVE  ListedInv' /\ RollbackInv'
  <1>1. CASE UNCHANGED productVars
    <2>1. UNCHANGED <<rows, filter, pageNo, listed, idles, executing, orphaned, tx, saving>>
      BY <1>1 DEF productVars, dbVars, ioVars, viewVars, presenterVars, pageVars
    <2>2. QED
      BY <2>1, ListedKept DEF RollbackInv
  <1>2. QED
    BY <1>1, ListedGuiSteps, ListedIoSteps, ListedRunStep DEF ProductsNext, ProductsGui

-----------------------------------------------------------------------------
(* Products: the answers.                                                  *)

Asked(n) == n \in 1 .. Len(answers) /\ answers[n] = 0

\* Operations are numbered in the order they are posted, run and handed over in
\* that order, and no number is in two places.
OrderInv ==
  /\ \A i \in 1 .. Len(queue) : Asked(queue[i].nr)
  /\ \A i, j \in 1 .. Len(queue) : i < j => queue[i].nr < queue[j].nr
  /\ executing # NoResult =>
        Asked(executing.nr) /\ \A i \in 1 .. Len(queue) : executing.nr < queue[i].nr
  /\ \A i \in 1 .. Len(idles) : idles[i].kind = "result" =>
        /\ Asked(idles[i].nr)
        /\ \A j \in 1 .. Len(idles) : i < j /\ idles[j].kind = "result" => idles[i].nr < idles[j].nr
        /\ executing # NoResult => idles[i].nr < executing.nr
        /\ \A j \in 1 .. Len(queue) : idles[i].nr < queue[j].nr

Waiting(n) ==
  \/ \E i \in 1 .. Len(queue) : queue[i].nr = n
  \/ executing # NoResult /\ executing.nr = n
  \/ \E i \in 1 .. Len(idles) : idles[i].kind = "result" /\ idles[i].nr = n

\* What has no answer is on its way, unless the I/O thread was stopped or the page
\* went away.
CompleteInv ==
  \A n \in 1 .. Len(answers) :
    answers[n] \in {0, 1} /\ (answers[n] = 0 => stopped = TRUE \/ orphaned = TRUE \/ Waiting(n))

AnswerInv == OrderInv /\ CompleteInv

LEMMA AnswersInit == ProductsInit => AnswerInv
  <1> SUFFICES ASSUME ProductsInit PROVE AnswerInv
    OBVIOUS
  <1>1. /\ queue = <<>> /\ executing = NoResult /\ answers = <<>> /\ Len(idles) = 1
        /\ idles[1].kind = "list"
    BY DEF ProductsInit
  <1>2. QED
    BY <1>1 DEF AnswerInv, OrderInv, CompleteInv

\* The callbacks grow by some that are not results.
LEMMA AnswersKept ==
  ASSUME AnswerInv, UNCHANGED <<queue, executing, answers, stopped, orphaned>>,
         Len(idles) \in Nat, Len(idles') \in Nat, Len(idles) <= Len(idles'),
         \A i \in 1 .. Len(idles) : idles'[i] = idles[i],
         \A i \in (Len(idles) + 1) .. Len(idles') : idles'[i].kind # "result"
  PROVE  AnswerInv'
  <1>1. \A i \in 1 .. Len(idles') : idles'[i].kind = "result" => i \in 1 .. Len(idles) /\ idles'[i] = idles[i]
    OBVIOUS
  <1>2. OrderInv'
    BY <1>1 DEF AnswerInv, OrderInv, Asked
  <1>3. CompleteInv'
    <2> SUFFICES ASSUME NEW n \in 1 .. Len(answers)
                 PROVE  answers[n] \in {0, 1} /\ (answers[n] = 0 => stopped = TRUE \/ orphaned = TRUE \/ Waiting(n)')
      BY DEF CompleteInv
    <2>1. Waiting(n) => Waiting(n)'
      BY DEF Waiting
    <2>2. QED
      BY <2>1 DEF AnswerInv, CompleteInv
  <1>4. QED
    BY <1>2, <1>3 DEF AnswerInv

\* A posted operation has the highest number.
LEMMA AnswersPosted ==
  ASSUME ProductTypes, AnswerInv, PostedOk, UNCHANGED <<executing, idles, stopped, orphaned>>
  PROVE  AnswerInv'
  <1>1. queue \in Seq(IoOps) /\ answers \in Seq(Nat) /\ idles \in Seq(PageIdles)
    BY DEF ProductTypes
  <1>2. CASE UNCHANGED <<queue, answers>>
    BY <1>1, <1>2, AnswersKept
  <1>3. ASSUME NEW op \in IoOps, op.nr = NextNr, queue' = Append(queue, op), answers' = Append(answers, 0)
        PROVE  AnswerInv'
    <2>1. /\ Len(queue) \in Nat /\ Len(queue') = Len(queue) + 1 /\ queue'[Len(queue) + 1] = op
          /\ \A i \in 1 .. Len(queue) : queue'[i] = queue[i]
      BY <1>1, <1>3, Appended
    <2>2. /\ Len(answers) \in Nat /\ Len(answers') = Len(answers) + 1 /\ answers'[Len(answers) + 1] = 0
          /\ \A i \in 1 .. Len(answers) : answers'[i] = answers[i]
      BY <1>1, <1>3
    <2>3. op.nr = Len(answers) + 1 /\ Asked(op.nr)'
      BY <1>3, <2>2 DEF NextNr, Asked
    <2>4. \A n : Asked(n) => n \in 1 .. Len(answers') /\ answers'[n] = 0 /\ n \in Nat /\ n < op.nr
      BY <2>2, <2>3 DEF Asked
    <2>5. /\ \A i \in 1 .. Len(queue') : Asked(queue[i].nr)'
          /\ \A i, j \in 1 .. Len(queue') : i < j => queue'[i].nr < queue'[j].nr
      <3>1. \A i \in 1 .. Len(queue) : Asked(queue[i].nr)
        BY DEF AnswerInv, OrderInv
      <3>2. \A i \in 1 .. Len(queue') : queue'[i].nr \in 1 .. Len(answers') /\ answers'[queue'[i].nr] = 0
        <4> SUFFICES ASSUME NEW i \in 1 .. Len(queue')
                     PROVE  queue'[i].nr \in 1 .. Len(answers') /\ answers'[queue'[i].nr] = 0
          OBVIOUS
        <4>1. CASE i \in 1 .. Len(queue)
          BY <2>1, <2>4, <3>1, <4>1
        <4>2. CASE i = Len(queue) + 1
          BY <2>1, <2>2, <2>3, <4>2
        <4>3. QED
          BY <2>1, <4>1, <4>2
      <3>3. ASSUME NEW i \in 1 .. Len(queue'), NEW j \in 1 .. Len(queue'), i < j
            PROVE  queue'[i].nr < queue'[j].nr
        <4>1. i \in 1 .. Len(queue)
          BY <2>1, <3>3
        <4>2. CASE j \in 1 .. Len(queue)
          BY <2>1, <3>3, <4>1, <4>2 DEF AnswerInv, OrderInv
        <4>3. CASE j = Len(queue) + 1
          BY <2>1, <2>4, <3>1, <4>1, <4>3
        <4>4. QED
          BY <2>1, <4>2, <4>3
      <3>4. QED
        BY <3>2, <3>3 DEF Asked
    <2>6. ASSUME executing' # NoResult
          PROVE  Asked(executing.nr)' /\ \A i \in 1 .. Len(queue') : executing'.nr < queue'[i].nr
      <3>1. Asked(executing.nr) /\ \A i \in 1 .. Len(queue) : executing.nr < queue[i].nr
        BY <2>6 DEF AnswerInv, OrderInv
      <3>2. Asked(executing.nr)' /\ executing.nr < op.nr
        BY <2>4, <3>1 DEF Asked
      <3>3. QED
        BY <2>1, <3>1, <3>2
    <2>7. ASSUME NEW i \in 1 .. Len(idles'), idles'[i].kind = "result"
          PROVE  /\ Asked(idles[i].nr)'
                 /\ \A j \in 1 .. Len(idles') : i < j /\ idles'[j].kind = "result" => idles'[i].nr < idles'[j].nr
                 /\ executing' # NoResult => idles'[i].nr < executing'.nr
                 /\ \A j \in 1 .. Len(queue') : idles'[i].nr < queue'[j].nr
      <3>1. /\ Asked(idles[i].nr)
            /\ \A j \in 1 .. Len(idles) : i < j /\ idles[j].kind = "result" => idles[i].nr < idles[j].nr
            /\ executing # NoResult => idles[i].nr < executing.nr
            /\ \A j \in 1 .. Len(queue) : idles[i].nr < queue[j].nr
        BY <2>7 DEF AnswerInv, OrderInv
      <3>2. Asked(idles[i].nr)' /\ idles[i].nr < op.nr
        BY <2>4, <3>1 DEF Asked
      <3>3. QED
        BY <2>1, <3>1, <3>2
    <2>8. OrderInv'
      BY <2>5, <2>6, <2>7 DEF OrderInv
    <2>9. CompleteInv'
      <3> SUFFICES ASSUME NEW n \in 1 .. Len(answers')
                   PROVE  /\ answers'[n] \in {0, 1}
                          /\ answers'[n] = 0 => stopped' = TRUE \/ orphaned' = TRUE \/ Waiting(n)'
        BY DEF CompleteInv
      <3>1. CASE n \in 1 .. Len(answers)
        <4>1. Waiting(n) => Waiting(n)'
          BY <2>1 DEF Waiting
        <4>2. QED
          BY <2>2, <3>1, <4>1 DEF AnswerInv, CompleteInv
      <3>2. CASE n = Len(answers) + 1
        <4>1. Len(queue) + 1 \in 1 .. Len(queue') /\ queue'[Len(queue) + 1].nr = n
          BY <2>1, <2>3, <3>2
        <4>2. Waiting(n)'
          BY <4>1 DEF Waiting
        <4>3. answers'[n] = 0
          BY <2>2, <3>2
        <4>4. QED
          BY <4>2, <4>3
      <3>3. n \in 1 .. Len(answers) \/ n = Len(answers) + 1
        BY <2>2
      <3>4. QED
        BY <3>1, <3>2, <3>3
    <2>10. QED
      BY <2>8, <2>9 DEF AnswerInv
  <1>4. QED
    BY <1>2, <1>3 DEF PostedOk

\* An operation moves from the queue to the handler.
LEMMA AnswersExecute ==
  ASSUME ProductTypes, AnswerInv, IoExecute
  PROVE  AnswerInv'
  <1>1. queue \in Seq(IoOps) /\ queue # <<>> /\ queue' = Tail(queue) /\ executing = NoResult
        /\ UNCHANGED <<idles, answers, stopped, orphaned>>
    BY DEF ProductTypes, IoExecute
  <1>2. /\ Len(queue) \in Nat \ {0} /\ Len(queue') = Len(queue) - 1 /\ Head(queue) = queue[1]
        /\ \A i \in 1 .. Len(queue') : queue'[i] = queue[i + 1]
    BY <1>1, Taken
  <1>3. executing' \in IoResults /\ executing'.nr = queue[1].nr
    BY <1>2, ExecuteStep
  <1>4. /\ \A i \in 1 .. Len(queue) : Asked(queue[i].nr)
        /\ \A i, j \in 1 .. Len(queue) : i < j => queue[i].nr < queue[j].nr
        /\ \A i \in 1 .. Len(idles) : idles[i].kind = "result" =>
              /\ Asked(idles[i].nr)
              /\ \A j \in 1 .. Len(idles) : i < j /\ idles[j].kind = "result" => idles[i].nr < idles[j].nr
              /\ \A j \in 1 .. Len(queue) : idles[i].nr < queue[j].nr
    BY DEF AnswerInv, OrderInv
  <1>5. /\ \A i \in 1 .. Len(queue') : Asked(queue[i].nr)'
        /\ \A i, j \in 1 .. Len(queue') : i < j => queue'[i].nr < queue'[j].nr
    BY <1>1, <1>2, <1>4 DEF Asked
  <1>6. Asked(executing.nr)' /\ \A i \in 1 .. Len(queue') : executing'.nr < queue'[i].nr
    BY <1>1, <1>2, <1>3, <1>4 DEF Asked
  <1>7. \A i \in 1 .. Len(idles') : idles'[i].kind = "result" =>
              /\ Asked(idles[i].nr)'
              /\ \A j \in 1 .. Len(idles') : i < j /\ idles'[j].kind = "result" => idles'[i].nr < idles'[j].nr
              /\ executing' # NoResult => idles'[i].nr < executing'.nr
              /\ \A j \in 1 .. Len(queue') : idles'[i].nr < queue'[j].nr
    BY <1>1, <1>2, <1>3, <1>4 DEF Asked
  <1>8. OrderInv'
    BY <1>5, <1>6, <1>7 DEF OrderInv
  <1>9. CompleteInv'
    <2> SUFFICES ASSUME NEW n \in 1 .. Len(answers)
                 PROVE  /\ answers[n] \in {0, 1}
                        /\ answers[n] = 0 => stopped = TRUE \/ orphaned = TRUE \/ Waiting(n)'
      BY <1>1 DEF CompleteInv
    <2>1. Waiting(n) => Waiting(n)'
      <3>1. ASSUME NEW i \in 1 .. Len(queue), queue[i].nr = n PROVE Waiting(n)'
        <4>1. CASE i = 1
          BY <1>3, <3>1, <4>1 DEF Waiting, IoResults, NoResult
        <4>2. CASE i # 1
          <5>1. i - 1 \in 1 .. Len(queue') /\ queue'[i - 1].nr = n
            BY <1>2, <3>1, <4>2
          <5>2. QED
            BY <5>1 DEF Waiting
        <4>3. QED
          BY <4>1, <4>2
      <3>2. QED
        BY <1>1, <3>1 DEF Waiting
    <2>2. QED
      BY <2>1 DEF AnswerInv, CompleteInv
  <1>10. QED
    BY <1>8, <1>9 DEF AnswerInv

\* A result moves from the handler to the GUI thread's callbacks.
LEMMA AnswersHandOver ==
  ASSUME ProductTypes, AnswerInv, IoPost
  PROVE  AnswerInv'
  <1>1. /\ idles \in Seq(PageIdles) /\ executing \in IoResults /\ idles' = Append(idles, executing)
        /\ executing' = NoResult /\ UNCHANGED <<queue, answers, stopped, orphaned>>
    BY DEF ProductTypes, IoPost, IoHandOver
  <1>2. executing \in PageIdles /\ executing.kind = "result" /\ executing # NoResult
    BY <1>1 DEF PageIdles, IoResults, NoResult
  <1>3. /\ Len(idles) \in Nat /\ Len(idles') = Len(idles) + 1 /\ idles'[Len(idles) + 1] = executing
        /\ \A i \in 1 .. Len(idles) : idles'[i] = idles[i]
    BY <1>1, <1>2, Appended
  <1>4. /\ \A i \in 1 .. Len(queue) : Asked(queue[i].nr)
        /\ \A i, j \in 1 .. Len(queue) : i < j => queue[i].nr < queue[j].nr
        /\ Asked(executing.nr) /\ \A i \in 1 .. Len(queue) : executing.nr < queue[i].nr
        /\ \A i \in 1 .. Len(idles) : idles[i].kind = "result" =>
              /\ Asked(idles[i].nr) /\ idles[i].nr < executing.nr
              /\ \A j \in 1 .. Len(idles) : i < j /\ idles[j].kind = "result" => idles[i].nr < idles[j].nr
              /\ \A j \in 1 .. Len(queue) : idles[i].nr < queue[j].nr
    BY <1>2 DEF AnswerInv, OrderInv
  <1>5. ASSUME NEW i \in 1 .. Len(idles'), idles'[i].kind = "result"
        PROVE  /\ Asked(idles[i].nr)'
               /\ \A j \in 1 .. Len(idles') : i < j /\ idles'[j].kind = "result" => idles'[i].nr < idles'[j].nr
               /\ \A j \in 1 .. Len(queue') : idles'[i].nr < queue'[j].nr
    <2>1. CASE i \in 1 .. Len(idles)
      <3>1. /\ Asked(idles[i].nr) /\ idles'[i] = idles[i] /\ idles[i].nr < executing.nr
            /\ \A j \in 1 .. Len(idles) : i < j /\ idles[j].kind = "result" => idles[i].nr < idles[j].nr
            /\ \A j \in 1 .. Len(queue) : idles[i].nr < queue[j].nr
        BY <1>3, <1>4, <1>5, <2>1
      <3>2. \A j \in 1 .. Len(idles') : i < j /\ idles'[j].kind = "result" => idles'[i].nr < idles'[j].nr
        BY <1>3, <3>1
      <3>3. QED
        BY <1>1, <3>1, <3>2 DEF Asked
    <2>2. CASE i = Len(idles) + 1
      <3>1. \A j \in 1 .. Len(idles') : ~(i < j)
        BY <1>3, <2>2
      <3>2. QED
        BY <1>1, <1>3, <1>4, <2>2, <3>1 DEF Asked
    <2>3. QED
      BY <1>3, <2>1, <2>2
  <1>6. OrderInv'
    BY <1>1, <1>4, <1>5 DEF OrderInv, Asked
  <1>7. CompleteInv'
    <2> SUFFICES ASSUME NEW n \in 1 .. Len(answers)
                 PROVE  /\ answers[n] \in {0, 1}
                        /\ answers[n] = 0 => stopped = TRUE \/ orphaned = TRUE \/ Waiting(n)'
      BY <1>1 DEF CompleteInv
    <2>1. Waiting(n) => Waiting(n)'
      <3>1. CASE executing.nr = n
        <4>1. Len(idles) + 1 \in 1 .. Len(idles') /\ idles'[Len(idles) + 1].kind = "result"
              /\ idles'[Len(idles) + 1].nr = n
          BY <1>2, <1>3, <3>1
        <4>2. QED
          BY <4>1 DEF Waiting
      <3>2. ASSUME NEW i \in 1 .. Len(idles), idles[i].kind = "result", idles[i].nr = n PROVE Waiting(n)'
        <4>1. i \in 1 .. Len(idles') /\ idles'[i].kind = "result" /\ idles'[i].nr = n
          BY <1>3, <3>2
        <4>2. QED
          BY <4>1 DEF Waiting
      <3>3. QED
        BY <1>1, <3>1, <3>2 DEF Waiting
    <2>2. QED
      BY <2>1 DEF AnswerInv, CompleteInv
  <1>8. QED
    BY <1>6, <1>7 DEF AnswerInv

\* A callback runs; a result is answered once and its number is gone.
LEMMA AnswersRun ==
  ASSUME ProductTypes, AnswerInv, RunIdle
  PROVE  AnswerInv'
  <1>1. /\ idles \in Seq(PageIdles) /\ idles # <<>> /\ answers \in Seq(Nat) /\ rows \in Tables
        /\ pageNo \in Nat /\ UNCHANGED <<queue, executing, stopped>>
    BY DEF ProductTypes, RunIdle, ioVars
  <1> DEFINE rest == Tail(idles)
  <1>2. /\ rest \in Seq(PageIdles) /\ Len(idles) \in Nat \ {0} /\ Len(rest) = Len(idles) - 1
        /\ Head(idles) = idles[1] /\ \A i \in 1 .. Len(rest) : rest[i] = idles[i + 1]
    BY <1>1, Taken
  <1>3. \/ idles' = rest
        \/ idles' = Append(rest, ListIdle(NoText, pageNo))
    BY DEF RunIdle, ResultArrives, LoadInto
  <1>4. /\ \A i \in 1 .. Len(idles') : idles'[i].kind = "result" =>
              i + 1 \in 1 .. Len(idles) /\ idles'[i] = idles[i + 1]
        /\ \A i \in 1 .. Len(rest) : i \in 1 .. Len(idles') /\ idles'[i] = idles[i + 1]
        /\ Len(idles') \in Nat
    <2> HIDE DEF rest
    <2>1. CASE idles' = rest
      BY <1>2, <2>1
    <2>2. CASE idles' = Append(rest, ListIdle(NoText, pageNo))
      <3>1. ListIdle(NoText, pageNo) \in PageIdles /\ ListIdle(NoText, pageNo).kind = "list"
        BY <1>1, ListIdleType DEF Queries
      <3>2. /\ Len(rest) \in Nat /\ Len(idles') = Len(rest) + 1
            /\ idles'[Len(rest) + 1] = ListIdle(NoText, pageNo)
            /\ \A i \in 1 .. Len(rest) : idles'[i] = rest[i]
        BY <1>2, <2>2, <3>1, Appended
      <3>3. \A i \in 1 .. Len(idles') : idles'[i].kind = "result" => i \in 1 .. Len(rest)
        BY <3>1, <3>2
      <3>4. QED
        BY <1>2, <3>2, <3>3
    <2>3. QED
      BY <1>3, <2>1, <2>2
  <1>5. \/ orphaned' = TRUE /\ answers' = answers
        \/ orphaned' = orphaned /\ answers' = answers /\ idles[1].kind # "result"
        \/ /\ orphaned' = orphaned /\ idles[1].kind = "result"
           /\ answers' = [answers EXCEPT ![idles[1].nr] = answers[idles[1].nr] + 1]
    BY <1>2 DEF RunIdle
  <1> HIDE DEF rest
  <1>6. /\ \A i \in 1 .. Len(queue) : Asked(queue[i].nr)
        /\ \A i, j \in 1 .. Len(queue) : i < j => queue[i].nr < queue[j].nr
        /\ executing # NoResult =>
              Asked(executing.nr) /\ \A i \in 1 .. Len(queue) : executing.nr < queue[i].nr
        /\ \A i \in 1 .. Len(idles) : idles[i].kind = "result" =>
              /\ Asked(idles[i].nr)
              /\ \A j \in 1 .. Len(idles) : i < j /\ idles[j].kind = "result" => idles[i].nr < idles[j].nr
              /\ executing # NoResult => idles[i].nr < executing.nr
              /\ \A j \in 1 .. Len(queue) : idles[i].nr < queue[j].nr
    BY DEF AnswerInv, OrderInv
  <1>7. /\ answers' \in Seq(Nat) /\ Len(answers') = Len(answers) /\ Len(answers) \in Nat
        /\ idles[1].kind # "result" => answers' = answers
        /\ idles[1].kind = "result" => \A n \in 1 .. Len(answers) : n # idles[1].nr => answers'[n] = answers[n]
    <2>1. CASE answers' = answers
      BY <1>1, <2>1
    <2>2. CASE /\ idles[1].kind = "result"
               /\ answers' = [answers EXCEPT ![idles[1].nr] = answers[idles[1].nr] + 1]
      <3>1. answers' \in Seq(Nat)
        BY RunIdleTypes
      <3>2. DOMAIN answers' = DOMAIN answers
        BY <2>2
      <3>3. Len(answers') = Len(answers) /\ Len(answers) \in Nat
        BY <1>1, <3>1, <3>2
      <3>4. \A n \in 1 .. Len(answers) : n # idles[1].nr => answers'[n] = answers[n]
        BY <1>1, <2>2
      <3>5. QED
        BY <2>2, <3>1, <3>3, <3>4
    <2>3. QED
      BY <1>5, <2>1, <2>2
  <1>8. \A n : Asked(n) /\ (idles[1].kind = "result" => n # idles[1].nr)
               => n \in 1 .. Len(answers') /\ answers'[n] = 0
    BY <1>7 DEF Asked
  <1>9. 1 \in 1 .. Len(idles)
    BY <1>2
  <1>10. /\ \A i \in 1 .. Len(queue) : idles[1].kind = "result" => queue[i].nr # idles[1].nr
         /\ executing # NoResult /\ idles[1].kind = "result" => executing.nr # idles[1].nr
         /\ \A i \in 1 .. Len(idles) :
               1 < i /\ idles[i].kind = "result" /\ idles[1].kind = "result" => idles[i].nr # idles[1].nr
    BY <1>6, <1>9 DEF Asked
  <1>11. \A i \in 1 .. Len(queue') : Asked(queue[i].nr)'
    BY <1>1, <1>6, <1>8, <1>10 DEF Asked
  <1>12. executing' # NoResult =>
              Asked(executing.nr)' /\ \A i \in 1 .. Len(queue') : executing'.nr < queue'[i].nr
    BY <1>1, <1>6, <1>8, <1>10 DEF Asked
  <1>13. ASSUME NEW i \in 1 .. Len(idles'), idles'[i].kind = "result"
         PROVE  /\ Asked(idles[i].nr)'
                /\ \A j \in 1 .. Len(idles') : i < j /\ idles'[j].kind = "result" => idles'[i].nr < idles'[j].nr
                /\ executing' # NoResult => idles'[i].nr < executing'.nr
                /\ \A j \in 1 .. Len(queue') : idles'[i].nr < queue'[j].nr
    <2>1. i + 1 \in 1 .. Len(idles) /\ idles'[i] = idles[i + 1] /\ idles[i + 1].kind = "result" /\ 1 < i + 1
      BY <1>4, <1>13
    <2>2. /\ Asked(idles[i + 1].nr)
          /\ \A j \in 1 .. Len(idles) : i + 1 < j /\ idles[j].kind = "result" => idles[i + 1].nr < idles[j].nr
          /\ executing # NoResult => idles[i + 1].nr < executing.nr
          /\ \A j \in 1 .. Len(queue) : idles[i + 1].nr < queue[j].nr
      BY <1>6, <2>1
    <2>3. Asked(idles[i].nr)'
      BY <1>8, <1>10, <2>1, <2>2 DEF Asked
    <2>4. \A j \in 1 .. Len(idles') : i < j /\ idles'[j].kind = "result" => idles'[i].nr < idles'[j].nr
      BY <1>4, <2>1, <2>2
    <2>5. QED
      BY <1>1, <2>1, <2>2, <2>3, <2>4
  <1>14. OrderInv'
    BY <1>1, <1>6, <1>11, <1>12, <1>13 DEF OrderInv
  <1>15. CompleteInv'
    <2> SUFFICES ASSUME NEW n \in 1 .. Len(answers)
                 PROVE  /\ answers'[n] \in {0, 1}
                        /\ answers'[n] = 0 => stopped' = TRUE \/ orphaned' = TRUE \/ Waiting(n)'
      BY <1>7 DEF CompleteInv
    <2>1. answers[n] \in {0, 1} /\ (answers[n] = 0 => stopped = TRUE \/ orphaned = TRUE \/ Waiting(n))
      BY DEF AnswerInv, CompleteInv
    <2>2. Waiting(n) => Waiting(n)' \/ (idles[1].kind = "result" /\ idles[1].nr = n)
      <3>1. ASSUME NEW i \in 1 .. Len(idles), i # 1, idles[i].kind = "result", idles[i].nr = n PROVE Waiting(n)'
        <4>1. i - 1 \in 1 .. Len(rest)
          BY <1>2, <3>1
        <4>2. i - 1 \in 1 .. Len(idles') /\ idles'[i - 1] = idles[i]
          BY <1>4, <4>1
        <4>3. QED
          BY <3>1, <4>2 DEF Waiting
      <3>2. QED
        BY <1>1, <3>1 DEF Waiting
    <2>3. CASE orphaned' = TRUE /\ answers' = answers
      BY <2>1, <2>3
    <2>4. CASE orphaned' = orphaned /\ answers' = answers /\ idles[1].kind # "result"
      BY <1>1, <2>1, <2>2, <2>4
    <2>5. CASE /\ orphaned' = orphaned /\ idles[1].kind = "result"
               /\ answers' = [answers EXCEPT ![idles[1].nr] = answers[idles[1].nr] + 1]
      <3>1. Asked(idles[1].nr)
        BY <1>6, <1>9, <2>5
      <3>2. CASE n = idles[1].nr
        <4>1. answers'[n] = 1
          BY <1>1, <2>5, <3>1, <3>2 DEF Asked
        <4>2. QED
          BY <4>1
      <3>3. CASE n # idles[1].nr
        BY <1>1, <1>7, <2>1, <2>2, <2>5, <3>3
      <3>4. QED
        BY <3>2, <3>3
    <2>6. QED
      BY <1>5, <2>3, <2>4, <2>5
  <1>16. QED
    BY <1>14, <1>15 DEF AnswerInv

LEMMA AnswersStep ==
  ASSUME ProductTypes, AnswerInv, ProductsNext \/ UNCHANGED productVars
  PROVE  AnswerInv'
  <1>1. /\ rows \in Tables /\ filter \in Queries /\ entry \in Queries /\ pageNo \in Nat
        /\ idles \in Seq(PageIdles) /\ NoText \in Queries
    BY DEF ProductTypes, Queries
  <1>2. \A q \in Queries, p \in Nat : ListIdle(q, p) \in PageIdles /\ ListIdle(q, p).kind = "list"
    BY <1>1, ListIdleType
  <1>3. CASE SubmitForm \/ onExportCsvClicked
    <2>1. UNCHANGED <<executing, idles, stopped, orphaned>>
      BY <1>3 DEF SubmitForm, onExportCsvClicked
    <2>2. QED
      BY <1>3, <2>1, PostStep, AnswersPosted
  <1>4. CASE onSearchChanged \/ onRefreshClicked \/ viewProduct
    <2>1. PICK e \in PageIdles : e.kind # "result" /\ idles' = Append(idles, e)
      <3>1. CASE onSearchChanged \/ onRefreshClicked
        BY <1>1, <1>2, <3>1 DEF onSearchChanged, onRefreshClicked, LoadInto
      <3>2. CASE viewProduct
        <4> DEFINE e == [kind |-> "detail", page |-> pageNo]
        <4>1. e \in PageIdles /\ e.kind # "result"
          BY <1>1 DEF PageIdles
        <4>2. idles' = Append(idles, e)
          BY <3>2 DEF viewProduct
        <4>3. QED
          BY <4>1, <4>2
      <3>3. QED
        BY <1>4, <3>1, <3>2
    <2>2. UNCHANGED <<queue, executing, answers, stopped, orphaned>>
      BY <1>4 DEF onSearchChanged, onRefreshClicked, viewProduct, ioVars
    <2>3. /\ Len(idles) \in Nat /\ Len(idles') = Len(idles) + 1 /\ idles'[Len(idles) + 1] = e
          /\ \A i \in 1 .. Len(idles) : idles'[i] = idles[i]
      BY <1>1, <2>1, Appended
    <2>4. QED
      BY <2>1, <2>2, <2>3, AnswersKept
  <1>5. CASE RebuildPage
    <2> DEFINE e == ListIdle(NoText, pageNo + 1)
    <2>1. e \in PageIdles /\ e.kind = "list"
      BY <1>1, <1>2
    <2>2. idles' = idles \o <<e, e>> /\ UNCHANGED <<queue, executing, answers, stopped, orphaned>>
      BY <1>5 DEF RebuildPage, ioVars
    <2> HIDE DEF e
    <2>3. /\ Len(idles) \in Nat /\ Len(idles') = Len(idles) + 2 /\ idles'[Len(idles) + 1] = e
          /\ idles'[Len(idles) + 2] = e /\ \A i \in 1 .. Len(idles) : idles'[i] = idles[i]
      BY <1>1, <2>1, <2>2
    <2>4. \A i \in (Len(idles) + 1) .. Len(idles') : idles'[i].kind # "result"
      BY <2>1, <2>3
    <2>5. QED
      BY <2>2, <2>3, <2>4, AnswersKept
  <1>6. CASE StopIo
    <2>1. queue' = <<>> /\ stopped' = TRUE /\ UNCHANGED <<executing, answers, idles>>
      BY <1>6 DEF StopIo
    <2>2. OrderInv'
      BY <2>1 DEF AnswerInv, OrderInv, Asked
    <2>3. CompleteInv'
      BY <2>1 DEF AnswerInv, CompleteInv
    <2>4. QED
      BY <2>2, <2>3 DEF AnswerInv
  <1>7. CASE \/ TypeSearch \/ OpenForm \/ CancelForm \/ loadRecipe \/ SaveRecipe \/ RecipeStatement
             \/ RecipeEnd \/ UNCHANGED productVars
    <2>1. UNCHANGED <<queue, executing, answers, stopped, orphaned, idles>>
      BY <1>7 DEF TypeSearch, OpenForm, CancelForm, loadRecipe, SaveRecipe, RecipeStatement, RecipeEnd,
         productVars, ioVars
    <2>2. Len(idles) \in Nat
      BY <1>1
    <2>3. QED
      BY <2>1, <2>2, AnswersKept
  <1>8. QED
    BY <1>3, <1>4, <1>5, <1>6, <1>7, AnswersExecute, AnswersHandOver, AnswersRun DEF ProductsNext, ProductsGui

\* The list is current when all is quiet, recipes are whole outside a save, and
\* every operation the I/O thread took on is answered once.
THEOREM ProductsDoAgree == Spec => []ProductsAgree
  <1> DEFINE Inv == /\ ProductTypes /\ TransactionInv
                    /\ ListedInv /\ RollbackInv /\ AnswerInv
  <1>1. Init => Inv
    BY ProductTypesInit, ListedInit, AnswersInit DEF Init
  <1>2. Inv /\ [Next]_workbenchVars => Inv'
    BY ProductTypesStep, TransactionStep, ListedStep, AnswersStep, PartSteps
  <1>3. Inv => ProductsAgree
    <2> SUFFICES ASSUME Inv PROVE ProductsAgree
      OBVIOUS
    <2>1. ASSUME ProductsQuiet, ~orphaned PROVE listed = ViewOf(rows, filter)
      <3>1. executing = NoResult /\ 1 .. Len(idles) = {}
        BY <2>1 DEF ProductsQuiet
      <3>2. ~ReloadComing /\ ~ListComing
        BY <3>1 DEF ReloadComing, ListComing, Reloading, NoResult
      <3>3. QED
        BY <2>1, <3>2, Zenon DEF ListedInv, Painted
    <2>2. saving = NoResult => recipe.head = recipe.targets
      BY DEF TransactionInv, RecipeSaves, NoResult
    <2>3. ASSUME NEW n \in 1 .. Len(answers) PROVE answers[n] <= 1
      BY <2>3 DEF AnswerInv, CompleteInv
    <2>4. ASSUME NEW n \in 1 .. Len(answers), ProductsQuiet, ~orphaned PROVE answers[n] = 1
      <3>1. ~Waiting(n)
        BY <2>4 DEF ProductsQuiet, Waiting
      <3>2. stopped # TRUE /\ orphaned # TRUE
        BY <2>4, Zenon DEF ProductsQuiet, GuiFree
      <3>3. QED
        BY <3>1, <3>2 DEF AnswerInv, CompleteInv
    <2>5. ListCurrentWhenQuiet
      BY <2>1, Zenon DEF ListCurrentWhenQuiet
    <2>6. RecipeWhole
      BY <2>2 DEF RecipeWhole
    <2>7. OperationsAnswered
      BY <2>3, <2>4, Zenon DEF OperationsAnswered
    <2>8. QED
      BY <2>5, <2>6, <2>7 DEF ProductsAgree
  <1>4. QED
    BY <1>1, <1>2, <1>3, PTL DEF Spec
-----------------------------------------------------------------------------
(* The historian.  First, counting: in a finite set with a total order the *)
(* number of elements before one is its rank, and every rank is taken.     *)

\* How many elements of S come before i.
Rank(S, R, i) == Cardinality({j \in S : <<j, i>> \in R})

\* R is a strict total order of S.
Orders(R, S) ==
  /\ \A i \in S : <<i, i>> \notin R
  /\ \A i, j, k \in S : <<i, j>> \in R /\ <<j, k>> \in R => <<i, k>> \in R
  /\ \A i, j \in S : i # j => <<i, j>> \in R \/ <<j, i>> \in R

LEMMA Ranked ==
  ASSUME NEW S, IsFiniteSet(S), NEW R, Orders(R, S)
  PROVE  /\ Cardinality(S) \in Nat
         /\ \A i \in S : Rank(S, R, i) \in 0 .. Cardinality(S) - 1
         /\ \A i, j \in S : <<i, j>> \in R => Rank(S, R, i) < Rank(S, R, j)
         /\ \A i, j \in S : Rank(S, R, i) = Rank(S, R, j) => i = j
         /\ \A n \in 0 .. Cardinality(S) - 1 : n \in {Rank(S, R, i) : i \in S}
  <1> DEFINE Before(i) == {j \in S : <<j, i>> \in R}
             rank == [i \in S |-> Rank(S, R, i)]
             m == Cardinality(S)
  <1>1. m \in Nat
    BY FS_CardinalityType
  <1>2. \A i \in S : IsFiniteSet(Before(i)) /\ Cardinality(Before(i)) \in Nat
    <2> TAKE i \in S
    <2>1. IsFiniteSet(Before(i))
      BY FS_Subset
    <2>2. QED
      BY <2>1, FS_CardinalityType
  <1>b. \A i \in S : rank[i] = Cardinality(Before(i))
    BY DEF Rank
  <1>3. ASSUME NEW i \in S, NEW j \in S, <<i, j>> \in R
        PROVE  rank[i] < rank[j]
    <2>1. Before(i) \in SUBSET Before(j) /\ i \in Before(j) /\ i \notin Before(i)
      BY <1>3 DEF Orders
    <2>2. /\ Cardinality(Before(i)) <= Cardinality(Before(j))
          /\ Cardinality(Before(j)) = Cardinality(Before(i)) => Before(j) = Before(i)
      BY <1>2, <2>1, FS_Subset
    <2>3. Cardinality(Before(i)) # Cardinality(Before(j))
      BY <2>1, <2>2
    <2>4. Cardinality(Before(i)) \in Nat /\ Cardinality(Before(j)) \in Nat
      BY <1>2
    <2>5. rank[i] = Cardinality(Before(i)) /\ rank[j] = Cardinality(Before(j))
      BY <1>b
    <2> HIDE DEF Before, rank
    <2>6. QED
      BY <2>2, <2>3, <2>4, <2>5
  <1>4. ASSUME NEW i \in S PROVE rank[i] \in 0 .. m - 1
    <2>1. Before(i) \in SUBSET S /\ i \in S /\ i \notin Before(i)
      BY DEF Orders
    <2>2. Cardinality(Before(i)) <= m /\ (m = Cardinality(Before(i)) => S = Before(i))
      BY <2>1, FS_Subset
    <2>3. Cardinality(Before(i)) # m
      BY <2>1, <2>2
    <2>4. Cardinality(Before(i)) \in Nat
      BY <1>2
    <2>5. rank[i] = Cardinality(Before(i))
      BY <1>b
    <2> HIDE DEF Before, m, rank
    <2>6. QED
      BY <1>1, <2>2, <2>3, <2>4, <2>5
  <1> HIDE DEF rank, m
  <1>5. ASSUME NEW i \in S, NEW j \in S, rank[i] = rank[j] PROVE i = j
    <2>1. rank[i] \in Int
      BY <1>1, <1>4
    <2>2. ~(rank[i] < rank[j]) /\ ~(rank[j] < rank[i])
      BY <1>5, <2>1
    <2>3. QED
      BY <1>3, <2>2 DEF Orders
  <1>6. rank \in Injection(S, 0 .. m - 1)
    BY <1>4, <1>5 DEF Injection, IsInjective, rank
  <1>7. IsFiniteSet(0 .. m - 1) /\ Cardinality(0 .. m - 1) = m
    <2>1. 0 \in Int /\ m - 1 \in Int
      BY <1>1
    <2>2. /\ IsFiniteSet(0 .. m - 1)
          /\ Cardinality(0 .. m - 1) = IF 0 > m - 1 THEN 0 ELSE m - 1 - 0 + 1
      BY <2>1, FS_Interval
    <2>3. (IF 0 > m - 1 THEN 0 ELSE m - 1 - 0 + 1) = m
      BY <1>1
    <2>4. QED
      BY <2>2, <2>3
  <1>8. rank \in Surjection(S, 0 .. m - 1)
    BY <1>6, <1>7, FS_Injection DEF m
  <1>9. \A n \in 0 .. m - 1 : \E i \in S : rank[i] = n
    BY <1>8 DEF Surjection
  <1>10. QED
    BY <1>1, <1>3, <1>4, <1>5, <1>9 DEF rank, m

\* A set of numbers in order has each of them once.
LEMMA InOrderIs ==
  ASSUME NEW S \in SUBSET Int, IsFiniteSet(S)
  PROVE  /\ Cardinality(S) \in Nat
         /\ \A k \in 1 .. Cardinality(S) : InOrder(S)[k] \in S
         /\ \A k, m \in 1 .. Cardinality(S) : InOrder(S)[k] = InOrder(S)[m] => k = m
         /\ \A x \in S : \E k \in 1 .. Cardinality(S) : InOrder(S)[k] = x
  <1> DEFINE R == {p \in S \X S : p[1] < p[2]}
             rank == [i \in S |-> Rank(S, R, i)]
             m == Cardinality(S)
             o == InOrder(S)
  <1>1. \A i \in S : i \in Int
    OBVIOUS
  <1>2. \A i, j \in S : <<i, j>> \in R <=> i < j
    OBVIOUS
  <1>3. Orders(R, S)
    BY <1>1, <1>2 DEF Orders
  <1>4. \A x \in S : {y \in S : y < x} = {y \in S : <<y, x>> \in R}
    BY <1>2
  <1> HIDE DEF R
  <1>5. /\ m \in Nat
        /\ \A i \in S : rank[i] \in 0 .. m - 1
        /\ \A i, j \in S : rank[i] = rank[j] => i = j
        /\ \A n \in 0 .. m - 1 : \E i \in S : rank[i] = n
    <2>1. /\ Cardinality(S) \in Nat
          /\ \A i \in S : Rank(S, R, i) \in 0 .. Cardinality(S) - 1
          /\ \A i, j \in S : Rank(S, R, i) = Rank(S, R, j) => i = j
      BY <1>3, Ranked
    <2>2. \A n \in 0 .. Cardinality(S) - 1 : \E i \in S : Rank(S, R, i) = n
      BY <1>3, Ranked
    <2>3. QED
      BY <2>1, <2>2
  <1>6. ASSUME NEW x \in S PROVE Cardinality({y \in S : y < x}) = rank[x]
    <2>1. {y \in S : y < x} = {y \in S : <<y, x>> \in R}
      BY <1>4
    <2>2. rank[x] = Cardinality({y \in S : <<y, x>> \in R})
      BY DEF Rank
    <2>3. QED
      BY <2>1, <2>2
  <1> HIDE DEF rank, m
  <1>7. \A k \in 1 .. m : o[k] = CHOOSE x \in S : Cardinality({y \in S : y < x}) = k - 1
    BY DEF InOrder, m
  <1> HIDE DEF o
  <1>8. ASSUME NEW k \in 1 .. m PROVE o[k] \in S /\ rank[o[k]] = k - 1
    <2>1. k - 1 \in 0 .. m - 1
      BY <1>5
    <2>2. \E x \in S : Cardinality({y \in S : y < x}) = k - 1
      BY <1>5, <1>6, <2>1
    <2>3. o[k] \in S /\ Cardinality({y \in S : y < o[k]}) = k - 1
      BY <1>7, <2>2
    <2>4. QED
      BY <1>6, <2>3
  <1>9. ASSUME NEW k \in 1 .. m, NEW n \in 1 .. m, o[k] = o[n] PROVE k = n
    <2>1. k - 1 = n - 1
      BY <1>8, <1>9
    <2>2. QED
      BY <1>5, <2>1
  <1>10. ASSUME NEW x \in S PROVE \E k \in 1 .. m : o[k] = x
    <2>1. rank[x] \in 0 .. m - 1
      BY <1>5
    <2>2. rank[x] + 1 \in 1 .. m /\ (rank[x] + 1) - 1 = rank[x]
      BY <1>5, <2>1
    <2>3. o[rank[x] + 1] \in S /\ rank[o[rank[x] + 1]] = rank[x]
      BY <1>8, <2>2
    <2>4. QED
      BY <1>5, <2>2, <2>3
  <1>11. QED
    BY <1>5, <1>8, <1>9, <1>10 DEF m, o

-----------------------------------------------------------------------------
(* The tables.                                                             *)

HistorySamples == [id : Nat, ts : Nat]
RowsOver(A) == [ts : Int, ids : SUBSET A]

\* A sample is behind some row.
Stored(T, s) == \E t \in Tiers : \E i \in 1 .. Len(T[t]) : s \in T[t][i].ids

RowOf(s) == [ts |-> s.ts, ids |-> {s}]

\* A raw row is that of one sample, and no two are of the same.
RawOK(tier, A) ==
  /\ \A i \in 1 .. Len(tier) : \E s \in A : tier[i] = RowOf(s)
  /\ \A i, j \in 1 .. Len(tier) : tier[i] = tier[j] => i = j

\* A sample is behind one row, unless it was doubled.
OnceOK(T, D) ==
  \A t, u \in Tiers : \A i \in 1 .. Len(T[t]), j \in 1 .. Len(T[u]) :
    \A s \in T[t][i].ids : s \in T[u][j].ids => s \in D \/ (t = u /\ i = j)

\* What is behind a coarser row is older than the raw rows are kept.
OldOK(tier, n) ==
  \A i \in 1 .. Len(tier) : \A s \in tier[i].ids : s.ts < n - rawRetention

\* Tables of rows about A at the time n.
StoreOK(T, A, D, n) ==
  /\ T \in [Tiers -> Seq(RowsOver(A))]
  /\ RawOK(T["raw"], A) /\ OnceOK(T, D)
  /\ OldOK(T["minute"], n) /\ OldOK(T["hour"], n)

LEMMA RowOfIs ==
  /\ \A s : RowOf(s).ts = s.ts /\ RowOf(s).ids = {s}
  /\ \A s, q : RowOf(s) = RowOf(q) => s = q
  <1>1. \A s : RowOf(s).ts = s.ts /\ RowOf(s).ids = {s}
    BY DEF RowOf
  <1>2. ASSUME NEW s, NEW q, RowOf(s) = RowOf(q) PROVE s = q
    <2>1. {s} = {q}
      BY <1>1, <1>2
    <2>2. QED
      BY <2>1
  <1>3. QED
    BY <1>1, <1>2

LEMMA TiersAre ==
  /\ "raw" \in Tiers /\ "minute" \in Tiers /\ "hour" \in Tiers
  /\ \A t \in Tiers : t = "raw" \/ t = "minute" \/ t = "hour"
  BY DEF Tiers

LEMMA RowsIn ==
  ASSUME NEW A, NEW tier \in Seq(RowsOver(A))
  PROVE  /\ Len(tier) \in Nat /\ DOMAIN tier = 1 .. Len(tier)
         /\ \A i \in 1 .. Len(tier) :
              tier[i] \in RowsOver(A) /\ tier[i].ts \in Int /\ tier[i].ids \subseteq A
  <1>1. Len(tier) \in Nat /\ DOMAIN tier = 1 .. Len(tier)
    BY LenProperties
  <1>2. \A i \in 1 .. Len(tier) : tier[i] \in RowsOver(A)
    BY ElementOfSeq
  <1>3. QED
    BY <1>1, <1>2 DEF RowsOver

LEMMA MoreRows ==
  ASSUME NEW A, NEW B, A \subseteq B
  PROVE  RowsOver(A) \subseteq RowsOver(B) /\ Seq(RowsOver(A)) \subseteq Seq(RowsOver(B))
  <1>1. RowsOver(A) \subseteq RowsOver(B)
    BY DEF RowsOver
  <1>2. QED
    BY <1>1

\* One after another, by index.
LEMMA RowsJoined ==
  ASSUME NEW X, NEW s \in Seq(X), NEW r \in Seq(X)
  PROVE  /\ s \o r \in Seq(X) /\ Len(s \o r) = Len(s) + Len(r)
         /\ \A i \in 1 .. Len(s) : i \in 1 .. Len(s \o r) /\ (s \o r)[i] = s[i]
         /\ \A i \in 1 .. Len(r) :
              Len(s) + i \in 1 .. Len(s \o r) /\ (s \o r)[Len(s) + i] = r[i]
         /\ \A i \in 1 .. Len(s \o r) :
              \/ i \in 1 .. Len(s) /\ (s \o r)[i] = s[i]
              \/ i - Len(s) \in 1 .. Len(r) /\ i \notin 1 .. Len(s)
                 /\ (s \o r)[i] = r[i - Len(s)]
  <1>1. Len(s) \in Nat /\ Len(r) \in Nat
    BY LenProperties
  <1>2. s \o r \in Seq(X) /\ Len(s \o r) = Len(s) + Len(r)
    BY ConcatProperties
  <1>3. \A i \in 1 .. Len(s) + Len(r) :
          (s \o r)[i] = IF i <= Len(s) THEN s[i] ELSE r[i - Len(s)]
    BY ConcatProperties
  <1> DEFINE n == s \o r
  <1> HIDE DEF n
  <1>4. \A i \in 1 .. Len(s) : i \in 1 .. Len(n) /\ n[i] = s[i]
    BY <1>1, <1>2, <1>3 DEF n
  <1>5. \A i \in 1 .. Len(r) : Len(s) + i \in 1 .. Len(n) /\ n[Len(s) + i] = r[i]
    <2> TAKE i \in 1 .. Len(r)
    <2>1. Len(s) + i \in 1 .. Len(s) + Len(r) /\ ~(Len(s) + i <= Len(s)) /\ (Len(s) + i) - Len(s) = i
      BY <1>1
    <2>2. QED
      BY <1>2, <1>3, <2>1 DEF n
  <1>6. \A i \in 1 .. Len(n) :
          \/ i \in 1 .. Len(s) /\ n[i] = s[i]
          \/ i - Len(s) \in 1 .. Len(r) /\ i \notin 1 .. Len(s) /\ n[i] = r[i - Len(s)]
    BY <1>1, <1>2, <1>3 DEF n
  <1>7. QED
    BY <1>2, <1>4, <1>5, <1>6 DEF n

\* The tables stay right as time goes by, samples are accepted and doubled.
LEMMA StoreLater ==
  ASSUME NEW T, NEW A, NEW B, NEW D, NEW E, NEW n \in Nat, NEW m \in Nat,
         StoreOK(T, A, D, n), A \subseteq B, B \subseteq HistorySamples, D \subseteq E, n <= m
  PROVE  StoreOK(T, B, E, m)
  <1>1. T \in [Tiers -> Seq(RowsOver(A))]
    BY DEF StoreOK
  <1>2. T \in [Tiers -> Seq(RowsOver(B))]
    BY <1>1, MoreRows
  <1>3. RawOK(T["raw"], B) /\ OnceOK(T, E)
    BY DEF StoreOK, RawOK, OnceOK
  <1>4. ASSUME NEW t \in Tiers, OldOK(T[t], n) PROVE OldOK(T[t], m)
    <2> SUFFICES ASSUME NEW i \in 1 .. Len(T[t]), NEW s \in T[t][i].ids
                 PROVE  s.ts < m - rawRetention
      BY DEF OldOK
    <2>1. s \in HistorySamples
      BY <1>1, RowsIn
    <2>2. s.ts < n - rawRetention /\ s.ts \in Nat /\ rawRetention \in Nat
      BY <1>4, <2>1, HistorianAssumption DEF OldOK, HistorySamples
    <2>3. QED
      BY <2>2
  <1>5. QED
    BY <1>2, <1>3, <1>4, TiersAre DEF StoreOK

\* write(): rows of samples that are new.
LEMMA StoreWritten ==
  ASSUME NEW T, NEW A \in SUBSET HistorySamples, NEW D, NEW n, StoreOK(T, A, D, n),
         NEW batch \in Seq(HistorySamples),
         \A i \in 1 .. Len(batch) : batch[i] \notin A,
         \A i, j \in 1 .. Len(batch) : batch[i] = batch[j] => i = j
  PROVE  LET T2 == [T EXCEPT !["raw"] = @ \o RawRows(batch)]
         IN  /\ StoreOK(T2, A \cup Range(batch), D, n)
             /\ \A s : Stored(T, s) \/ s \in Range(batch) => Stored(T2, s)
  <1> DEFINE r == RawRows(batch)
             raw == T["raw"]
             B == A \cup Range(batch)
             T2 == [T EXCEPT !["raw"] = raw \o r]
  <1>1. /\ Len(batch) \in Nat /\ DOMAIN batch = 1 .. Len(batch)
        /\ \A i \in 1 .. Len(batch) : batch[i] \in HistorySamples
    BY LenProperties, ElementOfSeq
  <1>2. /\ T \in [Tiers -> Seq(RowsOver(A))] /\ T \in [Tiers -> Seq(RowsOver(B))]
        /\ raw \in Seq(RowsOver(A)) /\ raw \in Seq(RowsOver(B))
    <2>1. T \in [Tiers -> Seq(RowsOver(A))]
      BY DEF StoreOK
    <2>2. Seq(RowsOver(A)) \subseteq Seq(RowsOver(B))
      BY MoreRows
    <2>3. QED
      BY <2>1, <2>2, TiersAre
  <1>3. \A i \in 1 .. Len(batch) : batch[i] \in Range(batch)
    BY <1>1 DEF Range
  <1>4. \A s \in Range(batch) : \E i \in 1 .. Len(batch) : batch[i] = s
    BY <1>1 DEF Range
  <1>5. /\ DOMAIN r = 1 .. Len(batch)
        /\ \A i \in 1 .. Len(batch) : r[i] = RowOf(batch[i])
    BY <1>1 DEF RawRows, RowOf
  <1>6. \A i \in 1 .. Len(batch) : r[i] \in RowsOver(B)
    BY <1>1, <1>3, <1>5 DEF RowsOver, RowOf, HistorySamples
  <1>7. r \in Seq(RowsOver(B)) /\ Len(r) = Len(batch)
    <2>1. r = [i \in DOMAIN r |-> r[i]]
      BY DEF RawRows
    <2> HIDE DEF r, B
    <2>2. r \in [1 .. Len(batch) -> RowsOver(B)]
      BY <1>5, <1>6, <2>1
    <2>3. r \in Seq(RowsOver(B))
      BY <1>1, <2>2, SeqDef
    <2>4. QED
      BY <1>1, <1>5, <2>3, LenProperties
  <1>l. Len(raw) \in Nat
    BY <1>2, RowsIn
  <1>r. /\ \A i \in 1 .. Len(raw) : \E s \in A : raw[i] = RowOf(s)
        /\ \A i, j \in 1 .. Len(raw) : raw[i] = raw[j] => i = j
    BY DEF StoreOK, RawOK
  <1> HIDE DEF r, B, raw
  <1>8. raw \o r \in Seq(RowsOver(B)) /\ Len(raw \o r) = Len(raw) + Len(r)
    BY <1>2, <1>7, RowsJoined
  <1>a. \A i \in 1 .. Len(raw) : i \in 1 .. Len(raw \o r) /\ (raw \o r)[i] = raw[i]
    BY <1>2, <1>7, RowsJoined
  <1>b. \A i \in 1 .. Len(r) :
          Len(raw) + i \in 1 .. Len(raw \o r) /\ (raw \o r)[Len(raw) + i] = r[i]
    BY <1>2, <1>7, RowsJoined
  <1>c. \A i \in 1 .. Len(raw \o r) :
          \/ i \in 1 .. Len(raw) /\ (raw \o r)[i] = raw[i]
          \/ i - Len(raw) \in 1 .. Len(r) /\ i \notin 1 .. Len(raw)
             /\ (raw \o r)[i] = r[i - Len(raw)]
    BY <1>2, <1>7, RowsJoined
  <1> DEFINE q == raw \o r
  <1>9. T2 = [T EXCEPT !["raw"] = q] /\ T2["raw"] = q /\ T2["minute"] = T["minute"]
        /\ T2["hour"] = T["hour"] /\ \A t \in Tiers : t # "raw" => T2[t] = T[t]
    BY <1>2, TiersAre DEF raw
  <1>10. T2 \in [Tiers -> Seq(RowsOver(B))]
    BY <1>2, <1>8, <1>9
  <1> HIDE DEF q, T2
  \* A new row is about a sample of the batch, an old one about one of A.
  <1>11. \A i \in 1 .. Len(q) :
           \/ i \in 1 .. Len(raw) /\ q[i] = raw[i] /\ \E s \in A : q[i] = RowOf(s)
           \/ /\ i \notin 1 .. Len(raw) /\ i - Len(raw) \in 1 .. Len(batch)
              /\ q[i] = RowOf(batch[i - Len(raw)])
    BY <1>5, <1>7, <1>c, <1>r DEF q
  <1>12. RawOK(q, B)
    <2>1. ASSUME NEW i \in 1 .. Len(q) PROVE \E s \in B : q[i] = RowOf(s)
      BY <1>3, <1>11 DEF B
    <2>2. ASSUME NEW i \in 1 .. Len(q), NEW j \in 1 .. Len(q), q[i] = q[j] PROVE i = j
      <3>1. CASE i \in 1 .. Len(raw) /\ j \in 1 .. Len(raw)
        BY <1>11, <1>r, <2>2, <3>1
      <3>2. CASE i \in 1 .. Len(raw) /\ j \notin 1 .. Len(raw)
        <4>1. PICK s \in A : q[i] = RowOf(s)
          BY <1>11, <3>2
        <4>2. j - Len(raw) \in 1 .. Len(batch) /\ q[j] = RowOf(batch[j - Len(raw)])
          BY <1>11, <3>2
        <4>3. s = batch[j - Len(raw)]
          BY <2>2, <4>1, <4>2, RowOfIs
        <4>4. QED
          BY <4>2, <4>3
      <3>3. CASE j \in 1 .. Len(raw) /\ i \notin 1 .. Len(raw)
        <4>1. PICK s \in A : q[j] = RowOf(s)
          BY <1>11, <3>3
        <4>2. i - Len(raw) \in 1 .. Len(batch) /\ q[i] = RowOf(batch[i - Len(raw)])
          BY <1>11, <3>3
        <4>3. s = batch[i - Len(raw)]
          BY <2>2, <4>1, <4>2, RowOfIs
        <4>4. QED
          BY <4>2, <4>3
      <3>4. CASE i \notin 1 .. Len(raw) /\ j \notin 1 .. Len(raw)
        <4>1. /\ i - Len(raw) \in 1 .. Len(batch) /\ j - Len(raw) \in 1 .. Len(batch)
              /\ RowOf(batch[i - Len(raw)]) = RowOf(batch[j - Len(raw)])
          BY <1>11, <2>2, <3>4
        <4>2. i - Len(raw) = j - Len(raw)
          BY <4>1, RowOfIs
        <4>3. QED
          BY <1>l, <4>2
      <3>5. QED
        BY <3>1, <3>2, <3>3, <3>4
    <2>3. QED
      BY <2>1, <2>2 DEF RawOK
  <1>13. OnceOK(T2, D)
    <2> SUFFICES ASSUME NEW t \in Tiers, NEW u \in Tiers, NEW i \in 1 .. Len(T2[t]),
                        NEW j \in 1 .. Len(T2[u]), NEW s \in T2[t][i].ids, s \in T2[u][j].ids
                 PROVE  s \in D \/ (t = u /\ i = j)
      BY DEF OnceOK
    <2>1. ASSUME NEW v \in Tiers, NEW k \in 1 .. Len(T2[v]), s \in T2[v][k].ids, s \in A
          PROVE  k \in 1 .. Len(T[v]) /\ s \in T[v][k].ids
      <3>1. CASE v = "raw"
        BY <1>9, <1>11, <2>1, <3>1, RowOfIs DEF raw
      <3>2. CASE v # "raw"
        BY <1>9, <2>1, <3>2
      <3>3. QED
        BY <3>1, <3>2
    <2>2. ASSUME NEW v \in Tiers, NEW k \in 1 .. Len(T2[v]), s \in T2[v][k].ids, s \notin A
          PROVE  v = "raw" /\ T2[v][k] = RowOf(s)
      <3>1. CASE v = "raw"
        BY <1>9, <1>11, <2>2, <3>1, RowOfIs
      <3>2. CASE v # "raw"
        BY <1>2, <1>9, <2>2, <3>2, RowsIn
      <3>3. QED
        BY <3>1, <3>2
    <2>3. CASE s \in A
      BY <2>1, <2>3 DEF StoreOK, OnceOK
    <2>4. CASE s \notin A
      <3>1. t = "raw" /\ u = "raw" /\ T2["raw"][i] = T2["raw"][j]
        BY <2>2, <2>4
      <3>2. QED
        BY <1>9, <1>12, <3>1 DEF RawOK
    <2>5. QED
      BY <2>3, <2>4
  <1>14. StoreOK(T2, B, D, n)
    BY <1>9, <1>10, <1>12, <1>13 DEF StoreOK
  <1>15. ASSUME NEW s, Stored(T, s) PROVE Stored(T2, s)
    <2>1. PICK t \in Tiers : \E i \in 1 .. Len(T[t]) : s \in T[t][i].ids
      BY <1>15 DEF Stored
    <2>2. PICK i \in 1 .. Len(T[t]) : s \in T[t][i].ids
      BY <2>1
    <2>3. i \in 1 .. Len(T2[t]) /\ s \in T2[t][i].ids
      BY <1>a, <1>9, <2>2 DEF q, raw
    <2>4. QED
      BY <2>3 DEF Stored
  <1>16. ASSUME NEW s \in Range(batch) PROVE Stored(T2, s)
    <2>1. PICK i \in 1 .. Len(batch) : batch[i] = s
      BY <1>4
    <2>2. Len(raw) + i \in 1 .. Len(q) /\ s \in q[Len(raw) + i].ids
      BY <1>5, <1>7, <1>b, <2>1, RowOfIs DEF q
    <2>3. QED
      BY <1>9, <2>2, TiersAre DEF Stored
  <1>17. QED
    BY <1>14, <1>15, <1>16 DEF T2, B, q, r, raw

\* The averages have every sample behind the old rows, and no other, and a
\* sample behind two of them was behind two rows.
LEMMA AveragesIs ==
  ASSUME NEW A, NEW tier \in Seq(RowsOver(A)), NEW cutoff \in Int, NEW bucket \in Nat \ {0}
  PROVE  LET av == Averages(tier, cutoff, bucket)
         IN  /\ av \in Seq(RowsOver(A))
             /\ \A k \in 1 .. Len(av) : \A s \in av[k].ids :
                  \E i \in 1 .. Len(tier) : tier[i].ts < cutoff /\ s \in tier[i].ids
             /\ \A i \in 1 .. Len(tier) : tier[i].ts < cutoff =>
                  \A s \in tier[i].ids : \E k \in 1 .. Len(av) : s \in av[k].ids
             /\ \A k, m \in 1 .. Len(av) : k # m =>
                  \A s \in av[k].ids : s \in av[m].ids =>
                    \E i, j \in 1 .. Len(tier) : i # j /\ s \in tier[i].ids /\ s \in tier[j].ids
  <1> DEFINE old == {i \in DOMAIN tier : tier[i].ts < cutoff}
             B(i) == tier[i].ts \div bucket
             buckets == {B(i) : i \in old}
             In(b) == {j \in old : B(j) = b}
             Row(b) == [ts |-> b * bucket, ids |-> UNION {tier[i].ids : i \in In(b)}]
             o == InOrder(buckets)
             c == Cardinality(buckets)
             av == Averages(tier, cutoff, bucket)
  <1>1. /\ Len(tier) \in Nat /\ DOMAIN tier = 1 .. Len(tier)
        /\ \A i \in 1 .. Len(tier) : tier[i].ts \in Int /\ tier[i].ids \subseteq A
    BY RowsIn
  <1>2. old \subseteq 1 .. Len(tier) /\ \A i \in old : B(i) \in Int
    BY <1>1
  <1>3. buckets \in SUBSET Int
    BY <1>2
  <1>4. IsFiniteSet(old)
    <2>1. 1 \in Int /\ Len(tier) \in Int
      BY <1>1
    <2> HIDE DEF old
    <2>2. IsFiniteSet(1 .. Len(tier))
      BY <2>1, FS_Interval
    <2>3. QED
      BY <1>2, <2>2, FS_Subset
  <1>5. IsFiniteSet(buckets)
    <2> DEFINE f == [i \in old |-> B(i)]
    <2>1. f \in Surjection(old, buckets)
      BY DEF Surjection
    <2> HIDE DEF f, old, buckets
    <2>2. QED
      BY <1>4, <2>1, FS_Surjection
  <1>6. av = [k \in 1 .. c |-> Row(o[k])]
    BY DEF Averages
  <1>7. \A b \in buckets : Row(b) \in RowsOver(A)
    <2> TAKE b \in buckets
    <2>1. b * bucket \in Int
      <3>1. b \in Int /\ bucket \in Int
        BY <1>3
      <3> HIDE DEF buckets
      <3>2. QED
        BY <3>1
    <2>2. UNION {tier[i].ids : i \in In(b)} \subseteq A
      BY <1>1
    <2>3. QED
      BY <2>1, <2>2 DEF RowsOver
  <1>8. \A b \in buckets : Row(b).ids = UNION {tier[i].ids : i \in In(b)}
    OBVIOUS
  <1>9. \A i \in old : B(i) \in buckets
    OBVIOUS
  <1>10. \A i : i \in old <=> i \in 1 .. Len(tier) /\ tier[i].ts < cutoff
    BY <1>1
  <1>i. \A b, i : i \in In(b) <=> i \in old /\ B(i) = b
    OBVIOUS
  <1> HIDE DEF old, B, buckets, In, Row, o, c, av
  <1>11. /\ c \in Nat
         /\ \A k \in 1 .. c : o[k] \in buckets
         /\ \A k, m \in 1 .. c : o[k] = o[m] => k = m
         /\ \A b \in buckets : \E k \in 1 .. c : o[k] = b
    <2>1. c \in Nat /\ \A k \in 1 .. c : o[k] \in buckets
      BY <1>3, <1>5, InOrderIs DEF o, c
    <2>2. \A k, m \in 1 .. c : o[k] = o[m] => k = m
      BY <1>3, <1>5, InOrderIs DEF o, c
    <2>3. \A b \in buckets : \E k \in 1 .. c : o[k] = b
      BY <1>3, <1>5, InOrderIs DEF o, c
    <2>4. QED
      BY <2>1, <2>2, <2>3
  <1>12. av \in [1 .. c -> RowsOver(A)]
    BY <1>6, <1>7, <1>11
  <1>13. av \in Seq(RowsOver(A)) /\ Len(av) = c
    <2>1. av \in Seq(RowsOver(A))
      BY <1>11, <1>12, SeqDef
    <2>2. DOMAIN av = 1 .. c
      BY <1>12
    <2>3. QED
      BY <1>11, <2>1, <2>2, LenProperties
  <1>14. \A k \in 1 .. c : av[k].ids = UNION {tier[i].ids : i \in In(o[k])}
    BY <1>6, <1>8, <1>11
  <1>15. ASSUME NEW k \in 1 .. c, NEW s \in av[k].ids
         PROVE  \E i \in 1 .. Len(tier) : tier[i].ts < cutoff /\ s \in tier[i].ids /\ B(i) = o[k]
    <2>1. PICK i \in In(o[k]) : s \in tier[i].ids
      BY <1>14, <1>15
    <2>2. QED
      BY <1>10, <1>i, <2>1
  <1>16. ASSUME NEW i \in 1 .. Len(tier), tier[i].ts < cutoff, NEW s \in tier[i].ids
         PROVE  \E k \in 1 .. c : s \in av[k].ids
    <2>1. i \in old /\ B(i) \in buckets
      BY <1>9, <1>10, <1>16
    <2>2. PICK k \in 1 .. c : o[k] = B(i)
      BY <1>11, <2>1
    <2>3. i \in In(o[k])
      BY <1>i, <2>1, <2>2
    <2>4. QED
      BY <1>14, <2>2, <2>3
  <1>17. ASSUME NEW k \in 1 .. c, NEW m \in 1 .. c, k # m, NEW s \in av[k].ids, s \in av[m].ids
         PROVE  \E i, j \in 1 .. Len(tier) : i # j /\ s \in tier[i].ids /\ s \in tier[j].ids
    <2>1. PICK i \in 1 .. Len(tier) : s \in tier[i].ids /\ B(i) = o[k]
      BY <1>15
    <2>2. PICK j \in 1 .. Len(tier) : s \in tier[j].ids /\ B(j) = o[m]
      BY <1>15, <1>17
    <2>3. o[k] # o[m]
      BY <1>11, <1>17
    <2>4. QED
      BY <2>1, <2>2, <2>3
  <1>18. QED
    BY <1>13, <1>15, <1>16, <1>17 DEF av

\* r has the rows whose index is in S, each of them once.
Selects(r, tier, S) ==
  \E g \in [1 .. Len(r) -> S] :
    /\ \A k \in 1 .. Len(r) : r[k] = tier[g[k]]
    /\ \A k, m \in 1 .. Len(r) : g[k] = g[m] => k = m
    /\ \A i \in S : \E k \in 1 .. Len(r) : g[k] = i

LEMMA RowsAtIs ==
  ASSUME NEW A, NEW tier \in Seq(RowsOver(A)), NEW S \in SUBSET (1 .. Len(tier))
  PROVE  /\ RowsAt(tier, S) \in Seq(RowsOver(A))
         /\ Selects(RowsAt(tier, S), tier, S)
  <1> DEFINE r == RowsAt(tier, S)
             c == Cardinality(S)
             o == InOrder(S)
             g == [k \in 1 .. c |-> o[k]]
  <1>1. Len(tier) \in Nat /\ \A i \in 1 .. Len(tier) : tier[i] \in RowsOver(A)
    BY RowsIn
  <1>2. S \in SUBSET Int /\ IsFiniteSet(S)
    <2>1. IsFiniteSet(1 .. Len(tier))
      BY <1>1, FS_Interval
    <2>2. IsFiniteSet(S)
      BY <2>1, FS_Subset
    <2>3. S \in SUBSET Int
      BY <1>1
    <2>4. QED
      BY <2>2, <2>3
  <1>3. r = [k \in 1 .. c |-> tier[o[k]]]
    BY DEF RowsAt
  <1> HIDE DEF r, c, o
  <1>4. c \in Nat /\ \A k \in 1 .. c : o[k] \in S
    BY <1>2, InOrderIs DEF o, c
  <1>5. \A k, m \in 1 .. c : o[k] = o[m] => k = m
    BY <1>2, InOrderIs DEF o, c
  <1>6. \A b \in S : \E k \in 1 .. c : o[k] = b
    BY <1>2, InOrderIs DEF o, c
  <1>7. r \in [1 .. c -> RowsOver(A)]
    BY <1>1, <1>3, <1>4
  <1>8. r \in Seq(RowsOver(A)) /\ Len(r) = c
    <2>1. r \in Seq(RowsOver(A))
      BY <1>4, <1>7, SeqDef
    <2>2. DOMAIN r = 1 .. c
      BY <1>7
    <2>3. QED
      BY <1>4, <2>1, <2>2, LenProperties
  <1>9. g \in [1 .. c -> S] /\ \A k \in 1 .. c : g[k] = o[k]
    BY <1>4
  <1> HIDE DEF g
  <1>10. \A k \in 1 .. c : r[k] = tier[g[k]]
    BY <1>3, <1>9
  <1>11. \E h \in [1 .. Len(r) -> S] :
           /\ \A k \in 1 .. Len(r) : r[k] = tier[h[k]]
           /\ \A k, m \in 1 .. Len(r) : h[k] = h[m] => k = m
           /\ \A i \in S : \E k \in 1 .. Len(r) : h[k] = i
    <2>1. g \in [1 .. Len(r) -> S]
      BY <1>8, <1>9
    <2>2. \A k, m \in 1 .. Len(r) : g[k] = g[m] => k = m
      BY <1>5, <1>8, <1>9
    <2>3. \A i \in S : \E k \in 1 .. Len(r) : g[k] = i
      BY <1>6, <1>8, <1>9
    <2>4. QED
      BY <1>8, <1>10, <2>1, <2>2, <2>3
  <1>12. QED
    BY <1>8, <1>11 DEF r, Selects

\* The two demotions of a sweep.
Demotes(src, dst, cutoff, n) ==
  \/ src = "raw" /\ dst = "minute" /\ cutoff = n - rawRetention
  \/ src = "minute" /\ dst = "hour"

LEMMA AveragesOld ==
  ASSUME NEW T, NEW A, NEW D, NEW n, StoreOK(T, A, D, n),
         NEW src, NEW dst, NEW cutoff \in Int, NEW bucket \in Nat \ {0}, Demotes(src, dst, cutoff, n)
  PROVE  OldOK(Averages(T[src], cutoff, bucket), n)
  <1> DEFINE tier == T[src]
             av == Averages(tier, cutoff, bucket)
  <1>1. tier \in Seq(RowsOver(A))
    BY TiersAre DEF StoreOK, Demotes
  <1> SUFFICES ASSUME NEW k \in 1 .. Len(av), NEW s \in av[k].ids
               PROVE  s.ts < n - rawRetention
    BY DEF OldOK
  <1>2. PICK i \in 1 .. Len(tier) : tier[i].ts < cutoff /\ s \in tier[i].ids
    BY <1>1, AveragesIs
  <1>3. CASE src = "raw"
    <2>1. PICK x \in A : tier[i] = RowOf(x)
      BY <1>3 DEF StoreOK, RawOK
    <2>2. x = s /\ tier[i].ts = s.ts
      BY <1>2, <2>1, RowOfIs
    <2>3. QED
      BY <1>2, <1>3, <2>2 DEF Demotes
  <1>4. CASE src = "minute"
    BY <1>2, <1>4 DEF StoreOK, OldOK
  <1>5. QED
    BY <1>3, <1>4 DEF Demotes

LEMMA OldJoined ==
  ASSUME NEW X, NEW p \in Seq(X), NEW r \in Seq(X), NEW n, OldOK(p, n), OldOK(r, n)
  PROVE  OldOK(p \o r, n)
  <1>1. \A i \in 1 .. Len(p \o r) :
          \/ i \in 1 .. Len(p) /\ (p \o r)[i] = p[i]
          \/ i - Len(p) \in 1 .. Len(r) /\ i \notin 1 .. Len(p) /\ (p \o r)[i] = r[i - Len(p)]
    BY RowsJoined
  <1> SUFFICES ASSUME NEW i \in 1 .. Len(p \o r), NEW s \in (p \o r)[i].ids
               PROVE  s.ts < n - rawRetention
    BY DEF OldOK
  <1>2. CASE i \in 1 .. Len(p) /\ (p \o r)[i] = p[i]
    BY <1>2 DEF OldOK
  <1>3. CASE i - Len(p) \in 1 .. Len(r) /\ (p \o r)[i] = r[i - Len(p)]
    BY <1>3 DEF OldOK
  <1>4. QED
    BY <1>1, <1>2, <1>3

\* A demotion whose DELETE failed.
LEMMA StoreCopied ==
  ASSUME NEW T, NEW A, NEW D, NEW n, StoreOK(T, A, D, n),
         NEW src, NEW dst, NEW cutoff \in Int, NEW bucket \in Nat \ {0}, Demotes(src, dst, cutoff, n)
  PROVE  LET av == Averages(T[src], cutoff, bucket)
             T2 == [T EXCEPT ![dst] = @ \o av]
         IN  /\ StoreOK(T2, A, D \cup IdsOf(av), n)
             /\ \A s : Stored(T, s) => Stored(T2, s)
  <1> DEFINE av == Averages(T[src], cutoff, bucket)
             p == T[dst]
             q == p \o av
             T2 == [T EXCEPT ![dst] = q]
             E == D \cup IdsOf(av)
  <1>1. /\ T \in [Tiers -> Seq(RowsOver(A))] /\ src \in Tiers /\ dst \in Tiers /\ dst # "raw"
        /\ p \in Seq(RowsOver(A))
    BY TiersAre DEF StoreOK, Demotes
  <1>2. av \in Seq(RowsOver(A))
    BY <1>1, AveragesIs
  <1>3. OldOK(av, n)
    BY AveragesOld
  <1>4. \A k \in 1 .. Len(av) : av[k].ids \subseteq IdsOf(av)
    <2>1. DOMAIN av = 1 .. Len(av)
      BY <1>2, RowsIn
    <2> HIDE DEF av
    <2>2. QED
      BY <2>1 DEF IdsOf
  <1> HIDE DEF av, p, E
  <1>5. q \in Seq(RowsOver(A))
    BY <1>1, <1>2, RowsJoined
  <1>6. \A i \in 1 .. Len(p) : i \in 1 .. Len(q) /\ q[i] = p[i]
    BY <1>1, <1>2, RowsJoined
  <1>7. \A i \in 1 .. Len(q) :
          \/ i \in 1 .. Len(p) /\ q[i] = p[i]
          \/ i - Len(p) \in 1 .. Len(av) /\ i \notin 1 .. Len(p) /\ q[i] = av[i - Len(p)]
    BY <1>1, <1>2, RowsJoined
  <1>8. OldOK(p, n)
    BY DEF StoreOK, Demotes, p
  <1>9. OldOK(q, n)
    BY <1>1, <1>2, <1>3, <1>8, OldJoined
  <1> HIDE DEF q
  <1>10. /\ T2 \in [Tiers -> Seq(RowsOver(A))] /\ T2[dst] = q
         /\ \A t \in Tiers : t # dst => T2[t] = T[t]
    BY <1>1, <1>5
  <1> HIDE DEF T2
  <1>11. RawOK(T2["raw"], A)
    BY <1>1, <1>10, TiersAre DEF StoreOK
  <1>12. OldOK(T2["minute"], n) /\ OldOK(T2["hour"], n)
    <2>1. \A t \in Tiers : t # "raw" => OldOK(T2[t], n)
      BY <1>9, <1>10, TiersAre DEF StoreOK
    <2>2. QED
      BY <2>1, TiersAre
  <1>13. OnceOK(T2, E)
    <2> SUFFICES ASSUME NEW t \in Tiers, NEW u \in Tiers, NEW i \in 1 .. Len(T2[t]),
                        NEW j \in 1 .. Len(T2[u]), NEW s \in T2[t][i].ids, s \in T2[u][j].ids,
                        s \notin E
                 PROVE  t = u /\ i = j
      BY DEF OnceOK
    <2>1. ASSUME NEW v \in Tiers, NEW k \in 1 .. Len(T2[v]), s \in T2[v][k].ids
          PROVE  k \in 1 .. Len(T[v]) /\ s \in T[v][k].ids
      <3>1. CASE v = dst
        BY <1>4, <1>7, <1>10, <2>1, <3>1 DEF p, E
      <3>2. CASE v # dst
        BY <1>10, <2>1, <3>2
      <3>3. QED
        BY <3>1, <3>2
    <2>2. s \notin D
      BY DEF E
    <2>3. QED
      BY <2>1, <2>2 DEF StoreOK, OnceOK
  <1>14. ASSUME NEW s, Stored(T, s) PROVE Stored(T2, s)
    <2>1. PICK t \in Tiers : \E i \in 1 .. Len(T[t]) : s \in T[t][i].ids
      BY <1>14 DEF Stored
    <2>2. PICK i \in 1 .. Len(T[t]) : s \in T[t][i].ids
      BY <2>1
    <2>3. i \in 1 .. Len(T2[t]) /\ s \in T2[t][i].ids
      BY <1>6, <1>10, <2>2 DEF p
    <2>4. QED
      BY <2>3 DEF Stored
  <1>15. QED
    BY <1>10, <1>11, <1>12, <1>13, <1>14 DEF StoreOK, T2, q, p, av, E

\* A demotion that was done.
LEMMA StoreMoved ==
  ASSUME NEW T, NEW A, NEW D, NEW n, StoreOK(T, A, D, n),
         NEW src, NEW dst, NEW cutoff \in Int, NEW bucket \in Nat \ {0}, Demotes(src, dst, cutoff, n)
  PROVE  LET av == Averages(T[src], cutoff, bucket)
             T2 == [T EXCEPT ![dst] = @ \o av]
             T3 == [T2 EXCEPT ![src] = KeptRows(@, cutoff)]
         IN  /\ StoreOK(T3, A, D, n)
             /\ \A s : Stored(T, s) => Stored(T3, s)
  <1> DEFINE tier == T[src]
             av == Averages(tier, cutoff, bucket)
             p == T[dst]
             q == p \o av
             T2 == [T EXCEPT ![dst] = q]
             S == {i \in DOMAIN tier : ~(tier[i].ts < cutoff)}
             kept == KeptRows(tier, cutoff)
             T3 == [T2 EXCEPT ![src] = kept]
  <1>1. /\ T \in [Tiers -> Seq(RowsOver(A))] /\ src \in Tiers /\ dst \in Tiers /\ dst # "raw"
        /\ src # dst /\ tier \in Seq(RowsOver(A)) /\ p \in Seq(RowsOver(A))
    BY TiersAre DEF StoreOK, Demotes
  <1>2. av \in Seq(RowsOver(A))
    BY <1>1, AveragesIs
  <1>3. OldOK(av, n)
    BY AveragesOld
  <1>4. \A k \in 1 .. Len(av) : \A s \in av[k].ids :
          \E i \in 1 .. Len(tier) : tier[i].ts < cutoff /\ s \in tier[i].ids
    BY <1>1, AveragesIs
  <1>5. \A i \in 1 .. Len(tier) : tier[i].ts < cutoff =>
          \A s \in tier[i].ids : \E k \in 1 .. Len(av) : s \in av[k].ids
    BY <1>1, AveragesIs
  <1>6. \A k, m \in 1 .. Len(av) : k # m =>
          \A s \in av[k].ids : s \in av[m].ids =>
            \E i, j \in 1 .. Len(tier) : i # j /\ s \in tier[i].ids /\ s \in tier[j].ids
    BY <1>1, AveragesIs
  <1>7. \A i : i \in S <=> i \in 1 .. Len(tier) /\ ~(tier[i].ts < cutoff)
    BY <1>1, RowsIn
  <1>8. kept = RowsAt(tier, S) /\ S \in SUBSET (1 .. Len(tier))
    BY <1>7 DEF KeptRows
  <1>w. T2 = [T EXCEPT ![dst] = @ \o av] /\ T3 = [T2 EXCEPT ![src] = KeptRows(@, cutoff)]
    BY <1>1
  <1> HIDE DEF av, p, S, kept, tier
  <1>9. kept \in Seq(RowsOver(A))
    BY <1>1, <1>8, RowsAtIs
  <1>s. Selects(kept, tier, S)
    BY <1>1, <1>8, RowsAtIs
  <1>10. PICK g \in [1 .. Len(kept) -> S] :
           /\ \A k \in 1 .. Len(kept) : kept[k] = tier[g[k]]
           /\ \A k, m \in 1 .. Len(kept) : g[k] = g[m] => k = m
           /\ \A i \in S : \E k \in 1 .. Len(kept) : g[k] = i
    BY <1>s DEF Selects
  <1>11. \A k \in 1 .. Len(kept) : g[k] \in S /\ g[k] \in 1 .. Len(tier) /\ ~(tier[g[k]].ts < cutoff)
    BY <1>7, <1>10
  <1>12. q \in Seq(RowsOver(A))
    BY <1>1, <1>2, RowsJoined
  <1>13. \A i \in 1 .. Len(p) : i \in 1 .. Len(q) /\ q[i] = p[i]
    BY <1>1, <1>2, RowsJoined
  <1>14. \A i \in 1 .. Len(av) : Len(p) + i \in 1 .. Len(q) /\ q[Len(p) + i] = av[i]
    BY <1>1, <1>2, RowsJoined
  <1>15. \A i \in 1 .. Len(q) :
           \/ i \in 1 .. Len(p) /\ q[i] = p[i]
           \/ i - Len(p) \in 1 .. Len(av) /\ i \notin 1 .. Len(p) /\ q[i] = av[i - Len(p)]
    BY <1>1, <1>2, RowsJoined
  <1>16. OldOK(p, n)
    BY DEF StoreOK, Demotes, p
  <1>17. OldOK(q, n)
    BY <1>1, <1>2, <1>3, <1>16, OldJoined
  <1>p. Len(p) \in Nat
    BY <1>1, RowsIn
  <1> HIDE DEF q
  <1>18. /\ T3 \in [Tiers -> Seq(RowsOver(A))] /\ T3[dst] = q /\ T3[src] = kept
         /\ \A t \in Tiers : t # dst /\ t # src => T3[t] = T[t]
    BY <1>1, <1>9, <1>12
  <1> HIDE DEF T3, T2
  <1>19. RawOK(T3["raw"], A)
    <2>1. CASE src = "raw"
      <3>1. RawOK(tier, A)
        BY <2>1 DEF StoreOK, tier
      <3>2. RawOK(kept, A)
        <4>1. \A k \in 1 .. Len(kept) : \E s \in A : kept[k] = RowOf(s)
          BY <1>10, <1>11, <3>1 DEF RawOK
        <4>2. ASSUME NEW k \in 1 .. Len(kept), NEW m \in 1 .. Len(kept), kept[k] = kept[m]
              PROVE  k = m
          <5>1. tier[g[k]] = tier[g[m]]
            BY <1>10, <4>2
          <5>2. g[k] = g[m]
            BY <1>11, <3>1, <5>1 DEF RawOK
          <5>3. QED
            BY <1>10, <5>2
        <4>3. QED
          BY <4>1, <4>2 DEF RawOK
      <3>3. QED
        BY <1>18, <2>1, <3>2
    <2>2. CASE src # "raw"
      BY <1>1, <1>18, <2>2, TiersAre DEF StoreOK
    <2>3. QED
      BY <2>1, <2>2
  <1>20. OldOK(T3["minute"], n) /\ OldOK(T3["hour"], n)
    <2>1. CASE src = "raw"
      BY <1>17, <1>18, <2>1, TiersAre DEF StoreOK, Demotes
    <2>2. CASE src = "minute"
      <3>1. OldOK(tier, n)
        BY <2>2 DEF StoreOK, tier
      <3>2. OldOK(kept, n)
        BY <1>10, <1>11, <3>1 DEF OldOK
      <3>3. QED
        BY <1>17, <1>18, <2>2, <3>2 DEF Demotes
    <2>3. QED
      BY <2>1, <2>2 DEF Demotes
  <1>21. OnceOK(T3, D)
    <2> SUFFICES ASSUME NEW t \in Tiers, NEW u \in Tiers, NEW i \in 1 .. Len(T3[t]),
                        NEW j \in 1 .. Len(T3[u]), NEW s \in T3[t][i].ids, s \in T3[u][j].ids,
                        s \notin D
                 PROVE  t = u /\ i = j
      BY DEF OnceOK
    <2> DEFINE New(v, k) == v = dst /\ k \notin 1 .. Len(p)
               From(v, k, w, a) ==
                 /\ New(v, k) => w = src /\ tier[a].ts < cutoff
                 /\ ~New(v, k) => w = v
                 /\ v = src => a = g[k] /\ ~(tier[a].ts < cutoff)
                 /\ ~New(v, k) /\ v # src => a = k
    \* Where a row's sample was before.
    <2>1. ASSUME NEW v \in Tiers, NEW k \in 1 .. Len(T3[v]), s \in T3[v][k].ids
          PROVE  \E w \in Tiers : \E a \in 1 .. Len(T[w]) : s \in T[w][a].ids /\ From(v, k, w, a)
      <3>1. CASE v = src
        <4>1. g[k] \in 1 .. Len(tier) /\ s \in tier[g[k]].ids /\ ~(tier[g[k]].ts < cutoff)
          BY <1>10, <1>11, <1>18, <2>1, <3>1
        <4>2. From(v, k, src, g[k])
          BY <1>1, <3>1, <4>1
        <4>3. QED
          BY <1>1, <4>1, <4>2 DEF tier
      <3>2. CASE New(v, k)
        <4>1. k - Len(p) \in 1 .. Len(av) /\ s \in av[k - Len(p)].ids
          BY <1>15, <1>18, <2>1, <3>2
        <4>2. PICK a \in 1 .. Len(tier) : tier[a].ts < cutoff /\ s \in tier[a].ids
          BY <1>4, <4>1
        <4>3. From(v, k, src, a)
          BY <1>1, <3>2, <4>2
        <4>4. QED
          BY <1>1, <4>2, <4>3 DEF tier
      <3>3. CASE v # src /\ ~New(v, k)
        <4>1. k \in 1 .. Len(T[v]) /\ s \in T[v][k].ids
          BY <1>15, <1>18, <2>1, <3>3 DEF p
        <4>2. From(v, k, v, k)
          BY <3>3
        <4>3. QED
          BY <4>1, <4>2
      <3>4. QED
        BY <3>1, <3>2, <3>3
    <2> HIDE DEF From
    <2>2. PICK w1 \in Tiers : \E a \in 1 .. Len(T[w1]) : s \in T[w1][a].ids /\ From(t, i, w1, a)
      BY <2>1
    <2>3. PICK a1 \in 1 .. Len(T[w1]) : s \in T[w1][a1].ids /\ From(t, i, w1, a1)
      BY <2>2
    <2>4. PICK w2 \in Tiers : \E a \in 1 .. Len(T[w2]) : s \in T[w2][a].ids /\ From(u, j, w2, a)
      BY <2>1
    <2>5. PICK a2 \in 1 .. Len(T[w2]) : s \in T[w2][a2].ids /\ From(u, j, w2, a2)
      BY <2>4
    <2>6. w1 = w2 /\ a1 = a2
      BY <2>3, <2>5 DEF StoreOK, OnceOK
    <2>7. t = u
      BY <1>1, <2>3, <2>5, <2>6 DEF From
    <2>8. CASE New(t, i) /\ New(u, j)
      <3>1. /\ i - Len(p) \in 1 .. Len(av) /\ s \in av[i - Len(p)].ids
            /\ j - Len(p) \in 1 .. Len(av) /\ s \in av[j - Len(p)].ids
        BY <1>15, <1>18, <2>8
      <3>2. \A a, b \in 1 .. Len(tier) : s \in tier[a].ids /\ s \in tier[b].ids => a = b
        BY <1>1 DEF StoreOK, OnceOK, tier
      <3>3. i - Len(p) = j - Len(p)
        BY <1>6, <3>1, <3>2
      <3>4. QED
        BY <1>p, <2>7, <3>3
    <2>9. CASE ~New(t, i) /\ ~New(u, j) /\ t # src
      BY <2>3, <2>5, <2>6, <2>7, <2>9 DEF From
    <2>10. CASE t = src
      BY <1>10, <1>18, <2>3, <2>5, <2>6, <2>7, <2>10 DEF From
    <2>11. New(t, i) <=> New(u, j)
      BY <1>1, <2>3, <2>5, <2>6, <2>7 DEF From
    <2>12. QED
      BY <2>8, <2>9, <2>10, <2>11
  <1>22. ASSUME NEW s, Stored(T, s) PROVE Stored(T3, s)
    <2>1. PICK t \in Tiers : \E i \in 1 .. Len(T[t]) : s \in T[t][i].ids
      BY <1>22 DEF Stored
    <2>2. PICK i \in 1 .. Len(T[t]) : s \in T[t][i].ids
      BY <2>1
    <2>3. CASE t = src /\ tier[i].ts < cutoff
      <3>1. PICK k \in 1 .. Len(av) : s \in av[k].ids
        BY <1>5, <2>2, <2>3 DEF tier
      <3>2. Len(p) + k \in 1 .. Len(T3[dst]) /\ s \in T3[dst][Len(p) + k].ids
        BY <1>14, <1>18, <3>1
      <3>3. QED
        BY <1>1, <3>2 DEF Stored
    <2>4. CASE t = src /\ ~(tier[i].ts < cutoff)
      <3>1. i \in S
        BY <1>7, <2>2, <2>4 DEF tier
      <3>2. PICK k \in 1 .. Len(kept) : g[k] = i
        BY <1>10, <3>1
      <3>3. k \in 1 .. Len(T3[src]) /\ s \in T3[src][k].ids
        BY <1>10, <1>18, <2>2, <2>4, <3>2 DEF tier
      <3>4. QED
        BY <1>1, <3>3 DEF Stored
    <2>5. CASE t # src
      <3>1. i \in 1 .. Len(T3[t]) /\ s \in T3[t][i].ids
        BY <1>13, <1>18, <2>2, <2>5 DEF p
      <3>2. QED
        BY <3>1 DEF Stored
    <2>6. QED
      BY <2>3, <2>4, <2>5
  <1>23. StoreOK(T3, A, D, n) /\ \A s : Stored(T, s) => Stored(T3, s)
    BY <1>18, <1>19, <1>20, <1>21, <1>22 DEF StoreOK
  <1>24. QED
    BY <1>w, <1>23 DEF av, tier

-----------------------------------------------------------------------------
(* The store and the bridge.                                               *)

HistoryTypes ==
  /\ now \in Nat /\ produced \in Nat /\ sweepNow \in Nat
  /\ pending \in Seq(HistorySamples) /\ accepted \subseteq HistorySamples
  /\ lost \subseteq accepted

HistoryFlags == txOpen \in BOOLEAN

\* Samples are numbered as they come and stamped with the clock: one that waits
\* was not accepted yet.
SamplesNew ==
  /\ \A i \in 1 .. Len(pending) :
       pending[i].id <= produced /\ pending[i].ts <= now /\ pending[i] \notin accepted
  /\ \A i, j \in 1 .. Len(pending) : pending[i] = pending[j] => i = j
  /\ \A s \in accepted : s.id <= produced /\ s.ts <= now

\* The tables and the disk are of the accepted samples that were not rolled back,
\* the tables have all of them, and the two differ only in an open transaction.
StoreInv ==
  /\ txOpen = FALSE => tables = disk
  /\ StoreOK(tables, accepted \ lost, doubled, now)
  /\ StoreOK(disk, accepted \ lost, doubled, now)
  /\ \A s \in accepted \ lost : Stored(tables, s)

HistoryInv == HistoryTypes /\ SamplesNew /\ StoreInv

LEMMA NotOpen == ASSUME HistoryFlags, ~txOpen PROVE txOpen = FALSE
  BY Zenon DEF HistoryFlags

LEMMA HistoryStarts == HistorianInit => HistoryInv /\ HistoryFlags
  <1> SUFFICES ASSUME HistorianInit PROVE HistoryInv /\ HistoryFlags
    OBVIOUS
  <1>1. /\ now = 0 /\ produced = 0 /\ sweepNow = 0 /\ pending = <<>> /\ accepted = {} /\ lost = {}
        /\ tables = [t \in Tiers |-> <<>>] /\ disk = tables /\ doubled = {}
    BY DEF HistorianInit
  <1>2. HistoryFlags
    BY Zenon DEF HistorianInit, HistoryFlags
  <1>3. HistoryTypes /\ SamplesNew
    BY <1>1 DEF HistoryTypes, SamplesNew
  <1>4. tables \in [Tiers -> Seq(RowsOver({}))] /\ \A t \in Tiers : tables[t] = <<>>
    BY <1>1
  <1>5. StoreOK(tables, {}, {}, 0)
    BY <1>4, TiersAre DEF StoreOK, RawOK, OnceOK, OldOK
  <1>6. accepted \ lost = {}
    BY <1>1
  <1>7. QED
    BY <1>1, <1>2, <1>3, <1>5, <1>6 DEF StoreInv, HistoryInv

\* The store as it was, at a later time.
LEMMA StoreRests ==
  ASSUME HistoryTypes, StoreInv, UNCHANGED <<store, accepted, lost, doubled>>,
         now' \in Nat, now <= now'
  PROVE  StoreInv'
  <1> DEFINE A == accepted \ lost
  <1>1. tables' = tables /\ disk' = disk /\ txOpen' = txOpen /\ (accepted \ lost)' = A
        /\ doubled' = doubled
    BY DEF store
  <1>2. A \subseteq HistorySamples
    BY DEF HistoryTypes
  <1>3. StoreOK(tables, A, doubled, now) /\ StoreOK(disk, A, doubled, now)
    BY DEF StoreInv
  <1> HIDE DEF A
  <1>4. StoreOK(tables, A, doubled, now') /\ StoreOK(disk, A, doubled, now')
    BY <1>2, <1>3, StoreLater DEF HistoryTypes
  <1>5. QED
    BY <1>1, <1>4 DEF StoreInv, A

\* A transaction that was committed, or whose COMMIT failed.
LEMMA StoreCommits ==
  ASSUME HistoryTypes, StoreInv, NEW T, NEW B, tables' = T, (accepted \ lost)' = B,
         disk' = T \/ (txOpen' = TRUE /\ disk' = disk), now' = now,
         doubled \subseteq doubled',
         accepted \ lost \subseteq B, B \subseteq HistorySamples,
         StoreOK(T, B, doubled', now),
         \A s \in B : Stored(T, s)
  PROVE  StoreInv'
  <1>1. StoreOK(disk, B, doubled', now)
    BY StoreLater DEF StoreInv, HistoryTypes
  <1>2. StoreOK(disk', B, doubled', now)
    BY <1>1
  <1>3. (txOpen = FALSE => tables = disk)'
    OBVIOUS
  <1>4. QED
    BY <1>2, <1>3 DEF StoreInv

\* A batch without one of its samples.
LEMMA OneOut ==
  ASSUME NEW X, NEW s \in Seq(X), NEW b \in DOMAIN s,
         \A i, j \in 1 .. Len(s) : s[i] = s[j] => i = j
  PROVE  LET r == RemoveAt(s, b)
         IN  /\ r \in Seq(X) /\ Range(r) \subseteq Range(s)
             /\ \A i \in 1 .. Len(r) : \E k \in 1 .. Len(s) : r[i] = s[k]
             /\ \A i, j \in 1 .. Len(r) : r[i] = r[j] => i = j
  <1> DEFINE p == SubSeq(s, 1, b - 1)
             q == SubSeq(s, b + 1, Len(s))
             r == p \o q
             n == Len(s)
             Past(k) == IF k < b THEN k ELSE k + 1
  <1>1. n \in Nat /\ DOMAIN s = 1 .. n /\ b \in 1 .. n
    BY LenProperties
  <1>2. p \in Seq(X) /\ Len(p) = b - 1 /\ \A k \in 1 .. b - 1 : p[k] = s[k]
    <2>1. b - 1 \in 0 .. n
      BY <1>1
    <2>2. p \in Seq(X) /\ Len(p) = IF 1 <= b - 1 THEN (b - 1) - 1 + 1 ELSE 0
      BY <1>1, <2>1, SubSeqProperties
    <2>3. \A k \in 1 .. (b - 1) - 1 + 1 : p[k] = s[1 + k - 1]
      BY <1>1, <2>1, SubSeqProperties
    <2> HIDE DEF p
    <2>4. QED
      BY <1>1, <2>2, <2>3
  <1>3. q \in Seq(X) /\ Len(q) = n - b /\ \A k \in 1 .. n - b : q[k] = s[b + k]
    <2>1. b + 1 \in 1 .. n + 1 /\ n \in (b + 1) - 1 .. n
      BY <1>1
    <2>2. q \in Seq(X) /\ Len(q) = IF b + 1 <= n THEN n - (b + 1) + 1 ELSE 0
      BY <1>1, <2>1, SubSeqProperties
    <2>3. \A k \in 1 .. n - (b + 1) + 1 : q[k] = s[(b + 1) + k - 1]
      BY <1>1, <2>1, SubSeqProperties
    <2> HIDE DEF q, n
    <2>4. \A k \in 1 .. n - b : (b + 1) + k - 1 = b + k
      BY <1>1
    <2>5. QED
      BY <1>1, <2>2, <2>3, <2>4
  <1>4. RemoveAt(s, b) = r
    BY DEF RemoveAt
  <1> HIDE DEF p, q, n
  <1>5. r \in Seq(X) /\ Len(r) = n - 1
    <2>1. r \in Seq(X) /\ Len(r) = Len(p) + Len(q)
      BY <1>2, <1>3, RowsJoined
    <2> HIDE DEF r
    <2>2. QED
      BY <1>1, <1>2, <1>3, <2>1
  <1>6. ASSUME NEW k \in 1 .. n - 1
        PROVE  Past(k) \in 1 .. n /\ r[k] = s[Past(k)]
    <2>1. \A i \in 1 .. Len(r) :
            \/ i \in 1 .. Len(p) /\ r[i] = p[i]
            \/ i - Len(p) \in 1 .. Len(q) /\ i \notin 1 .. Len(p) /\ r[i] = q[i - Len(p)]
      BY <1>2, <1>3, RowsJoined
    <2> HIDE DEF r
    <2>2. CASE k \in 1 .. Len(p) /\ r[k] = p[k]
      BY <1>1, <1>2, <2>2
    <2>3. CASE k - Len(p) \in 1 .. Len(q) /\ k \notin 1 .. Len(p) /\ r[k] = q[k - Len(p)]
      <3>1. k - Len(p) \in 1 .. n - b /\ b + (k - Len(p)) = k + 1 /\ ~(k < b) /\ k + 1 \in 1 .. n
        BY <1>1, <1>2, <1>3, <2>3
      <3>2. r[k] = s[b + (k - Len(p))]
        BY <1>3, <2>3, <3>1
      <3>3. QED
        BY <3>1, <3>2
    <2>4. QED
      BY <1>5, <2>1, <2>2, <2>3
  <1>7. \A i, j \in 1 .. n - 1 : Past(i) = Past(j) => i = j
    BY <1>1
  <1> HIDE DEF Past, r
  <1>8. DOMAIN r = 1 .. n - 1
    BY <1>5, LenProperties
  <1>9. Range(r) \subseteq Range(s)
    BY <1>1, <1>6, <1>8 DEF Range
  <1>10. \A i, j \in 1 .. n - 1 : r[i] = r[j] => i = j
    BY <1>6, <1>7 DEF n
  <1>11. QED
    BY <1>4, <1>5, <1>6, <1>9, <1>10 DEF n

\* write(): what it accepts is of the batch, and the store is right.
LEMMA WriteKeeps ==
  ASSUME HistoryTypes, HistoryFlags, StoreInv, NEW batch \in Seq(HistorySamples),
         \A i \in 1 .. Len(batch) : batch[i] \notin accepted,
         \A i, j \in 1 .. Len(batch) : batch[i] = batch[j] => i = j,
         write(batch), UNCHANGED <<now, lost, doubled>>
  PROVE  /\ StoreInv' /\ accepted \subseteq accepted'
         /\ accepted' \subseteq accepted \cup Range(batch)
  <1> DEFINE A == accepted \ lost
             Written(b) == [tables EXCEPT !["raw"] = @ \o RawRows(b)]
  <1>1. /\ A \in SUBSET HistorySamples /\ StoreOK(tables, A, doubled, now)
        /\ \A s \in A : Stored(tables, s)
    BY DEF HistoryTypes, StoreInv
  \* What one transaction with these samples does.
  <1>2. ASSUME NEW b \in Seq(HistorySamples), \A i \in 1 .. Len(b) : b[i] \notin accepted,
               \A i, j \in 1 .. Len(b) : b[i] = b[j] => i = j,
               tables' = Written(b), accepted' = accepted \cup Range(b),
               disk' = tables' \/ (txOpen' = TRUE /\ disk' = disk)
        PROVE  StoreInv'
    <2> DEFINE B == A \cup Range(b)
    <2>1. \A i \in 1 .. Len(b) : b[i] \notin A
      BY <1>2
    <2>2. /\ StoreOK(Written(b), B, doubled, now)
          /\ \A s : Stored(tables, s) \/ s \in Range(b) => Stored(Written(b), s)
      BY <1>1, <1>2, <2>1, StoreWritten
    <2>3. Range(b) \subseteq HistorySamples /\ Range(b) \cap accepted = {}
      <3>1. DOMAIN b = 1 .. Len(b) /\ \A i \in 1 .. Len(b) : b[i] \in HistorySamples
        BY LenProperties, ElementOfSeq
      <3>2. QED
        BY <1>2, <3>1 DEF Range
    <2>4. (accepted \ lost)' = B
      BY <1>2, <2>3 DEF HistoryTypes
    <2>5. \A s \in B : Stored(Written(b), s)
      BY <1>1, <2>2
    <2>6. B \subseteq HistorySamples /\ A \subseteq B
      BY <1>1, <2>3
    <2> HIDE DEF A, Written, B
    <2>7. doubled' = doubled /\ now' = now
      OBVIOUS
    <2>8. accepted \ lost \subseteq B
      BY <2>6 DEF A
    <2>9. StoreOK(Written(b), B, doubled', now)
      BY <2>2, <2>7
    <2>10. QED
      BY <1>2, <2>4, <2>5, <2>6, <2>7, <2>8, <2>9, StoreCommits
  <1>3. CASE NotDone /\ UNCHANGED accepted
    <2>1. UNCHANGED <<store, accepted, lost, doubled>> /\ now' = now
      BY <1>3 DEF NotDone
    <2>2. StoreInv'
      BY <2>1, StoreRests DEF HistoryTypes
    <2>3. QED
      BY <2>1, <2>2
  <1>4. CASE Commit(Written(batch)) /\ accepted' = accepted \cup Range(batch)
    <2>1. tables' = Written(batch) /\ (disk' = tables' \/ (txOpen' = TRUE /\ disk' = disk))
      BY <1>4 DEF Commit
    <2>2. StoreInv'
      BY <1>2, <1>4, <2>1
    <2>3. QED
      BY <1>4, <2>2
  <1>5. ASSUME NEW bad \in DOMAIN batch,
               tables' = Written(RemoveAt(batch, bad)),
               accepted' = accepted \cup Range(RemoveAt(batch, bad)), disk' = tables'
        PROVE  StoreInv' /\ accepted \subseteq accepted' /\ accepted' \subseteq accepted \cup Range(batch)
    <2> DEFINE b == RemoveAt(batch, bad)
    <2>1. b \in Seq(HistorySamples) /\ Range(b) \subseteq Range(batch)
      BY OneOut
    <2>2. \A i \in 1 .. Len(b) : b[i] \notin accepted
      BY OneOut
    <2>3. \A i, j \in 1 .. Len(b) : b[i] = b[j] => i = j
      BY OneOut
    <2> HIDE DEF b, Written
    <2>4. StoreInv'
      BY <1>2, <1>5, <2>1, <2>2, <2>3 DEF b
    <2>5. QED
      BY <1>5, <2>1, <2>4 DEF b
  <1>6. QED
    BY <1>3, <1>4, <1>5 DEF write

\* demoteOlderThan(), as a sweep calls it.
LEMMA DemoteKeeps ==
  ASSUME HistoryTypes, HistoryFlags, StoreInv,
         NEW src, NEW dst, NEW cutoff \in Int, NEW bucket \in Nat \ {0},
         Demotes(src, dst, cutoff, now), demoteOlderThan(src, dst, cutoff, bucket),
         UNCHANGED <<now, accepted, lost>>
  PROVE  StoreInv'
  <1> DEFINE A == accepted \ lost
             av == Averages(tables[src], cutoff, bucket)
             T2 == [tables EXCEPT ![dst] = @ \o av]
             T3 == [T2 EXCEPT ![src] = KeptRows(@, cutoff)]
  <1>1. /\ A \subseteq HistorySamples /\ StoreOK(tables, A, doubled, now)
        /\ \A s \in A : Stored(tables, s) /\ (accepted \ lost)' = A
    BY DEF HistoryTypes, StoreInv
  <1>2. StoreOK(T2, A, doubled \cup IdsOf(av), now) /\ \A s : Stored(tables, s) => Stored(T2, s)
    BY <1>1, StoreCopied
  <1>3. StoreOK(T3, A, doubled, now) /\ \A s : Stored(tables, s) => Stored(T3, s)
    BY <1>1, StoreMoved
  <1>4. \/ NotDone /\ UNCHANGED doubled
        \/ ~txOpen /\ Commit(T3) /\ UNCHANGED doubled
        \/ tables' = T2 /\ disk' = T2 /\ doubled' = doubled \cup IdsOf(av)
    BY DEF demoteOlderThan
  <1>a. (accepted \ lost)' = accepted \ lost
    OBVIOUS
  <1> HIDE DEF T2, T3, av
  <1>5. CASE NotDone /\ UNCHANGED doubled
    <2>1. UNCHANGED <<store, accepted, lost, doubled>> /\ now' = now
      BY <1>5 DEF NotDone
    <2>2. QED
      BY <2>1, StoreRests DEF HistoryTypes
  <1>6. CASE Commit(T3) /\ UNCHANGED doubled
    <2>1. tables' = T3 /\ (disk' = T3 \/ (txOpen' = TRUE /\ disk' = disk))
      BY <1>6 DEF Commit
    <2>2. doubled' = doubled
      BY <1>6
    <2>3. StoreOK(T3, accepted \ lost, doubled', now) /\ \A s \in accepted \ lost : Stored(T3, s)
      BY <1>1, <1>3, <2>2
    <2>4. QED
      BY <1>1, <1>a, <2>1, <2>2, <2>3, StoreCommits
  <1>7. CASE tables' = T2 /\ disk' = T2 /\ doubled' = doubled \cup IdsOf(av)
    <2>1. StoreOK(T2, accepted \ lost, doubled', now) /\ \A s \in accepted \ lost : Stored(T2, s)
      BY <1>1, <1>2, <1>7
    <2>2. doubled \subseteq doubled'
      BY <1>7
    <2>3. QED
      BY <1>1, <1>a, <1>7, <2>1, <2>2, StoreCommits
  <1>8. QED
    BY <1>4, <1>5, <1>6, <1>7

\* Opened again, the store has what was on disk.
LEMMA ReopenKeeps ==
  ASSUME HistoryTypes, HistoryFlags, StoreInv, Reopened, UNCHANGED <<disk, now, accepted, doubled>>
  PROVE  StoreInv' /\ lost' \subseteq accepted'
  <1> DEFINE A == accepted \ lost
             I == UNION {IdsOf(disk[t]) : t \in Tiers}
  <1>1. tables' = disk /\ disk' = disk /\ accepted' = accepted /\ doubled' = doubled /\ now' = now
    BY DEF Reopened
  <1>2. A \subseteq HistorySamples /\ StoreOK(disk, A, doubled, now)
    BY DEF HistoryTypes, StoreInv
  <1>3. disk \in [Tiers -> Seq(RowsOver(A))]
    BY <1>2 DEF StoreOK
  <1>d. \A t \in Tiers : disk[t] \in Seq(RowsOver(A))
    BY <1>3
  <1>4. \A t \in Tiers : DOMAIN disk[t] = 1 .. Len(disk[t]) /\ Len(disk[t]) \in Nat
    BY <1>d, RowsIn
  <1>5. \A t \in Tiers : \A i \in 1 .. Len(disk[t]) :
          disk[t][i] \in RowsOver(A) /\ disk[t][i].ids \subseteq A
    BY <1>d, RowsIn
  <1>6. \A t \in Tiers : \A i \in 1 .. Len(disk[t]) : disk[t][i].ids \subseteq I
    BY <1>4 DEF IdsOf
  <1>7. \A s \in I : Stored(disk, s) /\ s \in A
    BY <1>4, <1>5 DEF IdsOf, Stored
  <1> HIDE DEF I
  <1>8. CASE txOpen
    <2>1. lost' = accepted \ I
      BY <1>8, Zenon DEF Reopened, I
    <2>2. I \subseteq accepted
      BY <1>7
    <2>3. (accepted \ lost)' = I
      BY <1>1, <2>1, <2>2
    <2>4. \A t \in Tiers : disk[t] \in Seq(RowsOver(I))
      <3> TAKE t \in Tiers
      <3>1. \A i \in 1 .. Len(disk[t]) : disk[t][i] \in RowsOver(I)
        BY <1>5, <1>6 DEF RowsOver
      <3>2. disk[t] = [i \in 1 .. Len(disk[t]) |-> disk[t][i]]
        BY <1>d, LenProperties
      <3>3. disk[t] \in [1 .. Len(disk[t]) -> RowsOver(I)]
        BY <3>1, <3>2
      <3>4. QED
        BY <1>4, <3>3, SeqDef
    <2>5. disk \in [Tiers -> Seq(RowsOver(I))]
      BY <1>3, <2>4
    <2>6. RawOK(disk["raw"], I)
      <3>1. RawOK(disk["raw"], A)
        BY <1>2 DEF StoreOK
      <3>2. ASSUME NEW i \in 1 .. Len(disk["raw"]) PROVE \E s \in I : disk["raw"][i] = RowOf(s)
        <4>1. PICK s \in A : disk["raw"][i] = RowOf(s)
          BY <3>1 DEF RawOK
        <4>2. s \in disk["raw"][i].ids
          BY <4>1, RowOfIs
        <4>3. QED
          BY <1>6, <4>1, <4>2, TiersAre
      <3>3. QED
        BY <3>1, <3>2 DEF RawOK
    <2>7. StoreOK(disk, I, doubled, now)
      BY <1>2, <2>5, <2>6 DEF StoreOK
    <2>8. QED
      BY <1>1, <1>7, <2>1, <2>3, <2>7 DEF StoreInv
  <1>9. CASE ~txOpen
    <2>1. lost' = lost /\ tables = disk
      <3>1. txOpen = FALSE
        BY <1>9, NotOpen
      <3>2. lost' = lost
        BY <1>9, Zenon DEF Reopened
      <3>3. QED
        BY <3>1, <3>2 DEF StoreInv
    <2>2. QED
      BY <1>1, <2>1 DEF StoreInv, HistoryTypes
  <1>10. QED
    BY <1>8, <1>9

\* flushLocked(): a batch of new samples, whose order is that of their numbers.
LEMMA FlushKeeps ==
  ASSUME HistoryTypes, HistoryFlags, StoreInv, NEW batch \in Seq(HistorySamples),
         \A i \in 1 .. Len(batch) : batch[i] \notin accepted,
         \A i, j \in 1 .. Len(batch) : batch[i] = batch[j] => i = j,
         flushLocked(batch), UNCHANGED <<now, lost, doubled>>
  PROVE  /\ StoreInv' /\ accepted \subseteq accepted' /\ pending' = <<>>
         /\ accepted' \subseteq accepted \cup Range(batch)
  <1>1. pending' = <<>>
    BY DEF flushLocked
  <1>2. CASE batch = <<>>
    <2>1. UNCHANGED <<store, accepted, faults>>
      BY <1>2 DEF flushLocked
    <2>2. UNCHANGED <<store, accepted, lost, doubled>> /\ now' = now
      BY <2>1
    <2>3. StoreInv'
      BY <2>2, StoreRests DEF HistoryTypes
    <2>4. QED
      BY <1>1, <2>2, <2>3
  <1>3. CASE batch # <<>>
    <2>1. write(batch)
      BY <1>3 DEF flushLocked
    <2>2. /\ StoreInv' /\ accepted \subseteq accepted'
          /\ accepted' \subseteq accepted \cup Range(batch)
      BY <2>1, WriteKeeps
    <2>3. QED
      BY <1>1, <2>2
  <1>4. QED
    BY <1>2, <1>3

\* What a flush leaves of the numbering.
LEMMA FlushedTypes ==
  ASSUME HistoryTypes, SamplesNew, NEW batch \in Seq(HistorySamples),
         NEW n \in Nat, produced <= n, produced' = n, now' = now, lost' = lost, sweepNow' = sweepNow,
         \A i \in 1 .. Len(batch) : batch[i].id <= n /\ batch[i].ts <= now,
         accepted \subseteq accepted', pending' = <<>>, accepted' \subseteq accepted \cup Range(batch)
  PROVE  HistoryTypes' /\ SamplesNew'
  <1>1. DOMAIN batch = 1 .. Len(batch) /\ \A i \in 1 .. Len(batch) : batch[i] \in HistorySamples
    BY LenProperties, ElementOfSeq
  <1>2. \A s \in Range(batch) : s \in HistorySamples /\ s.id <= n /\ s.ts <= now
    BY <1>1 DEF Range
  <1>3. HistoryTypes'
    BY <1>2 DEF HistoryTypes
  <1>4. \A s \in accepted : s.id <= n /\ s.ts <= now
    <2> TAKE s \in accepted
    <2>1. s.id <= produced /\ s.ts <= now /\ s.id \in Nat
      BY DEF SamplesNew, HistoryTypes, HistorySamples
    <2>2. QED
      BY <2>1 DEF HistoryTypes
  <1>5. \A s \in accepted' : s.id <= n /\ s.ts <= now
    BY <1>2, <1>4
  <1>6. QED
    BY <1>3, <1>5 DEF SamplesNew

\* The batch with the record of a callback.
LEMMA Enqueued ==
  ASSUME HistoryTypes, SamplesNew
  PROVE  LET batch == Append(pending, [id |-> produced + 1, ts |-> now])
         IN  /\ batch \in Seq(HistorySamples)
             /\ \A i \in 1 .. Len(batch) :
                  batch[i] \notin accepted /\ batch[i].id <= produced + 1 /\ batch[i].ts <= now
             /\ \A i, j \in 1 .. Len(batch) : batch[i] = batch[j] => i = j
  <1> DEFINE x == [id |-> produced + 1, ts |-> now]
             batch == Append(pending, x)
             m == Len(pending)
  <1>1. now \in Nat /\ produced \in Nat /\ pending \in Seq(HistorySamples)
    BY DEF HistoryTypes
  <1>2. x \in HistorySamples /\ x.id = produced + 1 /\ x.ts = now
    BY <1>1 DEF HistorySamples
  <1>3. x \notin accepted
    BY <1>1, <1>2 DEF SamplesNew
  <1>4. m \in Nat /\ \A i \in 1 .. m : pending[i] \in HistorySamples
    BY <1>1, LenProperties, ElementOfSeq
  <1>5. \A i \in 1 .. m : pending[i].id <= produced /\ pending[i].id \in Nat
    BY <1>4 DEF SamplesNew, HistorySamples
  <1> HIDE DEF x
  <1>6. /\ batch \in Seq(HistorySamples) /\ Len(batch) = m + 1
        /\ \A i \in 1 .. m : batch[i] = pending[i]
        /\ batch[m + 1] = x
    BY <1>1, <1>2, AppendProperties
  <1> HIDE DEF batch, m
  <1>7. ASSUME NEW i \in 1 .. Len(batch)
        PROVE  batch[i] \notin accepted /\ batch[i].id <= produced + 1 /\ batch[i].ts <= now
    <2>1. CASE i \in 1 .. m
      <3>1. batch[i] = pending[i] /\ pending[i] \notin accepted /\ pending[i].ts <= now
        BY <1>6, <2>1 DEF SamplesNew, m
      <3>2. pending[i].id <= produced + 1
        BY <1>1, <1>5, <2>1
      <3>3. QED
        BY <3>1, <3>2
    <2>2. CASE i = m + 1
      BY <1>1, <1>2, <1>3, <1>6, <2>2
    <2>3. QED
      BY <1>4, <1>6, <2>1, <2>2
  <1>8. \A i \in 1 .. m : pending[i] # x
    BY <1>1, <1>2, <1>5
  <1>9. ASSUME NEW i \in 1 .. Len(batch), NEW j \in 1 .. Len(batch), batch[i] = batch[j]
        PROVE  i = j
    <2>1. \A k \in 1 .. Len(batch) : k \in 1 .. m \/ k = m + 1
      BY <1>4, <1>6
    <2>2. CASE i \in 1 .. m /\ j \in 1 .. m
      BY <1>6, <1>9, <2>2 DEF SamplesNew, m
    <2>3. CASE i = m + 1 \/ j = m + 1
      BY <1>6, <1>8, <1>9, <2>1, <2>3
    <2>4. QED
      BY <2>1, <2>2, <2>3
  <1>10. QED
    BY <1>6, <1>7, <1>9 DEF batch, x

LEMMA FlagsStep ==
  ASSUME HistoryFlags, HistorianNext \/ UNCHANGED historyVars
  PROVE  HistoryFlags'
  BY Zenon DEF HistoryFlags, HistorianNext, historyVars, store, enqueue, flushLocked, write, Commit,
     NotDone, clearCallbacks, SweepRaw, SweepMinute, demoteOlderThan, SweepWakes, registerHistorian,
     Quit, FinalFlush, CloseStore, Crash, Reopened, Tick

LEMMA HistoryStep ==
  ASSUME HistoryInv, HistoryFlags, HistorianNext \/ UNCHANGED historyVars
  PROVE  HistoryInv' /\ HistoryFlags'
  <1> USE DEF HistoryInv
  <1> SUFFICES HistoryInv'
    BY FlagsStep
  <1>t. /\ now \in Nat /\ produced \in Nat /\ sweepNow \in Nat /\ pending \in Seq(HistorySamples)
        /\ accepted \subseteq HistorySamples /\ lost \subseteq accepted
    BY DEF HistoryTypes
  <1>e. <<>> \in Seq(HistorySamples) /\ Len(<<>>) = 0
    BY EmptySeq
  \* Nothing of it moves, or only the batch is dropped, or only the time goes by.
  <1>1. ASSUME UNCHANGED <<store, accepted, lost, doubled, produced>>, sweepNow' \in Nat,
               pending' = pending \/ pending' = <<>>,
               now' \in Nat, now <= now'
        PROVE  HistoryInv'
    <2>1. StoreInv'
      BY <1>1, StoreRests
    <2>2. accepted' = accepted /\ lost' = lost /\ produced' = produced
      BY <1>1
    <2>3. HistoryTypes'
      <3>1. pending' \in Seq(HistorySamples)
        BY <1>1, <1>e, <1>t
      <3>2. QED
        BY <1>1, <1>t, <2>2, <3>1 DEF HistoryTypes
    <2>4. \A i \in 1 .. Len(pending) : pending[i].ts <= now /\ pending[i].ts \in Nat
      <3>1. \A i \in 1 .. Len(pending) : pending[i] \in HistorySamples
        BY <1>t, ElementOfSeq
      <3>2. QED
        BY <3>1 DEF SamplesNew, HistorySamples
    <2>5. \A s \in accepted : s.ts <= now /\ s.ts \in Nat
      BY <1>t DEF SamplesNew, HistorySamples
    <2>6. /\ \A i \in 1 .. Len(pending) : pending[i].ts <= now'
          /\ \A s \in accepted : s.ts <= now'
      BY <1>1, <1>t, <2>4, <2>5
    <2>7. SamplesNew'
      BY <1>1, <2>2, <2>6 DEF SamplesNew
    <2>8. QED
      BY <2>1, <2>3, <2>7
  <1>2. CASE enqueue
    <2> DEFINE batch == Append(pending, [id |-> produced + 1, ts |-> now])
    <2>1. /\ produced' = produced + 1 /\ now' = now /\ lost' = lost /\ sweepNow' = sweepNow
          /\ doubled' = doubled
          /\ \/ flushLocked(batch)
             \/ pending' = batch /\ UNCHANGED <<batchEpoch, store, accepted, faults>>
      BY <1>2 DEF enqueue
    <2>2. batch \in Seq(HistorySamples)
      BY Enqueued
    <2>3. \A i \in 1 .. Len(batch) :
            batch[i] \notin accepted /\ batch[i].id <= produced + 1 /\ batch[i].ts <= now
      BY Enqueued
    <2>4. \A i, j \in 1 .. Len(batch) : batch[i] = batch[j] => i = j
      BY Enqueued
    <2> HIDE DEF batch
    <2>5. produced + 1 \in Nat /\ produced <= produced + 1
      BY <1>t
    <2>6. CASE flushLocked(batch)
      <3>1. /\ StoreInv' /\ accepted \subseteq accepted' /\ pending' = <<>>
            /\ accepted' \subseteq accepted \cup Range(batch)
        BY <2>1, <2>2, <2>3, <2>4, <2>6, FlushKeeps
      <3>2. HistoryTypes' /\ SamplesNew'
        BY <2>1, <2>2, <2>3, <2>5, <3>1, FlushedTypes
      <3>3. QED
        BY <3>1, <3>2
    <2>7. CASE pending' = batch /\ UNCHANGED <<batchEpoch, store, accepted, faults>>
      <3>1. UNCHANGED <<store, accepted, lost, doubled>> /\ now' = now
        BY <2>1, <2>7
      <3>2. StoreInv'
        BY <1>t, <3>1, StoreRests
      <3>3. HistoryTypes'
        BY <1>t, <2>1, <2>2, <2>5, <2>7 DEF HistoryTypes
      <3>4. \A s \in accepted : s.id <= produced + 1 /\ s.ts <= now
        <4> TAKE s \in accepted
        <4>1. s.id <= produced /\ s.ts <= now /\ s.id \in Nat
          BY <1>t DEF SamplesNew, HistorySamples
        <4>2. QED
          BY <1>t, <4>1
      <3>5. SamplesNew'
        BY <2>1, <2>3, <2>4, <2>7, <3>4 DEF SamplesNew
      <3>6. QED
        BY <3>2, <3>3, <3>5
    <2>8. QED
      BY <2>1, <2>6, <2>7
  <1>3. CASE FinalFlush
    <2>1. /\ produced' = produced /\ now' = now /\ lost' = lost /\ sweepNow' = sweepNow
          /\ doubled' = doubled /\ flushLocked(pending)
      BY <1>3 DEF FinalFlush
    <2>2. /\ \A i \in 1 .. Len(pending) :
               pending[i] \notin accepted /\ pending[i].id <= produced /\ pending[i].ts <= now
          /\ \A i, j \in 1 .. Len(pending) : pending[i] = pending[j] => i = j
      BY DEF SamplesNew
    <2>3. /\ StoreInv' /\ accepted \subseteq accepted' /\ pending' = <<>>
          /\ accepted' \subseteq accepted \cup Range(pending)
      BY <1>t, <2>1, <2>2, FlushKeeps
    <2>4. HistoryTypes' /\ SamplesNew'
      BY <1>t, <2>1, <2>2, <2>3, FlushedTypes
    <2>5. QED
      BY <2>3, <2>4
  \* A sweep touches the store alone.
  <1>4. ASSUME StoreInv', UNCHANGED <<now, produced, pending, accepted, lost>>, sweepNow' \in Nat
        PROVE  HistoryInv'
    BY <1>4, <1>t DEF HistoryTypes, SamplesNew
  <1>c. /\ kMinuteBucket \in Nat \ {0} /\ kHourBucket \in Nat \ {0}
        /\ rawRetention \in Nat /\ minuteRetention \in Nat
    BY HistorianAssumption
  <1>5. CASE SweepRaw
    <2>1. /\ demoteOlderThan("raw", "minute", now - rawRetention, kMinuteBucket)
          /\ UNCHANGED <<now, produced, pending, accepted, lost>> /\ sweepNow' = now
      BY <1>5 DEF SweepRaw, bridge
    <2>2. Demotes("raw", "minute", now - rawRetention, now)
      BY DEF Demotes
    <2>3. now - rawRetention \in Int
      BY <1>c, <1>t
    <2>4. StoreInv'
      BY <1>c, <2>1, <2>2, <2>3, DemoteKeeps
    <2>5. QED
      BY <1>4, <1>t, <2>1, <2>4
  <1>6. CASE SweepMinute
    <2>1. /\ demoteOlderThan("minute", "hour", sweepNow - minuteRetention, kHourBucket)
          /\ UNCHANGED <<now, produced, pending, accepted, lost>> /\ sweepNow' = sweepNow
      BY <1>6 DEF SweepMinute, bridge
    <2>2. Demotes("minute", "hour", sweepNow - minuteRetention, now)
      BY DEF Demotes
    <2>3. sweepNow - minuteRetention \in Int
      BY <1>c, <1>t
    <2>4. StoreInv'
      BY <1>c, <2>1, <2>2, <2>3, DemoteKeeps
    <2>5. QED
      BY <1>4, <1>t, <2>1, <2>4
  <1>7. ASSUME Reopened, UNCHANGED <<disk, now, accepted, doubled, produced, sweepNow>>,
               pending' = pending \/ pending' = <<>>
        PROVE  HistoryInv'
    <2>1. StoreInv' /\ lost' \subseteq accepted'
      BY <1>7, ReopenKeeps
    <2>2. QED
      <3>1. HistoryTypes'
        BY <1>7, <1>e, <1>t, <2>1 DEF HistoryTypes
      <3>2. SamplesNew'
        BY <1>7 DEF SamplesNew
      <3>3. QED
        BY <2>1, <3>1, <3>2
  <1>8. CASE CloseStore
    BY <1>7, <1>8 DEF CloseStore
  <1>9. CASE Crash
    BY <1>7, <1>9 DEF Crash
  <1>10. CASE Tick
    BY <1>1, <1>10, <1>t DEF Tick, bridge
  <1>11. CASE clearCallbacks \/ SweepWakes \/ registerHistorian \/ Quit
    BY <1>1, <1>11, <1>t DEF clearCallbacks, SweepWakes, registerHistorian, Quit, bridge
  <1>12. CASE UNCHANGED historyVars
    BY <1>1, <1>12, <1>t DEF historyVars, bridge, sweepVars
  <1>13. QED
    BY <1>2, <1>3, <1>5, <1>6, <1>8, <1>9, <1>10, <1>11, <1>12 DEF HistorianNext

-----------------------------------------------------------------------------
(* What the store promises, and the chart of the last hour.                *)

LEMMA Conserved ==
  ASSUME HistoryInv
  PROVE  AcceptedSamplesConserved
  <1> SUFFICES ASSUME NEW s \in accepted
               PROVE  /\ s \notin lost    => RowsWith(s) # {}
                      /\ s \notin doubled => Cardinality(RowsWith(s)) <= 1
    BY DEF AcceptedSamplesConserved
  <1>1. /\ StoreOK(tables, accepted \ lost, doubled, now)
        /\ \A q \in accepted \ lost : Stored(tables, q)
    BY DEF HistoryInv, StoreInv
  <1>2. \A t \in Tiers : tables[t] \in Seq(RowsOver(accepted \ lost))
    BY <1>1 DEF StoreOK
  <1>3. \A t \in Tiers : DOMAIN tables[t] = 1 .. Len(tables[t])
    BY <1>2, RowsIn
  <1>4. \A x : x \in RowsWith(s) <=>
          \E t \in Tiers : \E i \in 1 .. Len(tables[t]) : s \in tables[t][i].ids /\ x = <<t, i>>
    BY <1>3 DEF RowsWith
  <1>5. ASSUME s \notin lost PROVE RowsWith(s) # {}
    <2>1. Stored(tables, s)
      BY <1>1, <1>5
    <2>2. PICK t \in Tiers : \E i \in 1 .. Len(tables[t]) : s \in tables[t][i].ids
      BY <2>1 DEF Stored
    <2>3. PICK i \in 1 .. Len(tables[t]) : s \in tables[t][i].ids
      BY <2>2
    <2>4. <<t, i>> \in RowsWith(s)
      BY <1>4, <2>3
    <2>5. QED
      BY <2>4
  <1>6. ASSUME s \notin doubled PROVE Cardinality(RowsWith(s)) <= 1
    <2>1. ASSUME NEW x \in RowsWith(s), NEW y \in RowsWith(s) PROVE x = y
      <3>1. PICK t \in Tiers : \E i \in 1 .. Len(tables[t]) : s \in tables[t][i].ids /\ x = <<t, i>>
        BY <1>4, <2>1
      <3>2. PICK i \in 1 .. Len(tables[t]) : s \in tables[t][i].ids /\ x = <<t, i>>
        BY <3>1
      <3>3. PICK u \in Tiers : \E j \in 1 .. Len(tables[u]) : s \in tables[u][j].ids /\ y = <<u, j>>
        BY <1>4, <2>1
      <3>4. PICK j \in 1 .. Len(tables[u]) : s \in tables[u][j].ids /\ y = <<u, j>>
        BY <3>3
      <3>5. t = u /\ i = j
        BY <1>1, <1>6, <3>2, <3>4 DEF StoreOK, OnceOK
      <3>6. QED
        BY <3>2, <3>4, <3>5
    <2>2. CASE RowsWith(s) = {}
      <3>1. Cardinality({}) = 0
        BY FS_EmptySet
      <3>2. Cardinality(RowsWith(s)) = 0
        BY <2>2, <3>1
      <3>3. QED
        BY <3>2
    <2>3. CASE RowsWith(s) # {}
      <3>1. PICK x : x \in RowsWith(s)
        BY <2>3
      <3>2. RowsWith(s) = {x}
        BY <2>1, <3>1
      <3>3. Cardinality({x}) = 1
        BY FS_Singleton
      <3>4. Cardinality(RowsWith(s)) = 1
        BY <3>2, <3>3
      <3>5. QED
        BY <3>4
    <2>4. QED
      BY <2>2, <2>3
  <1>7. QED
    BY <1>5, <1>6

\* The rows of the last hour, which of them are newer than which, and those drawn.
Inside(tier, n) == {i \in 1 .. Len(tier) : n - kOneHour <= tier[i].ts /\ tier[i].ts <= n}
NewerIn(tier, n) == {p \in Inside(tier, n) \X Inside(tier, n) : Newer(tier, p[1], p[2])}
Drawn(tier, n) ==
  {i \in Inside(tier, n) : Rank(Inside(tier, n), NewerIn(tier, n), i) < ChartPoints}

\* The newest of the newest: what the ring keeps of what the query read.
LEMMA NewestOfNewest ==
  ASSUME NEW tier, NEW S, IsFiniteSet(S), NEW a \in Nat, NEW b \in Nat,
         \A i, j, k \in S : Newer(tier, i, j) /\ Newer(tier, j, k) => Newer(tier, i, k)
  PROVE  Newest(tier, Newest(tier, S, a), b)
           = {i \in S : /\ Cardinality({j \in S : Newer(tier, j, i)}) < a
                       /\ Cardinality({j \in S : Newer(tier, j, i)}) < b}
  <1> DEFINE Before(i) == {j \in S : Newer(tier, j, i)}
             A == Newest(tier, S, a)
  <1>1. \A i : i \in A <=> i \in S /\ Cardinality(Before(i)) < a
    BY DEF Newest
  <1>2. \A i \in S : IsFiniteSet(Before(i)) /\ Cardinality(Before(i)) \in Nat
    <2> TAKE i \in S
    <2>1. Before(i) \subseteq S
      OBVIOUS
    <2> HIDE DEF Before
    <2>2. IsFiniteSet(Before(i))
      BY <2>1, FS_Subset
    <2>3. QED
      BY <2>2, FS_CardinalityType
  <1>3. ASSUME NEW i \in A PROVE {j \in A : Newer(tier, j, i)} = Before(i)
    <2>1. ASSUME NEW j \in Before(i) PROVE j \in A
      <3>1. i \in S /\ j \in S /\ Before(j) \subseteq Before(i)
        BY <1>1
      <3> HIDE DEF Before, A
      <3>2. Cardinality(Before(j)) <= Cardinality(Before(i))
        BY <1>2, <3>1, FS_Subset
      <3>3. Cardinality(Before(j)) < a
        BY <1>1, <1>2, <3>1, <3>2
      <3>4. QED
        BY <1>1, <3>1, <3>3
    <2>2. \A j \in A : j \in S
      BY <1>1
    <2>3. QED
      BY <2>1, <2>2
  <1>4. \A i : i \in Newest(tier, A, b) <=> i \in A /\ Cardinality({j \in A : Newer(tier, j, i)}) < b
    BY DEF Newest
  <1> HIDE DEF A, Before
  <1>5. \A i : i \in Newest(tier, A, b) <=> i \in A /\ Cardinality(Before(i)) < b
    BY <1>3, <1>4
  <1>6. \A i : i \in Newest(tier, A, b)
                <=> i \in S /\ Cardinality(Before(i)) < a /\ Cardinality(Before(i)) < b
    BY <1>1, <1>5
  <1>7. Newest(tier, A, b)
          = {i \in S : Cardinality(Before(i)) < a /\ Cardinality(Before(i)) < b}
    BY <1>6
  <1>8. QED
    BY <1>7 DEF A, Before

LEMMA PointsIs ==
  /\ ChartPoints \in Nat /\ kChartLimit \in Nat /\ kTrendChartCapacity \in Nat
  /\ \A n \in Nat : n < ChartPoints <=> n < kChartLimit /\ n < kTrendChartCapacity
  BY HistorianAssumption DEF ChartPoints

LEMMA ChartReads ==
  ASSUME HistoryInv
  PROVE  populateChart("hour") = UNION {tables["raw"][i].ids : i \in Drawn(tables["raw"], now)}
  <1> DEFINE tier == tables["raw"]
             I == Inside(tier, now)
             W == NewerIn(tier, now)
             Before(i) == {j \in I : Newer(tier, j, i)}
             q == query(now - kOneHour, now, kChartLimit)
  <1>1. now \in Nat /\ kOneHour \in Nat
    BY HistorianAssumption DEF HistoryInv, HistoryTypes
  <1>2. rangeLookback("hour") = kOneHour
    BY DEF rangeLookback
  <1>3. tierForRange(now - (now - kOneHour)) = "raw"
    <2>1. now - (now - kOneHour) = kOneHour
      BY <1>1
    <2>2. QED
      BY <1>1, <2>1 DEF tierForRange
  <1>4. tier \in Seq(RowsOver(accepted \ lost))
    BY TiersAre DEF HistoryInv, StoreInv, StoreOK
  <1>5. DOMAIN tier = 1 .. Len(tier) /\ Len(tier) \in Nat /\ \A i \in 1 .. Len(tier) : tier[i].ts \in Int
    BY <1>4, RowsIn
  <1>6. I = {i \in DOMAIN tier : now - kOneHour <= tier[i].ts /\ tier[i].ts <= now}
    BY <1>5 DEF Inside
  <1>7. \A i \in I : {j \in I : <<j, i>> \in W} = Before(i)
    BY DEF NewerIn
  <1>8. I \subseteq 1 .. Len(tier)
    BY DEF Inside
  <1> HIDE DEF tier, I, W
  <1>9. q = Newest(tier, I, kChartLimit)
    BY <1>3, <1>6 DEF query, tier
  <1>10. populateChart("hour") = UNION {tier[i].ids : i \in Newest(tier, q, kTrendChartCapacity)}
    BY <1>2, <1>3 DEF populateChart, addPoints, tier
  <1>11. IsFiniteSet(I)
    <2>1. IsFiniteSet(1 .. Len(tier))
      BY <1>5, FS_Interval
    <2>2. QED
      BY <1>8, <2>1, FS_Subset
  <1>12. \A i, j, k \in I : Newer(tier, i, j) /\ Newer(tier, j, k) => Newer(tier, i, k)
    <2>1. \A i \in I : i \in Int /\ tier[i].ts \in Int
      BY <1>5, <1>8
    <2>2. QED
      BY <2>1 DEF Newer
  <1> HIDE DEF q
  <1>13. Newest(tier, q, kTrendChartCapacity)
           = {i \in I : Cardinality(Before(i)) < kChartLimit /\ Cardinality(Before(i)) < kTrendChartCapacity}
    BY <1>9, <1>11, <1>12, NewestOfNewest, PointsIs
  <1>14. \A i \in I : Cardinality(Before(i)) \in Nat
    <2> TAKE i \in I
    <2>1. Before(i) \subseteq I
      OBVIOUS
    <2> HIDE DEF Before
    <2>2. IsFiniteSet(Before(i))
      BY <1>11, <2>1, FS_Subset
    <2>3. QED
      BY <2>2, FS_CardinalityType
  <1>15. \A i \in I : Rank(I, W, i) = Cardinality(Before(i))
    BY <1>7 DEF Rank
  <1> HIDE DEF Before
  <1>16. \A i \in I : Cardinality(Before(i)) < ChartPoints
            <=> Cardinality(Before(i)) < kChartLimit /\ Cardinality(Before(i)) < kTrendChartCapacity
    BY <1>14, PointsIs
  <1>17. Drawn(tier, now) = {i \in I : Cardinality(Before(i)) < ChartPoints}
    BY <1>15 DEF Drawn, I, W
  <1>18. Newest(tier, q, kTrendChartCapacity) = Drawn(tier, now)
    BY <1>13, <1>16, <1>17
  <1>19. QED
    BY <1>10, <1>18 DEF tier

LEMMA ChartComplete ==
  ASSUME HistoryInv
  PROVE  LET drawn == populateChart("hour")
         IN  /\ drawn \subseteq Due("hour")
             /\ \/ drawn = Due("hour")
                \/ /\ Cardinality(drawn) = ChartPoints
                   /\ \A s \in drawn, d \in Due("hour") \ drawn : d.ts <= s.ts
  <1> DEFINE A == accepted \ lost
             tier == tables["raw"]
             I == Inside(tier, now)
             W == NewerIn(tier, now)
             N == Drawn(tier, now)
             c == Cardinality(I)
             drawn == populateChart("hour")
             due == Due("hour")
  <1>1. now \in Nat /\ kOneHour \in Nat /\ rawRetention \in Nat /\ kOneHour <= rawRetention
        /\ ChartPoints \in Nat
    BY HistorianAssumption, PointsIs DEF HistoryInv, HistoryTypes
  <1>2. /\ StoreOK(tables, A, doubled, now) /\ \A s \in A : Stored(tables, s)
        /\ A \subseteq HistorySamples
    BY DEF HistoryInv, StoreInv, HistoryTypes
  <1>3. tier \in Seq(RowsOver(A)) /\ RawOK(tier, A)
    BY <1>2, TiersAre DEF StoreOK
  <1>4. Len(tier) \in Nat /\ \A i \in 1 .. Len(tier) : tier[i].ts \in Int
    BY <1>3, RowsIn
  <1>5. \A d : d \in due <=> d \in A /\ now - kOneHour <= d.ts /\ d.ts <= now
    BY DEF Due, rangeLookback
  <1>6. \A i : i \in I <=> i \in 1 .. Len(tier) /\ now - kOneHour <= tier[i].ts /\ tier[i].ts <= now
    BY DEF Inside
  <1>7. \A s : s \in drawn <=> \E i \in N : s \in tier[i].ids
    BY ChartReads
  <1>8. \A i : i \in N <=> i \in I /\ Rank(I, W, i) < ChartPoints
    BY DEF Drawn
  <1>9. \A i, j \in I : <<i, j>> \in W <=> Newer(tier, i, j)
    BY DEF NewerIn
  <1> HIDE DEF A, I, W, N, c, drawn, due, tier
  <1>10. IsFiniteSet(I)
    <2>1. IsFiniteSet(1 .. Len(tier))
      BY <1>4, FS_Interval
    <2>2. I \subseteq 1 .. Len(tier)
      BY <1>6
    <2>3. QED
      BY <2>1, <2>2, FS_Subset
  <1>11. Orders(W, I)
    <2>1. \A i \in I : i \in Int /\ tier[i].ts \in Int
      BY <1>4, <1>6
    <2>2. \A i \in I : ~Newer(tier, i, i)
      BY <2>1 DEF Newer
    <2>3. \A i, j, k \in I : Newer(tier, i, j) /\ Newer(tier, j, k) => Newer(tier, i, k)
      BY <2>1 DEF Newer
    <2>4. \A i, j \in I : i # j => Newer(tier, i, j) \/ Newer(tier, j, i)
      BY <2>1 DEF Newer
    <2>5. QED
      BY <1>9, <2>2, <2>3, <2>4 DEF Orders
  <1>12. c \in Nat /\ \A i \in I : Rank(I, W, i) \in 0 .. c - 1
    BY <1>10, <1>11, Ranked DEF c
  <1>13. \A i, j \in I : <<i, j>> \in W => Rank(I, W, i) < Rank(I, W, j)
    BY <1>10, <1>11, Ranked
  <1>14. \A i, j \in I : Rank(I, W, i) = Rank(I, W, j) => i = j
    BY <1>10, <1>11, Ranked
  <1>15. \A n \in 0 .. c - 1 : n \in {Rank(I, W, i) : i \in I}
    BY <1>10, <1>11, Ranked DEF c
  \* A row of the window is that of a sample due.
  <1>16. ASSUME NEW i \in I PROVE \E s \in due : tier[i] = RowOf(s)
    <2>1. PICK s \in A : tier[i] = RowOf(s)
      BY <1>3, <1>6 DEF RawOK
    <2>2. s.ts = tier[i].ts
      BY <2>1, RowOfIs
    <2>3. QED
      BY <1>5, <1>6, <2>1, <2>2
  \* A sample due has its row in the window: the coarser tiers are older.
  <1>17. ASSUME NEW d \in due PROVE \E i \in I : tier[i] = RowOf(d)
    <2>1. d \in A /\ now - kOneHour <= d.ts /\ d.ts <= now /\ d.ts \in Nat
      BY <1>2, <1>5 DEF HistorySamples
    <2>2. PICK t \in Tiers : \E i \in 1 .. Len(tables[t]) : d \in tables[t][i].ids
      BY <1>2, <2>1 DEF Stored
    <2>3. PICK i \in 1 .. Len(tables[t]) : d \in tables[t][i].ids
      BY <2>2
    <2>4. CASE t # "raw"
      <3>1. OldOK(tables[t], now)
        BY <1>2, <2>4, TiersAre DEF StoreOK
      <3>2. d.ts < now - rawRetention
        BY <2>3, <3>1 DEF OldOK
      <3>3. QED
        BY <1>1, <2>1, <3>2
    <2>5. CASE t = "raw"
      <3>1. i \in 1 .. Len(tier) /\ d \in tier[i].ids
        BY <2>3, <2>5 DEF tier
      <3>2. PICK s \in A : tier[i] = RowOf(s)
        BY <1>3, <3>1 DEF RawOK
      <3>3. s = d /\ tier[i].ts = d.ts
        BY <3>1, <3>2, RowOfIs
      <3>4. QED
        BY <1>6, <2>1, <3>1, <3>2, <3>3
    <2>6. QED
      BY <2>4, <2>5
  <1>18. ASSUME NEW s \in drawn PROVE s \in due /\ \E i \in N : tier[i] = RowOf(s)
    <2>1. PICK i \in N : s \in tier[i].ids
      BY <1>7
    <2>2. PICK q \in due : tier[i] = RowOf(q)
      BY <1>8, <1>16, <2>1
    <2>3. s = q
      BY <2>1, <2>2, RowOfIs
    <2>4. QED
      BY <2>1, <2>2, <2>3
  <1>19. \A i \in N : \A s : tier[i] = RowOf(s) => s \in drawn
    BY <1>7, RowOfIs
  <1>20. CASE c <= ChartPoints
    <2>1. N = I
      <3>1. \A i \in I : Rank(I, W, i) < ChartPoints
        BY <1>1, <1>12, <1>20
      <3>2. QED
        BY <1>8, <3>1
    <2>2. drawn = due
      BY <1>17, <1>18, <1>19, <2>1
    <2>3. QED
      BY <2>2 DEF drawn, due
  <1>21. CASE ~(c <= ChartPoints)
    <2>1. Cardinality(drawn) = ChartPoints
      <3> DEFINE sm == [i \in N |-> CHOOSE s \in drawn : tier[i] = RowOf(s)]
                 rk == [i \in N |-> Rank(I, W, i)]
                 L == 0 .. ChartPoints - 1
      <3>1. IsFiniteSet(N)
        <4>1. N \subseteq I
          BY <1>8
        <4>2. QED
          BY <1>10, <4>1, FS_Subset
      <3>2. rk \in Bijection(N, L)
        <4>1. \A i \in N : rk[i] \in L
          BY <1>1, <1>8, <1>12
        <4>2. \A i, j \in N : rk[i] = rk[j] => i = j
          BY <1>8, <1>14
        <4>3. ASSUME NEW n \in L PROVE \E i \in N : rk[i] = n
          <5>1. n \in 0 .. c - 1 /\ n < ChartPoints
            BY <1>1, <1>12, <1>21
          <5>2. PICK i \in I : Rank(I, W, i) = n
            BY <1>15, <5>1
          <5>3. i \in N
            BY <1>8, <5>1, <5>2
          <5>4. QED
            BY <5>2, <5>3
        <4>4. rk \in [N -> L]
          BY <4>1
        <4> HIDE DEF rk, L
        <4>5. QED
          BY <4>2, <4>3, <4>4 DEF Bijection, Injection, IsInjective, Surjection
      <3>3. Cardinality(N) = Cardinality(L)
        <4> HIDE DEF rk, L
        <4>1. ExistsBijection(N, L)
          BY <3>2 DEF ExistsBijection
        <4>2. QED
          BY <3>1, <4>1, FS_Bijection
      <3>4. Cardinality(L) = ChartPoints
        <4>1. 0 \in Int /\ ChartPoints - 1 \in Int
          BY <1>1
        <4>2. Cardinality(0 .. ChartPoints - 1)
                = IF 0 > ChartPoints - 1 THEN 0 ELSE ChartPoints - 1 - 0 + 1
          BY <4>1, FS_Interval
        <4>3. (IF 0 > ChartPoints - 1 THEN 0 ELSE ChartPoints - 1 - 0 + 1) = ChartPoints
          BY <1>1
        <4>4. QED
          BY <4>2, <4>3
      <3>5. \A i \in N : sm[i] \in drawn /\ tier[i] = RowOf(sm[i])
        <4> TAKE i \in N
        <4>1. \E s \in drawn : tier[i] = RowOf(s)
          BY <1>8, <1>16, <1>19
        <4>2. QED
          BY <4>1
      <3>6. sm \in [N -> drawn]
        BY <3>5
      <3> HIDE DEF sm
      <3>7. \A i, j \in N : sm[i] = sm[j] => i = j
        <4>1. \A i \in N : i \in 1 .. Len(tier)
          BY <1>6, <1>8
        <4>2. QED
          BY <1>3, <3>5, <4>1 DEF RawOK
      <3>8. \A s \in drawn : \E i \in N : sm[i] = s
        BY <1>18, <3>5, RowOfIs
      <3>9. sm \in Bijection(N, drawn)
        BY <3>6, <3>7, <3>8 DEF Bijection, Injection, IsInjective, Surjection
      <3>10. Cardinality(N) = Cardinality(drawn)
        <4>1. ExistsBijection(N, drawn)
          BY <3>9 DEF ExistsBijection
        <4>2. QED
          BY <3>1, <4>1, FS_Bijection
      <3>11. QED
        BY <3>3, <3>4, <3>10
    <2>2. ASSUME NEW s \in drawn, NEW d \in due \ drawn PROVE d.ts <= s.ts
      <3>1. PICK i \in N : tier[i] = RowOf(s)
        BY <1>18
      <3>2. PICK j \in I : tier[j] = RowOf(d)
        BY <1>17
      <3>3. i \in I /\ j \notin N /\ Rank(I, W, i) < ChartPoints /\ ~(Rank(I, W, j) < ChartPoints)
        BY <1>8, <1>19, <3>1, <3>2
      <3>4. Rank(I, W, i) \in Int /\ Rank(I, W, j) \in Int
        BY <1>12, <3>3
      <3>5. ~Newer(tier, j, i)
        <4>1. ~(Rank(I, W, j) < Rank(I, W, i))
          BY <1>1, <3>3, <3>4
        <4>2. QED
          BY <1>9, <1>13, <3>3, <4>1
      <3>6. tier[i].ts = s.ts /\ tier[j].ts = d.ts /\ tier[i].ts \in Int /\ tier[j].ts \in Int
        BY <1>4, <1>6, <3>1, <3>2, <3>3, RowOfIs
      <3>7. QED
        BY <3>5, <3>6 DEF Newer
    <2>3. QED
      BY <1>18, <2>1, <2>2 DEF drawn, due
  <1>22. drawn \subseteq due
    BY <1>18
  <1>23. QED
    BY <1>20, <1>21, <1>22 DEF drawn, due

LEMMA HistoryHolds == ASSUME HistoryInv PROVE HistoryComplete
  <1>1. LastHourComplete
    BY ChartComplete DEF LastHourComplete
  <1>2. QED
    BY <1>1, Conserved DEF HistoryComplete

\* No accepted sample is lost or counted twice, and none is missing from the chart
\* of its hour unless newer ones fill it, for every number of samples, faults,
\* crashes and sweeps, every batch size, bucket, query limit and chart capacity, and
\* retentions that are no shorter than the charts.
\* SqliteHistoryStore::write, demoteOlderThan and query, HistorianBridge::flushLocked,
\* HistorianMaintenance::runOnce, HistoryPage::populateChart, TrendChart::addPoint.
THEOREM HistoryIsComplete == Spec => []HistoryComplete
  <1>1. Init => HistoryInv /\ HistoryFlags
    BY HistoryStarts DEF Init
  <1>2. (HistoryInv /\ HistoryFlags) /\ [Next]_workbenchVars => (HistoryInv /\ HistoryFlags)'
    BY HistoryStep, PartSteps
  <1>3. HistoryInv => HistoryComplete
    BY HistoryHolds
  <1>4. QED
    BY <1>1, <1>2, <1>3, PTL DEF Spec
============================================================================
