----------------------------- MODULE Workbench -----------------------------
(***************************************************************************)
(* The services behind the operator's pages, side by side: the historian,  *)
(* the two stations, the product database, the configuration, the          *)
(* dashboard and the main window.  They meet in one place only, the        *)
(* rebuild of the window, which each module has as an action of its own    *)
(* (clearCallbacks, dropCallbacks, RebuildPage, RebuildInLanguage,         *)
(* RunUiIdle); otherwise they share no state.  A behaviour therefore moves *)
(* one part and leaves the others at rest: what is reachable in a part is  *)
(* what is reachable in the product of all of them.                        *)
(***************************************************************************)
EXTENDS Historian, Stations, Products, Configuration, Dashboard, Shell

VARIABLE focus     \* the part that moves

Parts == {"historian", "stations", "products", "configuration", "dashboard", "shell"}

workbenchVars == <<historyVars, stationVars, productVars, configVars, dashVars, shellVars, focus>>

\* A part at rest is in one of its initial states, the same in every behaviour.
AtRest ==
    /\ focus # "configuration" => file.body = Document("auto", "", TRUE)
    /\ focus # "dashboard" => line = "Online" /\ role = "Operator"
    /\ focus # "shell" => uiPalette = ""

Init ==
    /\ focus \in Parts
    /\ HistorianInit /\ StationsInit /\ ProductsInit /\ ConfigurationInit /\ DashboardInit /\ ShellInit
    /\ AtRest

Next ==
    /\ UNCHANGED focus
    /\ \/ /\ focus = "historian" /\ HistorianNext
          /\ UNCHANGED <<stationVars, productVars, configVars, dashVars, shellVars>>
       \/ /\ focus = "stations" /\ StationsNext
          /\ UNCHANGED <<historyVars, productVars, configVars, dashVars, shellVars>>
       \/ /\ focus = "products" /\ ProductsNext
          /\ UNCHANGED <<historyVars, stationVars, configVars, dashVars, shellVars>>
       \/ /\ focus = "configuration" /\ ConfigurationNext
          /\ UNCHANGED <<historyVars, stationVars, productVars, dashVars, shellVars>>
       \/ /\ focus = "dashboard" /\ DashboardNext
          /\ UNCHANGED <<historyVars, stationVars, productVars, configVars, shellVars>>
       \/ /\ focus = "shell" /\ ShellNext
          /\ UNCHANGED <<historyVars, stationVars, productVars, configVars, dashVars>>

Spec == Init /\ [][Next]_workbenchVars
=============================================================================
