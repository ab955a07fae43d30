------------------------------- MODULE Shell -------------------------------
(***************************************************************************)
(* The main window and its settings page: display mode, theme, palette,    *)
(* layout, auto refresh, log tail.  Everything runs on the GUI thread, but *)
(* what the settings page asks for is done by idle callbacks, a timer      *)
(* starts the auto refresh late, and a palette, a language or a sign-in    *)
(* builds the pages or the whole window again while such callbacks wait.   *)
(*                                                                         *)
(* Abstractions: a language is only the request to rebuild; a timer is the *)
(* interval it runs at; the tab in front is left out.                      *)
(***************************************************************************)
EXTENDS Naturals, Sequences, SequencesExt

CONSTANTS
    MaxRequests,  \* bound: what the operator does in the settings
    MaxSignIns    \* bound: windows opened by signing in again

ASSUME ShellAssumption == {MaxRequests, MaxSignIns} \subseteq Nat

UiPalettes == {"", "paper", "blueprint", "right"}
kAutoRefreshIntervalMs == 2      \* the default; the spin button also gives 1
Intervals  == {1, kAutoRefreshIntervalMs}

VARIABLES
    phase,         \* "main", "login" or "quit"
    uiPalette,     \* ui.palette in ConfigManager
    theme,         \* ThemeManager: dark or not, and the palette
    window,        \* the flags MainWindow keeps: full, auto, verbose, ms
    layout,        \* currentLayoutUI_
    ticks,         \* auto-refresh timers of this window; the last is the handle's
    tails,         \* log-tail timers of this window
    settings,      \* widgets of the settings page
    startPending,  \* the one-shot timer of the constructor has not fired
    uiIdles,       \* idle callbacks of the window
    strays,        \* timers that windows closed by a sign-out left running
    replaced,      \* the settings page is not the one the interval was chosen on
    chosen,        \* a palette has been picked since the process started
    requests, signIns

shellVars == <<phase, uiPalette, theme, window, layout, ticks, tails, settings, startPending, uiIdles,
               replaced, strays, chosen, requests, signIns>>

LightOnly(p) == p = "paper"
DarkOnly(p)  == p = "blueprint"

\* chooseMainWindowUI(); only the blueprint layout has a log button.
chooseMainWindowUI(p) == IF p \in {"blueprint", "right"} THEN p ELSE "main"
LogButton(ui) == ui = "blueprint"

\* ThemeManager::applyPalette(): a palette without the current mode is not loaded.
applyPalette(t) ==
    IF (LightOnly(t.palette) /\ t.dark) \/ (DarkOnly(t.palette) /\ ~t.dark) THEN "" ELSE t.palette

\* ThemeManager::setTheme(), setPalette().
setTheme(t, dark) == [t EXCEPT !.dark = dark]
setPalette(t, p)  == [t EXCEPT !.palette = p]

\* SettingsPage(): loadInitialValues() takes the palette and its mode lock from
\* the configuration, the interval from the defaults.
NewPage(p, w, t) ==
    [full |-> w.full, dark |-> t.dark, auto |-> w.auto, logs |-> w.verbose,
     ms |-> kAutoRefreshIntervalMs, card |-> p,
     lock |-> IF LightOnly(p) THEN "light" ELSE IF DarkOnly(p) THEN "dark" ELSE "none",
     logsVisible |-> p # "blueprint"]

\* syncWithRuntimeState().
Synced(page, w, t) == [page EXCEPT !.full = w.full, !.dark = t.dark, !.auto = w.auto, !.logs = w.verbose]

\* The constructor of MainWindow: full screen, pages built, refresh to come.
NewWindow(p, t) ==
    LET ui == chooseMainWindowUI(p)
        w  == [full |-> TRUE, auto |-> TRUE, verbose |-> LogButton(ui), ms |-> kAutoRefreshIntervalMs]
    IN  [layout |-> ui, window |-> w, settings |-> NewPage(p, w, t),
         tails |-> IF LogButton(ui) THEN 1 ELSE 0]

ShellInit ==
    /\ uiPalette \in UiPalettes /\ theme = [dark |-> TRUE, palette |-> uiPalette]
    /\ LET new == NewWindow(uiPalette, theme)
       IN  /\ layout = new.layout /\ window = new.window /\ settings = new.settings
           /\ tails = new.tails
    /\ phase = "main" /\ ticks = <<>> /\ startPending = TRUE /\ uiIdles = <<>>
    /\ replaced = FALSE /\ strays = 0 /\ chosen = FALSE /\ requests = 0 /\ signIns = 0

-----------------------------------------------------------------------------
(* What the operator does.                                                 *)

Request == phase = "main" /\ requests < MaxRequests /\ requests' = requests + 1
Disconnected(timers) == IF timers = <<>> THEN <<>> ELSE Front(timers)

\* The timer is connected without disconnecting the old one.
applyAutoRefreshTwice(timers, w) == IF w.auto THEN Append(timers, w.ms) ELSE Disconnected(timers)

\* applyAutoRefresh(): the timers after it.
applyAutoRefresh(timers, w) ==
    IF w.auto THEN Append(Disconnected(timers), w.ms) ELSE Disconnected(timers)

\* The radio buttons of the display mode.
onDisplayModeSelected ==
    /\ Request /\ window' = [window EXCEPT !.full = ~@] /\ settings' = [settings EXCEPT !.full = ~@]
    /\ UNCHANGED <<phase, uiPalette, theme, layout, ticks, tails, startPending, uiIdles, replaced,
                   strays, chosen, signIns>>

\* toggleFullscreen() on F11, and Escape in full screen.
toggleFullscreen ==
    window' = [window EXCEPT !.full = ~@] /\ settings' = Synced(settings, window', theme)

onKeyPressed ==
    /\ Request /\ toggleFullscreen
    /\ UNCHANGED <<phase, uiPalette, theme, layout, ticks, tails, startPending, uiIdles, replaced,
                   strays, chosen, signIns>>

\* onThemeSelected(): the radio the palette locks out is insensitive.
onThemeSelected ==
    /\ Request /\ settings.lock # (IF theme.dark THEN "dark" ELSE "light")
    /\ theme' = setTheme(theme, ~theme.dark) /\ settings' = [settings EXCEPT !.dark = ~@]
    /\ UNCHANGED <<phase, uiPalette, window, layout, ticks, tails, startPending, uiIdles, replaced,
                   strays, chosen, signIns>>

onAutoRefreshToggled ==
    /\ Request /\ window' = [window EXCEPT !.auto = ~@] /\ settings' = [settings EXCEPT !.auto = ~@]
    /\ ticks' = applyAutoRefresh(ticks, window')
    /\ UNCHANGED <<phase, uiPalette, theme, layout, tails, startPending, uiIdles, replaced, strays,
                   chosen, signIns>>

\* applyRefreshInterval(): a running timer is replaced.
onRefreshIntervalChanged ==
    /\ Request
    /\ \E ms \in Intervals \ {settings.ms} :
          /\ window' = [window EXCEPT !.ms = ms] /\ settings' = [settings EXCEPT !.ms = ms]
          /\ ticks' = IF window.auto THEN applyAutoRefresh(ticks, window') ELSE ticks
    /\ replaced' = FALSE
    /\ UNCHANGED <<phase, uiPalette, theme, layout, tails, startPending, uiIdles, strays, chosen,
                   signIns>>

\* applyVerboseLogging() does not disconnect before it connects.
onShowLogsToggled ==
    /\ Request /\ settings.logsVisible
    /\ window' = [window EXCEPT !.verbose = ~@] /\ settings' = [settings EXCEPT !.logs = ~@]
    /\ tails' = IF window'.verbose THEN tails + 1 ELSE IF tails = 0 THEN 0 ELSE tails - 1
    /\ UNCHANGED <<phase, uiPalette, theme, layout, ticks, startPending, uiIdles, replaced, strays,
                   chosen, signIns>>

\* onLanguageSelected() with a saved language: rebuild from an idle callback.
onLanguageSelected ==
    /\ Request /\ uiIdles' = Append(uiIdles, [kind |-> "rebuild"])
    /\ UNCHANGED <<phase, uiPalette, theme, window, layout, ticks, tails, settings, startPending,
                   replaced, strays, chosen, signIns>>

\* A palette card: the configuration, the highlight and the mode lock now, the
\* rest from an idle callback that knows whether the layout differed now.
PaletteClicked ==
    /\ Request
    /\ \E p \in UiPalettes \ {uiPalette} :
          /\ uiPalette' = p /\ chosen' = TRUE
          /\ settings' = [settings EXCEPT !.card = p, !.lock = NewPage(p, window, theme).lock]
          /\ uiIdles' = Append(uiIdles, [kind |-> "palette", id |-> p,
                                         needsRelayout |-> chooseMainWindowUI(p) # layout])
    /\ UNCHANGED <<phase, theme, window, layout, ticks, tails, startPending, replaced, strays,
                   signIns>>

-----------------------------------------------------------------------------
(* What the main loop does later.                                          *)

\* kAutoRefreshStartDelayMs after the constructor.
StartDelayOver ==
    /\ phase \in {"main", "login"} /\ startPending /\ startPending' = FALSE
    /\ ticks' = IF window.auto THEN applyAutoRefresh(ticks, window) ELSE ticks
    /\ UNCHANGED <<phase, uiPalette, theme, window, layout, tails, settings, uiIdles, replaced,
                   strays, chosen, requests, signIns>>

\* rebuildPages(): timers off, pages and presenters anew, timers on again.
rebuildPages ==
    /\ settings' = Synced(NewPage(uiPalette, window, theme), window, theme) /\ replaced' = TRUE
    /\ ticks' = IF window.auto THEN applyAutoRefresh(Disconnected(ticks), window)
                ELSE Disconnected(ticks)
    /\ tails' = (IF tails = 0 THEN 0 ELSE tails - 1) + (IF window.verbose THEN 1 ELSE 0)
    /\ UNCHANGED <<theme, layout>>

\* reloadLayout() builds what the callback's own palette asks for.
layoutOfClick(id) == chooseMainWindowUI(id)

\* parseLayoutUI() builds what the configuration asks for by now.
layoutToLoad(id) == chooseMainWindowUI(uiPalette)

\* Palettes with one mode bring it along.
themeForPalette(id) ==
    LET snapped == IF LightOnly(id) THEN setTheme(theme, FALSE)
                   ELSE IF DarkOnly(id) THEN setTheme(theme, TRUE) ELSE theme
    IN  setPalette(snapped, id)

\* reloadLayout(): the log tail runs for the user or for the layout's log button.
reloadLayout(id) ==
    /\ layout' = layoutToLoad(id)
    /\ settings' = Synced(NewPage(uiPalette, window, theme'), window, theme') /\ replaced' = TRUE
    /\ ticks' = IF window.auto THEN applyAutoRefresh(Disconnected(ticks), window)
                ELSE Disconnected(ticks)
    /\ tails' = (IF tails = 0 THEN 0 ELSE tails - 1)
                + (IF window.verbose \/ LogButton(layout') THEN 1 ELSE 0)

paletteIdle(idle) ==
    /\ theme' = themeForPalette(idle.id)
    /\ IF idle.needsRelayout THEN reloadLayout(idle.id)
       ELSE /\ settings' = Synced(settings, window, theme')
            /\ UNCHANGED <<layout, ticks, tails, replaced>>

\* One idle callback; the login dialog's nested loop runs them too.
RunUiIdle ==
    /\ phase \in {"main", "login"} /\ uiIdles # <<>> /\ uiIdles' = Tail(uiIdles)
    /\ \/ Head(uiIdles).kind = "rebuild" /\ rebuildPages
       \/ Head(uiIdles).kind = "palette" /\ paletteIdle(Head(uiIdles))
    /\ UNCHANGED <<phase, uiPalette, window, startPending, strays, chosen, requests, signIns>>

-----------------------------------------------------------------------------
(* Signing out.                                                            *)

\* handleSignOut() hides the window and runs the login dialog.
SignOut ==
    /\ phase = "main" /\ signIns < MaxSignIns /\ phase' = "login"
    /\ UNCHANGED <<uiPalette, theme, window, layout, ticks, tails, settings, startPending, uiIdles,
                   replaced, strays, chosen, requests, signIns>>

\* Signed in again: the old window is closed and the new one built once the
\* callbacks before it have run.  Nothing stops the old window's timers.
SignInAgain ==
    /\ phase = "login" /\ uiIdles = <<>> /\ phase' = "main" /\ signIns' = signIns + 1
    /\ strays' = strays + (IF window.auto THEN 1 ELSE 0)
    /\ LET new == NewWindow(uiPalette, theme)
       IN  /\ layout' = new.layout /\ window' = new.window /\ settings' = new.settings
           /\ tails' = new.tails
    /\ ticks' = <<>> /\ startPending' = TRUE /\ replaced' = FALSE
    /\ UNCHANGED <<uiPalette, theme, uiIdles, chosen, requests>>

\* The dialog is cancelled, or the window closed.
QuitShell ==
    /\ phase \in {"main", "login"} /\ phase' = "quit"
    /\ UNCHANGED <<uiPalette, theme, window, layout, ticks, tails, settings, startPending, uiIdles,
                   replaced, strays, chosen, requests, signIns>>

ShellNext ==
    \/ onDisplayModeSelected \/ onKeyPressed \/ onThemeSelected \/ onAutoRefreshToggled
    \/ onRefreshIntervalChanged \/ onShowLogsToggled \/ onLanguageSelected \/ PaletteClicked
    \/ StartDelayOver \/ RunUiIdle \/ SignOut \/ SignInAgain \/ QuitShell

-----------------------------------------------------------------------------
(* Properties.                                                             *)

\* The radios and checkboxes of the settings page show what the window and the
\* theme do, through every rebuild, forced mode and key.
\* SettingsPage::syncWithRuntimeState.
SettingsMatchRuntime ==
    /\ settings.full = window.full /\ settings.dark = theme.dark
    /\ settings.auto = window.auto /\ settings.logs = window.verbose

\* The spin button shows the interval in force on the page it was chosen on.  A
\* page built since then shows the default, whatever the timer runs at, until the
\* operator chooses again: loadInitialValues() sets the default and
\* syncWithRuntimeState() does not restore the interval.
IntervalShown == settings.ms = IF replaced THEN kAutoRefreshIntervalMs ELSE window.ms

\* One auto-refresh timer at the chosen interval if auto refresh is on (from the
\* start delay on) and none if it is off; one log tail if the user wants logs.
\* However toggles, the start delay and rebuilds follow each other.
\* MainWindow::applyAutoRefresh, applyVerboseLogging, rebuildPages, reloadLayout.
TimersMatchSettings ==
    /\ ~startPending => ticks = IF window.auto THEN <<window.ms>> ELSE <<>>
    /\ Len(ticks) <= 1 /\ tails <= 1
    /\ window.verbose => tails = 1
    /\ (~window.verbose /\ ~LogButton(layout)) => tails = 0

\* What the radios and checkboxes of the settings page show is in force in the
\* window, in the theme and in the timers that run.  The timer keeps the interval
\* chosen last through every rebuild; the page shows that interval until a rebuild
\* and the default after one.  SettingsPage, MainWindow.
SettingsInForce == SettingsMatchRuntime /\ IntervalShown /\ TimersMatchSettings

\* With no callback waiting the layout on screen is the configured palette's and
\* so are, once a palette has been picked, the theme's colours - also when
\* several palettes were clicked before the first callback ran.
\* MainWindow::wireSettingsSignals, reloadLayout, ThemeManager::applyPalette.
PaletteShown ==
    uiIdles = <<>> =>
        /\ layout = chooseMainWindowUI(uiPalette) /\ theme.palette = uiPalette
        /\ chosen => applyPalette(theme) = uiPalette

\* One timer ticks the simulation.  A sign-out leaves the old window's running.
OneTickSource == Len(ticks) + strays <= 1
=============================================================================
