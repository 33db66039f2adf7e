----------------------------- MODULE EditorSession -----------------------------
(***************************************************************************)
(* The editor of an instance (plugin/PluginEditor.cpp) with its settings   *)
(* panel (ui/AnalyzerSettingsPanel.cpp) and the state of its utilities     *)
(* (ui/EditorUtilityState.cpp), composed with the instance's configuration *)
(* and a host that saves and restores projects meanwhile.                  *)
(*                                                                         *)
(* The editor lives on the message thread.  It learns of a replacement by  *)
(* a flag that analyzerConfigurationChanged() sets on whichever thread     *)
(* replaced it; a 30 Hz timer, which runs only while the editor shows,     *)
(* takes the flag and re-reads the configuration.  The dashboard's layout  *)
(* edit is left out.                                                       *)
(***************************************************************************)
EXTENDS InstanceConfiguration

CONSTANTS
    Edits  \* what a user enters: <<setting, value>>

\* A control is of one setting and has a value of its type.
ASSUME EditsAssumption ==
    \A edit \in Edits : edit[1] \in Settings /\ Typed(Setting[edit[1]], edit[2])

VARIABLES
    editor,  \* the editor's own state
    panel,   \* AnalyzerSettingsPanel's configuration_
    render   \* the settings the visualization was given

editorVars == <<editor, panel, render>>
vars == <<instanceVars, editorVars>>

------------------------------------------------------------------------------
(* What the visualization is given of a configuration.                     *)

RenderSettings ==
    {"floorDb", "ceilingDb", "slope", "frequencySpacing", "fillOpacity",
     "traceColorSrgb", "palette", "colorResponse", "colorFloorDb", "colorCeilingDb",
     "historyDurationSeconds", "historyMode", "requestedFftSliceRateHz",
     "referenceLufs"}

Rendered(configuration) ==
    LET sanitized == Sanitize(configuration)
    IN  [name \in RenderSettings |-> sanitized[name]]

------------------------------------------------------------------------------
(* The panel's controls.                                                   *)

\* The steps of the sliders, in units; the spacing's is continuous.
SliderStep ==
    [floorDb |-> Unit, ceilingDb |-> Unit, colorFloorDb |-> Unit, colorCeilingDb |-> Unit,
     finitePeakHoldSeconds |-> Unit \div 100, fillOpacity |-> Unit \div 1000,
     colorResponse |-> Unit \div 100, referenceLufs |-> Unit \div 2]

\* An averaging time below half the minimum is Off, any other one whole
\* milliseconds.
SnappedAveraging(s, value) ==
    CASE value = NonFinite -> s.default
      [] value # NonFinite /\ 2 * value <= s.lower -> 0
      [] OTHER -> Clamp(Nearest(value, Unit), s.lower, s.upper)

\* What a control makes of what is entered.
Entered(name, value) ==
    LET s == Setting[name]
    IN  IF s.kind = "averaging" THEN SnappedAveraging(s, value)
        ELSE IF name \in DOMAIN SliderStep /\ value # NonFinite
             THEN Clamp(Nearest(value, SliderStep[name]), s.lower, s.upper)
             ELSE value

------------------------------------------------------------------------------
(* The utilities and what they present.                                    *)

Closed == [phase |-> "closed", ticking |-> FALSE, pending |-> FALSE, showing |-> FALSE,
           settingsOpen |-> FALSE, requested |-> FALSE, wide |-> TRUE, about |-> FALSE,
           keeps |-> FALSE]

SettingsPresentation(e) ==
    IF ~e.settingsOpen THEN "closed" ELSE IF e.wide THEN "sideInspector" ELSE "fullContent"

ShouldRenderDashboard(e) == SettingsPresentation(e) # "fullContent"

\* Mutant: About does not remember what it found.
RenderingBehindAbout(e) == e.phase = "open" /\ e.showing /\ ShouldRenderDashboard(e)

\* The dashboard's share of resized() and updateRenderingState(), which follow
\* every change of what they depend on.
Rendering(e) ==
    /\ e.phase = "open" /\ e.showing
    /\ IF e.about THEN e.keeps ELSE ShouldRenderDashboard(e)

SettingsVisible(e) == ~e.about /\ SettingsPresentation(e) # "closed"

------------------------------------------------------------------------------
Listening == editor.phase \in {"listening", "open"}

\* The message thread is between two callbacks, and the editor is there.
MessageFree == Idle("message") /\ ~editor.ticking /\ editor.phase \in {"closed", "open"}
EditorFree == MessageFree /\ editor.phase = "open"

Init ==
    /\ InstanceInit
    /\ editor = Closed
    /\ panel = Defaults
    /\ render = Rendered(Defaults)

\* The constructor reads the configuration for the panel, registers the
\* listener, and then reads it for the visualization.
CreateEditor ==
    /\ MessageFree /\ editor.phase = "closed"
    /\ editor' = [Closed EXCEPT !.phase = "constructing", !.requested = metrics]
    /\ panel' = stored
    /\ UNCHANGED <<instanceVars, render>>

AddListener ==
    /\ editor.phase = "constructing"
    /\ editor' = [editor EXCEPT !.phase = "listening"]
    /\ UNCHANGED <<instanceVars, panel, render>>

\* Mutant: the configuration read for the panel is used again.
FinishConstructionFromPanel ==
    /\ editor.phase = "listening"
    /\ render' = Rendered(panel)
    /\ editor' = [editor EXCEPT !.phase = "open", !.requested = metrics]
    /\ UNCHANGED <<instanceVars, panel>>

FinishConstruction ==
    /\ editor.phase = "listening"
    /\ render' = Rendered(stored)
    /\ editor' = [editor EXCEPT !.phase = "open", !.requested = metrics]
    /\ UNCHANGED <<instanceVars, panel>>

DestroyEditor ==
    /\ EditorFree
    /\ editor' = Closed
    /\ panel' = Defaults
    /\ render' = Rendered(Defaults)
    /\ UNCHANGED instanceVars

\* Within updateRenderingState(): the timer runs while the editor shows.
ShowOrHide ==
    /\ EditorFree
    /\ editor' = [editor EXCEPT !.showing = ~@]
    /\ UNCHANGED <<instanceVars, panel, render>>

Resize ==
    /\ EditorFree
    /\ editor' = [editor EXCEPT !.wide = ~@]
    /\ UNCHANGED <<instanceVars, panel, render>>

\* The timer synchronizes the metrics and takes the flag ...
TimerCallback ==
    /\ EditorFree /\ editor.showing
    /\ editor' = [editor EXCEPT !.requested = metrics, !.pending = FALSE,
                                !.ticking = editor.pending]
    /\ UNCHANGED <<instanceVars, panel, render>>

\* ... and then reads what it announced.
ReadConfiguration ==
    /\ editor.ticking
    /\ editor' = [editor EXCEPT !.ticking = FALSE]
    /\ panel' = stored
    /\ render' = Rendered(stored)
    /\ UNCHANGED instanceVars

OpenSettings ==
    /\ EditorFree /\ editor.showing /\ ~editor.about /\ ~editor.settingsOpen
    /\ editor' = [editor EXCEPT !.settingsOpen = TRUE]
    /\ panel' = stored
    /\ UNCHANGED <<instanceVars, render>>

CloseSettings ==
    /\ EditorFree /\ editor.showing /\ ~editor.about /\ editor.settingsOpen
    /\ editor' = [editor EXCEPT !.settingsOpen = FALSE]
    /\ UNCHANGED <<instanceVars, panel, render>>

\* While Settings is open the button switches to the metrics; otherwise it
\* toggles the request.  A changed request is written to the parameter.
PressMetrics ==
    LET requested == editor.settingsOpen \/ ~editor.requested
    IN  /\ EditorFree /\ editor.showing /\ ~editor.about
        /\ editor' = [editor EXCEPT !.settingsOpen = FALSE, !.requested = requested]
        /\ metrics' = IF requested # editor.requested THEN requested ELSE metrics
        /\ UNCHANGED <<stored, coordinator, calls, recent, replacements, panel, render>>

OpenAbout ==
    /\ EditorFree /\ editor.showing /\ ~editor.about
    /\ editor' = [editor EXCEPT !.about = TRUE, !.keeps = ShouldRenderDashboard(editor)]
    /\ UNCHANGED <<instanceVars, panel, render>>

CloseAbout ==
    /\ EditorFree /\ editor.showing /\ editor.about
    /\ editor' = [editor EXCEPT !.about = FALSE, !.keeps = FALSE]
    /\ UNCHANGED <<instanceVars, panel, render>>

\* publishSanitizedConfiguration(): the panel's own copy is the base.
Publish(configuration) ==
    /\ EditorFree /\ editor.showing /\ SettingsVisible(editor)
    /\ panel' = Sanitize(configuration)
    /\ BeginEdit(configuration)
    /\ UNCHANGED <<editor, render>>

EditSetting(name, value) ==
    Publish([panel EXCEPT ![name] = Entered(name, value)])

ResetSection(section) ==
    Publish([name \in Settings |-> IF name \in Names(section) THEN Defaults[name]
                                                              ELSE panel[name]])

\* analyzerConfigurationChanged(), on the thread that replaces.
AnalyzerConfigurationChanged(t) ==
    /\ NotifyListeners(t)
    /\ editor' = [editor EXCEPT !.pending = @ \/ Listening]
    /\ UNCHANGED <<panel, render>>

\* An edit then updates the visualization with what it published.
Finish(t) ==
    /\ FinishReplacement(t)
    /\ render' = IF calls[t].edit THEN Rendered(calls[t].configuration) ELSE render
    /\ UNCHANGED <<editor, panel>>

\* The host calls on its own thread, or on the message thread between callbacks.
HostMayCall(t) == t = "message" => MessageFree

Restore(t, p) == HostMayCall(t) /\ RestoreProject(t, p) /\ UNCHANGED editorVars
SetMetrics(requested) == SetMetricsParameter(requested) /\ UNCHANGED editorVars

ReplacementStep(t) ==
    \/ StoreConfiguration(t) /\ UNCHANGED editorVars
    \/ SetSpectrumAnalysisConfiguration(t) /\ UNCHANGED editorVars
    \/ SetSpectrumTemporalConfiguration(t) /\ UNCHANGED editorVars
    \/ SetSpectrogramFrequencySpacing(t) /\ UNCHANGED editorVars
    \/ AnalyzerConfigurationChanged(t)
    \/ Finish(t)

UserStep ==
    \/ \E edit \in Edits : EditSetting(edit[1], edit[2])
    \/ \E section \in DOMAIN Sections : ResetSection(section)
    \/ OpenSettings \/ CloseSettings \/ PressMetrics
    \/ OpenAbout \/ CloseAbout
    \/ ShowOrHide \/ Resize

Next ==
    \/ CreateEditor \/ AddListener \/ FinishConstruction \/ DestroyEditor
    \/ TimerCallback \/ ReadConfiguration
    \/ UserStep
    \/ \E t \in Threads :
          \/ ReplacementStep(t)
          \/ \E p \in Projects \union {Saved(stored, metrics)} : Restore(t, p)
    \/ \E requested \in BOOLEAN : SetMetrics(requested)

Spec == Init /\ [][Next]_vars

------------------------------------------------------------------------------
Quiet == \A t \in Threads : Idle(t)

\* The visualization shows the instance's settings.
Shown == \A name \in RenderSettings : render[name] = stored[name]

\* With nothing announced and no replacement on its way, the visualization
\* shows the configuration the instance has: a replacement on another thread
\* at any point of the constructor, of the timer's callback or of an edit is
\* not missed.
SettledEditorAgrees ==
    (Quiet /\ editor.phase = "open" /\ ~editor.pending /\ ~editor.ticking) => Shown

\* The setters apply outside the mutex, one by one, and replacements on two
\* threads interleave.  Once none runs, each part of what the coordinator
\* analyses with is that of the configuration stored last or of one that was
\* still being handed over when it was stored, never of an older one; a
\* replacement that met no other is followed in full.  What sanitize() lets
\* through, the setters take.
CoordinatorFollows ==
    Quiet =>
        /\ \E c \in recent : coordinator.analysis = Followed(c).analysis
        /\ \E c \in recent : coordinator.temporal = Followed(c).temporal
        /\ \E c \in recent : coordinator.spacing = Followed(c).spacing

\* A saved project restores what it was saved from, up to the decimals that
\* are written, and saving it again writes the same.
Reads(restored, of) ==
    \A name \in Settings :
        IF Setting[name].kind \in {"choice", "token", "colour"}
        THEN restored[name] = of[name]
        ELSE restored[name] - of[name] \in (1 - LastDigit) .. (LastDigit - 1)
Reopens(configuration, requested) ==
    LET saved == Saved(configuration, requested)
        restored == RestoredConfiguration(saved)
    IN  /\ Reads(restored, configuration)
        /\ Encode(restored) = saved.trees[1]
        /\ RestoredMetrics(saved) <=> requested
SavedProjectReopens == [][stored' # stored => Reopens(stored', metrics')]_vars

\* While About is open the dashboard neither starts nor stops, whatever
\* happens to the width, to Settings or to the metrics behind it.
AboutKeepsLifecycle ==
    [][(editor.about /\ editor'.about /\ editor.showing = editor'.showing)
        => Rendering(editor) = Rendering(editor')]_vars
================================================================================
