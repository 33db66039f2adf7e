------------------------- MODULE InstanceConfiguration -------------------------
(***************************************************************************)
(* The configuration of one plugin instance: PluginProcessor               *)
(* (plugin/PluginProcessor.cpp) and the part of AnalysisCoordinator that   *)
(* follows it.                                                             *)
(*                                                                         *)
(* replaceAnalyzerConfiguration() stores the sanitized value under a       *)
(* mutex and then, outside it, calls three setters of the coordinator and  *)
(* the listeners.  An edit runs it on the message thread; the host         *)
(* restores a project on a thread of its own choice.  One call per thread  *)
(* is in progress at a time; every step of a call is an action.  A setter  *)
(* whose wait for the running job fails applies nothing; that happens only *)
(* inside a job and once the scheduler has closed, where none is called.   *)
(*                                                                         *)
(* The listeners and what follows an edit are the editor's: EditorSession  *)
(* completes the actions marked so with its own conjuncts.                 *)
(***************************************************************************)
EXTENDS AnalyzerConfiguration

CONSTANTS
    Projects,        \* projects this version did not write, as records
    MaxReplacements  \* bound: replacements that may begin

\* A property that is a number has one for its value.
WellFormed(tree) ==
    \A i \in DOMAIN tree.children :
        \A name \in DOMAIN tree.children[i].properties :
            LET property == tree.children[i].properties[name]
            IN  property.content \in {"integer", "number"} => property.value \in Int

ASSUME ProjectsAssumption ==
    \A p \in Projects : Len(p.trees) = 1 => WellFormed(p.trees[1])

Threads == {"message", "host"}

VARIABLES
    stored,        \* analyzerConfiguration, guarded by analyzerConfigurationMutex
    metrics,       \* the parameter "performanceMetrics"
    coordinator,   \* what the coordinator analyses with
    calls,         \* replaceAnalyzerConfiguration() on each thread
    recent,        \* history: the configuration stored last, and those that calls were
                   \* still handing to the setters when it was stored
    replacements   \* replacements begun

instanceVars == <<stored, metrics, coordinator, calls, recent, replacements>>

------------------------------------------------------------------------------
(* The coordinator's share of a configuration.                             *)

SpectrumAnalysis(configuration) ==
    [size |-> configuration.fftSize, window |-> configuration.window,
     rate |-> configuration.requestedFftSliceRateHz]

SpectrumTemporal(configuration) ==
    [attack |-> configuration.attackAveragingMilliseconds,
     release |-> configuration.releaseAveragingMilliseconds,
     mode |-> configuration.peakHoldMode,
     hold |-> configuration.finitePeakHoldSeconds]

Followed(configuration) ==
    [analysis |-> SpectrumAnalysis(configuration),
     temporal |-> SpectrumTemporal(configuration),
     spacing |-> configuration.frequencySpacing]

\* What the spectrum analyzer takes; a setter ignores any other value.
SupportedAnalysis(analysis) ==
    /\ analysis.size \in {1024, 2048, 4096, 8192, 16384}
    /\ analysis.window \in {"rectangular", "periodicHann", "fourTermBlackmanHarris",
                            "fiveTermFlatTop"}
    /\ analysis.rate \in {15, 30, 60, 120}

\* Mutant: Off is refused.
SupportedTemporalInRange(temporal) ==
    /\ temporal.attack \in (5 * Unit) .. (500 * Unit)
    /\ temporal.release \in (25 * Unit) .. (2000 * Unit)
    /\ temporal.mode \in {"off", "finite", "infinite"}
    /\ temporal.hold \in (Unit \div 4) .. (10 * Unit)

SupportedTemporal(temporal) ==
    /\ temporal.attack = 0 \/ temporal.attack \in (5 * Unit) .. (500 * Unit)
    /\ temporal.release = 0 \/ temporal.release \in (25 * Unit) .. (2000 * Unit)
    /\ temporal.mode \in {"off", "finite", "infinite"}
    /\ temporal.hold \in (Unit \div 4) .. (10 * Unit)

SupportedSpacing(spacing) == spacing \in 0 .. Unit

------------------------------------------------------------------------------
(* Projects.                                                               *)

\* The state tree: its AnalyzerConfiguration children and the values (none or
\* one) under the current and the legacy name of the metrics parameter.
Project(trees, current, legacy) ==
    [trees |-> trees, metrics |-> current, legacy |-> legacy]
Absent == {}

\* getStateInformation().
Saved(configuration, requested) == Project(<<Encode(configuration)>>, {requested}, Absent)

\* Exactly one configuration, or the defaults.
RestoredConfiguration(p) ==
    IF Len(p.trees) = 1 THEN DecodeOrDefault(p.trees[1]) ELSE Defaults

\* The legacy parameter is renamed unless the current one is there; a project
\* with neither turns the metrics off.
RestoredMetrics(p) ==
    IF p.metrics # Absent THEN TRUE \in p.metrics ELSE TRUE \in p.legacy

------------------------------------------------------------------------------
NoCall == [at |-> "idle", configuration |-> Defaults, edit |-> FALSE]
Idle(t) == calls[t].at = "idle"

\* The constructor's own replacement, before any editor or host call.
InstanceInit ==
    /\ stored = Sanitize(Defaults)
    /\ metrics = FALSE
    /\ coordinator = Followed(Sanitize(Defaults))
    /\ calls = [t \in Threads |-> NoCall]
    /\ recent = {Sanitize(Defaults)}
    /\ replacements = 0

Begin(t, at, configuration, edit) ==
    /\ Idle(t)
    /\ replacements < MaxReplacements
    /\ replacements' = replacements + 1
    /\ calls' = [calls EXCEPT ![t] = [at |-> at, configuration |-> Sanitize(configuration),
                                      edit |-> edit]]

HandedOver == {"analysis", "temporal", "spacing"}
RecentBeside(t) ==
    {calls[u].configuration : u \in {v \in Threads \ {t} : calls[v].at \in HandedOver}}

\* setAnalyzerConfiguration(), up to the unlock of the mutex.
BeginEdit(configuration) ==
    /\ Begin("message", "analysis", configuration, TRUE)
    /\ stored' = Sanitize(configuration)
    /\ recent' = {Sanitize(configuration)} \union RecentBeside("message")
    /\ UNCHANGED <<metrics, coordinator>>

\* setStateInformation(): the parameters are replaced first.
RestoreProject(t, p) ==
    /\ Begin(t, "store", RestoredConfiguration(p), FALSE)
    /\ metrics' = RestoredMetrics(p)
    /\ UNCHANGED <<stored, coordinator, recent>>

Advance(t, from, to) ==
    /\ calls[t].at = from
    /\ calls' = [calls EXCEPT ![t].at = to]
    /\ UNCHANGED <<metrics, replacements>>

StoreConfiguration(t) ==
    /\ Advance(t, "store", "analysis")
    /\ stored' = calls[t].configuration
    /\ recent' = {calls[t].configuration} \union RecentBeside(t)
    /\ UNCHANGED coordinator

SetSpectrumAnalysisConfiguration(t) ==
    LET analysis == SpectrumAnalysis(calls[t].configuration)
    IN  /\ Advance(t, "analysis", "temporal")
        /\ coordinator' = IF SupportedAnalysis(analysis)
                          THEN [coordinator EXCEPT !.analysis = analysis] ELSE coordinator
        /\ UNCHANGED <<stored, recent>>

SetSpectrumTemporalConfiguration(t) ==
    LET temporal == SpectrumTemporal(calls[t].configuration)
    IN  /\ Advance(t, "temporal", "spacing")
        /\ coordinator' = IF SupportedTemporal(temporal)
                          THEN [coordinator EXCEPT !.temporal = temporal] ELSE coordinator
        /\ UNCHANGED <<stored, recent>>

SetSpectrogramFrequencySpacing(t) ==
    LET spacing == calls[t].configuration.frequencySpacing
    IN  /\ Advance(t, "spacing", "listeners")
        /\ coordinator' = IF SupportedSpacing(spacing)
                          THEN [coordinator EXCEPT !.spacing = spacing] ELSE coordinator
        /\ UNCHANGED <<stored, recent>>

\* The listeners' share is the editor's.
NotifyListeners(t) ==
    /\ Advance(t, "listeners", "finish")
    /\ UNCHANGED <<stored, coordinator, recent>>

\* The report to the host; what follows an edit is the editor's.
FinishReplacement(t) ==
    /\ calls[t].at = "finish"
    /\ calls' = [calls EXCEPT ![t] = NoCall]
    /\ UNCHANGED <<stored, metrics, coordinator, recent, replacements>>

\* The host sets the parameter, which is hidden from automation only.
SetMetricsParameter(requested) ==
    /\ metrics # requested
    /\ metrics' = requested
    /\ UNCHANGED <<stored, coordinator, calls, recent, replacements>>
================================================================================
