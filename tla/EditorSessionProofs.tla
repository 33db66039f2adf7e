-------------------------- MODULE EditorSessionProofs --------------------------
(***************************************************************************)
(* What holds of configurations, their codec, the two threads that replace   *)
(* one and the editor that follows, for any projects and any edits.          *)
(***************************************************************************)
EXTENDS EditorSession, TLAPS

------------------------------------------------------------------------------
(* The settings.  Each has a default and a range that agree with its kind.  *)

\* The grids that values are rounded to
Grids == {2, 1000, 2000}

Sound(s) ==
    /\ s.kind \in {"choice", "token", "colour"} \cup Numbers
    /\ s.kind \in {"choice", "token"} => s.default \in s.values
    /\ s.kind = "choice" => s.values \subseteq Int
    /\ s.kind = "colour" => s.default \in Colours
    /\ s.kind \in Numbers =>
          /\ s.lower \in Int /\ s.upper \in Int /\ s.default \in Int
          /\ s.lower < s.upper /\ s.upper < NonFinite
          /\ s.lower % LastDigit = 0 /\ s.upper % LastDigit = 0
    /\ s.kind = "clamped" => s.default \in s.lower .. s.upper
    /\ s.kind = "averaging" => s.lower > 0 /\ (s.default = 0 \/ s.default \in s.lower .. s.upper)
    /\ s.kind = "stepped" =>
          /\ s.step \in Grids
          /\ s.default \in s.lower .. s.upper
          /\ s.lower % s.step = 0 /\ s.upper % s.step = 0 /\ s.default % s.step = 0

\* What a setting may be after sanitize()
Allowed(s) ==
    CASE s.kind \in {"choice", "token"} -> s.values
      [] s.kind = "colour" -> Colours
      [] s.kind = "clamped" -> s.lower .. s.upper
      [] s.kind = "averaging" -> {0} \cup s.lower .. s.upper
      [] s.kind = "stepped" -> {v \in s.lower .. s.upper : v % s.step = 0}

LEMMA AllowedOf ==
    ASSUME NEW s
    PROVE  /\ s.kind \in {"choice", "token"} => Allowed(s) = s.values
           /\ s.kind = "colour" => Allowed(s) = Colours
           /\ s.kind = "clamped" => Allowed(s) = s.lower .. s.upper
           /\ s.kind = "averaging" => Allowed(s) = {0} \cup s.lower .. s.upper
           /\ s.kind = "stepped" => Allowed(s) = {v \in s.lower .. s.upper : v % s.step = 0}
BY DEF Allowed

LEMMA SoundDefault ==
    ASSUME NEW s, Sound(s)
    PROVE  s.default \in Allowed(s)
BY AllowedOf DEF Sound, Numbers

LEMMA SectionDomains ==
    /\ DOMAIN Sections = {"SharedAnalysis", "Spectrum", "Spectrogram", "Loudness"}
    /\ Sections["SharedAnalysis"] = SharedAnalysis /\ Sections["Spectrum"] = Spectrum
    /\ Sections["Spectrogram"] = Spectrogram /\ Sections["Loudness"] = Loudness
BY DEF Sections

\* The constructors of settings
LEMMA TokenSound ==
    ASSUME NEW values, NEW default \in values
    PROVE  Sound(Token(values, default))
BY DEF Sound, Token, Numbers

LEMMA ChoiceSound ==
    ASSUME NEW values \in SUBSET Int, NEW default \in values
    PROVE  Sound(Choice(values, default))
BY DEF Sound, Choice, Numbers

LEMMA ColourSound ==
    ASSUME NEW default \in Colours
    PROVE  Sound(Colour(default))
BY DEF Sound, Colour, Numbers

LEMMA NumberSound ==
    ASSUME NEW kind \in {"clamped", "averaging"}, NEW lower \in Int, NEW upper \in Int,
           NEW default \in Int, lower < upper, upper < NonFinite,
           lower % LastDigit = 0, upper % LastDigit = 0,
           default \in lower .. upper \/ (kind = "averaging" /\ default = 0),
           kind = "averaging" => lower > 0
    PROVE  Sound(Number(kind, lower, upper, default))
BY DEF Sound, Number, Numbers

LEMMA SteppedSound ==
    ASSUME NEW lower \in Int, NEW upper \in Int, NEW step \in {1000, 2000},
           NEW default \in lower .. upper, lower < upper, upper < NonFinite,
           lower % step = 0, upper % step = 0, default % step = 0
    PROVE  Sound(Stepped(lower, upper, step, default))
<1>1. lower % LastDigit = 0 /\ upper % LastDigit = 0
  BY DEF LastDigit
<1>. QED  BY <1>1 DEF Sound, Stepped, Numbers, Grids

LEMMA SharedAnalysisSound == \A name \in DOMAIN SharedAnalysis : Sound(SharedAnalysis[name])
<1>1. Sound(SharedAnalysis["fftSize"]) /\ Sound(SharedAnalysis["requestedFftSliceRateHz"])
  BY ChoiceSound DEF SharedAnalysis
<1>2. Sound(SharedAnalysis["window"])
  BY TokenSound DEF SharedAnalysis
<1>3. Sound(SharedAnalysis["frequencySpacing"])
  <2>1. Sound(Number("clamped", 0, Unit, 1600))
    BY NumberSound DEF Unit, LastDigit, NonFinite
  <2>. QED  BY <2>1 DEF SharedAnalysis
<1>. QED  BY <1>1, <1>2, <1>3 DEF SharedAnalysis

LEMMA RangeSound ==
    /\ Sound(Ceiling)
    /\ \A default \in {-90 * Unit, -120 * Unit} : Sound(Floor(default))
<1>1. Sound(Ceiling)
  BY SteppedSound DEF Ceiling, Unit, NonFinite
<1>2. Sound(Floor(-90 * Unit))
  BY SteppedSound DEF Floor, Unit, NonFinite
<1>3. Sound(Floor(-120 * Unit))
  BY SteppedSound DEF Floor, Unit, NonFinite
<1>. QED  BY <1>1, <1>2, <1>3

LEMMA SpectrumSound == \A name \in DOMAIN Spectrum : Sound(Spectrum[name])
<1>1. Sound(Spectrum["floorDb"]) /\ Sound(Spectrum["ceilingDb"])
  BY RangeSound DEF Spectrum
<1>2. Sound(Spectrum["attackAveragingMilliseconds"])
  <2>1. Sound(Number("averaging", 5 * Unit, 500 * Unit, 0))
    BY NumberSound DEF Unit, LastDigit, NonFinite
  <2>. QED  BY <2>1 DEF Spectrum
<1>3. Sound(Spectrum["releaseAveragingMilliseconds"])
  <2>1. Sound(Number("averaging", 25 * Unit, 2000 * Unit, 250 * Unit))
    BY NumberSound DEF Unit, LastDigit, NonFinite
  <2>. QED  BY <2>1 DEF Spectrum
<1>4. Sound(Spectrum["slope"]) /\ Sound(Spectrum["peakHoldMode"])
  BY TokenSound DEF Spectrum
<1>5. Sound(Spectrum["finitePeakHoldSeconds"]) /\ Sound(Spectrum["fillOpacity"])
  <2>1. Sound(Number("clamped", 500, 10 * Unit, 2 * Unit))
    BY NumberSound DEF Unit, LastDigit, NonFinite
  <2>2. Sound(Number("clamped", 0, 1000, 360))
    BY NumberSound DEF LastDigit, NonFinite
  <2>. QED  BY <2>1, <2>2 DEF Spectrum
<1>6. Sound(Spectrum["traceColorSrgb"])
  <2>1. LastColour \in Int /\ 5621736 <= LastColour
    BY SMT DEF LastColour
  <2>2. 5621736 \in Colours
    BY <2>1, SMT DEF Colours
  <2>. QED  BY <2>2, ColourSound DEF Spectrum
<1>. QED  BY <1>1, <1>2, <1>3, <1>4, <1>5, <1>6 DEF Spectrum

LEMMA SpectrogramSound == \A name \in DOMAIN Spectrogram : Sound(Spectrogram[name])
<1>1. Sound(Spectrogram["colorFloorDb"]) /\ Sound(Spectrogram["colorCeilingDb"])
  BY RangeSound DEF Spectrogram
<1>2. Sound(Spectrogram["palette"]) /\ Sound(Spectrogram["historyMode"])
  BY TokenSound DEF Spectrogram
<1>3. Sound(Spectrogram["historyDurationSeconds"])
  BY ChoiceSound DEF Spectrogram
<1>4. Sound(Spectrogram["colorResponse"])
  <2>1. Sound(Number("clamped", -2 * Unit, 2 * Unit, 0))
    BY NumberSound DEF Unit, LastDigit, NonFinite
  <2>. QED  BY <2>1 DEF Spectrogram
<1>. QED  BY <1>1, <1>2, <1>3, <1>4 DEF Spectrogram

LEMMA LoudnessSound == \A name \in DOMAIN Loudness : Sound(Loudness[name])
<1>1. Sound(Stepped(-36 * Unit, -9 * Unit, 1000, -23 * Unit))
  BY SteppedSound DEF Unit, NonFinite
<1>. QED  BY <1>1 DEF Loudness

\* A setting is found in the section that holds it
LEMMA SettingPlace ==
    ASSUME NEW name \in Settings
    PROVE  /\ SectionOf[name] \in DOMAIN Sections
           /\ name \in Names(SectionOf[name])
           /\ Setting[name] = Sections[SectionOf[name]][name]
BY DEF Settings, SectionOf, Setting

LEMMA SettingSound == \A name \in Settings : Sound(Setting[name])
<1> SUFFICES ASSUME NEW name \in Settings PROVE Sound(Setting[name])
  OBVIOUS
<1>1. PICK section \in DOMAIN Sections :
          /\ name \in DOMAIN Sections[section]
          /\ Setting[name] = Sections[section][name]
  BY SettingPlace DEF Names
<1>. QED  BY <1>1, SectionDomains, SharedAnalysisSound, SpectrumSound, SpectrogramSound,
            LoudnessSound

LEMMA DefaultsAllowed == \A name \in Settings : Defaults[name] \in Allowed(Setting[name])
<1> SUFFICES ASSUME NEW name \in Settings PROVE Defaults[name] \in Allowed(Setting[name])
  OBVIOUS
<1>1. Sound(Setting[name]) /\ Defaults[name] = Setting[name].default
  BY SettingSound DEF Defaults
<1>. QED  BY <1>1, SoundDefault

------------------------------------------------------------------------------
(* Values brought into range.                                               *)

LEMMA NearestMultiple ==
    ASSUME NEW v \in Int, NEW step \in Grids
    PROVE  /\ Nearest(v, step) \in Int
           /\ Nearest(v, step) % step = 0
           /\ 2 * (Nearest(v, step) - v) \in (0 - step) .. step
<1>1. CASE step = 2
  BY <1>1 DEF Nearest
<1>2. CASE step = 1000
  BY <1>2 DEF Nearest
<1>3. CASE step = 2000
  BY <1>3 DEF Nearest
<1>. QED  BY <1>1, <1>2, <1>3 DEF Grids

LEMMA NearestOfMultiple ==
    ASSUME NEW v \in Int, NEW step \in Grids, v % step = 0
    PROVE  Nearest(v, step) = v
<1>1. CASE step = 2
  BY <1>1 DEF Nearest
<1>2. CASE step = 1000
  BY <1>2 DEF Nearest
<1>3. CASE step = 2000
  BY <1>3 DEF Nearest
<1>. QED  BY <1>1, <1>2, <1>3 DEF Grids

\* Rounding does not leave a range whose ends are multiples
LEMMA NearestInRange ==
    ASSUME NEW step \in Grids, NEW lower \in Int, NEW upper \in Int,
           lower % step = 0, upper % step = 0, NEW v \in lower .. upper
    PROVE  Nearest(v, step) \in lower .. upper
<1>1. v \in Int /\ lower <= v /\ v <= upper
  OBVIOUS
<1>2. PICK n \in Int : n = Nearest(v, step) /\ n % step = 0
                      /\ 2 * (n - v) \in (0 - step) .. step
  BY <1>1, NearestMultiple
<1>3. \A k \in {2, 1000, 2000} :
          (step = k) => /\ lower % k = 0 /\ upper % k = 0 /\ n % k = 0
                        /\ 2 * (n - v) \in (0 - k) .. k
  BY <1>2
<1>4. ASSUME step = 2 PROVE n \in lower .. upper
  <2>1. /\ n \in Int /\ lower % 2 = 0 /\ upper % 2 = 0 /\ n % 2 = 0
        /\ 2 * (n - v) \in (0 - 2) .. 2
    BY <1>3, <1>4
  <2>. QED  BY <1>1, <2>1
<1>5. ASSUME step = 1000 PROVE n \in lower .. upper
  <2>1. /\ n \in Int /\ lower % 1000 = 0 /\ upper % 1000 = 0 /\ n % 1000 = 0
        /\ 2 * (n - v) \in (0 - 1000) .. 1000
    BY <1>3, <1>5
  <2>. QED  BY <1>1, <2>1
<1>6. ASSUME step = 2000 PROVE n \in lower .. upper
  <2>1. /\ n \in Int /\ lower % 2000 = 0 /\ upper % 2000 = 0 /\ n % 2000 = 0
        /\ 2 * (n - v) \in (0 - 2000) .. 2000
    BY <1>3, <1>6
  <2>. QED  BY <1>1, <2>1
<1>. QED  BY <1>2, <1>4, <1>5, <1>6 DEF Grids


LEMMA AllowedTyped ==
    ASSUME NEW s, Sound(s), NEW v \in Allowed(s)
    PROVE  Typed(s, v)
BY AllowedOf DEF Sound, Typed, Numbers

\* Numbers brought into range
LEMMA Clamped ==
    ASSUME NEW lower \in Int, NEW upper \in Int, lower < upper, NEW v \in Int
    PROVE  /\ Clamp(v, lower, upper) \in lower .. upper
           /\ v \in lower .. upper => Clamp(v, lower, upper) = v
BY DEF Clamp

LEMMA SanitizedNumberAllowed ==
    ASSUME NEW s, Sound(s), s.kind \in Numbers, NEW v \in Int
    PROVE  SanitizedNumber(s, v) \in Allowed(s)
<1>1. /\ s.lower \in Int /\ s.upper \in Int /\ s.lower < s.upper
  BY DEF Sound
<1>2. CASE s.kind = "clamped"
  BY <1>1, <1>2, Clamped, AllowedOf DEF SanitizedNumber
<1>3. CASE s.kind = "averaging"
  BY <1>1, <1>3, Clamped, AllowedOf DEF SanitizedNumber
<1>4. CASE s.kind = "stepped"
  <2>1. s.step \in Grids /\ s.lower % s.step = 0 /\ s.upper % s.step = 0
    BY <1>4 DEF Sound
  <2>2. PICK c \in s.lower .. s.upper : c = Clamp(v, s.lower, s.upper)
    BY <1>1, Clamped
  <2>3. c \in Int
    BY <1>1, <2>2
  <2>4. PICK n \in s.lower .. s.upper : n = Nearest(c, s.step) /\ n % s.step = 0
    BY <1>1, <2>1, <2>3, NearestInRange, NearestMultiple
  <2>5. Clamp(n, s.lower, s.upper) = n
    BY <1>1, <2>4, Clamped
  <2>6. SanitizedNumber(s, v) = n
    BY <1>4, <2>2, <2>4, <2>5 DEF SanitizedNumber
  <2>. QED  BY <1>4, <2>4, <2>6, AllowedOf
<1>. QED  BY <1>2, <1>3, <1>4 DEF Numbers

LEMMA SanitizedNumberFixed ==
    ASSUME NEW s, Sound(s), s.kind \in Numbers, NEW v \in Allowed(s)
    PROVE  SanitizedNumber(s, v) = v
<1>1. /\ s.lower \in Int /\ s.upper \in Int /\ s.lower < s.upper
  BY DEF Sound
<1>2. CASE s.kind = "clamped"
  BY <1>1, <1>2, Clamped, AllowedOf DEF SanitizedNumber
<1>3. CASE s.kind = "averaging"
  BY <1>1, <1>3, Clamped, AllowedOf DEF SanitizedNumber, Sound
<1>4. CASE s.kind = "stepped"
  <2>1. s.step \in Grids /\ v \in s.lower .. s.upper /\ v % s.step = 0
    BY <1>4, AllowedOf DEF Sound
  <2>2. Nearest(v, s.step) = v /\ Clamp(v, s.lower, s.upper) = v
    BY <1>1, <2>1, Clamped, NearestOfMultiple
  <2>. QED  BY <1>4, <2>2 DEF SanitizedNumber
<1>. QED  BY <1>2, <1>3, <1>4 DEF Numbers

\* sanitize() brings every value into the range of its setting ...
LEMMA SanitizedAllowed ==
    ASSUME NEW s, Sound(s), NEW v, Typed(s, v)
    PROVE  Sanitized(s, v) \in Allowed(s)
<1>1. CASE s.kind \in {"choice", "token", "colour"}
  BY <1>1, AllowedOf DEF Sound, Typed, Sanitized
<1>2. CASE s.kind \in Numbers
  <2>1. Sanitized(s, v) \in {s.default, SanitizedNumber(s, v)}
    BY <1>2 DEF Sanitized, Numbers
  <2>2. s.default \in Allowed(s)
    BY <1>2, SoundDefault
  <2>3. SanitizedNumber(s, v) \in Allowed(s)
    BY <1>2, SanitizedNumberAllowed DEF Typed
  <2>. QED  BY <2>1, <2>2, <2>3
<1>. QED  BY <1>1, <1>2 DEF Sound

\* ... and leaves alone what is in range
LEMMA SanitizedFixed ==
    ASSUME NEW s, Sound(s), NEW v \in Allowed(s)
    PROVE  Sanitized(s, v) = v
<1>1. CASE s.kind \in {"choice", "token", "colour"}
  BY <1>1, AllowedOf DEF Sanitized
<1>2. CASE s.kind \in Numbers
  <2>1. v \in {0} \cup s.lower .. s.upper /\ s.lower \in Int /\ s.upper \in Int
        /\ s.upper < NonFinite
    BY <1>2, AllowedOf DEF Sound, Numbers
  <2>2. NonFinite \in Int /\ NonFinite # 0
    BY SMT DEF NonFinite
  <2>3. v # NonFinite
    BY <2>1, <2>2
  <2>4. Sanitized(s, v) = SanitizedNumber(s, v)
    BY <1>2, <2>3 DEF Sanitized, Numbers
  <2>. QED  BY <1>2, <2>4, SanitizedNumberFixed
<1>. QED  BY <1>1, <1>2 DEF Sound

------------------------------------------------------------------------------
(* Sanitized configurations: each value in its range, and both displays span *)
(* the minimum.                                                             *)

AnyValue == UNION {Allowed(Setting[name]) : name \in Settings}

Spans(c) ==
    /\ c["ceilingDb"] - c["floorDb"] >= MinimumSpan
    /\ c["colorCeilingDb"] - c["colorFloorDb"] >= MinimumSpan

Sanitary ==
    {c \in [Settings -> AnyValue] :
        (\A name \in Settings : c[name] \in Allowed(Setting[name])) /\ Spans(c)}

\* The settings of the displays' ranges
LEMMA RangeSettings ==
    /\ {"floorDb", "ceilingDb", "colorFloorDb", "colorCeilingDb"} \subseteq Settings
    /\ Setting["floorDb"] = Spectrum["floorDb"]
    /\ Setting["ceilingDb"] = Spectrum["ceilingDb"]
    /\ Setting["colorFloorDb"] = Spectrogram["colorFloorDb"]
    /\ Setting["colorCeilingDb"] = Spectrogram["colorCeilingDb"]
<1>1. {"floorDb", "ceilingDb"} \subseteq DOMAIN Spectrum
      /\ {"colorFloorDb", "colorCeilingDb"} \subseteq DOMAIN Spectrogram
  BY DEF Spectrum, Spectrogram
<1>2. {"floorDb", "ceilingDb", "colorFloorDb", "colorCeilingDb"} \subseteq Settings
  BY <1>1, SectionDomains DEF Settings, Names
<1>3. \A section \in DOMAIN Sections :
        /\ {"floorDb", "ceilingDb"} \cap DOMAIN Sections[section] # {} => section = "Spectrum"
        /\ {"colorFloorDb", "colorCeilingDb"} \cap DOMAIN Sections[section] # {}
             => section = "Spectrogram"
  BY SectionDomains DEF SharedAnalysis, Spectrum, Spectrogram, Loudness
<1>4. /\ SectionOf["floorDb"] = "Spectrum" /\ SectionOf["ceilingDb"] = "Spectrum"
      /\ SectionOf["colorFloorDb"] = "Spectrogram" /\ SectionOf["colorCeilingDb"] = "Spectrogram"
  BY <1>2, <1>3, SettingPlace DEF Names
<1>. QED  BY <1>2, <1>4, SettingPlace, SectionDomains

\* Their ranges, on the grid of whole units
Grid(lower, upper) == {v \in (lower * Unit) .. (upper * Unit) : v % Unit = 0}

LEMMA RangesOfSpans ==
    /\ Allowed(Setting["floorDb"]) = Grid(-180, -36)
    /\ Allowed(Setting["colorFloorDb"]) = Grid(-180, -36)
    /\ Allowed(Setting["ceilingDb"]) = Grid(-24, 12)
    /\ Allowed(Setting["colorCeilingDb"]) = Grid(-24, 12)
<1>1. \A default : Allowed(Floor(default)) = Grid(-180, -36)
  <2> SUFFICES ASSUME NEW default PROVE Allowed(Floor(default)) = Grid(-180, -36)
    OBVIOUS
  <2>1. /\ Floor(default).kind = "stepped" /\ Floor(default).step = Unit
        /\ Floor(default).lower = -180 * Unit /\ Floor(default).upper = -36 * Unit
    BY DEF Floor, Stepped
  <2>2. -180 * Unit = (-180) * Unit /\ -36 * Unit = (-36) * Unit
    BY DEF Unit
  <2>. QED  BY <2>1, <2>2, AllowedOf DEF Grid
<1>2. Allowed(Ceiling) = Grid(-24, 12)
  <2>1. /\ Ceiling.kind = "stepped" /\ Ceiling.step = Unit
        /\ Ceiling.lower = -24 * Unit /\ Ceiling.upper = 12 * Unit
    BY DEF Ceiling, Stepped
  <2>2. -24 * Unit = (-24) * Unit
    BY DEF Unit
  <2>. QED  BY <2>1, <2>2, AllowedOf DEF Grid
<1>3. /\ \E default : Setting["floorDb"] = Floor(default)
      /\ \E default : Setting["colorFloorDb"] = Floor(default)
      /\ Setting["ceilingDb"] = Ceiling /\ Setting["colorCeilingDb"] = Ceiling
  BY RangeSettings DEF Spectrum, Spectrogram
<1>. QED  BY <1>1, <1>2, <1>3

\* A floor that gives way stays a floor
LEMMA SpannedFloorAllowed ==
    ASSUME NEW v \in Grid(-180, -36), NEW w \in Grid(-24, 12)
    PROVE  /\ SpannedFloor(v, w) \in Grid(-180, -36)
           /\ w - SpannedFloor(v, w) >= MinimumSpan
           /\ w - v >= MinimumSpan => SpannedFloor(v, w) = v
<1>1. Unit \in Int
  BY DEF Unit
<1>2. /\ v \in Int /\ (-180) * Unit <= v /\ v <= (-36) * Unit /\ v % Unit = 0
      /\ w \in Int /\ (-24) * Unit <= w /\ w <= 12 * Unit /\ w % Unit = 0
  BY <1>1 DEF Grid
<1>3. PICK u \in Int : u = w - MinimumSpan
  BY <1>1, <1>2 DEF MinimumSpan
<1>4. /\ (-180) * Unit <= u /\ u % Unit = 0 /\ w - u = MinimumSpan
      /\ MinimumSpan \in Int
  BY <1>2, <1>3, SMT DEF MinimumSpan, Unit
<1>5. CASE w - v < MinimumSpan
  <2>1. u < v
    BY <1>2, <1>4, <1>5, <1>3
  <2>2. u <= (-36) * Unit
    BY <1>1, <1>2, <1>3, <2>1
  <2>3. u \in Grid(-180, -36)
    BY <1>1, <1>3, <1>4, <2>2 DEF Grid
  <2>4. SpannedFloor(v, w) = u
    BY <1>3, <1>5 DEF SpannedFloor
  <2>. QED  BY <1>2, <1>4, <1>5, <2>3, <2>4
<1>6. CASE ~(w - v < MinimumSpan)
  <2>1. SpannedFloor(v, w) = v
    BY <1>6 DEF SpannedFloor
  <2>. QED  BY <1>2, <1>4, <1>6, <2>1
<1>. QED  BY <1>5, <1>6

\* What sanitize() makes of any configuration of typed values is sanitized
LEMMA SanitizeSanitary ==
    ASSUME NEW c, \A name \in Settings : Typed(Setting[name], c[name])
    PROVE  Sanitize(c) \in Sanitary
<1> DEFINE each == [name \in Settings |-> Sanitized(Setting[name], c[name])]
           floor == SpannedFloor(each["floorDb"], each["ceilingDb"])
           colorFloor == SpannedFloor(each["colorFloorDb"], each["colorCeilingDb"])
<1>1. \A name \in Settings : each[name] \in Allowed(Setting[name])
  BY SettingSound, SanitizedAllowed
<1>2. Sanitize(c) = [[each EXCEPT !["floorDb"] = floor] EXCEPT !["colorFloorDb"] = colorFloor]
  BY DEF Sanitize
<1>3. DOMAIN each = Settings /\ each \in [Settings -> AnyValue]
  BY <1>1 DEF AnyValue
<1> HIDE DEF each
<1>4. /\ floor \in Allowed(Setting["floorDb"]) /\ each["ceilingDb"] - floor >= MinimumSpan
      /\ colorFloor \in Allowed(Setting["colorFloorDb"])
      /\ each["colorCeilingDb"] - colorFloor >= MinimumSpan
  BY <1>1, RangeSettings, RangesOfSpans, SpannedFloorAllowed
<1> HIDE DEF floor, colorFloor
<1>5. \A name \in Settings : Sanitize(c)[name] =
          IF name = "floorDb" THEN floor
          ELSE IF name = "colorFloorDb" THEN colorFloor ELSE each[name]
  BY <1>2, <1>3, RangeSettings
<1>6. \A name \in Settings : Sanitize(c)[name] \in Allowed(Setting[name])
  BY <1>1, <1>4, <1>5
<1>7. Sanitize(c) \in [Settings -> AnyValue]
  <2>1. floor \in AnyValue /\ colorFloor \in AnyValue
    BY <1>4, RangeSettings DEF AnyValue
  <2>. QED  BY <1>2, <1>3, <2>1
<1>8. Spans(Sanitize(c))
  BY <1>4, <1>5, RangeSettings DEF Spans
<1>. QED  BY <1>6, <1>7, <1>8 DEF Sanitary

\* ... and a sanitized configuration stays as it is
LEMMA SanitizeFixed ==
    ASSUME NEW c \in Sanitary
    PROVE  Sanitize(c) = c
<1> DEFINE each == [name \in Settings |-> Sanitized(Setting[name], c[name])]
<1>1. c \in [Settings -> AnyValue] /\ \A name \in Settings : c[name] \in Allowed(Setting[name])
  BY DEF Sanitary
<1>2. each = c
  BY <1>1, SettingSound, SanitizedFixed
<1>3. Sanitize(c) = [[each EXCEPT !["floorDb"] = SpannedFloor(each["floorDb"], each["ceilingDb"])]
                        EXCEPT !["colorFloorDb"] =
                            SpannedFloor(each["colorFloorDb"], each["colorCeilingDb"])]
  BY DEF Sanitize
<1> HIDE DEF each
<1>4. /\ SpannedFloor(c["floorDb"], c["ceilingDb"]) = c["floorDb"]
      /\ SpannedFloor(c["colorFloorDb"], c["colorCeilingDb"]) = c["colorFloorDb"]
  BY <1>1, RangeSettings, RangesOfSpans, SpannedFloorAllowed DEF Sanitary, Spans
<1>. QED  BY <1>1, <1>2, <1>3, <1>4

LEMMA SanitaryTyped ==
    ASSUME NEW c \in Sanitary
    PROVE  \A name \in Settings : Typed(Setting[name], c[name])
BY SettingSound, AllowedTyped DEF Sanitary

LEMMA DefaultsSanitary == Defaults \in Sanitary
<1>1. Defaults \in [Settings -> AnyValue]
  BY DefaultsAllowed DEF Defaults, AnyValue
<1>2. /\ Defaults["floorDb"] = -90 * Unit /\ Defaults["ceilingDb"] = 0
      /\ Defaults["colorFloorDb"] = -120 * Unit /\ Defaults["colorCeilingDb"] = 0
  <2>1. \A name \in Settings : Defaults[name] = Setting[name].default
    BY DEF Defaults
  <2>2. /\ Setting["floorDb"] = Floor(-90 * Unit) /\ Setting["ceilingDb"] = Ceiling
        /\ Setting["colorFloorDb"] = Floor(-120 * Unit) /\ Setting["colorCeilingDb"] = Ceiling
    BY RangeSettings DEF Spectrum, Spectrogram
  <2>3. Ceiling.default = 0 /\ \A default : Floor(default).default = default
    BY DEF Floor, Ceiling, Stepped
  <2>. QED  BY <2>1, <2>2, <2>3, RangeSettings
<1>3. Spans(Defaults)
  BY <1>2, SMT DEF Spans, MinimumSpan, Unit
<1>. QED  BY <1>1, <1>3, DefaultsAllowed DEF Sanitary

------------------------------------------------------------------------------
(* The codec.  A number is read back as the nearest one that is written, and *)
(* anything else as it was.                                                 *)

Reread(s, v) == IF s.kind \in Numbers THEN Nearest(v, LastDigit) ELSE v

LEMMA LastDigitGrid == LastDigit \in Grids /\ LastDigit \in Int
BY DEF LastDigit, Grids

\* A multiple of a grid's step is one of the last digit
LEMMA GridOfLastDigit ==
    ASSUME NEW v \in Int, NEW step \in Grids, v % step = 0
    PROVE  v % LastDigit = 0
<1>1. CASE step = 2
  BY <1>1 DEF LastDigit
<1>2. CASE step = 1000
  BY <1>2 DEF LastDigit
<1>3. CASE step = 2000
  BY <1>3 DEF LastDigit
<1>. QED  BY <1>1, <1>2, <1>3 DEF Grids

LEMMA ReadBack ==
    ASSUME NEW s, Sound(s), NEW v \in Allowed(s)
    PROVE  ReadSetting(s, EncodeSetting(s, v)) = Found(Reread(s, v))
<1>1. CASE s.kind = "token"
  BY <1>1 DEF Allowed, Reread, Numbers, EncodeSetting, ReadSetting, ParseToken, ReadString, Found
<1>2. CASE s.kind = "choice"
  BY <1>2 DEF Reread, Numbers, EncodeSetting, ReadSetting, ReadInteger, Found
<1>3. CASE s.kind = "colour"
  BY <1>3 DEF Allowed, Colours, Reread, Numbers, EncodeSetting, ReadSetting, ReadInteger, Found
<1>4. CASE s.kind \in Numbers
  <2>1. v \in Int
    BY <1>4, AllowedTyped DEF Typed
  <2>2. PICK n \in Int : n = Nearest(v, LastDigit)
    BY <2>1, LastDigitGrid, NearestMultiple
  <2>3. EncodeSetting(s, v) =
            IF n % Unit = 0 THEN [text |-> TRUE, content |-> "integer", value |-> n \div Unit]
                            ELSE [text |-> TRUE, content |-> "number", value |-> n]
    BY <1>4, <2>2 DEF EncodeSetting, EncodeNumber, Numbers
  <2>4. n % Unit = 0 => (n \div Unit) * Unit = n
    BY <2>2 DEF Unit
  <2>5. ReadNumber(EncodeSetting(s, v)) = Found(n)
    BY <2>3, <2>4 DEF ReadNumber
  <2>. QED  BY <1>4, <2>2, <2>5 DEF ReadSetting, Reread, Numbers
<1>. QED  BY <1>1, <1>2, <1>3, <1>4 DEF Sound

LEMMA RereadNumber ==
    ASSUME NEW s, Sound(s), s.kind \in Numbers, NEW v \in Allowed(s)
    PROVE  /\ Reread(s, v) \in Allowed(s)
           /\ Reread(s, v) - v \in (1 - LastDigit) .. (LastDigit - 1)
           /\ s.kind = "stepped" => Reread(s, v) = v
           /\ EncodeSetting(s, Reread(s, v)) = EncodeSetting(s, v)
<1>1. v \in Int /\ Reread(s, v) = Nearest(v, LastDigit)
  BY AllowedTyped DEF Typed, Reread
<1>2. PICK n \in Int : /\ n = Nearest(v, LastDigit) /\ n % LastDigit = 0
                       /\ 2 * (n - v) \in (0 - LastDigit) .. LastDigit
  BY <1>1, LastDigitGrid, NearestMultiple
<1>3. Nearest(n, LastDigit) = n
  BY <1>2, LastDigitGrid, NearestOfMultiple
<1>4. n - v \in (1 - LastDigit) .. (LastDigit - 1)
  BY <1>1, <1>2 DEF LastDigit
<1>5. v \in s.lower .. s.upper => n \in s.lower .. s.upper
  BY <1>2, LastDigitGrid, NearestInRange DEF Sound
<1>6. v % LastDigit = 0 => n = v
  BY <1>1, <1>2, LastDigitGrid, NearestOfMultiple
<1>7. s.kind = "stepped" => n = v
  BY <1>1, <1>6, AllowedOf, GridOfLastDigit DEF Sound
<1>8. n \in Allowed(s)
  <2>1. CASE s.kind = "clamped"
    BY <1>5, <2>1, AllowedOf
  <2>2. CASE s.kind = "averaging"
    <3>1. v = 0 => v % LastDigit = 0
      BY DEF LastDigit
    <3>. QED  BY <1>5, <1>6, <2>2, <3>1, AllowedOf
  <2>3. CASE s.kind = "stepped"
    BY <1>7, <2>3
  <2>. QED  BY <2>1, <2>2, <2>3 DEF Numbers
<1>9. EncodeSetting(s, n) = EncodeSetting(s, v)
  BY <1>2, <1>3 DEF EncodeSetting, EncodeNumber, Numbers
<1>. QED  BY <1>1, <1>2, <1>4, <1>7, <1>8, <1>9

LEMMA RereadAllowed ==
    ASSUME NEW s, Sound(s), NEW v \in Allowed(s)
    PROVE  /\ Reread(s, v) \in Allowed(s)
           /\ EncodeSetting(s, Reread(s, v)) = EncodeSetting(s, v)
BY RereadNumber DEF Reread

\* A written tree is one that this version reads
LEMMA EncodedShape ==
    ASSUME NEW c \in Sanitary
    PROVE  /\ DOMAIN Encode(c).children = 1 .. 4
           /\ \A i \in 1 .. 4 :
                 /\ Encode(c).children[i].type \in DOMAIN Sections
                 /\ ~Encode(c).children[i].nested
                 /\ Encode(c).children[i].properties =
                       [name \in Names(Encode(c).children[i].type) |->
                            EncodeSetting(Setting[name], c[name])]
           /\ \A section \in DOMAIN Sections :
                 \E i \in 1 .. 4 : Encode(c).children[i].type = section
           /\ \A i, j \in 1 .. 4 :
                 Encode(c).children[i].type = Encode(c).children[j].type => i = j
<1> DEFINE W(section) == Child(section, [name \in Names(section) |->
                                EncodeSetting(Setting[name], c[name])])
<1>1. Encode(c).children = <<W("SharedAnalysis"), W("Spectrum"), W("Spectrogram"), W("Loudness")>>
  BY SanitizeFixed DEF Encode
<1>2. \A section : /\ W(section).type = section /\ ~W(section).nested
                   /\ W(section).properties = [name \in Names(section) |->
                                                  EncodeSetting(Setting[name], c[name])]
  BY DEF Child
<1> HIDE DEF W
<1>. QED  BY <1>1, <1>2, SectionDomains

LEMMA EncodedRecognized ==
    ASSUME NEW c \in Sanitary
    PROVE  Recognized(Encode(c))
<1> DEFINE tree == Encode(c)
<1>1. /\ tree.type = TreeType
      /\ tree.properties = [version |-> [text |-> TRUE, content |-> "integer",
                                         value |-> SchemaVersion]]
  BY DEF Encode
<1>2. /\ DOMAIN tree.properties = {"version"}
      /\ ReadInteger(tree.properties["version"]) = Found(SchemaVersion)
  BY <1>1 DEF ReadInteger
<1>3. /\ DOMAIN tree.children = 1 .. 4
      /\ \A i \in 1 .. 4 : /\ ~tree.children[i].nested
                           /\ tree.children[i].type \in DOMAIN Sections
      /\ \A i, j \in 1 .. 4 : tree.children[i].type = tree.children[j].type => i = j
  BY EncodedShape, Zenon
<1>4. \A i \in 1 .. 4 : DOMAIN tree.children[i].properties = Names(tree.children[i].type)
  <2> SUFFICES ASSUME NEW i \in 1 .. 4
               PROVE  DOMAIN tree.children[i].properties = Names(tree.children[i].type)
    OBVIOUS
  <2>1. tree.children[i].properties = [name \in Names(tree.children[i].type) |->
                                          EncodeSetting(Setting[name], c[name])]
    BY EncodedShape, Zenon
  <2>. QED  BY <2>1
<1> HIDE DEF tree
<1>. QED  BY <1>1, <1>2, <1>3, <1>4 DEF tree, Recognized, HasRecognizedShape, HasOnlyKnownProperties

LEMMA EncodedStates ==
    ASSUME NEW c \in Sanitary, NEW name \in Settings
    PROVE  Stated(Encode(c), name) = Found(Reread(Setting[name], c[name]))
<1> DEFINE children == Encode(c).children
           holders == {i \in DOMAIN children : /\ children[i].type = SectionOf[name]
                                               /\ name \in DOMAIN children[i].properties}
<1>1. PICK k \in 1 .. 4 : children[k].type = SectionOf[name]
  BY EncodedShape, SettingPlace, Zenon
<1>2. /\ DOMAIN children = 1 .. 4
      /\ children[k].properties = [n \in Names(children[k].type) |->
                                      EncodeSetting(Setting[n], c[n])]
  BY EncodedShape, Zenon
<1>3. k \in holders
  BY <1>1, <1>2, SettingPlace
<1>4. PICK h : h = (CHOOSE i \in holders : TRUE) /\ h \in holders
  BY <1>3
<1>5. h \in 1 .. 4 /\ children[h].type = SectionOf[name]
  BY <1>2, <1>4
<1>6. children[h].properties = [n \in Names(children[h].type) |->
                                    EncodeSetting(Setting[n], c[n])]
  BY <1>5, EncodedShape, Zenon
<1>7. children[h].properties[name] = EncodeSetting(Setting[name], c[name])
  BY <1>5, <1>6, SettingPlace
<1>8. Stated(Encode(c), name) = ReadSetting(Setting[name], children[h].properties[name])
  BY <1>3, <1>4 DEF Stated
<1>9. c[name] \in Allowed(Setting[name]) /\ Sound(Setting[name])
  BY SettingSound DEF Sanitary
<1>. QED  BY <1>7, <1>8, <1>9, ReadBack

Rereading(c) == [name \in Settings |-> Reread(Setting[name], c[name])]

LEMMA RereadingSanitary ==
    ASSUME NEW c \in Sanitary
    PROVE  Rereading(c) \in Sanitary
<1>1. \A name \in Settings : c[name] \in Allowed(Setting[name]) /\ Sound(Setting[name])
  BY SettingSound DEF Sanitary
<1>2. \A name \in Settings : Rereading(c)[name] \in Allowed(Setting[name])
  BY <1>1, RereadAllowed DEF Rereading
<1>3. Rereading(c) \in [Settings -> AnyValue]
  BY <1>2 DEF Rereading, AnyValue
<1>4. \A name \in {"floorDb", "ceilingDb", "colorFloorDb", "colorCeilingDb"} :
          Setting[name].kind = "stepped"
  <2>1. Ceiling.kind = "stepped" /\ \A default : Floor(default).kind = "stepped"
    BY DEF Floor, Ceiling, Stepped
  <2>2. /\ \E default : Setting["floorDb"] = Floor(default)
        /\ \E default : Setting["colorFloorDb"] = Floor(default)
        /\ Setting["ceilingDb"] = Ceiling /\ Setting["colorCeilingDb"] = Ceiling
    BY RangeSettings DEF Spectrum, Spectrogram
  <2>. QED  BY <2>1, <2>2
<1>5. \A name \in {"floorDb", "ceilingDb", "colorFloorDb", "colorCeilingDb"} :
          Rereading(c)[name] = c[name]
  BY <1>1, <1>4, RangeSettings, RereadNumber DEF Rereading, Numbers
<1>6. Spans(Rereading(c))
  BY <1>5 DEF Spans, Sanitary
<1>. QED  BY <1>2, <1>3, <1>6 DEF Sanitary

LEMMA DecodeEncode ==
    ASSUME NEW c \in Sanitary
    PROVE  DecodeOrDefault(Encode(c)) = Rereading(c)
<1>1. Decode(Encode(c)) =
          Sanitize([name \in Settings |-> IF Stated(Encode(c), name).found
                                          THEN Stated(Encode(c), name).value
                                          ELSE Defaults[name]])
  BY DEF Decode
<1>2. \A name \in Settings : /\ Stated(Encode(c), name).found
                             /\ Stated(Encode(c), name).value = Reread(Setting[name], c[name])
  BY EncodedStates DEF Found
<1>3. Decode(Encode(c)) = Sanitize(Rereading(c))
  BY <1>1, <1>2 DEF Rereading
<1>. QED  BY <1>3, EncodedRecognized, RereadingSanitary, SanitizeFixed DEF DecodeOrDefault

LEMMA EncodeRereading ==
    ASSUME NEW c \in Sanitary
    PROVE  Encode(Rereading(c)) = Encode(c)
<1>1. \A name \in Settings :
          EncodeSetting(Setting[name], Rereading(c)[name]) = EncodeSetting(Setting[name], c[name])
  BY SettingSound, RereadAllowed DEF Rereading, Sanitary
<1>2. \A section \in DOMAIN Sections :
          [name \in Names(section) |-> EncodeSetting(Setting[name], Rereading(c)[name])]
          = [name \in Names(section) |-> EncodeSetting(Setting[name], c[name])]
  BY <1>1 DEF Settings
<1>3. Sanitize(Rereading(c)) = Rereading(c) /\ Sanitize(c) = c
  BY RereadingSanitary, SanitizeFixed
<1>. QED  BY <1>2, <1>3, SectionDomains DEF Encode

\* A saved project, restored and saved again
LEMMA SanitaryReopens ==
    ASSUME NEW c \in Sanitary, NEW requested \in BOOLEAN
    PROVE  Reopens(c, requested)
<1> DEFINE saved == Saved(c, requested)
<1>1. /\ saved.trees = <<Encode(c)>> /\ saved.metrics = {requested}
      /\ Len(saved.trees) = 1 /\ saved.trees[1] = Encode(c)
  BY DEF Saved, Project
<1>2. RestoredConfiguration(saved) = Rereading(c)
  BY <1>1, DecodeEncode DEF RestoredConfiguration
<1>3. RestoredMetrics(saved) <=> requested
  <2>1. RestoredMetrics(saved) <=> TRUE \in saved.metrics
    BY <1>1 DEF RestoredMetrics, Absent
  <2>2. TRUE \in {requested} <=> requested
    OBVIOUS
  <2>. QED  BY <1>1, <2>1, <2>2
<1>4. Reads(Rereading(c), c)
  <2> SUFFICES ASSUME NEW name \in Settings
               PROVE  IF Setting[name].kind \in {"choice", "token", "colour"}
                      THEN Rereading(c)[name] = c[name]
                      ELSE Rereading(c)[name] - c[name] \in (1 - LastDigit) .. (LastDigit - 1)
    BY DEF Reads
  <2>1. Sound(Setting[name]) /\ c[name] \in Allowed(Setting[name])
        /\ Rereading(c)[name] = Reread(Setting[name], c[name])
    BY SettingSound DEF Sanitary, Rereading
  <2>2. CASE Setting[name].kind \in Numbers
    BY <2>1, <2>2, RereadNumber DEF Numbers
  <2>3. CASE Setting[name].kind \in {"choice", "token", "colour"}
    BY <2>1, <2>3 DEF Reread, Numbers
  <2>. QED  BY <2>1, <2>2, <2>3 DEF Sound
<1>. QED  BY <1>1, <1>2, <1>3, <1>4, EncodeRereading DEF Reopens

------------------------------------------------------------------------------
(* What the coordinator takes.                                              *)

LEMMA SectionsApart ==
    ASSUME NEW first \in DOMAIN Sections, NEW second \in DOMAIN Sections,
           NEW name, name \in Names(first), name \in Names(second)
    PROVE  first = second
<1>1. /\ Names("SharedAnalysis") = {"fftSize", "window", "requestedFftSliceRateHz",
                                     "frequencySpacing"}
      /\ Names("Spectrum") = {"floorDb", "ceilingDb", "attackAveragingMilliseconds",
                              "releaseAveragingMilliseconds", "slope", "peakHoldMode",
                              "finitePeakHoldSeconds", "traceColorSrgb", "fillOpacity"}
      /\ Names("Spectrogram") = {"palette", "colorResponse", "colorFloorDb", "colorCeilingDb",
                                 "historyDurationSeconds", "historyMode"}
      /\ Names("Loudness") = {"referenceLufs"}
  BY SectionDomains DEF Names, SharedAnalysis, Spectrum, Spectrogram, Loudness
<1>. QED  BY <1>1, SectionDomains

\* The setting of a name is the one in the section that has it
LEMMA SettingIn ==
    ASSUME NEW section \in DOMAIN Sections, NEW name \in Names(section)
    PROVE  name \in Settings /\ Setting[name] = Sections[section][name]
<1>1. name \in Settings
  BY DEF Settings
<1>2. SectionOf[name] = section
  BY <1>1, SettingPlace, SectionsApart
<1>. QED  BY <1>1, <1>2, SettingPlace

\* What sanitize() lets through, the coordinator's setters take
LEMMA AnalysisSupported ==
    ASSUME NEW c \in Sanitary
    PROVE  SupportedAnalysis(SpectrumAnalysis(c))
<1>1. {"fftSize", "window", "requestedFftSliceRateHz"} \subseteq Names("SharedAnalysis")
  BY SectionDomains DEF Names, SharedAnalysis
<1>2. \A name \in {"fftSize", "window", "requestedFftSliceRateHz"} :
          c[name] \in Allowed(SharedAnalysis[name])
  BY <1>1, SettingIn, SectionDomains DEF Sanitary
<1>3. /\ SharedAnalysis["fftSize"] = Choice({1024, 2048, 4096, 8192, 16384}, 8192)
      /\ SharedAnalysis["window"] =
            Token({"rectangular", "periodicHann", "fourTermBlackmanHarris",
                   "fiveTermFlatTop"}, "fiveTermFlatTop")
      /\ SharedAnalysis["requestedFftSliceRateHz"] = Choice({15, 30, 60, 120}, 60)
  BY DEF SharedAnalysis
<1>4. \A values, default : /\ Allowed(Choice(values, default)) = values
                           /\ Allowed(Token(values, default)) = values
  BY DEF Allowed, Choice, Token
<1>5. /\ c["fftSize"] \in {1024, 2048, 4096, 8192, 16384}
      /\ c["window"] \in {"rectangular", "periodicHann", "fourTermBlackmanHarris",
                          "fiveTermFlatTop"}
      /\ c["requestedFftSliceRateHz"] \in {15, 30, 60, 120}
  BY <1>2, <1>3, <1>4
<1>. QED  BY <1>5 DEF SupportedAnalysis, SpectrumAnalysis

LEMMA TemporalSupported ==
    ASSUME NEW c \in Sanitary
    PROVE  SupportedTemporal(SpectrumTemporal(c))
<1>1. {"attackAveragingMilliseconds", "releaseAveragingMilliseconds", "peakHoldMode",
       "finitePeakHoldSeconds"} \subseteq Names("Spectrum")
  BY SectionDomains DEF Names, Spectrum
<1>2. \A name \in {"attackAveragingMilliseconds", "releaseAveragingMilliseconds",
                   "peakHoldMode", "finitePeakHoldSeconds"} :
          c[name] \in Allowed(Spectrum[name])
  BY <1>1, SettingIn, SectionDomains DEF Sanitary
<1>3. /\ \E default : Spectrum["attackAveragingMilliseconds"] =
                           Number("averaging", 5 * Unit, 500 * Unit, default)
      /\ \E default : Spectrum["releaseAveragingMilliseconds"] =
                           Number("averaging", 25 * Unit, 2000 * Unit, default)
      /\ \E default : Spectrum["peakHoldMode"] = Token({"off", "finite", "infinite"}, default)
      /\ \E default : Spectrum["finitePeakHoldSeconds"] =
                           Number("clamped", 500, 10 * Unit, default)
  BY DEF Spectrum
<1>4. /\ \A lower, upper, default :
            Allowed(Number("averaging", lower, upper, default)) = {0} \cup lower .. upper
      /\ \A lower, upper, default :
            Allowed(Number("clamped", lower, upper, default)) = lower .. upper
      /\ \A values, default : Allowed(Token(values, default)) = values
  BY DEF Allowed, Number, Token
<1>5. Unit \div 4 = 500
  BY DEF Unit
<1>6. /\ Allowed(Spectrum["attackAveragingMilliseconds"]) = {0} \cup (5 * Unit) .. (500 * Unit)
      /\ Allowed(Spectrum["releaseAveragingMilliseconds"]) =
            {0} \cup (25 * Unit) .. (2000 * Unit)
      /\ Allowed(Spectrum["peakHoldMode"]) = {"off", "finite", "infinite"}
      /\ Allowed(Spectrum["finitePeakHoldSeconds"]) = 500 .. (10 * Unit)
  <2>1. Allowed(Spectrum["attackAveragingMilliseconds"]) = {0} \cup (5 * Unit) .. (500 * Unit)
    BY <1>3, <1>4
  <2>2. Allowed(Spectrum["releaseAveragingMilliseconds"]) =
            {0} \cup (25 * Unit) .. (2000 * Unit)
    BY <1>3, <1>4
  <2>3. Allowed(Spectrum["peakHoldMode"]) = {"off", "finite", "infinite"}
    BY <1>3, <1>4
  <2>4. Allowed(Spectrum["finitePeakHoldSeconds"]) = 500 .. (10 * Unit)
    BY <1>3, <1>4
  <2>. QED  BY <2>1, <2>2, <2>3, <2>4
<1>7. /\ SpectrumTemporal(c).attack = c["attackAveragingMilliseconds"]
      /\ SpectrumTemporal(c).release = c["releaseAveragingMilliseconds"]
      /\ SpectrumTemporal(c).mode = c["peakHoldMode"]
      /\ SpectrumTemporal(c).hold = c["finitePeakHoldSeconds"]
  BY DEF SpectrumTemporal
<1>8. /\ c["attackAveragingMilliseconds"] \in {0} \cup (5 * Unit) .. (500 * Unit)
      /\ c["releaseAveragingMilliseconds"] \in {0} \cup (25 * Unit) .. (2000 * Unit)
      /\ c["peakHoldMode"] \in {"off", "finite", "infinite"}
      /\ c["finitePeakHoldSeconds"] \in 500 .. (10 * Unit)
  <2>1. /\ c["attackAveragingMilliseconds"] \in Allowed(Spectrum["attackAveragingMilliseconds"])
        /\ c["releaseAveragingMilliseconds"] \in
              Allowed(Spectrum["releaseAveragingMilliseconds"])
        /\ c["peakHoldMode"] \in Allowed(Spectrum["peakHoldMode"])
        /\ c["finitePeakHoldSeconds"] \in Allowed(Spectrum["finitePeakHoldSeconds"])
    BY <1>2, Zenon
  <2>2. c["attackAveragingMilliseconds"] \in {0} \cup (5 * Unit) .. (500 * Unit)
    BY <1>6, <2>1
  <2>3. c["releaseAveragingMilliseconds"] \in {0} \cup (25 * Unit) .. (2000 * Unit)
    BY <1>6, <2>1
  <2>4. c["peakHoldMode"] \in {"off", "finite", "infinite"}
    BY <1>6, <2>1
  <2>5. c["finitePeakHoldSeconds"] \in 500 .. (10 * Unit)
    BY <1>6, <2>1
  <2>. QED  BY <2>2, <2>3, <2>4, <2>5
<1>. QED  BY <1>5, <1>7, <1>8 DEF SupportedTemporal

LEMMA SpacingSupported ==
    ASSUME NEW c \in Sanitary
    PROVE  SupportedSpacing(c["frequencySpacing"])
<1>1. "frequencySpacing" \in Names("SharedAnalysis")
  BY SectionDomains DEF Names, SharedAnalysis
<1>2. c["frequencySpacing"] \in Allowed(SharedAnalysis["frequencySpacing"])
  BY <1>1, SettingIn, SectionDomains DEF Sanitary
<1>3. \E default : SharedAnalysis["frequencySpacing"] = Number("clamped", 0, Unit, default)
  BY DEF SharedAnalysis
<1>4. \A lower, upper, default :
          Allowed(Number("clamped", lower, upper, default)) = lower .. upper
  BY DEF Allowed, Number
<1>5. Allowed(SharedAnalysis["frequencySpacing"]) = 0 .. Unit
  BY <1>3, <1>4, Zenon
<1>. QED  BY <1>2, <1>5 DEF SupportedSpacing

------------------------------------------------------------------------------
(* Every replacement is by a sanitized configuration.                       *)

LEMMA ReadTyped ==
    ASSUME NEW s, Sound(s), NEW property,
           property.content \in {"integer", "number"} => property.value \in Int,
           ReadSetting(s, property).found
    PROVE  Typed(s, ReadSetting(s, property).value)
<1>1. CASE s.kind \in {"choice", "token"}
  BY <1>1 DEF Typed, Numbers
<1>2. CASE s.kind = "colour"
  BY <1>2 DEF Typed, Numbers, ReadSetting, ReadInteger, Nothing, Found
<1>3. CASE s.kind \in Numbers
  <2>1. ReadSetting(s, property) = ReadNumber(property)
    BY <1>3 DEF ReadSetting, Numbers
  <2>2. property.content \in {"integer", "number"}
    BY <2>1 DEF ReadNumber, Nothing
  <2>3. ReadSetting(s, property).value \in {property.value * Unit, property.value}
    BY <2>1, <2>2 DEF ReadNumber, Found
  <2>4. property.value * Unit \in Int
    BY <2>2 DEF Unit
  <2>. QED  BY <1>3, <2>2, <2>3, <2>4 DEF Typed, Numbers
<1>. QED  BY <1>1, <1>2, <1>3 DEF Sound

LEMMA DecodedSanitary ==
    ASSUME NEW tree, WellFormed(tree)
    PROVE  DecodeOrDefault(tree) \in Sanitary
<1> DEFINE read == [name \in Settings |-> IF Stated(tree, name).found
                                          THEN Stated(tree, name).value ELSE Defaults[name]]
<1>1. \A name \in Settings : Stated(tree, name).found
                                 => Typed(Setting[name], Stated(tree, name).value)
  <2> SUFFICES ASSUME NEW name \in Settings, Stated(tree, name).found
               PROVE  Typed(Setting[name], Stated(tree, name).value)
    OBVIOUS
  <2> DEFINE holders == {i \in DOMAIN tree.children :
                            /\ tree.children[i].type = SectionOf[name]
                            /\ name \in DOMAIN tree.children[i].properties}
  <2>1. holders # {}
    BY DEF Stated, Nothing
  <2>2. PICK h : h = (CHOOSE i \in holders : TRUE) /\ h \in holders
    BY <2>1
  <2>3. PICK property : property = tree.children[h].properties[name]
    OBVIOUS
  <2>4. Stated(tree, name) = ReadSetting(Setting[name], property)
    BY <2>1, <2>2, <2>3 DEF Stated
  <2>5. property.content \in {"integer", "number"} => property.value \in Int
    BY <2>2, <2>3 DEF WellFormed
  <2>. QED  BY <2>4, <2>5, SettingSound, ReadTyped
<1>2. \A name \in Settings : Typed(Setting[name], Defaults[name])
  BY DefaultsSanitary, SanitaryTyped
<1>3. \A name \in Settings : Typed(Setting[name], read[name])
  BY <1>1, <1>2
<1>4. Decode(tree) = Sanitize(read)
  BY DEF Decode
<1> HIDE DEF read
<1>. QED  BY <1>3, <1>4, SanitizeSanitary, DefaultsSanitary DEF DecodeOrDefault

LEMMA RestoredSanitary ==
    ASSUME NEW c \in Sanitary, NEW requested \in BOOLEAN,
           NEW p \in Projects \union {Saved(c, requested)}
    PROVE  Sanitize(RestoredConfiguration(p)) \in Sanitary
<1>1. CASE p \in Projects
  <2>1. RestoredConfiguration(p) \in Sanitary
    BY <1>1, ProjectsAssumption, DecodedSanitary, DefaultsSanitary DEF RestoredConfiguration
  <2>. QED  BY <2>1, SanitizeFixed
<1>2. CASE p = Saved(c, requested)
  <2>1. Len(p.trees) = 1 /\ p.trees[1] = Encode(c)
    BY <1>2 DEF Saved, Project
  <2>2. RestoredConfiguration(p) = Rereading(c)
    BY <2>1, DecodeEncode DEF RestoredConfiguration
  <2>. QED  BY <2>2, RereadingSanitary, SanitizeFixed
<1>. QED  BY <1>1, <1>2

LEMMA OnlyColour ==
    ASSUME NEW name \in Settings, Setting[name].kind = "colour"
    PROVE  name = "traceColorSrgb"
<1>1. /\ \A values, default : /\ Choice(values, default).kind # "colour"
                              /\ Token(values, default).kind # "colour"
      /\ Ceiling.kind # "colour" /\ \A default : Floor(default).kind # "colour"
      /\ \A lower, upper, step, default : Stepped(lower, upper, step, default).kind # "colour"
  BY DEF Choice, Token, Ceiling, Floor, Stepped
<1>2. \A lower, upper, default :
          /\ Number("clamped", lower, upper, default).kind # "colour"
          /\ Number("averaging", lower, upper, default).kind # "colour"
  BY DEF Number
<1>3. \A n \in DOMAIN SharedAnalysis : SharedAnalysis[n].kind # "colour"
  BY <1>1, <1>2 DEF SharedAnalysis
<1>4. \A n \in DOMAIN Spectrum : Spectrum[n].kind = "colour" => n = "traceColorSrgb"
  BY <1>1, <1>2 DEF Spectrum
<1>5. \A n \in DOMAIN Spectrogram : Spectrogram[n].kind # "colour"
  BY <1>1, <1>2 DEF Spectrogram
<1>6. \A n \in DOMAIN Loudness : Loudness[n].kind # "colour"
  BY <1>1 DEF Loudness
<1>7. PICK section \in DOMAIN Sections :
          name \in DOMAIN Sections[section] /\ Setting[name] = Sections[section][name]
  BY SettingPlace DEF Names
<1>. QED  BY <1>3, <1>4, <1>5, <1>6, <1>7, SectionDomains

\* What a control makes of an entered value has the type of the setting
LEMMA EnteredTyped ==
    ASSUME NEW name \in Settings, NEW value, Typed(Setting[name], value)
    PROVE  Typed(Setting[name], Entered(name, value))
<1> DEFINE s == Setting[name]
<1>1. Sound(s)
  BY SettingSound
<1>2. \A v \in Int : /\ Nearest(v, Unit) \in Int
                     /\ name \in DOMAIN SliderStep => Nearest(v, SliderStep[name]) \in Int
  <2> SUFFICES ASSUME NEW v \in Int
               PROVE  /\ Nearest(v, Unit) \in Int
                      /\ name \in DOMAIN SliderStep => Nearest(v, SliderStep[name]) \in Int
    OBVIOUS
  <2>1. \A step \in {2, 20, 1000, 2000} : Nearest(v, step) \in Int
    BY DEF Nearest
  <2>2. Unit = 2000 /\ (name \in DOMAIN SliderStep => SliderStep[name] \in {2, 20, 1000, 2000})
    BY DEF SliderStep, Unit
  <2>. QED  BY <2>1, <2>2
<1>3. CASE s.kind \in {"choice", "token"}
  BY <1>3 DEF Typed, Numbers
<1>4. CASE s.kind = "colour"
  <2>1. name \notin DOMAIN SliderStep
    BY <1>4, OnlyColour DEF SliderStep
  <2>. QED  BY <1>4, <2>1 DEF Entered
<1>5. CASE s.kind \in Numbers
  <2>1. value \in Int /\ s.lower \in Int /\ s.upper \in Int /\ s.default \in Int
    BY <1>1, <1>5 DEF Typed, Sound
  <2>2. SnappedAveraging(s, value) \in Int
    BY <1>2, <2>1 DEF SnappedAveraging, Clamp
  <2>3. name \in DOMAIN SliderStep
            => Clamp(Nearest(value, SliderStep[name]), s.lower, s.upper) \in Int
    BY <1>2, <2>1 DEF Clamp
  <2>4. Entered(name, value) \in Int
    BY <2>1, <2>2, <2>3 DEF Entered
  <2>. QED  BY <1>5, <2>4 DEF Typed, Numbers
<1>. QED  BY <1>1, <1>3, <1>4, <1>5 DEF Sound

LEMMA EditedSanitary ==
    ASSUME NEW c \in Sanitary, NEW edit \in Edits
    PROVE  Sanitize([c EXCEPT ![edit[1]] = Entered(edit[1], edit[2])]) \in Sanitary
<1> DEFINE edited == [c EXCEPT ![edit[1]] = Entered(edit[1], edit[2])]
<1>1. Typed(Setting[edit[1]], Entered(edit[1], edit[2])) /\ edit[1] \in Settings
  BY EditsAssumption, EnteredTyped
<1>2. \A name \in Settings : edited[name] \in {c[name], Entered(edit[1], edit[2])}
                             /\ (edited[name] # c[name] => name = edit[1])
  BY DEF Sanitary
<1>3. \A name \in Settings : Typed(Setting[name], edited[name])
  BY <1>1, <1>2, SanitaryTyped
<1>. QED  BY <1>3, SanitizeSanitary

LEMMA ResetSanitary ==
    ASSUME NEW c \in Sanitary, NEW section
    PROVE  Sanitize([name \in Settings |-> IF name \in Names(section) THEN Defaults[name]
                                                                     ELSE c[name]]) \in Sanitary
<1> DEFINE reset == [name \in Settings |-> IF name \in Names(section) THEN Defaults[name]
                                                                     ELSE c[name]]
<1>1. \A name \in Settings : Typed(Setting[name], reset[name])
  BY SanitaryTyped, DefaultsSanitary
<1>. QED  BY <1>1, SanitizeSanitary

------------------------------------------------------------------------------
(* The inductive invariant.  Each part of the coordinator is that of a recent *)
(* configuration, or of a call that has still to hand its own over; whatever  *)
(* a call has still to hand over is recent.  A visualization that shows       *)
(* another configuration has the change still to come: on its way to the      *)
(* listener, flagged or being read.                                           *)

Stages == {"idle", "store", "analysis", "temporal", "spacing", "listeners", "finish"}
AfterStore == {"analysis", "temporal", "spacing", "listeners", "finish"}
Unannounced == {"analysis", "temporal", "spacing", "listeners"}

AnalysisOf == [c \in Sanitary |-> SpectrumAnalysis(c)]
TemporalOf == [c \in Sanitary |-> SpectrumTemporal(c)]

Calls == [at : Stages, configuration : Sanitary, edit : BOOLEAN]
Coordinators ==
    [analysis : {AnalysisOf[c] : c \in Sanitary}, temporal : {TemporalOf[c] : c \in Sanitary},
     spacing : AnyValue]
Editors ==
    [phase : {"closed", "constructing", "listening", "open"}, ticking : BOOLEAN,
     pending : BOOLEAN, showing : BOOLEAN, settingsOpen : BOOLEAN, requested : BOOLEAN,
     wide : BOOLEAN, about : BOOLEAN, keeps : BOOLEAN]

InstanceTypeOK ==
    /\ stored \in Sanitary
    /\ coordinator \in Coordinators
    /\ calls \in [Threads -> Calls]

EditorTypeOK ==
    /\ metrics \in BOOLEAN
    /\ editor \in Editors
    /\ panel \in Sanitary

Following ==
    /\ recent \in SUBSET Sanitary
    /\ \A t \in Threads : calls[t].at \in HandedOver => calls[t].configuration \in recent
    /\ \/ \E c \in recent : coordinator.analysis = AnalysisOf[c]
       \/ \E t \in Threads : calls[t].at = "analysis"
    /\ \/ \E c \in recent : coordinator.temporal = TemporalOf[c]
       \/ \E t \in Threads : calls[t].at \in {"analysis", "temporal"}
    /\ \/ \E c \in recent : coordinator.spacing = c["frequencySpacing"]
       \/ \E t \in Threads : calls[t].at \in HandedOver

\* An edit is in progress while the editor is open, and has flagged its own
\* change before it ends
EditFlagged ==
    \A t \in Threads : calls[t].edit =>
        /\ t = "message" /\ calls[t].at \in AfterStore
        /\ editor.phase = "open"
        /\ calls[t].at = "finish" => editor.pending

Announced ==
    (editor.phase = "open" /\ ~editor.pending /\ ~editor.ticking) =>
        \/ \A name \in RenderSettings : render[name] = stored[name]
        \/ \E t \in Threads : calls[t].at \in Unannounced

AboutInOpenEditor == editor.about => editor.phase = "open"

Inv ==
    /\ InstanceTypeOK /\ EditorTypeOK
    /\ Following /\ EditFlagged /\ Announced /\ AboutInOpenEditor

\* The steps that replace nothing
EditorActs ==
    \/ CreateEditor \/ AddListener \/ FinishConstruction \/ DestroyEditor
    \/ TimerCallback \/ ReadConfiguration
    \/ OpenSettings \/ CloseSettings \/ PressMetrics
    \/ OpenAbout \/ CloseAbout
    \/ ShowOrHide \/ Resize
    \/ \E requested \in BOOLEAN : SetMetrics(requested)

\* A setting that is entered, or a section's defaults
Edited ==
    {[panel EXCEPT ![edit[1]] = Entered(edit[1], edit[2])] : edit \in Edits}
    \cup {[name \in Settings |-> IF name \in Names(section) THEN Defaults[name]
                                                           ELSE panel[name]]
              : section \in DOMAIN Sections}

LEMMA NextSteps ==
    ASSUME Next
    PROVE  \/ EditorActs
           \/ \E configuration \in Edited : Publish(configuration)
           \/ \E t \in Threads : ReplacementStep(t)
           \/ \E t \in Threads :
                 \E p \in Projects \union {Saved(stored, metrics)} : Restore(t, p)
BY DEF Next, UserStep, EditorActs, Edited, EditSetting, ResetSection

LEMMA EditorActsAlone ==
    ASSUME EditorActs
    PROVE  UNCHANGED <<stored, coordinator, calls, recent, replacements>>
BY DEF EditorActs, CreateEditor, AddListener, FinishConstruction, DestroyEditor, TimerCallback,
       ReadConfiguration, OpenSettings, CloseSettings, PressMetrics, OpenAbout, CloseAbout,
       ShowOrHide, Resize, SetMetrics, SetMetricsParameter, instanceVars, editorVars

LEMMA PublishedSanitary ==
    ASSUME panel \in Sanitary, NEW configuration \in Edited
    PROVE  Sanitize(configuration) \in Sanitary
BY EditedSanitary, ResetSanitary DEF Edited

\* The instance's part of the configurations' shares
LEMMA SharesTyped ==
    ASSUME NEW c \in Sanitary
    PROVE  /\ AnalysisOf[c] = SpectrumAnalysis(c) /\ TemporalOf[c] = SpectrumTemporal(c)
           /\ c["frequencySpacing"] \in AnyValue
<1>1. "frequencySpacing" \in Settings
  <2>1. "frequencySpacing" \in Names("SharedAnalysis") /\ "SharedAnalysis" \in DOMAIN Sections
    BY SectionDomains DEF Names, SharedAnalysis
  <2>. QED  BY <2>1, SettingIn
<1>. QED  BY <1>1 DEF AnalysisOf, TemporalOf, Sanitary

------------------------------------------------------------------------------
(* Every step preserves the invariant.                                      *)

\* A setter takes its share of what is stored
LEMMA SettersTake ==
    ASSUME InstanceTypeOK, NEW t \in Threads
    PROVE  LET c == calls[t].configuration
           IN  /\ c \in Sanitary
               /\ SetSpectrumAnalysisConfiguration(t) =>
                     coordinator' = [coordinator EXCEPT !.analysis = AnalysisOf[c]]
               /\ SetSpectrumTemporalConfiguration(t) =>
                     coordinator' = [coordinator EXCEPT !.temporal = TemporalOf[c]]
               /\ SetSpectrogramFrequencySpacing(t) =>
                     coordinator' = [coordinator EXCEPT !.spacing = c["frequencySpacing"]]
<1>1. calls[t].configuration \in Sanitary
  BY DEF InstanceTypeOK, Calls
<1>. QED  BY <1>1, SharesTyped, AnalysisSupported, TemporalSupported, SpacingSupported
          DEF SetSpectrumAnalysisConfiguration, SetSpectrumTemporalConfiguration,
              SetSpectrogramFrequencySpacing

LEMMA InstanceTypeStep ==
    ASSUME InstanceTypeOK, panel \in Sanitary, metrics \in BOOLEAN, Next
    PROVE  InstanceTypeOK'
<1>1. CASE EditorActs
  BY <1>1, EditorActsAlone DEF InstanceTypeOK
<1>2. CASE \E configuration \in Edited : Publish(configuration)
  <2>1. PICK configuration \in Edited : Publish(configuration)
    BY <1>2
  <2>2. PICK c \in Sanitary : c = Sanitize(configuration)
    BY PublishedSanitary
  <2>3. /\ stored' = c /\ coordinator' = coordinator
        /\ calls' = [calls EXCEPT !["message"] =
                        [at |-> "analysis", configuration |-> c, edit |-> TRUE]]
    BY <2>1, <2>2 DEF Publish, BeginEdit, Begin
  <2>4. [at |-> "analysis", configuration |-> c, edit |-> TRUE] \in Calls
    BY DEF Calls, Stages
  <2>. QED  BY <2>3, <2>4 DEF InstanceTypeOK
<1>3. CASE \E t \in Threads : ReplacementStep(t)
  <2>1. PICK t \in Threads : ReplacementStep(t)
    BY <1>3
  <2>2. calls[t] \in Calls /\ calls[t].configuration \in Sanitary
    BY DEF InstanceTypeOK, Calls
  <2>3. \A at \in Stages : [calls[t] EXCEPT !.at = at] \in Calls
    BY <2>2 DEF Calls
  <2>4. NoCall \in Calls
    BY DefaultsSanitary DEF NoCall, Calls, Stages
  <2>5. calls' \in [Threads -> Calls]
    <3>1. CASE \E from, to \in Stages : Advance(t, from, to)
      BY <2>3, <3>1 DEF Advance, InstanceTypeOK
    <3>2. CASE FinishReplacement(t)
      BY <2>4, <3>2 DEF FinishReplacement, InstanceTypeOK
    <3>. QED  BY <2>1, <3>1, <3>2
              DEF ReplacementStep, StoreConfiguration, SetSpectrumAnalysisConfiguration,
                  SetSpectrumTemporalConfiguration, SetSpectrogramFrequencySpacing,
                  AnalyzerConfigurationChanged, NotifyListeners, Finish, Stages
  <2>6. stored' \in Sanitary
    BY <2>1, <2>2 DEF InstanceTypeOK, ReplacementStep, StoreConfiguration,
                  SetSpectrumAnalysisConfiguration, SetSpectrumTemporalConfiguration,
                  SetSpectrogramFrequencySpacing, AnalyzerConfigurationChanged,
                  NotifyListeners, Finish, FinishReplacement
  <2>7. coordinator' \in Coordinators
    <3>1. PICK c \in Sanitary : c = calls[t].configuration
      BY <2>2
    <3>2. \/ coordinator' = coordinator
          \/ coordinator' = [coordinator EXCEPT !.analysis = AnalysisOf[c]]
          \/ coordinator' = [coordinator EXCEPT !.temporal = TemporalOf[c]]
          \/ coordinator' = [coordinator EXCEPT !.spacing = c["frequencySpacing"]]
      BY <2>1, <3>1, SettersTake
         DEF ReplacementStep, StoreConfiguration, AnalyzerConfigurationChanged,
             NotifyListeners, Finish, FinishReplacement
    <3>. QED  BY <3>2, SharesTyped DEF InstanceTypeOK, Coordinators
  <2>. QED  BY <2>5, <2>6, <2>7 DEF InstanceTypeOK
<1>4. CASE \E t \in Threads : \E p \in Projects \union {Saved(stored, metrics)} : Restore(t, p)
  <2>1. PICK t \in Threads, p \in Projects \union {Saved(stored, metrics)} : Restore(t, p)
    BY <1>4
  <2>2. PICK c \in Sanitary : c = Sanitize(RestoredConfiguration(p))
    BY RestoredSanitary DEF InstanceTypeOK
  <2>3. /\ stored' = stored /\ coordinator' = coordinator
        /\ calls' = [calls EXCEPT ![t] =
                        [at |-> "store", configuration |-> c, edit |-> FALSE]]
    BY <2>1, <2>2 DEF Restore, RestoreProject, Begin
  <2>4. [at |-> "store", configuration |-> c, edit |-> FALSE] \in Calls
    BY DEF Calls, Stages
  <2>. QED  BY <2>3, <2>4 DEF InstanceTypeOK
<1>. QED  BY <1>1, <1>2, <1>3, <1>4, NextSteps

LEMMA EditorTypeStep ==
    ASSUME EditorTypeOK, InstanceTypeOK, Next
    PROVE  EditorTypeOK'
<1>1. panel' \in Sanitary
  <2>1. \A configuration \in Edited : Sanitize(configuration) \in Sanitary
    BY PublishedSanitary DEF EditorTypeOK
  <2>. QED  BY <2>1, NextSteps, DefaultsSanitary
     DEF EditorTypeOK, InstanceTypeOK, EditorActs, CreateEditor, AddListener,
       FinishConstruction, DestroyEditor, TimerCallback, ReadConfiguration, OpenSettings,
       CloseSettings, PressMetrics, OpenAbout, CloseAbout, ShowOrHide, Resize, SetMetrics,
       editorVars, Publish, ReplacementStep, AnalyzerConfigurationChanged, Finish, Restore
<1>2. metrics' \in BOOLEAN
  <2>1. CASE metrics' = metrics
    BY <2>1 DEF EditorTypeOK
  <2>2. CASE PressMetrics
    BY <2>2 DEF PressMetrics, EditorTypeOK, Editors
  <2>3. CASE \E requested \in BOOLEAN : SetMetrics(requested)
    BY <2>3 DEF SetMetrics, SetMetricsParameter
  <2>4. CASE \E t \in Threads : \E p \in Projects \union {Saved(stored, metrics)} : Restore(t, p)
    <3>1. \A p : RestoredMetrics(p) \in BOOLEAN
      <4> SUFFICES ASSUME NEW p PROVE RestoredMetrics(p) \in BOOLEAN
        OBVIOUS
      <4>1. CASE p.metrics # Absent
        BY <4>1 DEF RestoredMetrics
      <4>2. CASE p.metrics = Absent
        BY <4>2 DEF RestoredMetrics
      <4>. QED  BY <4>1, <4>2
    <3>. QED  BY <2>4, <3>1 DEF Restore, RestoreProject
  <2>. QED  BY <2>1, <2>2, <2>3, <2>4, NextSteps
     DEF EditorActs, CreateEditor, AddListener,
       FinishConstruction, DestroyEditor, TimerCallback, ReadConfiguration, OpenSettings,
       CloseSettings, OpenAbout, CloseAbout, ShowOrHide, Resize,
       instanceVars, Publish, BeginEdit, ReplacementStep, AnalyzerConfigurationChanged, Finish,
       StoreConfiguration, SetSpectrumAnalysisConfiguration, SetSpectrumTemporalConfiguration,
       SetSpectrogramFrequencySpacing, NotifyListeners, Advance, FinishReplacement
<1>3. editor' \in Editors
  <2>1. Closed \in Editors
    BY DEF Closed, Editors
  <2>2. CASE editor' = editor
    BY <2>2 DEF EditorTypeOK
  <2>3. CASE CreateEditor \/ AddListener \/ FinishConstruction \/ DestroyEditor
    BY <2>1, <2>3 DEF CreateEditor, AddListener, FinishConstruction, DestroyEditor, EditorTypeOK,
                      Editors
  <2>4. CASE TimerCallback \/ ReadConfiguration
    BY <2>4 DEF TimerCallback, ReadConfiguration, EditorTypeOK, Editors
  <2>5. CASE OpenSettings \/ CloseSettings \/ PressMetrics
    BY <2>5 DEF OpenSettings, CloseSettings, PressMetrics, EditorTypeOK, Editors
  <2>6. CASE OpenAbout \/ CloseAbout
    BY <2>6 DEF OpenAbout, CloseAbout, ShouldRenderDashboard, EditorTypeOK, Editors
  <2>7. CASE ShowOrHide \/ Resize
    BY <2>7 DEF ShowOrHide, Resize, EditorTypeOK, Editors
  <2>8. CASE \E t \in Threads : AnalyzerConfigurationChanged(t)
    BY <2>8 DEF AnalyzerConfigurationChanged, Listening, EditorTypeOK, Editors
  <2>. QED  BY <2>2, <2>3, <2>4, <2>5, <2>6, <2>7, <2>8, NextSteps
     DEF EditorActs, SetMetrics, editorVars, Publish, ReplacementStep, Finish, Restore
<1>. QED  BY <1>1, <1>2, <1>3 DEF EditorTypeOK

LEMMA EditFlaggedStep ==
    ASSUME EditorTypeOK, InstanceTypeOK, EditFlagged, Next
    PROVE  EditFlagged'
<1>1. calls \in [Threads -> Calls] /\ "message" \in Threads
  BY DEF InstanceTypeOK, Threads
<1>2. CASE EditorActs
  <2>1. calls' = calls
    BY <1>2, EditorActsAlone
  <2>2. CASE calls["message"].at = "idle"
    <3>1. \A t \in Threads : ~calls[t].edit
      BY <2>2 DEF EditFlagged, AfterStore
    <3>. QED  BY <2>1, <3>1 DEF EditFlagged
  <2>3. CASE calls["message"].at # "idle"
    <3>1. CASE editor.phase # "open"
      <4>1. \A t \in Threads : ~calls[t].edit
        BY <3>1 DEF EditFlagged
      <4>. QED  BY <2>1, <4>1 DEF EditFlagged
    <3>2. CASE editor.phase = "open"
      <4>1. editor'.phase = "open" /\ (editor.pending => editor'.pending)
        BY <1>2, <2>3, <3>2
           DEF EditorActs, CreateEditor, AddListener, FinishConstruction, DestroyEditor,
               TimerCallback, ReadConfiguration, OpenSettings, CloseSettings, PressMetrics,
               OpenAbout, CloseAbout, ShowOrHide, Resize, SetMetrics, editorVars,
               EditorFree, MessageFree, Idle, EditorTypeOK, Editors
      <4>. QED  BY <2>1, <4>1 DEF EditFlagged
    <3>. QED  BY <3>1, <3>2
  <2>. QED  BY <2>2, <2>3
<1>3. CASE \E configuration \in Edited : Publish(configuration)
  <2>1. PICK configuration \in Edited : Publish(configuration)
    BY <1>3
  <2>2. /\ editor' = editor /\ editor.phase = "open"
        /\ \A t \in Threads : t # "message" => calls'[t] = calls[t]
        /\ calls'["message"].at = "analysis"
    BY <1>1, <2>1 DEF Publish, BeginEdit, Begin, EditorFree
  <2>. QED  BY <2>2 DEF EditFlagged, AfterStore
<1>4. CASE \E t \in Threads : ReplacementStep(t)
  <2>1. PICK t \in Threads : ReplacementStep(t)
    BY <1>4
  <2>2. /\ \A u \in Threads : u # t => calls'[u] = calls[u]
        /\ calls'[t].edit => calls[t].edit
        /\ calls'[t].at \in AfterStore \cup {"idle"}
        /\ calls'[t].at = "idle" => ~calls'[t].edit
    BY <1>1, <2>1
       DEF ReplacementStep, StoreConfiguration, SetSpectrumAnalysisConfiguration,
           SetSpectrumTemporalConfiguration, SetSpectrogramFrequencySpacing,
           AnalyzerConfigurationChanged, NotifyListeners, Finish, FinishReplacement, Advance,
           NoCall, AfterStore, Calls
  <2>3. /\ editor'.phase = editor.phase /\ (editor.pending => editor'.pending)
        /\ (calls'[t].at = "finish" /\ editor.phase = "open") => editor'.pending
    <3>1. CASE AnalyzerConfigurationChanged(t)
      BY <3>1 DEF AnalyzerConfigurationChanged, Listening, EditorTypeOK, Editors
    <3>2. CASE ~AnalyzerConfigurationChanged(t)
      <4>1. editor' = editor
        BY <2>1, <3>2 DEF ReplacementStep, Finish, editorVars
      <4>2. calls'[t].at # "finish"
        BY <1>1, <2>1, <3>2
           DEF ReplacementStep, StoreConfiguration, SetSpectrumAnalysisConfiguration,
               SetSpectrumTemporalConfiguration, SetSpectrogramFrequencySpacing,
               Finish, FinishReplacement, Advance, NoCall, Calls
      <4>. QED  BY <4>1, <4>2
    <3>. QED  BY <3>1, <3>2
  <2>. QED  BY <2>2, <2>3 DEF EditFlagged
<1>5. CASE \E t \in Threads : \E p \in Projects \union {Saved(stored, metrics)} : Restore(t, p)
  <2>1. PICK t \in Threads, p \in Projects \union {Saved(stored, metrics)} : Restore(t, p)
    BY <1>5
  <2>2. /\ editor' = editor /\ ~calls'[t].edit
        /\ \A u \in Threads : u # t => calls'[u] = calls[u]
    BY <1>1, <2>1 DEF Restore, RestoreProject, Begin, editorVars
  <2>. QED  BY <2>2 DEF EditFlagged
<1>. QED  BY <1>2, <1>3, <1>4, <1>5, NextSteps

LEMMA AboutStep ==
    ASSUME EditorTypeOK, AboutInOpenEditor, Next
    PROVE  AboutInOpenEditor'
<1>1. CASE editor' = editor
  BY <1>1 DEF AboutInOpenEditor
<1>2. CASE CreateEditor \/ AddListener \/ FinishConstruction \/ DestroyEditor
  <2>1. CASE CreateEditor \/ DestroyEditor
    <3>1. ~editor'.about
      <4>1. Closed \in Editors /\ ~Closed.about
        BY DEF Closed, Editors
      <4>2. editor' = Closed
            \/ editor' = [Closed EXCEPT !.phase = "constructing", !.requested = metrics]
        BY <2>1 DEF CreateEditor, DestroyEditor
      <4>. QED  BY <4>1, <4>2 DEF Editors
    <3>. QED  BY <3>1 DEF AboutInOpenEditor
  <2>2. CASE AddListener \/ FinishConstruction
    <3>1. ~editor.about
      BY <2>2 DEF AddListener, FinishConstruction, AboutInOpenEditor
    <3>2. editor'.about = editor.about
      BY <2>2 DEF AddListener, FinishConstruction, EditorTypeOK, Editors
    <3>. QED  BY <3>1, <3>2 DEF AboutInOpenEditor
  <2>. QED  BY <1>2, <2>1, <2>2
<1>3. CASE TimerCallback \/ ReadConfiguration
  BY <1>3 DEF TimerCallback, ReadConfiguration, AboutInOpenEditor, EditorTypeOK, Editors
<1>4. CASE OpenSettings \/ CloseSettings \/ PressMetrics
  BY <1>4 DEF OpenSettings, CloseSettings, PressMetrics, AboutInOpenEditor, EditorTypeOK, Editors
<1>5. CASE OpenAbout \/ CloseAbout
  BY <1>5 DEF OpenAbout, CloseAbout, EditorFree, AboutInOpenEditor, EditorTypeOK, Editors
<1>6. CASE ShowOrHide \/ Resize
  BY <1>6 DEF ShowOrHide, Resize, AboutInOpenEditor, EditorTypeOK, Editors
<1>7. CASE \E t \in Threads : AnalyzerConfigurationChanged(t)
  BY <1>7 DEF AnalyzerConfigurationChanged, AboutInOpenEditor, EditorTypeOK, Editors
<1>. QED  BY <1>1, <1>2, <1>3, <1>4, <1>5, <1>6, <1>7, NextSteps
   DEF EditorActs, SetMetrics, editorVars, Publish, ReplacementStep, Finish, Restore

LEMMA RenderedShows ==
    ASSUME NEW c \in Sanitary, NEW name \in RenderSettings
    PROVE  Rendered(c)[name] = c[name]
BY SanitizeFixed DEF Rendered

LEMMA AnnouncedStep ==
    ASSUME EditorTypeOK, InstanceTypeOK, EditFlagged, Announced, Next
    PROVE  Announced'
<1>1. calls \in [Threads -> Calls] /\ "message" \in Threads /\ stored \in Sanitary
  BY DEF InstanceTypeOK, Threads
<1>2. CASE EditorActs
  <2>1. calls' = calls /\ stored' = stored
    BY <1>2, EditorActsAlone
  <2>2. CASE FinishConstruction \/ ReadConfiguration
    <3>1. render' = Rendered(stored)
      BY <2>2 DEF FinishConstruction, ReadConfiguration
    <3>2. \A name \in RenderSettings : render'[name] = stored'[name]
      BY <1>1, <2>1, <3>1, RenderedShows
    <3>. QED  BY <3>2 DEF Announced
  <2>3. CASE CreateEditor \/ AddListener \/ DestroyEditor
    <3>1. editor'.phase # "open"
      <4>1. Closed \in Editors /\ Closed.phase = "closed"
        BY DEF Closed, Editors
      <4>2. \/ editor' = Closed \/ editor' = [editor EXCEPT !.phase = "listening"]
            \/ editor' = [Closed EXCEPT !.phase = "constructing", !.requested = metrics]
        BY <2>3 DEF CreateEditor, AddListener, DestroyEditor
      <4>. QED  BY <4>1, <4>2 DEF EditorTypeOK, Editors
    <3>. QED  BY <3>1 DEF Announced
  <2>4. CASE TimerCallback
    <3>1. /\ editor.phase = "open" /\ ~editor.ticking /\ render' = render
          /\ editor'.ticking = editor.pending
      BY <2>4 DEF TimerCallback, EditorFree, MessageFree, EditorTypeOK, Editors
    <3>. QED  BY <2>1, <3>1 DEF Announced
  <2>5. CASE ~(\/ FinishConstruction \/ ReadConfiguration \/ CreateEditor \/ AddListener
               \/ DestroyEditor \/ TimerCallback)
    <3>1. /\ editor'.phase = editor.phase /\ editor'.pending = editor.pending
          /\ editor'.ticking = editor.ticking /\ render' = render
      BY <1>2, <2>5 DEF EditorActs, OpenSettings, CloseSettings, PressMetrics, OpenAbout,
               CloseAbout, ShowOrHide, Resize, SetMetrics, editorVars, EditorTypeOK, Editors
    <3>. QED  BY <2>1, <3>1 DEF Announced
  <2>. QED  BY <2>2, <2>3, <2>4, <2>5
<1>3. CASE \E configuration \in Edited : Publish(configuration)
  <2>1. calls'["message"].at = "analysis"
    BY <1>1, <1>3 DEF Publish, BeginEdit, Begin
  <2>. QED  BY <1>1, <2>1 DEF Announced, Unannounced
<1>4. CASE \E t \in Threads : ReplacementStep(t)
  <2>1. PICK t \in Threads : ReplacementStep(t)
    BY <1>4
  <2>2. \A u \in Threads : u # t => calls'[u] = calls[u]
    BY <1>1, <2>1
       DEF ReplacementStep, StoreConfiguration, SetSpectrumAnalysisConfiguration,
           SetSpectrumTemporalConfiguration, SetSpectrogramFrequencySpacing,
           AnalyzerConfigurationChanged, NotifyListeners, Finish, FinishReplacement, Advance
  <2>3. CASE \/ StoreConfiguration(t) \/ SetSpectrumAnalysisConfiguration(t)
             \/ SetSpectrumTemporalConfiguration(t) \/ SetSpectrogramFrequencySpacing(t)
    <3>1. calls'[t].at \in Unannounced
      BY <1>1, <2>3
         DEF StoreConfiguration, SetSpectrumAnalysisConfiguration,
             SetSpectrumTemporalConfiguration, SetSpectrogramFrequencySpacing, Advance, Calls,
             Unannounced
    <3>. QED  BY <3>1 DEF Announced
  <2>4. CASE AnalyzerConfigurationChanged(t)
    <3>1. editor'.phase = "open" => editor'.pending
      BY <2>4 DEF AnalyzerConfigurationChanged, Listening, EditorTypeOK, Editors
    <3>. QED  BY <3>1 DEF Announced
  <2>5. CASE Finish(t)
    <3>1. /\ editor' = editor /\ stored' = stored
          /\ calls[t].at = "finish"
          /\ calls[t].edit \/ render' = render
      BY <2>5 DEF Finish, FinishReplacement
    <3>2. CASE calls[t].edit
      BY <3>1, <3>2 DEF EditFlagged, Announced
    <3>3. CASE ~calls[t].edit
      BY <2>2, <3>1, <3>3 DEF Announced, Unannounced
    <3>. QED  BY <3>2, <3>3
  <2>. QED  BY <2>1, <2>3, <2>4, <2>5 DEF ReplacementStep
<1>5. CASE \E t \in Threads : \E p \in Projects \union {Saved(stored, metrics)} : Restore(t, p)
  <2>1. PICK t \in Threads, p \in Projects \union {Saved(stored, metrics)} : Restore(t, p)
    BY <1>5
  <2>2. /\ editor' = editor /\ render' = render /\ stored' = stored
        /\ calls[t].at = "idle"
        /\ \A u \in Threads : u # t => calls'[u] = calls[u]
    BY <1>1, <2>1 DEF Restore, RestoreProject, Begin, Idle, editorVars
  <2>. QED  BY <2>2 DEF Announced, Unannounced
<1>. QED  BY <1>2, <1>3, <1>4, <1>5, NextSteps

\* What is recent stays so until the next store, which keeps what other calls
\* have still to hand over
LEMMA FollowingStore ==
    ASSUME InstanceTypeOK, Following, NEW t \in Threads, NEW c \in Sanitary,
           recent' = {c} \union RecentBeside(t), coordinator' = coordinator,
           calls'[t].at = "analysis", calls'[t].configuration = c,
           \A u \in Threads : u # t => calls'[u] = calls[u]
    PROVE  Following'
<1>1. \A u \in Threads : calls[u].configuration \in Sanitary
  BY DEF InstanceTypeOK, Calls
<1>2. recent' \in SUBSET Sanitary
  BY <1>1 DEF RecentBeside
<1>3. \A u \in Threads : calls'[u].at \in HandedOver => calls'[u].configuration \in recent'
  <2> SUFFICES ASSUME NEW u \in Threads, calls'[u].at \in HandedOver
               PROVE  calls'[u].configuration \in recent'
    OBVIOUS
  <2>1. CASE u = t
    BY <2>1
  <2>2. CASE u # t
    BY <2>2 DEF RecentBeside
  <2>. QED  BY <2>1, <2>2
<1>. QED  BY <1>2, <1>3 DEF Following, HandedOver

LEMMA FollowingStep ==
    ASSUME InstanceTypeOK, panel \in Sanitary, Following, Next
    PROVE  Following'
<1>1. calls \in [Threads -> Calls] /\ "message" \in Threads /\ coordinator \in Coordinators
  BY DEF InstanceTypeOK, Threads
<1>2. CASE EditorActs
  BY <1>2, EditorActsAlone DEF Following
<1>3. CASE \E configuration \in Edited : Publish(configuration)
  <2>1. PICK configuration \in Edited : Publish(configuration)
    BY <1>3
  <2>2. PICK c \in Sanitary : c = Sanitize(configuration)
    BY PublishedSanitary
  <2>3. /\ recent' = {c} \union RecentBeside("message") /\ coordinator' = coordinator
        /\ calls' = [calls EXCEPT !["message"] =
                        [at |-> "analysis", configuration |-> c, edit |-> TRUE]]
    BY <2>1, <2>2 DEF Publish, BeginEdit, Begin
  <2>4. /\ calls'["message"].at = "analysis" /\ calls'["message"].configuration = c
        /\ \A u \in Threads : u # "message" => calls'[u] = calls[u]
    BY <1>1, <2>3
  <2>. QED  BY <1>1, <2>3, <2>4, FollowingStore
<1>4. CASE \E t \in Threads : ReplacementStep(t)
  <2>1. PICK t \in Threads : ReplacementStep(t)
    BY <1>4
  <2>2. PICK c \in Sanitary : c = calls[t].configuration
    BY <1>1 DEF Calls
  <2>3. CASE StoreConfiguration(t)
    <3>1. /\ calls'[t].at = "analysis" /\ calls'[t].configuration = c
          /\ recent' = {c} \union RecentBeside(t) /\ coordinator' = coordinator
          /\ \A u \in Threads : u # t => calls'[u] = calls[u]
      BY <1>1, <2>2, <2>3 DEF StoreConfiguration, Advance, Calls
    <3>. QED  BY <3>1, FollowingStore
  <2>4. SUFFICES ASSUME ~StoreConfiguration(t)
                 PROVE  Following'
    BY <2>3
  <2>5. /\ recent' = recent
        /\ \A u \in Threads : u # t => calls'[u] = calls[u]
    BY <1>1, <2>1, <2>4
       DEF ReplacementStep, SetSpectrumAnalysisConfiguration,
           SetSpectrumTemporalConfiguration, SetSpectrogramFrequencySpacing,
           AnalyzerConfigurationChanged, NotifyListeners, Finish, FinishReplacement, Advance
  <2>6. CASE SetSpectrumAnalysisConfiguration(t)
    <3>1. coordinator' = [coordinator EXCEPT !.analysis = AnalysisOf[c]]
      BY <2>2, <2>6, SettersTake
    <3>2. Advance(t, "analysis", "temporal")
      BY <2>6 DEF SetSpectrumAnalysisConfiguration
    <3>3. /\ calls[t].at = "analysis" /\ calls'[t].at = "temporal"
          /\ calls'[t].configuration = c
      BY <1>1, <2>2, <3>2 DEF Advance, Calls
    <3>4. c \in recent
      BY <2>2, <3>3 DEF Following, HandedOver
    <3>5. /\ coordinator'.analysis = AnalysisOf[c]
          /\ coordinator'.temporal = coordinator.temporal
          /\ coordinator'.spacing = coordinator.spacing
      BY <1>1, <3>1 DEF Coordinators
    <3>. QED  BY <2>5, <3>3, <3>4, <3>5 DEF Following, HandedOver
  <2>7. CASE SetSpectrumTemporalConfiguration(t)
    <3>1. coordinator' = [coordinator EXCEPT !.temporal = TemporalOf[c]]
      BY <2>2, <2>7, SettersTake
    <3>2. Advance(t, "temporal", "spacing")
      BY <2>7 DEF SetSpectrumTemporalConfiguration
    <3>3. /\ calls[t].at = "temporal" /\ calls'[t].at = "spacing"
          /\ calls'[t].configuration = c
      BY <1>1, <2>2, <3>2 DEF Advance, Calls
    <3>4. c \in recent
      BY <2>2, <3>3 DEF Following, HandedOver
    <3>5. /\ coordinator'.temporal = TemporalOf[c]
          /\ coordinator'.analysis = coordinator.analysis
          /\ coordinator'.spacing = coordinator.spacing
      BY <1>1, <3>1 DEF Coordinators
    <3>. QED  BY <2>5, <3>3, <3>4, <3>5 DEF Following, HandedOver
  <2>8. CASE SetSpectrogramFrequencySpacing(t)
    <3>1. coordinator' = [coordinator EXCEPT !.spacing = c["frequencySpacing"]]
      BY <2>2, <2>8, SettersTake
    <3>2. Advance(t, "spacing", "listeners")
      BY <2>8 DEF SetSpectrogramFrequencySpacing
    <3>3. /\ calls[t].at = "spacing" /\ calls'[t].at = "listeners"
          /\ calls'[t].configuration = c
      BY <1>1, <2>2, <3>2 DEF Advance, Calls
    <3>4. c \in recent
      BY <2>2, <3>3 DEF Following, HandedOver
    <3>5. /\ coordinator'.spacing = c["frequencySpacing"]
          /\ coordinator'.analysis = coordinator.analysis
          /\ coordinator'.temporal = coordinator.temporal
      BY <1>1, <3>1 DEF Coordinators
    <3>. QED  BY <2>5, <3>3, <3>4, <3>5 DEF Following, HandedOver
  <2>9. CASE AnalyzerConfigurationChanged(t) \/ Finish(t)
    <3>1. coordinator' = coordinator
      BY <2>9 DEF AnalyzerConfigurationChanged, NotifyListeners, Finish, FinishReplacement
    <3>2. CASE AnalyzerConfigurationChanged(t)
      <4>1. calls[t].at = "listeners" /\ calls'[t].at = "finish"
        BY <1>1, <3>2 DEF AnalyzerConfigurationChanged, NotifyListeners, Advance, Calls
      <4>. QED  BY <2>5, <3>1, <4>1 DEF Following, HandedOver
    <3>3. CASE Finish(t)
      <4>1. calls[t].at = "finish" /\ calls'[t].at = "idle"
        BY <1>1, <3>3 DEF Finish, FinishReplacement, NoCall
      <4>. QED  BY <2>5, <3>1, <4>1 DEF Following, HandedOver
    <3>. QED  BY <2>9, <3>2, <3>3
  <2>. QED  BY <2>1, <2>4, <2>6, <2>7, <2>8, <2>9 DEF ReplacementStep
<1>5. CASE \E t \in Threads : \E p \in Projects \union {Saved(stored, metrics)} : Restore(t, p)
  <2>1. PICK t \in Threads, p \in Projects \union {Saved(stored, metrics)} : Restore(t, p)
    BY <1>5
  <2>2. /\ recent' = recent /\ coordinator' = coordinator
        /\ calls[t].at = "idle" /\ calls'[t].at = "store"
        /\ \A u \in Threads : u # t => calls'[u] = calls[u]
    BY <1>1, <2>1 DEF Restore, RestoreProject, Begin, Idle
  <2>. QED  BY <2>2 DEF Following, HandedOver
<1>. QED  BY <1>2, <1>3, <1>4, <1>5, NextSteps

LEMMA InvInit == Init => Inv
<1> SUFFICES ASSUME Init PROVE Inv
  OBVIOUS
<1>1. PICK c \in Sanitary : c = Sanitize(Defaults)
  BY DefaultsSanitary, SanitizeFixed
<1>2. /\ stored = c /\ recent = {c} /\ coordinator = Followed(c) /\ panel = Defaults /\ metrics = FALSE
      /\ calls = [t \in Threads |-> NoCall] /\ editor = Closed
  BY <1>1 DEF Init, InstanceInit
<1>3. NoCall \in Calls /\ NoCall.at = "idle" /\ ~NoCall.edit
  BY DefaultsSanitary DEF NoCall, Calls, Stages
<1>4. Closed \in Editors /\ Closed.phase = "closed" /\ ~Closed.about
  BY DEF Closed, Editors
<1>5. Followed(c) = [analysis |-> AnalysisOf[c], temporal |-> TemporalOf[c],
                     spacing |-> c["frequencySpacing"]]
  BY SharesTyped DEF Followed
<1>6. InstanceTypeOK
  BY <1>2, <1>3, <1>5, SharesTyped DEF InstanceTypeOK, Coordinators
<1>7. EditorTypeOK
  BY <1>2, <1>4, DefaultsSanitary DEF EditorTypeOK
<1>8. Following
  BY <1>2, <1>3, <1>5 DEF Following, HandedOver
<1>9. EditFlagged /\ Announced /\ AboutInOpenEditor
  BY <1>2, <1>3, <1>4 DEF EditFlagged, Announced, AboutInOpenEditor
<1>. QED  BY <1>6, <1>7, <1>8, <1>9 DEF Inv

LEMMA InvStutter ==
    ASSUME Inv, UNCHANGED vars
    PROVE  Inv'
BY DEF Inv, InstanceTypeOK, EditorTypeOK, Following, EditFlagged, Announced, AboutInOpenEditor,
       vars, instanceVars, editorVars

LEMMA InvStep == Inv /\ [Next]_vars => Inv'
<1> SUFFICES ASSUME Inv, [Next]_vars PROVE Inv'
  OBVIOUS
<1>1. /\ InstanceTypeOK /\ EditorTypeOK /\ Following /\ EditFlagged /\ Announced
      /\ AboutInOpenEditor
  BY DEF Inv
<1>2. panel \in Sanitary /\ metrics \in BOOLEAN
  BY <1>1 DEF EditorTypeOK
<1>3. CASE Next
  BY <1>1, <1>2, <1>3, InstanceTypeStep, EditorTypeStep, FollowingStep, EditFlaggedStep,
     AnnouncedStep, AboutStep DEF Inv
<1>. QED  BY <1>3, InvStutter

------------------------------------------------------------------------------
(* The theorems.                                                            *)

\* Every configuration that is stored, shown in the panel or on its way is one
\* that sanitize() leaves alone, the coordinator's and the editor's states are
\* typed, and no step leaves the invariant.
THEOREM EditorInvariant == Spec => []Inv
<1>. QED  BY InvInit, InvStep, PTL DEF Spec

\* A replacement on another thread at any point of the editor's constructor, of
\* its timer's callback or of an edit is not missed.
THEOREM SettledAgrees == Spec => []SettledEditorAgrees
<1>1. Inv => SettledEditorAgrees
  <2> SUFFICES ASSUME Inv, Quiet, editor.phase = "open", ~editor.pending, ~editor.ticking
               PROVE  Shown
    BY DEF SettledEditorAgrees
  <2>1. \A t \in Threads : calls[t].at \notin Unannounced
    BY DEF Quiet, Idle, Unannounced
  <2>. QED  BY <2>1 DEF Inv, Announced, Shown
<1>. QED  BY <1>1, EditorInvariant, PTL

\* Replacements interleave at their setters.  Once none runs, no part of the
\* coordinator is older than the configurations that were on their way when the
\* latest was stored.
THEOREM CoordinatorAgrees == Spec => []CoordinatorFollows
<1>1. Inv => CoordinatorFollows
  <2> SUFFICES ASSUME Inv, Quiet PROVE CoordinatorFollows
    BY DEF CoordinatorFollows
  <2>1. Following /\ \A t \in Threads : calls[t].at \notin HandedOver
    BY DEF Inv, Quiet, Idle, HandedOver
  <2>2. /\ \E c \in recent : coordinator.analysis = AnalysisOf[c]
        /\ \E c \in recent : coordinator.temporal = TemporalOf[c]
        /\ \E c \in recent : coordinator.spacing = c["frequencySpacing"]
    BY <2>1 DEF Following, HandedOver
  <2>3. \A c \in recent :
           /\ Followed(c).analysis = AnalysisOf[c] /\ Followed(c).temporal = TemporalOf[c]
           /\ Followed(c).spacing = c["frequencySpacing"]
    BY <2>1, SharesTyped DEF Following, Followed
  <2>. QED  BY <2>2, <2>3 DEF CoordinatorFollows
<1>. QED  BY <1>1, EditorInvariant, PTL

\* Whatever is stored, a project saved from it restores it up to the decimals
\* that are written, and saves the same again.
THEOREM ProjectReopens == Spec => SavedProjectReopens
<1>1. Inv' => (stored' # stored => Reopens(stored', metrics'))
  <2> SUFFICES ASSUME Inv' PROVE Reopens(stored', metrics')
    OBVIOUS
  <2>1. stored' \in Sanitary /\ metrics' \in BOOLEAN
    BY DEF Inv, InstanceTypeOK, EditorTypeOK
  <2>. QED  BY <2>1, SanitaryReopens
<1>2. Inv /\ [Next]_vars => [stored' # stored => Reopens(stored', metrics')]_vars
  BY <1>1, InvStep
<1>. QED  BY <1>2, EditorInvariant, PTL DEF Spec, SavedProjectReopens

\* Behind About, no resize, no panel and no metrics start or stop the dashboard.
THEOREM AboutKeeps == Spec => AboutKeepsLifecycle
<1>1. Inv /\ [Next]_vars =>
        [(editor.about /\ editor'.about /\ editor.showing = editor'.showing)
            => Rendering(editor) = Rendering(editor')]_vars
  <2> SUFFICES ASSUME Inv, Next, editor.about, editor'.about, editor.showing = editor'.showing
               PROVE  Rendering(editor) = Rendering(editor')
    OBVIOUS
  <2>1. editor \in Editors /\ editor.phase = "open"
    BY DEF Inv, EditorTypeOK, AboutInOpenEditor
  <2>2. Inv'
    BY InvStep
  <2>3. editor' \in Editors /\ editor'.phase = "open"
    BY <2>2 DEF Inv, EditorTypeOK, AboutInOpenEditor
  <2>4. editor'.keeps = editor.keeps
    <3>1. CASE editor' = editor
      BY <3>1
    <3>2. CASE CreateEditor \/ AddListener \/ FinishConstruction \/ DestroyEditor
      <4>1. CreateEditor \/ AddListener => editor'.phase # "open"
        BY <2>1 DEF CreateEditor, AddListener
      <4>2. ~FinishConstruction
        BY <2>1 DEF FinishConstruction
      <4>3. ~DestroyEditor
        BY <2>3 DEF DestroyEditor, Closed
      <4>. QED  BY <2>3, <3>2, <4>1, <4>2, <4>3
    <3>3. CASE TimerCallback \/ ReadConfiguration
      BY <2>1, <3>3 DEF TimerCallback, ReadConfiguration, Editors
    <3>4. CASE OpenSettings \/ CloseSettings \/ PressMetrics
      BY <2>1, <3>4 DEF OpenSettings, CloseSettings, PressMetrics, Editors
    <3>5. CASE OpenAbout \/ CloseAbout
      BY <2>1, <3>5 DEF OpenAbout, CloseAbout, Editors
    <3>6. CASE ShowOrHide \/ Resize
      BY <2>1, <3>6 DEF ShowOrHide, Resize, Editors
    <3>7. CASE \E t \in Threads : AnalyzerConfigurationChanged(t)
      BY <2>1, <3>7 DEF AnalyzerConfigurationChanged, Editors
    <3>. QED  BY <3>1, <3>2, <3>3, <3>4, <3>5, <3>6, <3>7, NextSteps
       DEF EditorActs, SetMetrics, editorVars, Publish, ReplacementStep, Finish, Restore
  <2>. QED  BY <2>1, <2>3, <2>4 DEF Rendering
<1>. QED  BY <1>1, EditorInvariant, PTL DEF Spec, AboutKeepsLifecycle
================================================================================
