------------------------- MODULE AnalyzerConfiguration -------------------------
(***************************************************************************)
(* AnalyzerConfigurationCodec (state/AnalyzerConfiguration.cpp): the       *)
(* settings of one plugin instance, how every value is brought into its    *)
(* range, and how a configuration is written to and read from the tree     *)
(* that the host keeps in a project.                                       *)
(*                                                                         *)
(* A configuration is a function from the names of the settings to their   *)
(* values.  An enumerator is its token.  A number is an integer count of   *)
(* 1/Unit: the writer keeps whole multiples of LastDigit (the code keeps   *)
(* twelve decimals), so a value finer than what is written exists.         *)
(***************************************************************************)
EXTENDS Integers, Sequences, FiniteSets

Unit == 2000
LastDigit == 2

\* A value that is not finite: no number that is read has it, but a slider's
\* text can produce it.
NonFinite == 1000000000

------------------------------------------------------------------------------
(* The settings.                                                           *)

\* The largest packed sRGB value.
LastColour == 16777215
Colours == 0 .. LastColour

Choice(values, default) ==
    [kind |-> "choice", values |-> values, default |-> default]
Token(values, default) ==
    [kind |-> "token", values |-> values, default |-> default]
Colour(default) == [kind |-> "colour", default |-> default]
Number(kind, lower, upper, default) ==
    [kind |-> kind, lower |-> lower, upper |-> upper, default |-> default, step |-> 1]
Stepped(lower, upper, step, default) ==
    [kind |-> "stepped", lower |-> lower, upper |-> upper, default |-> default, step |-> step]

MinimumSpan == 24 * Unit
Floor(default) == Stepped(-180 * Unit, -36 * Unit, Unit, default)
Ceiling == Stepped(-24 * Unit, 12 * Unit, Unit, 0)

SharedAnalysis ==
    [fftSize |-> Choice({1024, 2048, 4096, 8192, 16384}, 8192),
     window |-> Token({"rectangular", "periodicHann", "fourTermBlackmanHarris",
                       "fiveTermFlatTop"}, "fiveTermFlatTop"),
     requestedFftSliceRateHz |-> Choice({15, 30, 60, 120}, 60),
     frequencySpacing |-> Number("clamped", 0, Unit, 1600)]

Spectrum ==
    [floorDb |-> Floor(-90 * Unit),
     ceilingDb |-> Ceiling,
     attackAveragingMilliseconds |-> Number("averaging", 5 * Unit, 500 * Unit, 0),
     releaseAveragingMilliseconds |->
        Number("averaging", 25 * Unit, 2000 * Unit, 250 * Unit),
     slope |-> Token({"flat", "db3PerOctave", "db4Point5PerOctave",
                      "db6PerOctave"}, "flat"),
     peakHoldMode |-> Token({"off", "finite", "infinite"}, "off"),
     finitePeakHoldSeconds |-> Number("clamped", 500, 10 * Unit, 2 * Unit),
     traceColorSrgb |-> Colour(5621736),
     fillOpacity |-> Number("clamped", 0, 1000, 360)]

Spectrogram ==
    [palette |-> Token({"blueFire", "inferno", "viridis", "grayscale"}, "blueFire"),
     colorResponse |-> Number("clamped", -2 * Unit, 2 * Unit, 0),
     colorFloorDb |-> Floor(-120 * Unit),
     colorCeilingDb |-> Ceiling,
     historyDurationSeconds |-> Choice({2, 5, 10, 20, 30, 60}, 10),
     historyMode |-> Token({"scroll", "overwrite"}, "scroll")]

Loudness == [referenceLufs |-> Stepped(-36 * Unit, -9 * Unit, 1000, -23 * Unit)]

Sections == [SharedAnalysis |-> SharedAnalysis, Spectrum |-> Spectrum,
             Spectrogram |-> Spectrogram, Loudness |-> Loudness]

Names(section) == DOMAIN Sections[section]
Settings == UNION {Names(section) : section \in DOMAIN Sections}
SectionOf ==
    [name \in Settings |-> CHOOSE section \in DOMAIN Sections : name \in Names(section)]
Setting == [name \in Settings |-> Sections[SectionOf[name]][name]]

Numbers == {"clamped", "averaging", "stepped"}

\* What the type of a setting's member leaves open: an enumerator and an int
\* may be any, and so may a double.
Typed(s, value) ==
    /\ s.kind = "colour" => value \in Colours
    /\ s.kind \in Numbers => value \in Int

Defaults == [name \in Settings |-> Setting[name].default]

------------------------------------------------------------------------------
(* Values brought into range.                                              *)

Clamp(value, lower, upper) ==
    IF value < lower THEN lower ELSE IF value > upper THEN upper ELSE value

\* The multiple of step nearest to value, a tie away from zero.
Nearest(value, step) ==
    IF value >= 0 THEN ((2 * value + step) \div (2 * step)) * step
                  ELSE -((((-2) * value + step) \div (2 * step)) * step)

SanitizedNumber(s, value) ==
    CASE s.kind = "clamped" -> Clamp(value, s.lower, s.upper)
      [] s.kind = "averaging" -> IF value <= 0 THEN 0 ELSE Clamp(value, s.lower, s.upper)
      [] s.kind = "stepped" ->
            Clamp(Nearest(Clamp(value, s.lower, s.upper), s.step), s.lower, s.upper)

\* What sanitize() makes of a value of the setting s.
Sanitized(s, value) ==
    CASE s.kind \in {"choice", "token"} -> IF value \in s.values THEN value ELSE s.default
      [] s.kind = "colour" -> value
      [] OTHER -> IF value = NonFinite THEN s.default ELSE SanitizedNumber(s, value)

\* The floor gives way when a display would span less than the minimum.
SpannedFloor(floor, ceiling) ==
    IF ceiling - floor < MinimumSpan THEN ceiling - MinimumSpan ELSE floor

Sanitize(configuration) ==
    LET each == [name \in Settings |-> Sanitized(Setting[name], configuration[name])]
    IN  [each EXCEPT !.floorDb = SpannedFloor(@, each.ceilingDb),
                     !.colorFloorDb = SpannedFloor(@, each.colorCeilingDb)]

------------------------------------------------------------------------------
(* The tree: a node has a type, properties and children.  A property is    *)
(* text (all that a project file holds) or a variant.  Its content is an   *)
(* integer that fits an int (value counts ones), another finite number     *)
(* (value counts 1/Unit) or a word.                                        *)

SchemaVersion == 3
TreeType == "AnalyzerConfiguration"

\* No value where the code returns nullopt.
Nothing == [found |-> FALSE, value |-> 0]
Found(value) == [found |-> TRUE, value |-> value]

ReadInteger(property) ==
    IF property.content = "integer" THEN Found(property.value) ELSE Nothing
\* Mutant: a number without a decimal point is refused.
ReadNumberWithPoint(property) ==
    IF property.content = "number" THEN Found(property.value) ELSE Nothing

ReadNumber(property) ==
    CASE property.content = "integer" -> Found(property.value * Unit)
      [] property.content = "number" -> Found(property.value)
      [] OTHER -> Nothing
ReadString(property) == IF property.text THEN Found(property.value) ELSE Nothing

\* A word is one of the setting's tokens or stands for its default.
ParseToken(s, property) ==
    LET word == ReadString(property)
    IN  IF word.found /\ property.content = "word" /\ word.value \in s.values
        THEN word ELSE Found(s.default)

ReadSetting(s, property) ==
    CASE s.kind = "choice" -> ReadInteger(property)
      [] s.kind = "token" -> ParseToken(s, property)
      [] s.kind = "colour" ->
            LET packed == ReadInteger(property)
            IN  IF packed.found /\ packed.value \in Colours THEN packed ELSE Nothing
      [] OTHER -> ReadNumber(property)

\* Trailing zeros are dropped, so a whole number is spelled as an integer.
EncodeNumber(value) ==
    LET written == Nearest(value, LastDigit)
    IN  IF written % Unit = 0
        THEN [text |-> TRUE, content |-> "integer", value |-> written \div Unit]
        ELSE [text |-> TRUE, content |-> "number", value |-> written]

EncodeSetting(s, value) ==
    CASE s.kind = "token" -> [text |-> TRUE, content |-> "word", value |-> value]
      [] s.kind \in {"choice", "colour"} -> [text |-> TRUE, content |-> "integer", value |-> value]
      [] OTHER -> EncodeNumber(value)

Child(name, properties) == [type |-> name, properties |-> properties, nested |-> FALSE]

Encode(configuration) ==
    LET sanitized == Sanitize(configuration)
        Written(section) == Child(section, [name \in Names(section) |->
                                EncodeSetting(Setting[name], sanitized[name])])
    IN  [type |-> TreeType,
         properties |-> [version |-> [text |-> TRUE, content |-> "integer",
                                      value |-> SchemaVersion]],
         children |-> <<Written("SharedAnalysis"), Written("Spectrum"),
                        Written("Spectrogram"), Written("Loudness")>>]

HasOnlyKnownProperties(node, allowed) == DOMAIN node.properties \subseteq allowed

HasRecognizedShape(tree) ==
    /\ HasOnlyKnownProperties(tree, {"version"})
    /\ \A i \in DOMAIN tree.children :
          /\ ~tree.children[i].nested
          /\ tree.children[i].type \in DOMAIN Sections
          /\ HasOnlyKnownProperties(tree.children[i], Names(tree.children[i].type))
    /\ \A i, j \in DOMAIN tree.children :
          tree.children[i].type = tree.children[j].type => i = j

Recognized(tree) ==
    /\ tree.type = TreeType
    /\ "version" \in DOMAIN tree.properties
    /\ ReadInteger(tree.properties["version"]) = Found(SchemaVersion)
    /\ HasRecognizedShape(tree)

\* What a recognized tree says about one setting.
Stated(tree, name) ==
    LET holders == {i \in DOMAIN tree.children :
                       /\ tree.children[i].type = SectionOf[name]
                       /\ name \in DOMAIN tree.children[i].properties}
    IN  IF holders = {} THEN Nothing
        ELSE ReadSetting(Setting[name],
                         tree.children[CHOOSE i \in holders : TRUE].properties[name])

Decode(tree) ==
    LET Read(name) == LET stated == Stated(tree, name)
                      IN  IF stated.found THEN stated.value ELSE Defaults[name]
    IN  Sanitize([name \in Settings |-> Read(name)])

DecodeOrDefault(tree) == IF Recognized(tree) THEN Decode(tree) ELSE Defaults
================================================================================
