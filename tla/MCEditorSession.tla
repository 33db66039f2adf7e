---------------------------- MODULE MCEditorSession ----------------------------
EXTENDS EditorSession

MCEdits ==
    {<<"floorDb", -36 * Unit>>, <<"ceilingDb", -24 * Unit>>,
     <<"frequencySpacing", 1>>, <<"frequencySpacing", NonFinite>>,
     <<"releaseAveragingMilliseconds", 10 * Unit>>}

Text(content, value) == [text |-> TRUE, content |-> content, value |-> value]
Tree(version, children) ==
    [type |-> TreeType, properties |-> [version |-> Text("integer", version)],
     children |-> children]

\* A project of an earlier version with the legacy parameter, and one with a
\* readable, an unknown, an unsupported and an out-of-range value.
MCProjects ==
    {Project(<<Tree(2, <<>>)>>, Absent, {TRUE}),
     Project(<<Tree(3, <<Child("SharedAnalysis",
                            [fftSize |-> Text("integer", 4096),
                             window |-> Text("word", "kaiser"),
                             requestedFftSliceRateHz |-> Text("integer", 50),
                             frequencySpacing |-> Text("number", 3 * Unit)])>>)>>,
             {FALSE}, {TRUE})}
================================================================================
