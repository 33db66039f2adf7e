----------------------------- MODULE MCRenderer -----------------------------
EXTENDS Renderer

\* Frames whose presentations are not reported ...
Uploading == [times |-> {}, untimed |-> {TRUE}, capacity |-> 1]

\* ... that fill and wrap the ring,
Wrapping ==
    [frames |-> 2, columns |-> 3, changes |-> 0, start |-> 2, advances |-> {0, 1, 3}]
    @@ Uploading

\* ... follow each other while an upload is in flight,
Following ==
    [frames |-> 3, columns |-> 2, changes |-> 0, start |-> 2, advances |-> {1}] @@ Uploading

\* ... or meet changes of activity, duration and telemetry.
Changing ==
    [frames |-> 2, columns |-> 2, changes |-> 2, start |-> 3, advances |-> {1}] @@ Uploading

\* Frames without columns, whose callbacks come in every order.
Timing(capacity) ==
    [frames |-> 2, columns |-> 0, changes |-> 1, start |-> 3, advances |-> {},
     times |-> {0, 1, 3}, untimed |-> BOOLEAN, capacity |-> capacity]

MCBudgets == {Wrapping, Following, Changing, Timing(1), Timing(2)}
=============================================================================
