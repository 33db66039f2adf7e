---------------------------- MODULE LatestMailbox ----------------------------
(***************************************************************************)
(* What a latest-value handoff promises its single consumer: values arrive   *)
(* in the order they were published, each at most once, older ones may be    *)
(* skipped, and nothing arrives that was not published.  A value is its      *)
(* publication number.                                                     *)
(***************************************************************************)
EXTENDS Integers

CONSTANT MaxPublications    \* bound: values published

VARIABLES
    published,  \* the newest value published
    delivered   \* the newest value delivered, 0 before the first

Init == published = 0 /\ delivered = 0

Publish ==
    /\ published < MaxPublications
    /\ published' = published + 1
    /\ UNCHANGED delivered

Deliver ==
    /\ delivered' \in (delivered + 1)..published
    /\ UNCHANGED published

Next == Publish \/ Deliver

Spec == Init /\ [][Next]_<<published, delivered>>
=============================================================================
