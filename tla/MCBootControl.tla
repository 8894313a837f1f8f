---------------------------- MODULE MCBootControl ----------------------------
(* Instances of BootControl for TLC. *)
EXTENDS BootControl

Entry(retry, unbootable, successful, active) ==
    [retry |-> retry, unbootable |-> unbootable,
     successful |-> successful, active |-> active]

\* Slot 0 runs and was accepted; slot 1 is empty, or was given up, or waits.
MCRunning == Entry(3, FALSE, TRUE, TRUE)
MCTables == {[s \in Slots |-> IF s = 0 THEN MCRunning ELSE e] :
                e \in {Entry(0, TRUE, FALSE, FALSE), Entry(2, FALSE, TRUE, FALSE)}}

MCOneTable == {[s \in Slots |-> IF s = 0 THEN MCRunning ELSE Entry(0, TRUE, FALSE, FALSE)]}

\* Slot 1 was switched to and tried once; slot 0, which was left, was given up.
MCSwitched == {[s \in Slots |-> IF s = 0 THEN Entry(3, TRUE, TRUE, FALSE) ELSE Entry(2, FALSE, FALSE, TRUE)]}

AllRequests == Ops \X Slots

\* Switch away from slot 0 and give it up.
MovingOn == {<<"setActiveBootSlot", 1>>, <<"setSlotAsUnbootable", 0>>}

=============================================================================
