---------------------------- MODULE MCHubCommands ----------------------------
EXTENDS HubCommands
CONSTANTS a1, a2

\* Saves that fail and restarts; rotations that overlap or fail; commands.
SomeBudgets == {
    [deploys |-> 3, changes |-> 1, faults |-> 2, rotations |-> 0, requests |-> 0, jobs |-> 0],
    [deploys |-> 1, changes |-> 0, faults |-> 2, rotations |-> 2, requests |-> 0, jobs |-> 0],
    [deploys |-> 2, changes |-> 0, faults |-> 0, rotations |-> 1, requests |-> 1, jobs |-> 1],
    [deploys |-> 2, changes |-> 0, faults |-> 1, rotations |-> 0, requests |-> 1, jobs |-> 2] }
=============================================================================
