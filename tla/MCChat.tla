-------------------------------- MODULE MCChat -------------------------------
(* Model checking of Chat: ids are interchangeable. *)
EXTENDS Chat, TLC

Symmetry ==
    Permutations(Worker) \cup Permutations(Conversation)
    \cup Permutations(Collaborator) \cup Permutations(Agent)

\* What is promised after an overlap is promised of groups: look no further at others.
GroupsAfterOverlap == overlapped => OfType("GROUP") = Live
=============================================================================
