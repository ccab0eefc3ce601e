------------------------ MODULE MCSystemController -------------------------
EXTENDS SystemController, TLC

\* Thread objects are interchangeable, and so are cameras as long as each of
\* them may be edited.
SafetySymmetry == Permutations(Handles) \cup Permutations(Cameras)
=============================================================================
