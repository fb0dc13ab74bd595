--------------------------- MODULE MCAskAdmission ---------------------------
(* Small instances of AskAdmission.                                        *)
EXTENDS AskAdmission, TLC

V2Shape(stream, kind, bound) ==
  [api |-> "v2", stream |-> stream, kind |-> kind, bound |-> bound]

V1Shape(stream) ==
  [api |-> "v1", stream |-> stream, kind |-> "personal", bound |-> FALSE]

\* one shape per path: both endpoints, each capability, bound and not
PathShapes ==
  {V1Shape(FALSE), V2Shape(FALSE, "personal", TRUE), V2Shape(TRUE, "web", TRUE),
   V2Shape(TRUE, "agent", FALSE)}

\* a handler that blocks the event loop against a stream
LivenessShapes == {V2Shape(FALSE, "personal", TRUE), V2Shape(TRUE, "agent", FALSE)}

\* the production sizes scaled down: one slot less than there are requests
SmallCapacity ==
  [g \in Guards |-> IF g = "generation" THEN 2 ELSE 1]

Symmetric == Permutations(Requests)
=============================================================================
