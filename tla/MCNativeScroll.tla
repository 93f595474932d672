--------------------------- MODULE MCNativeScroll ---------------------------
EXTENDS NativeScroll

Limits(seq, ticket, pol, ep, mut, pub, can, lay, fail) ==
    [sequence |-> seq, ticket |-> ticket, policy |-> pol, epoch |-> ep, mutation |-> mut,
     publication |-> pub, canonical |-> can, layouts |-> lay, failures |-> fail]

\* A listener or a layout change while wheels are accepted and fall back.
WheelLoad  == Limits(2, 1, 1, 1, 1, 2, 0, 1, 0)
\* A script's scrolls, plain and animated, after an accepted wheel.
ScriptLoad == Limits(2, 1, 4, 1, 2, 2, 0, 0, 0)
\* Canonical inputs between native ones, and a fallback that fails.
MixedLoad  == Limits(2, 1, 1, 1, 1, 2, 1, 0, 1)

\* A fallback that fails, and another one after it.
FailingLoad == Limits(1, 2, 1, 1, 1, 1, 0, 0, 1)

AllLoads == {WheelLoad, ScriptLoad, MixedLoad}
Failing == {FailingLoad}
=============================================================================
