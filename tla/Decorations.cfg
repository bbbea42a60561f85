SPECIFICATION DecorationsSpec
CONSTANT Framed = {w1, w2}
INVARIANT UnnegotiatedUnframed
