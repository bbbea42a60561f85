SPECIFICATION FramePaintingSpec
CONSTANTS
    o1 = o1
    o2 = o2
    Outputs = {o1, o2}
    Scale <- MCScale
    TitlebarModes = {"theme", "blend", "gradient"}
    Kinds = {"bar", "outline", "none"}
    Looks = {"on"}
    Texts = {"a"}
    Lengths = {1, 2}
INVARIANT PaintedRight
