CONSTANTS
    VNum = 7
    VertexBegin = 4
    VertexEnd = 7
    Layouts <- MCLayouts
    MinLength = 2
    MaxHintNum = 2
SPECIFICATION SamplersSpec
INVARIANTS
    SamplersTypeOK
    SampledOwnEdge
    EveryDrawFresh
    BuffersApart
