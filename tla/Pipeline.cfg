SPECIFICATION Spec
CONSTANTS
    decimation_factor = 2
    comb_orders <- OneOfEach
    compensation_filter <- Asymmetric
    Width = 9
    Values <- SomeValues
    filter_decimation = 2
    output_sample_count = 2
    SampleCountIn = 5
    MaxFrames = 6
    MaxNulls = 2
INVARIANTS
    CountersMatchSamples
    RowsAreFiltered
    DecimatedGapsAreMarked
    ClientStreamIsSeamless
CHECK_DEADLOCK FALSE
