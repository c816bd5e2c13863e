\* Frames, cameras and sound over a lossy network; decoders whose set-up fails.
SPECIFICATION PipelineSpec
CONSTANTS
    Sizes = {1, 2}
    IdrFec = 100
    PFec = 34
    MaxFecShards = 2
    MaxShards = 3
    MaxUnits = 3
    MaxFaults = 1
    MaxAudio = 3
    MaxCam = 3
    Probes <- MCProbes
    ZeroCopy = {"vaapi", "videotoolbox", "d3d11va"}
    FrameSizes = {1, 2}
    Codecs = {1, 2}
    MaxDecFaults = 1
INVARIANTS PipelineTypeOK FramesInOrder WholeAndPrompt BrokenIsNoticed OnlySetUpIsLost ScalesOwnFrame
PROPERTIES FrameIsShown
CHECK_DEADLOCK FALSE
