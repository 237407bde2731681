SPECIFICATION Spec
CONSTANT None = None
INVARIANTS TypeOK VINIsWhole CompleteIsShown FiveFramesAreEnough SteadyVINIsWhole
