\* Three candidates, each in every state at every moment, every parameter.
SPECIFICATION Spec
CONSTANT Cameras = 3
INVARIANTS
    NothingOccupied
    RightCamera
