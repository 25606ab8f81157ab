\* the window is closed while the guest writes a PIC register
CONSTANT Backends = {"aarch64"}
SPECIFICATION FairSpec
PROPERTY StopTaken
