CONSTANTS
    OpenDebounce = 1
    CloseGrace = 2
    RetryBase = 1
    RetryMax = 1
    MaxShift = 0
SPECIFICATION FairSpec
INVARIANTS
    TypeOK
    WorkersAccounted
    SingleProducer
    StateCoherent
    WirePlumberAccounted
PROPERTIES
    OpensOnlyForSteadyConsumer
    HeldCameraNotStolen
    HealthyCaptureKept
    ConsumerServed
    CameraReleased
    EndpointsFed
