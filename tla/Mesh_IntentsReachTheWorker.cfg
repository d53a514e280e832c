SPECIFICATION Spec
CONSTANTS
    Intent = {"ls"}
    Value <- Body
    Decodable <- Body
    Decoded <- BodyAsDecoded
CHECK_DEADLOCK FALSE
INVARIANT IntentsReachTheWorker
