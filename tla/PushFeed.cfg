SPECIFICATION FairSpec
CONSTANTS
    FirstDelay = 1
    MaxDelay = 5
    Stable = 2
    AllowPlaintext = FALSE
    Decrypts = TRUE
    Details <- SomeDetails
    Messages <- SomeMessages
    MaxCauses = 4
    MaxInbox = 2
    MaxFails = 4
INVARIANTS TypeOK AtMostOneAfterStop BackoffFits
PROPERTIES FeedKept Ends
