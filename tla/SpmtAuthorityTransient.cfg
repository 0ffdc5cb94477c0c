CONSTANTS
    w1 = w1  w2 = w2  u1 = u1  u2 = u2  k1 = k1  r1 = r1  r2 = r2
    e1 = e1  e2 = e2  h1 = h1  h2 = h2  ka = ka  ca = ca  cb = cb  pa = pa  pb = pb
    Refresher = {w1, w2}
    Call <- MCCall
    MaxInFlight = 2
    MaxLinks = 2
    MaxRotation = 2
    NoRefresher = NoRefresher
    Gone = Gone
    XpUser = {u1, u2}
    BaseKey = {k1, r1, r2}
    RawKey <- MCRawKey
    Award <- MCAward
    Wager = {0, 20}
    Payout = {0, 50}
    NoXpUser = NoXpUser
    RewardRequest = {r1, r2}
    Reward <- MCReward
    Quote = {20, 25}
    Opening = 3
    RewardCall = {c1, c2}
    NoReward = NoReward
    NoRewardRequest = NoRewardRequest
    EventKey = {e1, e2}
    Webhook = {h1, h2}
    Pass = {p1, p2}
    BatchSize = 2
    MaxFailures = 2
    MaxClaims = 3
    NoEvent = NoEvent
    MaxRefreshTokens = 3
    RotationKey = {ka, kb}
    Credential = {ca, cb}
    Policy = {pa, pb}
    MaxVersion = 3
    DeviceApp = {a1}
    DeviceAction = {scene, play}
    LocalAction = {scene}
    MaxCommands = 2
    MaxTries = 2
    MaxGrants = 2
    MaxCodes = 1
SPECIFICATION Spec
INVARIANT CarriedOutIsNotFailed
CHECK_DEADLOCK FALSE
