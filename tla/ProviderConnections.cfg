CONSTANTS
    p1 = p1  p2 = p2  discord = discord  twitch = twitch
    Process = {p1, p2}
    Connection = {discord, twitch}
    Discord = {discord}
    Configured = {discord}
    MaxSockets = 2
    NoProcess = NoProcess
    NoConnection = NoConnection
SPECIFICATION MCSpec
INVARIANTS
    TypeOK
    IdleRowsUnleased
    RegisteredIsOpen
PROPERTIES
    ReauthorizationPauses
    SupersededIsGivenUp
    GrantBoundsRegistered
    DesiredIsRetried
