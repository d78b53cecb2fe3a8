SPECIFICATION WebSpec
CONSTANT SbBoards = {"b1", "b2"}
CONSTANT SbCats = {"def", "cat"}
CONSTANT Default = "def"
CONSTANT MaxSbOps = 2
CONSTANT MaxSbFailures = 1
CONSTANT MuCards = {c1, c2}
CONSTANT MuMaxOps = 2
CONSTANT MuMaxOthers = 1
CONSTANT NaBoards <- MCNaBoards
CONSTANT NaViews <- MCNaViews
CONSTANT NaMaxClicks = 2
CONSTANT NaMaxFaults = 1
CONSTANT BvValues <- MCBvValues
CONSTANT BvKeys <- MCBvKeys
CONSTANT BvCards <- MCBvCards
CONSTANT BvMaxOps = 2
CONSTANT BvMaxCards = 4
CONSTANT BvMaxAsked = 2
CONSTANT CfTypes <- MCCfTypes
CONSTANT CfIds <- MCCfIds
CONSTANT CfTexts <- MCCfTexts
CONSTANT CfDates <- MCCfDates
CONSTANT CfCards <- MCCfCards
CONSTANT CfNow = 7
CONSTANT CfMaxOps = 5
CONSTANT CdUsers = {"west", "east"}
CONSTANT CdZone <- MCCdZone
CONSTANT CdDays = {30, 31, 32}
CONSTANT CdHours = {1, 23}
CONSTANT CdMaxOps = 6
CONSTANT CcFirst <- MCCcFirst
CONSTANT CcFresh <- MCCcFresh
CONSTANT CcMaxOps = 2
CONSTANT ShUsers = {"me", "ann", "bob"}
CONSTANT ShMe = "me"
CONSTANT ShAnn = "ann"
CONSTANT ShChannels <- MCShChannels
CONSTANT ShLinked = "c1"
CONSTANT ShMaxOps = 3
CONSTANT ShMaxFaults = 1
CONSTANT ClProps = {1, 2}
CONSTANT ClValues <- MCClValues
CONSTANT ClMaxCards = 4
CONSTANT ClMaxOps = 2
CONSTANT ClFirst <- MCClFirst
CONSTANT TrMaxRaces = 1
CONSTANT CbBoards = {ba, bb}
CONSTANT CbChannels = {"c1", "c2"}
CONSTANT CbMatches <- MCCbMatches
CONSTANT CbMaxClicks = 3
CONSTANT CbMaxOthers = 1
CONSTANT CbMaxRaces = 1
CONSTANT BtGlobal <- MCBtGlobal
CONSTANT BtTeam <- MCBtTeam
CONSTANT BtChannels = {"c1"}
CONSTANT BtNew <- MCBtNew
CONSTANT BtMaxBoards = 2
CONSTANT BtMaxClicks = 4
CONSTANT BtMaxFaults = 1
CONSTANT LdTeams <- MCLdTeams
CONSTANT LdMine = {"t1", "t2"}
CONSTANT LdMaxClicks = 2
CONSTANT LdMaxFaults = 1
CONSTANT LdMaxLoads = 2
CONSTANT DgCards = {"k1", "k2"}
CONSTANT DgTemplate = "t"
CONSTANT DgTitles = {"s", "a"}
CONSTANT DgFirstTitle = "s"
CONSTANT DgMaxSteps = 3
CONSTANT DgMaxOthers = 1
CONSTANT DgMaxFiles = 2
CHECK_DEADLOCK FALSE
INVARIANT SidebarAgrees
INVARIANT BoardStaysWhole
INVARIANT PageAgrees
INVARIANT CardsInPlace
INVARIANT FiltersAgree
INVARIANT DatesAgree
INVARIANT ContentsKept
INVARIANT SharingAgrees
INVARIANT CalculationsAgree
INVARIANT TourGoesOn
INVARIANT PanelAgrees
INVARIANT TemplatesAgree
INVARIANT TeamAgrees
INVARIANT TitlesKept
INVARIANT FilesOfCard
INVARIANT DialogAgrees
