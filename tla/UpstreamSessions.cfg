CONSTANTS
  session = session
  l1 = l1
  l2 = l2
  bot = bot
  identity = identity
  validator = validator
  searcher = searcher
  NoClient = NoClient
  Session = session
  Loops = {l1, l2}
  Peers = {bot}
  Clients = {session, l1, l2, bot}
  Keys = {identity}
  KeyOf <- MCKeyOf
  Allowed = {identity}
  Signers = {session, l1, l2, bot}
  Roles = {validator, searcher}
  RoleOf <- MCRoleOf
  Validator = validator
  ChallengeTtl = 1
  AccessTtl = 4
  RefreshTtl = 5
  Leeway = 0
  Margin = 3
  Initial = 1
  Max = 2
  MaxFaults = 1
SPECIFICATION FairSpec
INVARIANTS TokensEarned SingleUse LoneHandshakeSucceeds TokenFresh
PROPERTIES StaysConnected TokensRecover
