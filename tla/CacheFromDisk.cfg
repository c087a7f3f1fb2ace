CONSTANTS
  a1 = a1 a2 = a2 m0 = m0 p0 = p0 p1 = p1 s0 = s0 s1 = s1 t0 = t0 k1 = k1
  iframe = iframe log = log
  Agents = {a1, a2}
  Actions = {"create_module", "update_module_data", "update_module_config",
    "update_module_meta", "update_module_capability", "delete_module",
    "create_page", "fire_action_button"}
  MTypes = {iframe, log}
  LogStream = log
  Iframe = iframe
  Modules = {m0, 1, 2}
  Pages = {p0, 1, 2}
  Targets = {}
  Slugs = {s0}
  Keys = {k1}
  Wild = Wild
  Null = Null
  Proposals <- ContentProposals
  Patches <- TargetForms
  Seeded = 1
  Drafts <- ContentDrafts
  InitRules <- SeedRules
  InitMods <- SeedMods
  InitPages <- SeedPages
  InitTgts <- SeedTgts
  MaxRequests = 2
  MaxRules = 2
  BulkSize = 2
  MaxJobs = 1
SPECIFICATION Spec
PROPERTY CacheIsFromDisk
CHECK_DEADLOCK FALSE
