\* Three generators in two waves, two processes at a time, any number of runs.
CONSTANTS
  g1 = g1
  g2 = g2
  g3 = g3
  judge = judge
  Models = {g1, g2, g3, judge}
  PortOf <- MCPortOf
  Pids = {p1, p2}
  NoModel = NoModel
  NoPid = NoPid
  Generators <- MCGenerators
  PerWave = 2
  Judge = judge
  Registry <- MCRegistry
SPECIFICATION FairSpec
INVARIANTS
  NoStrayServer
  ReportAccounts
  ShutdownBarrier
  IInv
PROPERTIES
  GeneratorNeverLeft
  ImplementsStages
  RunEnds
