\* Two generators on one GPU.
CONSTANTS
  g1 = g1
  g2 = g2
  g3 = g3
  judge = judge
  Models = {g1, g2, g3, judge}
  PortOf <- MCPortOf
  Pids = {p1, p2}
  NoModel = NoModel
  NoPid = NoPid
  Generators <- MCGenerators
  PerWave = 2
  Judge = judge
  Registry <- MCRegistry
SPECIFICATION Spec
SYMMETRY PidSymmetry
INVARIANTS
  AsksTheModelServed
