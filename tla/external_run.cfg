\* Two generators and a judge behind tunnels whose servers go, come back and
\* change, any number of commands.
CONSTANTS
  g1 = g1
  g2 = g2
  judge = judge
  other = other
  Generators <- MCGenerators
  Judge = judge
  Others = {other}
  UrlOf <- MCUrlOf
  Serves <- MCServes
  PortModel <- MCPortModel
  MaxPolls = 1
  Down = Down
  Unknown = Unknown
SPECIFICATION FairSpec
INVARIANTS
  IInv
  RowOrigin
PROPERTIES
  SuccessIsComplete
  OriginKept
  ImplementsStages
  EventuallySettled
