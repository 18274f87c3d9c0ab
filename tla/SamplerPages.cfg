SPECIFICATION LifeSpec
CONSTANTS
  Samplers = {s1, s2}
  Tracers = {t1}
  TheCounter = TheCounter
  Exps = {1}
  TooBig = {}
PROPERTY NewSamplerNewPages
CHECK_DEADLOCK FALSE
