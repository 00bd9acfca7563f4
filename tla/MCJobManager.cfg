\* A job buffer of one and a metric buffer of one, so that both fill up.
CONSTANTS
  w1 = w1
  w2 = w2
  twoMetrics = twoMetrics
  oneMetric = oneMetric
  elsewhere = elsewhere
  home = home
  away = away
  None = None
  Workers <- MCWorkers
  Jobs <- MCJobs
  Regions <- MCRegions
  Configured <- MCConfigured
  RegionOf <- MCRegionOf
  MetricsOf <- MCMetricsOf
  JobBuffer = 1
  MetricBuffer = 1
SPECIFICATION JLiveSpec
INVARIANTS
  JTypeOK
  ExecutedOnce
  WaitMeansDispatched
  SentOnceInOrder
  AtMostOneLate
PROPERTIES
  WaitReturns
  AddJobReturns
CHECK_DEADLOCK FALSE
