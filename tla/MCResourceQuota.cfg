\* Buffers of one job and one metric.  The region whose batcher is compared
\* with BatchStream is the one with the metric that cannot be mapped.
CONSTANTS
  w1 = w1
  w2 = w2
  eni = eni
  eks = eks
  oidc = oidc
  west = west
  north = north
  useast = useast
  None = None
  Workers <- MCWorkers
  Jobs <- MCJobs
  Regions <- MCRegions
  Configured <- MCConfigured
  RegionOf <- MCRegionOf
  MetricsOf <- MCMetricsOf
  Unmappable <- MCUnmappable
  Region = west
  JobBuffer = 1
  MetricBuffer = 1
SPECIFICATION LiveSpec
INVARIANTS
  QuotaTypeOK
  NoSendOnClosed
  ReturnMeansReported
  StuckOnlyInAddJob
PROPERTIES
  BatcherSpec
  HandlerReturns
CHECK_DEADLOCK FALSE
