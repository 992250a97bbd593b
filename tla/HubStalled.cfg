SPECIFICATION HubFairSpec
CONSTANTS
  Conns = {"c1"}
  TenantOf <- MCOneTenant
  Casters = {b1}
  CastTenants = {"a"}
  ChanCap = 1
  MaxCasts = 1
CHECK_DEADLOCK FALSE
PROPERTY BroadcastReturns
