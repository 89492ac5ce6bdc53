CONSTANT MaxElements = 5
SPECIFICATION ClientSpec
INVARIANTS ClientTypeOK PoolIntact NothingLeaks
