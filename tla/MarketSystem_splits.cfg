CONSTANTS
  a = a
  b = b
  Benchmark = SPY
  Stocks = {a, b}
  StockOrder <- MCStockOrder
  FirstSession <- MCFirstSession
  Investable <- MCInvestable
  daily = daily
  manual = manual
  Jobs = {daily, manual}
  LoadDays <- MCLoadDays
  MinHistory = 1
  MaxSession = 2
  MaxLoads = 2
  MaxSplits <- MCMaxSplits
SPECIFICATION Spec
INVARIANT OneAdjustmentBasis
