SPECIFICATION SceneSpec
CONSTANTS
  Items = {i1, s1}
  Services = {s1}
  Orders = {o1, o2}
  Quotes = {q1}
  Holds = {h1, h2}
  MaxQty = 2
  MaxLines = 2
  MaxStock = 2
  CreditLimit = 4
  Sessions = {s1, s2}
  Sales = {x1, x2}
  Articles = {i1}
  Goods = {i1}
  Unit = 4
  TillQty = 3
  TillLines = 1
  Prices = {1, 3}
  Taxes = {2}
  Floats = {1}
  TillStock = 2
  Invoices = {i1}
  Qtys = {1000, 1500}
  UnitPrices = {3, 4}
  TaxRates = {0, 2500, 10000}
  RateNums = {1, 6}
  RateDen = 4
  Cash = {1, 2, 3, 5}
  MaxPayments = 3
  MaxCredits = 2
  None = None o2 = o2 h2 = h2 NoItem = NoItem s2 = s2 x2 = x2 Base = Base
  Foreign = Foreign conv1 = conv1 wx = wx wy = wy conv2 = conv2
PROPERTIES
  DeliveriesKeepPromises
SYMMETRY Servers
CHECK_DEADLOCK FALSE
